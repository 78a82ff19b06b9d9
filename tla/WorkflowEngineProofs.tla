----------------------- MODULE WorkflowEngineProofs -----------------------
(***************************************************************************)
(* Proofs about WorkflowEngine, for every set of workflows.                *)
(***************************************************************************)
EXTENDS WorkflowEngine, TLAPS

\* The workflow is one of Plans; it does not change.
Planned == \E p \in Plans : deps = p.deps /\ layers = p.layers

\* What the layers are to the steps.
LEMMA Layering ==
  ASSUME Planned
  PROVE  /\ deps \in [Steps -> SUBSET Steps] /\ layers \in Seq(SUBSET Steps)
         /\ layers # << >>
         /\ \A s \in Steps : \E k \in DOMAIN layers :
              /\ s \in layers[k]
              /\ \A j \in DOMAIN layers \ {k} : s \notin layers[j]
              /\ deps[s] \subseteq Before(layers, k)
BY ConstantsAssumption DEF PlansAssumption, Planned

\* What is behind a layer, and what is in it.
LEMMA Frontier ==
  ASSUME Planned, NEW k \in DOMAIN layers
  PROVE  /\ Before(layers, 1) = {}
         /\ Before(layers, k + 1) = Before(layers, k) \cup layers[k]
         /\ \A s \in layers[k] : s \in Steps /\ s \notin Before(layers, k)
         /\ \A s \in layers[k], j \in DOMAIN layers : s \in layers[j] => j = k
         /\ \A s \in layers[k] : deps[s] \subseteq Before(layers, k)
         /\ k = Len(layers) => Before(layers, k + 1) = Steps
<1>l. /\ deps \in [Steps -> SUBSET Steps] /\ layers \in Seq(SUBSET Steps)
      /\ \A s \in Steps : \E m \in DOMAIN layers :
           /\ s \in layers[m]
           /\ \A j \in DOMAIN layers \ {m} : s \notin layers[j]
           /\ deps[s] \subseteq Before(layers, m)
  BY Layering
<1>d. /\ DOMAIN layers = 1 .. Len(layers) /\ Len(layers) \in Nat
      /\ \A j \in DOMAIN layers : layers[j] \subseteq Steps
  BY <1>l
<1>1. Before(layers, 1) = {}
  BY DEF Before
<1>2. Before(layers, k + 1) = Before(layers, k) \cup layers[k]
  <2>1. 1 .. (k + 1) - 1 = (1 .. k - 1) \cup {k}
    BY <1>d
  <2> QED
    BY <2>1 DEF Before
<1>3. \A s \in layers[k], j \in DOMAIN layers : s \in layers[j] => j = k
  BY <1>l, <1>d
<1>4. \A s \in layers[k] : s \notin Before(layers, k)
  <2> SUFFICES ASSUME NEW s \in layers[k], NEW j \in 1 .. k - 1, s \in layers[j]
               PROVE  FALSE
    BY DEF Before
  <2>1. j \in DOMAIN layers /\ j # k
    BY <1>d
  <2> QED
    BY <1>3, <2>1
<1>5. \A s \in layers[k] : deps[s] \subseteq Before(layers, k)
  BY <1>l, <1>d, <1>3
<1>6. k = Len(layers) => Before(layers, k + 1) = Steps
  <2> SUFFICES ASSUME k = Len(layers) PROVE Before(layers, k + 1) = Steps
    OBVIOUS
  <2>1. 1 .. (k + 1) - 1 = DOMAIN layers
    BY <1>d
  <2>2. UNION {layers[j] : j \in DOMAIN layers} = Steps
    BY <1>l, <1>d
  <2> QED
    BY <2>1, <2>2 DEF Before
<1> QED
  BY <1>d, <1>1, <1>2, <1>3, <1>4, <1>5, <1>6

LEMMA Subsets == TypeOK => \A k \in Nat : k <= at => Before(layers, k) \subseteq Steps
BY DEF TypeOK, Before

-----------------------------------------------------------------------------
(* Types.                                                                  *)

LEMMA PlannedStep == Planned /\ [Next]_vars => Planned'
BY DEF Planned, Next, Engine, vars, plan, TakeSnapshot, CreateTask, RefuseTask, StartTask,
       EndTask, RecordStep, EndLayer, Cancel

LEMMA TypeInit == Init => TypeOK /\ Planned
<1> SUFFICES ASSUME Init PROVE TypeOK /\ Planned
  OBVIOUS
<1>1. Planned
  BY DEF Init, Planned
<1>2. /\ deps \in [Steps -> SUBSET Steps] /\ layers \in Seq(SUBSET Steps)
      /\ layers # << >>
  BY <1>1, Layering
<1>3. 1 \in DOMAIN layers
  BY <1>2
<1> QED
  BY <1>1, <1>2, <1>3 DEF Init, TypeOK

\* Every write to a row leaves the table and the count of failures well typed.
LEMMA WritesTyped ==
  ASSUME TypeOK, NEW s \in Steps,
         NEW t \in {"Pending", "Running", "Completed", "Failed"}, UpdateTask(s, t)
  PROVE  /\ row' \in [Steps -> {"none", "Pending", "Running", "Completed", "Failed"}]
         /\ faults' \in Nat
BY DEF TypeOK, UpdateTask, Written, NotWritten

\* A write concerns one row.
LEMMA WriteElsewhere ==
  ASSUME TypeOK, NEW s \in Steps, NEW t, UpdateTask(s, t)
  PROVE  \A x \in Steps \ {s} : row'[x] = row[x]
BY DEF TypeOK, UpdateTask, Written, NotWritten

LEMMA TypeStep == TypeOK /\ [Next]_vars => TypeOK'
<1> SUFFICES ASSUME TypeOK, [Next]_vars PROVE TypeOK'
  OBVIOUS
<1> USE DEF TypeOK, plan, run, Goto
<1>1. ASSUME NEW s \in Steps, TakeSnapshot(s) PROVE TypeOK'
  BY <1>1 DEF TakeSnapshot
<1>2. ASSUME NEW s \in Steps, CreateTask(s) PROVE TypeOK'
  <2>1. UpdateTask(s, "Pending")
    BY <1>2 DEF CreateTask, UpdateTask
  <2> QED
    BY <1>2, <2>1, WritesTyped DEF CreateTask
<1>3. ASSUME NEW s \in Steps, RefuseTask(s) PROVE TypeOK'
  BY <1>3, WritesTyped DEF RefuseTask
<1>4. ASSUME NEW s \in Steps, StartTask(s) PROVE TypeOK'
  BY <1>4, WritesTyped DEF StartTask
<1>5. ASSUME NEW s \in Steps, EndTask(s) PROVE TypeOK'
  BY <1>5, WritesTyped DEF EndTask
<1>6. ASSUME NEW s \in Steps, RecordStep(s) PROVE TypeOK'
  <2>1. steps' \in [Steps -> {"Pending", "Completed", "Failed", "Skipped"}]
    BY <1>6 DEF RecordStep
  <2>2. /\ outputs' \subseteq Steps /\ firstErr' \in BOOLEAN
        /\ pc' = [pc EXCEPT ![s] = "recorded"]
        /\ UNCHANGED <<deps, layers, at, runStatus, seen, row, ctxDone, faults>>
    BY <1>6 DEF RecordStep
  <2> QED
    BY <2>1, <2>2
<1>7. CASE EndLayer
  BY <1>7 DEF EndLayer, Proceed, GiveUp
<1>8. CASE Cancel
  BY <1>8 DEF Cancel
<1>9. CASE UNCHANGED vars
  BY <1>9 DEF vars
<1> QED
  BY <1>1, <1>2, <1>3, <1>4, <1>5, <1>6, <1>7, <1>8, <1>9 DEF Next, Engine

\* The type invariant, and that the workflow stays one of Plans.
THEOREM TypeCorrect == Spec => []TypeOK
BY TypeInit, TypeStep, PTL DEF Spec

-----------------------------------------------------------------------------
(* Layers and report.                                                      *)

\* A step between snapshot and result.
Busy == {"create", "task", "adapter", "ok", "failed"}

\* The layers behind are complete.
Behind == \A s \in Before(layers, at) : pc[s] = "recorded" /\ steps[s] = "Completed"

\* The current one is under way; firstErr speaks of it.
Current ==
  /\ \A s \in layers[at] :
       /\ pc[s] = "recorded" => steps[s] \in {"Completed", "Failed"}
       /\ pc[s] # "recorded" => steps[s] = "Pending"
  /\ firstErr <=> \E s \in layers[at] : steps[s] = "Failed"

\* Those ahead have not begun.
Ahead ==
  \A s \in Steps \ Before(layers, at + 1) :
    /\ pc[s] = "idle" /\ row[s] = "none"
    /\ steps[s] = IF runStatus = "Failed" THEN "Skipped" ELSE "Pending"

\* The run ends with its layer.
Verdict ==
  /\ runStatus # "Running" => \A s \in layers[at] : pc[s] = "recorded"
  /\ runStatus = "Completed" => at = Len(layers) /\ ~firstErr
  /\ runStatus = "Failed" => firstErr

Waves ==
  /\ outputs = {s \in Steps : steps[s] = "Completed"}
  /\ Behind /\ Current /\ Ahead /\ Verdict

LEMMA WavesInit == Init => Waves
<1> SUFFICES ASSUME Init PROVE Waves
  OBVIOUS
<1>1. TypeOK /\ Planned
  BY TypeInit
<1>2. /\ Before(layers, at) = {}
      /\ \A s \in layers[at] : s \in Steps
  BY <1>1, Frontier DEF TypeOK, Init
<1> QED
  BY <1>2 DEF Init, Waves, Behind, Current, Ahead, Verdict

\* A goroutine belongs to the current layer, and the run goes on.
LEMMA BusyStep ==
  ASSUME TypeOK, Planned, Waves, NEW s \in Steps, pc[s] \in Busy
  PROVE  s \in layers[at] /\ runStatus = "Running"
<1>1. Before(layers, at + 1) = Before(layers, at) \cup layers[at]
  BY Frontier DEF TypeOK
<1>2. s \in layers[at]
  BY <1>1 DEF Waves, Behind, Ahead, Busy
<1> QED
  BY <1>2 DEF Waves, Verdict, Busy, TypeOK

\* The steps of a goroutine before its last one.
LEMMA BusyStaysBusy ==
  ASSUME TypeOK, Planned, Waves, NEW s \in Steps, pc[s] \in Busy,
         NEW l \in Busy, pc' = [pc EXCEPT ![s] = l],
         \A x \in Steps \ {s} : row'[x] = row[x],
         UNCHANGED <<deps, layers, at, runStatus, steps, outputs, firstErr>>
  PROVE  Waves'
<1>1. /\ Before(layers, at + 1) = Before(layers, at) \cup layers[at]
      /\ \A x \in layers[at] : x \in Steps /\ x \notin Before(layers, at)
      /\ Before(layers, at) \subseteq Steps
  BY Frontier, Subsets DEF TypeOK
<1>2. s \in layers[at] /\ runStatus = "Running"
  BY BusyStep
<1>3. UNCHANGED <<Before(layers, at), Before(layers, at + 1)>>
  BY DEF Before
<1>4. \A x \in Steps \ {s} : pc'[x] = pc[x]
  BY DEF TypeOK
<1>5. pc'[s] # "recorded" /\ pc[s] # "recorded"
  BY DEF TypeOK, Busy
<1>6. Behind'
  BY <1>1, <1>2, <1>3, <1>4 DEF Waves, Behind
<1>7. Current'
  BY <1>1, <1>2, <1>4, <1>5 DEF Waves, Current
<1>8. Ahead'
  BY <1>1, <1>2, <1>3, <1>4 DEF Waves, Ahead
<1>9. Verdict'
  BY <1>2 DEF Waves, Verdict
<1> QED
  BY <1>6, <1>7, <1>8, <1>9 DEF Waves

LEMMA WavesStep == TypeOK /\ Planned /\ Waves /\ [Next]_vars => Waves'
<1> SUFFICES ASSUME TypeOK, Planned, Waves, [Next]_vars PROVE Waves'
  OBVIOUS
<1> USE DEF plan, run, Goto
<1>f. /\ Before(layers, at + 1) = Before(layers, at) \cup layers[at]
      /\ \A x \in layers[at] : x \in Steps /\ x \notin Before(layers, at)
      /\ at = Len(layers) => Before(layers, at + 1) = Steps
      /\ Before(layers, at) \subseteq Steps
  BY Frontier, Subsets DEF TypeOK
<1>t. TypeOK' /\ Planned'
  BY TypeStep, PlannedStep
<1>1. ASSUME NEW s \in Steps, TakeSnapshot(s) PROVE Waves'
  <2>1. /\ UNCHANGED <<layers, at, runStatus, steps, outputs, firstErr, row>>
        /\ s \in layers[at] /\ pc[s] = "idle" /\ runStatus = "Running"
        /\ pc'[s] = "create" /\ \A x \in Steps \ {s} : pc'[x] = pc[x]
    BY <1>1 DEF TakeSnapshot, TypeOK
  <2>2. UNCHANGED <<Before(layers, at), Before(layers, at + 1)>>
    BY <2>1 DEF Before
  <2>3. Behind'
    BY <1>f, <2>1, <2>2 DEF Waves, Behind
  <2>4. Current'
    BY <1>f, <2>1 DEF Waves, Current
  <2>5. Ahead'
    BY <1>f, <2>1, <2>2 DEF Waves, Ahead
  <2> QED
    BY <2>1, <2>3, <2>4, <2>5 DEF Waves, Verdict
<1>2. ASSUME NEW s \in Steps, CreateTask(s) PROVE Waves'
  <2>1. UpdateTask(s, "Pending")
    BY <1>2 DEF CreateTask, UpdateTask
  <2> QED
    BY <1>2, <2>1, WriteElsewhere, BusyStaysBusy DEF CreateTask, Busy
<1>3. ASSUME NEW s \in Steps, RefuseTask(s) PROVE Waves'
  <2>1. \A x \in Steps \ {s} : row'[x] = row[x]
    BY <1>3, WriteElsewhere DEF RefuseTask
  <2>2. /\ pc[s] \in Busy /\ "failed" \in Busy /\ pc' = [pc EXCEPT ![s] = "failed"]
        /\ UNCHANGED <<deps, layers, at, runStatus, steps, outputs, firstErr>>
    BY <1>3 DEF RefuseTask, Busy
  <2> QED
    BY <2>1, <2>2, BusyStaysBusy
<1>4. ASSUME NEW s \in Steps, StartTask(s) PROVE Waves'
  <2>1. \A x \in Steps \ {s} : row'[x] = row[x]
    BY <1>4, WriteElsewhere DEF StartTask
  <2>2. /\ pc[s] \in Busy /\ "adapter" \in Busy /\ pc' = [pc EXCEPT ![s] = "adapter"]
        /\ UNCHANGED <<deps, layers, at, runStatus, steps, outputs, firstErr>>
    BY <1>4 DEF StartTask, Busy
  <2> QED
    BY <2>1, <2>2, BusyStaysBusy
<1>5. ASSUME NEW s \in Steps, EndTask(s) PROVE Waves'
  BY <1>5, WriteElsewhere, BusyStaysBusy DEF EndTask, Busy
<1>6. ASSUME NEW s \in Steps, RecordStep(s) PROVE Waves'
  <2>1. /\ UNCHANGED <<deps, layers, at, runStatus, row>> /\ pc[s] \in {"ok", "failed"}
        /\ pc' = [pc EXCEPT ![s] = "recorded"]
    BY <1>6 DEF RecordStep
  <2>2. s \in layers[at] /\ runStatus = "Running"
    BY <2>1, BusyStep DEF Busy
  <2>3. UNCHANGED <<Before(layers, at), Before(layers, at + 1)>>
    BY <2>1 DEF Before
  <2>4. pc'[s] = "recorded" /\ \A x \in Steps \ {s} : pc'[x] = pc[x]
    BY <2>1 DEF TypeOK
  <2>5. \A x \in Steps \ {s} : steps'[x] = steps[x]
    BY <1>6 DEF RecordStep, TypeOK
  <2>6. \/ /\ steps'[s] = "Completed" /\ outputs' = outputs \cup {s}
           /\ UNCHANGED firstErr
        \/ /\ steps'[s] = "Failed" /\ firstErr' = TRUE
           /\ UNCHANGED outputs
    BY <1>6 DEF RecordStep, TypeOK
  <2>7. steps[s] = "Pending"
    BY <2>1, <2>2 DEF Waves, Current
  <2>8. outputs' = {x \in Steps : steps'[x] = "Completed"}
    BY <2>5, <2>6, <2>7 DEF Waves
  <2>9. firstErr' <=> \E x \in layers[at] : steps'[x] = "Failed"
    BY <1>f, <2>2, <2>5, <2>6, <2>7 DEF Waves, Current
  <2>10. Behind'
    BY <1>f, <2>1, <2>2, <2>3, <2>4, <2>5 DEF Waves, Behind
  <2>11. Current'
    BY <1>f, <2>1, <2>4, <2>5, <2>6, <2>9 DEF Waves, Current
  <2>12. Ahead'
    BY <1>f, <2>1, <2>2, <2>3, <2>4, <2>5 DEF Waves, Ahead
  <2> QED
    BY <2>1, <2>2, <2>8, <2>10, <2>11, <2>12 DEF Waves, Verdict
<1>7. CASE EndLayer
  <2>1. /\ runStatus = "Running" /\ \A s \in layers[at] : pc[s] = "recorded"
        /\ UNCHANGED <<deps, layers, outputs, firstErr, pc, row>>
    BY <1>7 DEF EndLayer
  <2>2. CASE Proceed /\ at < Len(layers)
    <3>1. at' = at + 1 /\ UNCHANGED <<steps, runStatus, layers>> /\ ~firstErr
      BY <2>1, <2>2 DEF Proceed
    <3>2. at' \in Nat /\ at' \in DOMAIN layers'
      BY <1>t DEF TypeOK
    <3>3. /\ Before(layers, at)' = Before(layers, at + 1)
          /\ Before(layers, at + 1)' = Before(layers, at)' \cup layers'[at']
          /\ \A x \in layers'[at'] : x \in Steps /\ x \notin Before(layers, at)'
      <4>1. /\ Before(layers, at' + 1) = Before(layers, at') \cup layers[at']
            /\ \A x \in layers[at'] : x \in Steps /\ x \notin Before(layers, at')
        BY <2>1, <3>2, Frontier
      <4> QED
        BY <2>1, <3>1, <4>1 DEF Before
    <3>4. \A s \in layers[at] : steps[s] = "Completed"
      BY <2>1, <3>1 DEF Waves, Behind, Current, Ahead, Verdict
    <3>5. \A s \in Before(layers, at)' : pc[s] = "recorded" /\ steps[s] = "Completed"
      BY <1>f, <2>1, <3>3, <3>4 DEF Waves, Behind, Current, Ahead, Verdict
    <3>6. \A s \in Steps \ Before(layers, at)' :
            pc[s] = "idle" /\ row[s] = "none" /\ steps[s] = "Pending"
      BY <2>1, <3>3 DEF Waves, Behind, Current, Ahead, Verdict
    <3> QED
      BY <2>1, <3>1, <3>3, <3>5, <3>6 DEF Waves, Behind, Current, Ahead, Verdict
  <2>3. CASE Proceed /\ ~(at < Len(layers))
    <3>1. UNCHANGED <<at, steps>> /\ runStatus' = "Completed" /\ ~firstErr
      BY <2>3 DEF Proceed
    <3>2. at = Len(layers)
      BY <2>3 DEF TypeOK
    <3>3. UNCHANGED <<Before(layers, at), Before(layers, at + 1)>>
      BY <2>1, <3>1 DEF Before
    <3> QED
      BY <1>f, <2>1, <3>1, <3>2, <3>3 DEF Waves, Behind, Current, Ahead, Verdict
  <2>4. CASE GiveUp
    <3>1. UNCHANGED at /\ runStatus' = "Failed" /\ firstErr
      BY <2>4 DEF GiveUp
    <3>2. \A s \in Steps : steps'[s] = IF steps[s] = "Pending" THEN "Skipped" ELSE steps[s]
      BY <2>4 DEF GiveUp
    <3>3. UNCHANGED <<Before(layers, at), Before(layers, at + 1)>>
      BY <2>1, <3>1 DEF Before
    <3>4. \A s \in layers[at] : steps[s] \in {"Completed", "Failed"} /\ steps'[s] = steps[s]
      BY <1>f, <2>1, <3>2 DEF Waves, Behind, Current, Ahead, Verdict
    <3>5. \A s \in Before(layers, at) : s \in Steps => steps'[s] = "Completed"
      BY <3>2 DEF Waves, Behind, Current, Ahead, Verdict
    <3>6. outputs' = {x \in Steps : steps'[x] = "Completed"}
      BY <2>1, <3>2 DEF Waves, Behind, Current, Ahead, Verdict
    <3> QED
      BY <1>f, <2>1, <3>1, <3>2, <3>3, <3>4, <3>5, <3>6 DEF Waves, Behind, Current, Ahead, Verdict
  <2> QED
    BY <1>7, <2>2, <2>3, <2>4 DEF EndLayer
<1>8. CASE Cancel
  BY <1>8 DEF Cancel, Waves, Behind, Current, Ahead, Verdict, Before
<1>9. CASE UNCHANGED vars
  BY <1>9 DEF vars, Waves, Behind, Current, Ahead, Verdict, Before
<1> QED
  BY <1>1, <1>2, <1>3, <1>4, <1>5, <1>6, <1>7, <1>8, <1>9 DEF Next, Engine

\* The report of a finished run, for any workflow and any number of failed writes.
THEOREM ReportCorrect == Spec => []ReportIsTrue
<1>1. TypeOK /\ Planned /\ Waves => ReportIsTrue
  <2> SUFFICES ASSUME TypeOK, Planned, Waves, runStatus # "Running" PROVE ReportIsTrue
    BY DEF ReportIsTrue
  <2>1. /\ Before(layers, at + 1) = Before(layers, at) \cup layers[at]
        /\ \A s \in layers[at] : s \in Steps
        /\ at = Len(layers) => Before(layers, at + 1) = Steps
    BY Frontier DEF TypeOK
  <2>2. CASE runStatus = "Completed"
    BY <2>1, <2>2 DEF Waves, Behind, Current, Ahead, Verdict, ReportIsTrue
  <2>3. CASE runStatus = "Failed"
    BY <2>1, <2>3 DEF Waves, Behind, Current, Ahead, Verdict, ReportIsTrue
  <2> QED
    BY <2>2, <2>3 DEF TypeOK
<1> QED
  BY <1>1, TypeInit, WavesInit, TypeStep, PlannedStep, WavesStep, PTL DEF Spec

-----------------------------------------------------------------------------
(* Messages.                                                               *)

LEMMA InputsStep ==
  TypeOK /\ Planned /\ Waves /\ InputsComplete /\ [Next]_vars => InputsComplete'
<1> SUFFICES ASSUME TypeOK, Planned, Waves, InputsComplete, [Next]_vars
             PROVE  InputsComplete'
  OBVIOUS
<1> USE DEF plan, run, Goto
<1>1. UNCHANGED <<deps, layers>>
  BY DEF Next, Engine, vars, TakeSnapshot, CreateTask, RefuseTask, StartTask, EndTask,
         RecordStep, EndLayer, Cancel
<1>2. ASSUME NEW s \in Steps, TakeSnapshot(s) PROVE InputsComplete'
  <2>1. s \in layers[at] /\ at \in DOMAIN layers
    BY <1>2 DEF TakeSnapshot, TypeOK
  <2>2. /\ seen'[s] = outputs
        /\ \A x \in Steps \ {s} : seen'[x] = seen[x] /\ pc'[x] = pc[x]
    BY <1>2 DEF TakeSnapshot, TypeOK
  <2>3. Before(layers, at) \subseteq outputs
    BY Subsets DEF Waves, Behind, TypeOK
  <2>4. /\ deps[s] \subseteq Before(layers, at)
        /\ \A k \in DOMAIN layers : s \in layers[k] => k = at
    BY <2>1, Frontier
  <2> QED
    BY <1>1, <2>2, <2>3, <2>4 DEF InputsComplete, Before
<1>3. ASSUME UNCHANGED seen, \A s \in Steps : pc[s] = "idle" => pc'[s] = "idle"
      PROVE  InputsComplete'
  BY <1>1, <1>3 DEF InputsComplete, Before
<1>4. \/ \E s \in Steps : TakeSnapshot(s)
      \/ UNCHANGED seen /\ \A s \in Steps : pc[s] = "idle" => pc'[s] = "idle"
  <2>1. ASSUME NEW s \in Steps, CreateTask(s) PROVE <1>4!2
    BY <2>1 DEF CreateTask, TypeOK
  <2>2. ASSUME NEW s \in Steps, RefuseTask(s) \/ StartTask(s) PROVE <1>4!2
    BY <2>2 DEF RefuseTask, StartTask, TypeOK
  <2>3. ASSUME NEW s \in Steps, EndTask(s) PROVE <1>4!2
    BY <2>3 DEF EndTask, TypeOK
  <2>4. ASSUME NEW s \in Steps, RecordStep(s) PROVE <1>4!2
    BY <2>4 DEF RecordStep, TypeOK
  <2>5. CASE EndLayer \/ Cancel \/ UNCHANGED vars
    BY <2>5 DEF EndLayer, Cancel, vars
  <2> QED
    BY <2>1, <2>2, <2>3, <2>4, <2>5 DEF Next, Engine
<1> QED
  BY <1>2, <1>3, <1>4

\* No step gets its message before the outputs of all earlier layers are there.
THEOREM InputsCorrect == Spec => []InputsComplete
<1>1. Init => InputsComplete
  BY DEF Init, InputsComplete
<1> QED
  BY <1>1, TypeInit, WavesInit, TypeStep, PlannedStep, WavesStep, InputsStep, PTL DEF Spec

-----------------------------------------------------------------------------
(* Task records.                                                           *)

\* How far the record of a step has got, by the position of its goroutine.
Records ==
  \A s \in Steps :
    /\ pc[s] \in {"idle", "create"} => row[s] = "none"
    /\ pc[s] \in {"task", "adapter"} => row[s] \in {"Pending", "Running"}
    /\ pc[s] = "ok" => row[s] \in {"Pending", "Running", "Completed"}
    /\ pc[s] = "failed" => row[s] # "Completed"
    /\ ~ctxDone /\ faults = 0 =>
         /\ pc[s] = "ok" => row[s] = "Completed"
         /\ pc[s] = "failed" => row[s] = "Failed"
    /\ pc[s] = "recorded" =>
         /\ steps[s] \in {"Completed", "Failed"}
         /\ row[s] \in {"Completed", "Failed"} => row[s] = steps[s]
         /\ row[s] = "none" => steps[s] = "Failed"
         /\ ~ctxDone /\ faults = 0 => row[s] = steps[s]

LEMMA RecordsStep == TypeOK /\ Records /\ [Next]_vars => Records'
<1> SUFFICES ASSUME TypeOK, Records, [Next]_vars PROVE Records'
  OBVIOUS
<1> USE DEF plan, run, Goto
<1>1. ASSUME NEW s \in Steps, TakeSnapshot(s) PROVE Records'
  BY <1>1 DEF TakeSnapshot, Records, TypeOK
<1>2. ASSUME NEW s \in Steps, CreateTask(s) PROVE Records'
  <2>1. CASE Written(s, "Pending") /\ Goto(s, "task")
    BY <1>2, <2>1 DEF CreateTask, Written, Records, TypeOK
  <2>2. CASE NotWritten /\ Goto(s, "failed")
    BY <1>2, <2>2 DEF CreateTask, NotWritten, Records, TypeOK
  <2> QED
    BY <1>2, <2>1, <2>2 DEF CreateTask
<1>3. ASSUME NEW s \in Steps, RefuseTask(s) PROVE Records'
  <2>1. CASE Written(s, "Failed")
    BY <1>3, <2>1 DEF RefuseTask, Written, Records, TypeOK
  <2>2. CASE NotWritten
    BY <1>3, <2>2 DEF RefuseTask, NotWritten, Records, TypeOK
  <2> QED
    BY <1>3, <2>1, <2>2 DEF RefuseTask, UpdateTask
<1>4. ASSUME NEW s \in Steps, StartTask(s) PROVE Records'
  <2>1. CASE Written(s, "Running")
    BY <1>4, <2>1 DEF StartTask, Written, Records, TypeOK
  <2>2. CASE NotWritten
    BY <1>4, <2>2 DEF StartTask, NotWritten, Records, TypeOK
  <2> QED
    BY <1>4, <2>1, <2>2 DEF StartTask, UpdateTask
<1>5. ASSUME NEW s \in Steps, EndTask(s) PROVE Records'
  <2>1. CASE Written(s, "Completed") /\ Goto(s, "ok")
    BY <1>5, <2>1 DEF EndTask, Written, Records, TypeOK
  <2>2. CASE Written(s, "Failed") /\ Goto(s, "failed")
    BY <1>5, <2>2 DEF EndTask, Written, Records, TypeOK
  <2>3. CASE NotWritten /\ (Goto(s, "ok") \/ Goto(s, "failed"))
    BY <1>5, <2>3 DEF EndTask, NotWritten, Records, TypeOK
  <2> QED
    BY <1>5, <2>1, <2>2, <2>3 DEF EndTask, UpdateTask
<1>6. ASSUME NEW s \in Steps, RecordStep(s) PROVE Records'
  <2>1. /\ UNCHANGED <<row, ctxDone, faults>> /\ pc'[s] = "recorded"
        /\ \/ pc[s] = "ok" /\ steps'[s] = "Completed"
           \/ pc[s] = "failed" /\ steps'[s] = "Failed"
        /\ \A x \in Steps \ {s} : pc'[x] = pc[x] /\ steps'[x] = steps[x]
    BY <1>6 DEF RecordStep, TypeOK
  <2> QED
    BY <2>1 DEF Records
<1>7. CASE EndLayer
  <2>1. /\ UNCHANGED <<pc, row, ctxDone, faults>>
        /\ \A s \in Steps : steps[s] \in {"Completed", "Failed"} => steps'[s] = steps[s]
    BY <1>7 DEF EndLayer, Proceed, GiveUp
  <2> QED
    BY <2>1 DEF Records
<1>8. CASE Cancel
  BY <1>8 DEF Cancel, Records
<1>9. CASE UNCHANGED vars
  BY <1>9 DEF vars, Records
<1> QED
  BY <1>1, <1>2, <1>3, <1>4, <1>5, <1>6, <1>7, <1>8, <1>9 DEF Next, Engine

\* The task records do not contradict the report.
THEOREM RowsCorrect == Spec => []RowsAgree
<1>1. Init => Records
  BY DEF Init, Records
<1>2. Records => RowsAgree
  BY DEF Records, RowsAgree
<1> QED
  BY <1>1, <1>2, TypeInit, TypeStep, RecordsStep, PTL DEF Spec

-----------------------------------------------------------------------------
(* The contract.                                                           *)

LEMMA ContractStep ==
  TypeOK /\ Planned /\ Waves /\ Records /\ [Next]_vars
    => [DAG!Next]_(DAG!contract)
<1> SUFFICES ASSUME TypeOK, Planned, Waves, Records, [Next]_vars
             PROVE  DAG!Next \/ UNCHANGED DAG!contract
  OBVIOUS
<1> USE DEF plan, run, Goto
<1> DEFINE made == {s \in Steps : row[s] # "none"}
<1>1. ASSUME NEW s \in Steps, CreateTask(s), Written(s, "Pending") PROVE DAG!Next
  <2>1. s \in layers[at]
    BY <1>1, BusyStep DEF CreateTask, Busy
  <2>2. deps[s] \subseteq Before(layers, at)
    BY <2>1, Frontier DEF TypeOK
  <2>3. Before(layers, at) \subseteq outputs
    BY Subsets DEF Waves, Behind, TypeOK
  <2>4. made' = made \cup {s}
    BY <1>1 DEF Written, TypeOK
  <2>5. DAG!Start(s)
    BY <1>1, <2>2, <2>3, <2>4 DEF CreateTask, DAG!Start
  <2> QED
    BY <2>5 DEF DAG!Next
<1>2. ASSUME NEW s \in Steps, RecordStep(s), pc[s] = "ok" PROVE DAG!Next
  <2>1. row[s] # "none" /\ UNCHANGED <<deps, row>> /\ outputs' = outputs \cup {s}
    BY <1>2 DEF RecordStep, Records
  <2>2. DAG!Finish(s)
    BY <2>1 DEF DAG!Finish
  <2> QED
    BY <2>2 DEF DAG!Next
<1>3. ASSUME NEW s \in Steps, pc[s] \in {"task", "adapter"},
             UNCHANGED <<deps, outputs>>,
             NEW t \in {"Running", "Completed", "Failed"}, UpdateTask(s, t)
      PROVE  UNCHANGED DAG!contract
  <2>1. made' = made
    BY <1>3 DEF UpdateTask, Written, NotWritten, Records, TypeOK
  <2> QED
    BY <1>3, <2>1 DEF DAG!contract
<1>4. ASSUME UNCHANGED <<deps, row, outputs>> PROVE UNCHANGED DAG!contract
  BY <1>4 DEF DAG!contract
<1>5. ASSUME NEW s \in Steps, CreateTask(s) PROVE DAG!Next \/ UNCHANGED DAG!contract
  BY <1>1, <1>4, <1>5 DEF CreateTask, NotWritten
<1>6. ASSUME NEW s \in Steps, RefuseTask(s) PROVE UNCHANGED DAG!contract
  BY <1>3, <1>6 DEF RefuseTask
<1>7. ASSUME NEW s \in Steps, StartTask(s) PROVE UNCHANGED DAG!contract
  BY <1>3, <1>7 DEF StartTask
<1>8. ASSUME NEW s \in Steps, EndTask(s) PROVE UNCHANGED DAG!contract
  BY <1>3, <1>8 DEF EndTask
<1>9. ASSUME NEW s \in Steps, RecordStep(s) PROVE DAG!Next \/ UNCHANGED DAG!contract
  BY <1>2, <1>4, <1>9 DEF RecordStep
<1>10. CASE EndLayer \/ Cancel \/ UNCHANGED vars \/ \E s \in Steps : TakeSnapshot(s)
  BY <1>4, <1>10 DEF EndLayer, Cancel, vars, TakeSnapshot
<1> QED
  BY <1>5, <1>6, <1>7, <1>8, <1>9, <1>10 DEF Next, Engine

\* A run of a workflow implements DagRun.
THEOREM Refinement == Spec => Contract
<1>1. Init => Records /\ DAG!Init
  <2> SUFFICES ASSUME Init PROVE Records /\ DAG!Init
    OBVIOUS
  <2>1. deps \in [Steps -> SUBSET Steps]
    BY TypeInit DEF TypeOK
  <2> QED
    BY <2>1 DEF Init, Records, DAG!Init
<1> QED
  BY <1>1, TypeInit, WavesInit, TypeStep, PlannedStep, WavesStep, RecordsStep,
     ContractStep, PTL DEF Spec, Contract, DAG!Spec
=============================================================================
