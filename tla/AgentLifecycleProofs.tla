------------------------ MODULE AgentLifecycleProofs ------------------------
(***************************************************************************)
(* Of AgentLifecycle, for any number of handlers, goroutines and           *)
(* instances: automatic restarts keep to their limit (TypeCorrect), every  *)
(* instance has one owner (OwnerCorrect), and between operations that do   *)
(* not overlap the row is true (RowCorrect).                               *)
(***************************************************************************)
EXTENDS AgentLifecycle, TLAPS

USE DEF store, procs, health, limits, world, Procs

\* Zero is in the range of each counter.
LEMMA Zeros == /\ 0 \in 0 .. FailureCap /\ 0 \in 0 .. MaxRestarts
               /\ 0 \in 0 .. MaxFaults /\ 0 \in 0 .. MaxCrashes
  BY ConstantsAssumption

\* The state in which a daemon comes up.
LEMMA Fresh ==
  /\ [i \in Instances |-> "none"] \in [Instances -> {"up", "sick", "stopped", "none"}]
  /\ [p \in Procs |-> "idle"] \in [Procs -> Labels]
  /\ [p \in Procs |-> "none"] \in [Procs -> Operations \cup {"none"}]
  /\ [p \in Procs |-> NoInstance] \in [Procs -> Instances \cup {NoInstance}]
  /\ [p \in Procs |-> "absent"] \in [Procs -> Rows]
  BY DEF Labels, Rows

\* The type invariant holds at first, and each step keeps it.
LEMMA TypeInit == Init => TypeOK
  <1> SUFFICES ASSUME Init PROVE TypeOK  OBVIOUS
  <1>1. failures \in 0 .. FailureCap /\ restartCount \in 0 .. MaxRestarts
        /\ faults \in 0 .. MaxFaults /\ crashes \in 0 .. MaxCrashes
    BY Zeros DEF Init
  <1>2. inst \in [Instances -> {"up", "sick", "stopped", "none"}] /\ pc \in [Procs -> Labels]
        /\ op \in [Procs -> Operations \cup {"none"}] /\ rec \in [Procs -> Rows]
        /\ held \in [Procs -> Instances \cup {NoInstance}]
    BY Fresh DEF Init
  <1>3. QED  BY <1>1, <1>2 DEF Init, TypeOK, Rows

\* A handler that calls the controller keeps the types.
LEMMA TypeCall == ASSUME TypeOK, NEW p \in Procs, Call(p) PROVE TypeOK'
  <1> USE DEF TypeOK, Called, Enters, Become, Labels, Operations
  <1>1. CASE Apply(p)  BY <1>1 DEF Apply
  <1>2. CASE Start(p)  BY <1>2 DEF Start
  <1>3. CASE Stop(p)  BY <1>3 DEF Stop
  <1>4. CASE Delete(p)  BY <1>4 DEF Delete
  <1>5. CASE Restart(p)  BY <1>5 DEF Restart
  <1>6. CASE ExecuteTask(p)  BY <1>6 DEF ExecuteTask
  <1>7. QED  BY <1>1, <1>2, <1>3, <1>4, <1>5, <1>6 DEF Call

\* Where an operation goes on is a label of it.
LEMMA Returns ==
  ASSUME TypeOK, NEW p \in Procs,
         \/ Finish(p) \/ StartFails(p) \/ StartSucceeds(p)
         \/ StopReturns(p, TRUE) \/ StopReturns(p, FALSE)
         \/ \E l \in Labels : Continue(p, l)
  PROVE  /\ pc' \in [Procs -> Labels] /\ op' \in [Procs -> Operations \cup {"none"}]
         /\ daemon' \in {"serving", "recovering"}
  BY DEF TypeOK, Finish, StartFails, StartSucceeds, StopReturns, Continue, Goto, Labels,
         Operations

\* A write leaves a phase in the row, or none.
LEMMA Writes ==
  ASSUME TypeOK, \/ \E r \in Rows : Write(r) \/ Update(r)
                 \/ Fault \/ UNCHANGED store
  PROVE  row' \in Rows /\ faults' \in 0 .. MaxFaults
  BY ConstantsAssumption DEF TypeOK, Update, Write, Fault, Rows

LEMMA TypeProcess == ASSUME TypeOK, NEW p \in Procs, ProcessStep(p) PROVE TypeOK'
  <1> USE DEF Rows, Phases
  <1>1. CASE ApplyWrite(p)
    <2>1. Update(rec[p]) /\ rec[p] \in Rows  BY <1>1 DEF ApplyWrite, TypeOK
    <2>2. QED  BY <1>1, <2>1, Returns, Writes DEF ApplyWrite, TypeOK
  <1>2. CASE ApplyCreate(p)  BY <1>2, Returns, Writes DEF ApplyCreate, TypeOK
  <1>3. CASE StartRead(p)  BY <1>3, Returns, Writes DEF StartRead, TypeOK, Labels
  <1>4. CASE AdapterFails(p)  BY <1>4, Returns, Writes DEF AdapterFails, TypeOK
  <1>5. CASE Register(p)
    <2>1. agent' \in Instances  BY <1>5 DEF Register
    <2>2. inst' \in [Instances -> {"up", "sick", "stopped", "none"}]
      BY <1>5, <2>1 DEF Register, Kept, TypeOK
    <2>3. pc' \in [Procs -> Labels]  BY <1>5 DEF Register, Goto, Labels, TypeOK
    <2>4. QED  BY <1>5, <2>1, <2>2, <2>3 DEF Register, TypeOK
  <1>6. CASE WriteRunning(p)  BY <1>6, Returns, Writes DEF WriteRunning, TypeOK
  <1>7. CASE Take(p)
    <2>1. agent' \in Instances \cup {NoInstance}
          /\ held' \in [Procs -> Instances \cup {NoInstance}]
      BY <1>7 DEF Take, Hold, TypeOK
    <2>2. /\ pc' \in [Procs -> Labels] /\ op' \in [Procs -> Operations \cup {"none"}]
          /\ daemon' \in {"serving", "recovering"}
      BY <1>7, Returns DEF Take, Labels
    <2>3. QED  BY <1>7, <2>1, <2>2 DEF Take, TypeOK
  <1>8. CASE AdapterStop(p)
    <2>1. held' \in [Procs -> Instances \cup {NoInstance}] /\ pc' \in [Procs -> Labels]
      BY <1>8 DEF AdapterStop, Hold, Goto, Labels, TypeOK
    <2>2. inst' \in [Instances -> {"up", "sick", "stopped", "none"}]
      BY <1>8 DEF AdapterStop, Kept, TypeOK
    <2>3. QED  BY <1>8, <2>1, <2>2 DEF AdapterStop, TypeOK
  <1>9. CASE WriteStopped(p)  BY <1>9, Returns, Writes DEF WriteStopped, TypeOK
  <1>10. CASE DeleteRow(p)  BY <1>10, Returns, Writes DEF DeleteRow, TypeOK
  <1>11. CASE ResetCount(p)
    BY <1>11, Returns, Zeros DEF ResetCount, TypeOK
  <1>12. CASE AutoFailed(p)  BY <1>12, Returns, Writes DEF AutoFailed, TypeOK
  <1>13. CASE Execute(p)
    <2>1. CASE Finish(p)  BY <1>13, <2>1, Returns DEF Execute, TypeOK
    <2>2. CASE Become(p, "breaker", "take") /\ UNCHANGED daemon
      BY <1>13, <2>2 DEF Execute, Become, Labels, Operations, TypeOK
    <2>3. QED  BY <1>13, <2>1, <2>2 DEF Execute
  <1>14. CASE WritePaused(p)
    BY <1>14, Returns, Writes DEF WritePaused, MarkPhase, TypeOK
  <1>15. CASE WriteTripped(p)
    BY <1>15, Returns, Writes DEF WriteTripped, MarkPhase, TypeOK
  <1>16. QED
    BY <1>1, <1>2, <1>3, <1>4, <1>5, <1>6, <1>7, <1>8, <1>9, <1>10, <1>11, <1>12, <1>13,
       <1>14, <1>15 DEF ProcessStep

LEMMA TypeHealth == ASSUME TypeOK, HealthStep PROVE TypeOK'
  <1> USE ConstantsAssumption DEF Rows, Phases
  <1>1. CASE Snapshot  BY <1>1 DEF Snapshot, TypeOK
  <1>2. CASE AskHealth
    <2>1. inst' \in [Instances -> {"up", "sick", "stopped", "none"}]
      BY <1>2 DEF AskHealth, Kept, TypeOK
    <2>2. failures' \in 0 .. FailureCap /\ check' \in {"idle", "due"}
      BY <1>2, Zeros DEF AskHealth, TypeOK
    <2>3. QED  BY <1>2, <2>1, <2>2 DEF AskHealth, TypeOK
  <1>3. CASE Wait  BY <1>3 DEF Wait, TypeOK
  <1>4. CASE GiveUp  BY <1>4, Writes DEF GiveUp, TypeOK
  <1>5. CASE AutoRestart
    <2>1. PICK p \in Autos : /\ Become(p, "auto", "take") /\ Update("Retrying")
                             /\ restartCount < MaxRestarts
                             /\ restartCount' = restartCount + 1
      BY <1>5 DEF AutoRestart
    <2>2. pc' \in [Procs -> Labels] /\ op' \in [Procs -> Operations \cup {"none"}]
      BY <2>1 DEF Become, Labels, Operations, TypeOK
    <2>3. restartCount' \in 0 .. MaxRestarts  BY <2>1 DEF TypeOK
    <2>4. row' \in Rows /\ faults' \in 0 .. MaxFaults  BY <2>1, Writes
    <2>5. failures' \in 0 .. FailureCap  BY <1>5, Zeros DEF AutoRestart
    <2>6. /\ UNCHANGED <<agent, inst, held, rec, seen, daemon, crashes>>
          /\ check' = "idle" /\ backoffOver' = FALSE /\ overlap' \in BOOLEAN
      BY <1>5 DEF AutoRestart, TypeOK
    <2>7. QED  BY <2>2, <2>3, <2>4, <2>5, <2>6 DEF TypeOK
  <1>6. QED  BY <1>1, <1>2, <1>3, <1>4, <1>5 DEF HealthStep

LEMMA TypeStep == TypeOK /\ [Next]_vars => TypeOK'
  <1> SUFFICES ASSUME TypeOK, [Next]_vars PROVE TypeOK'  OBVIOUS
  <1> USE ConstantsAssumption
  <1>1. CASE \E p \in Procs : ProcessStep(p)  BY <1>1, TypeProcess
  <1>2. CASE \E p \in Callers : RecoverAgents(p)
    BY <1>2 DEF RecoverAgents, Become, Labels, Operations, TypeOK
  <1>3. CASE \E p \in Callers : Call(p)  BY <1>3, TypeCall
  <1>4. CASE HealthStep  BY <1>4, TypeHealth
  <1>5. CASE BackoffEnds  BY <1>5 DEF BackoffEnds, TypeOK
  <1>6. CASE FallSick  BY <1>6 DEF FallSick, TypeOK
  <1>7. CASE Crash
    <2>1. crashes' \in 0 .. MaxCrashes  BY <1>7 DEF Crash, TypeOK
    <2>2. QED  BY <1>7, <2>1, Zeros, Fresh DEF Crash, TypeOK
  <1>8. CASE UNCHANGED vars  BY <1>8 DEF vars, TypeOK
  <1>9. QED  BY <1>1, <1>2, <1>3, <1>4, <1>5, <1>6, <1>7, <1>8 DEF Next

\* Whatever handlers, goroutines and the health loop do at once, lifecycleState counts
\* no more automatic restarts than the spec allows, and every variable has its type.
THEOREM TypeCorrect == Spec => []TypeOK
  BY TypeInit, TypeStep, PTL DEF Spec
-----------------------------------------------------------------------------
\* An instance that something refers to is known, and a process holds one just while it
\* stops it.
References ==
  /\ \A i \in Instances : (i \in {agent, seen} \/ \E p \in Procs : held[p] = i)
                            => inst[i] # "none"
  /\ \A p \in Procs : held[p] \in Instances <=> pc[p] = "adapterStop"

Owners == References /\ SingleOwner

\* A step of p that neither begins nor ends a stop leaves every owner what it has.
LEMMA OwnersKept ==
  ASSUME TypeOK, Owners, NEW p \in Procs, UNCHANGED <<agent, inst, held, seen>>,
         pc[p] # "adapterStop", NEW l, l # "adapterStop", pc' = [pc EXCEPT ![p] = l]
  PROVE  Owners'
  <1>1. \A q \in Procs : pc'[q] = "adapterStop" <=> pc[q] = "adapterStop"
    BY DEF TypeOK
  <1>2. Stopping' = Stopping  BY <1>1 DEF Stopping
  <1>3. References'  BY <1>1 DEF Owners, References
  <1>4. SingleOwner'  BY <1>2 DEF Owners, SingleOwner
  <1>5. QED  BY <1>3, <1>4 DEF Owners

\* Every operation goes on in turn with a step that is no stop, or is at its end.
LEMMA Leads ==
  ASSUME NEW p \in Procs,
         \/ Finish(p) \/ StartFails(p) \/ StartSucceeds(p)
         \/ StopReturns(p, TRUE) \/ StopReturns(p, FALSE)
         \/ \E k \in Labels \ {"adapterStop"} : Continue(p, k)
  PROVE  \E k \in Labels \ {"adapterStop"} : pc' = [pc EXCEPT ![p] = k]
  BY DEF Finish, StartFails, StartSucceeds, StopReturns, Continue, Goto, Labels

LEMMA OwnersCall == ASSUME TypeOK, Owners, NEW p \in Procs, Call(p) PROVE Owners'
  <1>1. /\ UNCHANGED <<agent, inst, held, seen>> /\ pc[p] = "idle"
        /\ \E l \in Labels \ {"adapterStop"} : pc' = [pc EXCEPT ![p] = l]
    BY DEF Call, Apply, Start, Stop, Delete, Restart, ExecuteTask, Called, Enters, Become, Labels
  <1>2. QED  BY <1>1, OwnersKept

\* The instance that starts is one that nothing refers to.
LEMMA OwnersRegister == ASSUME TypeOK, Owners, NEW p \in Procs, Register(p) PROVE Owners'
  <1>1. agent' \in Instances /\ inst[agent'] = "none"  BY DEF Register
  <1>2. /\ pc[p] = "adapterStart" /\ pc' = [pc EXCEPT ![p] = "writeRunning"]
        /\ UNCHANGED <<held, seen>>
    BY DEF Register, Goto
  <1>3. \A q \in Procs : pc'[q] = "adapterStop" <=> pc[q] = "adapterStop"
    BY <1>2 DEF TypeOK
  <1>4. agent' # seen /\ \A q \in Procs : held[q] # agent'
    BY <1>1 DEF Owners, References
  <1>5. \A i \in Instances :
           inst'[i] = IF i \in {agent', seen} \/ \E q \in Procs : held[q] = i
                        THEN [inst EXCEPT ![agent'] = "up"][i] ELSE "none"
    BY DEF Register, Kept
  <1>6. inst'[agent'] = "up"  BY <1>1, <1>5 DEF TypeOK
  <1>7. seen \in Instances => inst'[seen] = inst[seen]  BY <1>1, <1>4, <1>5 DEF TypeOK
  <1>8. ASSUME NEW q \in Procs, held[q] \in Instances PROVE inst'[held[q]] = inst[held[q]]
    BY <1>1, <1>4, <1>5, <1>8 DEF TypeOK
  <1>9. References'  BY <1>1, <1>2, <1>3, <1>6, <1>7, <1>8 DEF Owners, References
  <1>10. Stopping' = Stopping  BY <1>3 DEF Stopping
  <1>11. \A q \in Stopping : held[q] \in Instances  BY DEF Stopping, Owners, References
  <1>12. SingleOwner'
    <2>1. \A q \in Stopping : inst'[held[q]] = inst[held[q]] /\ held[q] # agent'
      BY <1>4, <1>6, <1>7, <1>8, <1>11 DEF Stopping
    <2>2. QED  BY <1>2, <1>6, <1>7, <1>8, <1>10, <2>1 DEF Owners, SingleOwner
  <1>13. QED  BY <1>9, <1>12 DEF Owners

\* What the map held is now held by the one who took it.
LEMMA OwnersTake == ASSUME TypeOK, Owners, NEW p \in Procs, Take(p) PROVE Owners'
  <1>1. CASE agent = NoInstance
    BY <1>1, Leads, OwnersKept DEF Take
  <1>2. CASE agent # NoInstance
    <2>1. /\ pc[p] = "take" /\ pc' = [pc EXCEPT ![p] = "adapterStop"]
          /\ held' = [held EXCEPT ![p] = agent] /\ agent' = NoInstance
          /\ UNCHANGED <<inst, seen>>
      BY <1>2 DEF Take, Continue, Goto, Hold
    <2>2. pc'[p] = "adapterStop" /\ held'[p] = agent /\ agent \in Instances
      BY <1>2, <2>1 DEF TypeOK
    <2>3. \A q \in Procs \ {p} : pc'[q] = pc[q] /\ held'[q] = held[q]
      BY <2>1 DEF TypeOK
    <2>4. References'
      BY <2>1, <2>2, <2>3, ConstantsAssumption DEF Owners, References
    <2>5. Stopping' = Stopping \cup {p}  BY <2>2, <2>3 DEF Stopping
    <2>6. p \notin Stopping  BY <2>1 DEF Stopping
    <2>7. \A q \in Stopping : held[q] \in Instances  BY DEF Stopping, Owners, References
    <2>8. \A q \in Stopping : held'[q] = held[q]  BY <2>3, <2>6 DEF Stopping
    <2>9. SingleOwner'
      BY <1>2, <2>1, <2>2, <2>5, <2>6, <2>7, <2>8, ConstantsAssumption
         DEF Owners, SingleOwner
    <2>10. QED  BY <2>4, <2>9 DEF Owners
  <1>3. QED  BY <1>1, <1>2

\* The instance that stops is nobody else's.
LEMMA OwnersStop == ASSUME TypeOK, Owners, NEW p \in Procs, AdapterStop(p) PROVE Owners'
  <1>1. /\ pc[p] = "adapterStop" /\ pc' = [pc EXCEPT ![p] = "writeStopped"]
        /\ held' = [held EXCEPT ![p] = NoInstance] /\ UNCHANGED <<agent, seen>>
    BY DEF AdapterStop, Goto, Hold
  <1>2. pc'[p] = "writeStopped" /\ held'[p] = NoInstance  BY <1>1 DEF TypeOK
  <1>3. \A q \in Procs \ {p} : pc'[q] = pc[q] /\ held'[q] = held[q]  BY <1>1 DEF TypeOK
  <1>4. held[p] \in Instances /\ held[p] # agent /\ p \in Stopping
    BY <1>1 DEF Owners, References, SingleOwner, Stopping
  <1>5. Stopping' = Stopping \ {p}  BY <1>2, <1>3 DEF Stopping
  <1>6. \A q \in Stopping' : held'[q] \in Instances /\ held'[q] # held[p]
                              /\ held'[q] = held[q]
    BY <1>3, <1>4, <1>5 DEF Owners, References, SingleOwner, Stopping
  <1>7. \A i \in Instances :
           inst'[i] = IF i \in {agent, seen} \/ \E q \in Procs : held'[q] = i
                        THEN IF i = held[p] THEN "stopped" ELSE inst[i]
                        ELSE "none"
    BY DEF AdapterStop, Kept, TypeOK
  <1>8. \A q \in Procs \ {p} : held'[q] = held[q]  BY <1>3
  <1>9. References'
    <2>1. \A q \in Procs : held'[q] \in Instances <=> pc'[q] = "adapterStop"
      BY <1>2, <1>3, ConstantsAssumption DEF Owners, References
    <2>2. ASSUME NEW i \in Instances,
                 i \in {agent, seen} \/ \E q \in Procs : held'[q] = i
          PROVE  inst'[i] # "none"
      <3>1. CASE i = held[p]  BY <3>1, <2>2, <1>7
      <3>2. CASE i # held[p]
        <4>1. i \in {agent, seen} \/ \E q \in Procs : held[q] = i
          BY <2>2, <1>2, <1>3, ConstantsAssumption
        <4>2. inst[i] # "none"  BY <4>1 DEF Owners, References
        <4>3. QED  BY <4>2, <3>2, <2>2, <1>7
      <3>3. QED  BY <3>1, <3>2
    <2>3. QED  BY <1>1, <2>1, <2>2 DEF References
  <1>10. SingleOwner'
    <2>1. agent \in Instances => inst'[agent] = inst[agent]  BY <1>4, <1>7
    <2>2. \A q \in Stopping' : inst'[held'[q]] = inst[held[q]]
      BY <1>6, <1>7 DEF Stopping
    <2>3. QED
      BY <1>1, <1>5, <1>6, <2>1, <2>2 DEF TypeOK, Owners, SingleOwner
  <1>11. QED  BY <1>9, <1>10 DEF Owners

LEMMA OwnersProcess == ASSUME TypeOK, Owners, NEW p \in Procs, ProcessStep(p) PROVE Owners'
  <1>1. CASE Register(p)  BY <1>1, OwnersRegister
  <1>2. CASE Take(p)  BY <1>2, OwnersTake
  <1>3. CASE AdapterStop(p)  BY <1>3, OwnersStop
  <1>4. CASE ApplyWrite(p) \/ ApplyCreate(p) \/ DeleteRow(p) \/ ResetCount(p) \/ AutoFailed(p)
    BY <1>4, Leads, OwnersKept DEF ApplyWrite, ApplyCreate, DeleteRow, ResetCount, AutoFailed
  <1>5. CASE StartRead(p)
    <2>1. UNCHANGED <<agent, inst, held, seen>> /\ pc[p] = "startRead"
      BY <1>5 DEF StartRead
    <2>2. StartFails(p) \/ \E k \in Labels \ {"adapterStop"} : Continue(p, k)
      BY <1>5 DEF StartRead, Labels
    <2>3. QED  BY <2>1, <2>2, Leads, OwnersKept
  <1>6. CASE AdapterFails(p) \/ WriteRunning(p) \/ WriteStopped(p)
    BY <1>6, Leads, OwnersKept DEF AdapterFails, WriteRunning, WriteStopped
  <1>7. CASE Execute(p)
    <2>1. CASE Finish(p)  BY <1>7, <2>1, Leads, OwnersKept DEF Execute
    <2>2. CASE Become(p, "breaker", "take")
      BY <1>7, <2>2, OwnersKept DEF Execute, Become
    <2>3. QED  BY <1>7, <2>1, <2>2 DEF Execute
  <1>8. CASE WritePaused(p) \/ WriteTripped(p)
    BY <1>8, Leads, OwnersKept DEF WritePaused, WriteTripped, MarkPhase
  <1>9. QED
    BY <1>1, <1>2, <1>3, <1>4, <1>5, <1>6, <1>7, <1>8 DEF ProcessStep

LEMMA OwnersHealth == ASSUME TypeOK, Owners, HealthStep PROVE Owners'
  <1>1. CASE Snapshot  BY <1>1 DEF Snapshot, Owners, References, SingleOwner, Stopping
  <1>2. CASE AskHealth
    <2>1. UNCHANGED <<agent, held, pc>> /\ seen' = NoInstance  BY <1>2 DEF AskHealth
    <2>2. \A i \in Instances : inst'[i] = IF i = agent \/ \E q \in Procs : held[q] = i
                                            THEN inst[i] ELSE "none"
      BY <1>2, ConstantsAssumption DEF AskHealth, Kept
    <2>3. References'  BY <2>1, <2>2, ConstantsAssumption DEF Owners, References
    <2>4. agent \in Instances => inst'[agent] = inst[agent]  BY <2>2
    <2>5. \A q \in Stopping : inst'[held[q]] = inst[held[q]]
      BY <2>2 DEF Stopping, Owners, References
    <2>6. Stopping' = Stopping  BY <2>1 DEF Stopping
    <2>7. SingleOwner'
      BY <2>1, <2>4, <2>5, <2>6 DEF TypeOK, Owners, SingleOwner
    <2>8. QED  BY <2>3, <2>7 DEF Owners
  <1>3. CASE Wait \/ GiveUp
    BY <1>3 DEF Wait, GiveUp, Owners, References, SingleOwner, Stopping
  <1>4. CASE AutoRestart
    <2>1. PICK p \in Autos : pc[p] = "idle" /\ Become(p, "auto", "take")
      BY <1>4 DEF AutoRestart
    <2>2. QED  BY <1>4, <2>1, OwnersKept DEF AutoRestart, Become
  <1>5. QED  BY <1>1, <1>2, <1>3, <1>4 DEF HealthStep

LEMMA OwnersInit == Init => Owners
  BY ConstantsAssumption DEF Init, Owners, References, SingleOwner, Stopping

LEMMA OwnersStep == TypeOK /\ Owners /\ [Next]_vars => Owners'
  <1> SUFFICES ASSUME TypeOK, Owners, [Next]_vars PROVE Owners'  OBVIOUS
  <1>1. CASE \E p \in Procs : ProcessStep(p)  BY <1>1, OwnersProcess
  <1>2. CASE \E p \in Callers : RecoverAgents(p)
    <2>1. PICK p \in Callers : RecoverAgents(p)  BY <1>2
    <2>2. CASE row = "Running"
      BY <2>1, <2>2, OwnersKept DEF RecoverAgents, Become, Busy
    <2>3. CASE row # "Running"
      BY <2>1, <2>3 DEF RecoverAgents, Owners, References, SingleOwner, Stopping
    <2>4. QED  BY <2>2, <2>3
  <1>3. CASE \E p \in Callers : Call(p)  BY <1>3, OwnersCall
  <1>4. CASE HealthStep  BY <1>4, OwnersHealth
  <1>5. CASE BackoffEnds
    BY <1>5 DEF BackoffEnds, Owners, References, SingleOwner, Stopping
  <1>6. CASE FallSick
    <2>1. agent \in Instances /\ inst' = [inst EXCEPT ![agent] = "sick"]
      BY <1>6 DEF FallSick, TypeOK
    <2>2. UNCHANGED <<agent, held, seen, pc>> /\ Stopping' = Stopping
      BY <1>6 DEF FallSick, Stopping
    <2>3. References'  BY <2>1, <2>2 DEF Owners, References, TypeOK
    <2>4. \A q \in Stopping : held[q] \in Instances  BY DEF Stopping, Owners, References
    <2>5. SingleOwner'  BY <2>1, <2>2, <2>4 DEF Owners, SingleOwner, TypeOK
    <2>6. QED  BY <2>3, <2>5 DEF Owners
  <1>7. CASE Crash
    BY <1>7, ConstantsAssumption DEF Crash, Owners, References, SingleOwner, Stopping
  <1>8. CASE UNCHANGED vars
    BY <1>8 DEF vars, Owners, References, SingleOwner, Stopping
  <1>9. QED  BY <1>1, <1>2, <1>3, <1>4, <1>5, <1>6, <1>7, <1>8 DEF Next

\* However many stops, restarts, deletions, tripped breakers and health checks meet: an
\* instance is either in the map or being stopped by one goroutine, never both, never
\* twice, and never after it has been stopped.
THEOREM OwnerCorrect == Spec => []SingleOwner
  <1>1. Owners => SingleOwner  BY DEF Owners
  <1>2. QED  BY <1>1, TypeCorrect, OwnersInit, OwnersStep, PTL DEF Spec

-----------------------------------------------------------------------------
\* The phase r is true of the agent.
Agree(r) == /\ r = "Running" => agent # NoInstance
            /\ agent # NoInstance => r \in {"Running", "Failed"}

\* What is true of an operation that is alone with the agent, wherever it is.
Alone(p) ==
  /\ pc[p] \in {"applyWrite", "applyCreate", "execute", "resetCount"} => Agree(row)
  /\ pc[p] = "applyWrite" => Agree(rec[p])
  /\ pc[p] = "startRead" => IF op[p] \in {"start", "freshRestart"}
                              THEN Agree(row)
                              ELSE agent = NoInstance
                                   /\ (op[p] \in {"restart", "auto"} => row # "Running")
  /\ pc[p] = "adapterStart" => /\ row # "absent"
                               /\ op[p] = "auto" => agent = NoInstance
  /\ pc[p] = "writeRunning" => row # "absent" /\ agent # NoInstance
  /\ pc[p] = "take" => Agree(row) \/ agent # NoInstance
  /\ pc[p] \in {"applyCreate", "adapterStop", "writeStopped", "deleteRow", "autoFailed",
                "writePaused", "writeTripped"} => agent = NoInstance
  /\ op[p] = "recover" => pc[p] \in {"startRead", "adapterStart", "writeRunning"}

\* Operations that do not overlap find the agent as its row says, and leave it so.
InTurn ==
  ~overlap /\ faults = 0 =>
    /\ \A p, q \in Busy : p = q
    /\ \A p \in Busy : Alone(p) /\ (daemon = "recovering" => op[p] = "recover")
    /\ Busy = {} => IF daemon = "serving" THEN Agree(row)
                                          ELSE agent = NoInstance /\ check = "idle"

\* Without a fault a statement does what it says.
LEMMA NoFault ==
  ASSUME TypeOK, faults' = 0
  PROVE  /\ ~Fault
         /\ \A r : Write(r) => row' = r /\ faults = 0
         /\ \A r : Update(r) => faults = 0 /\ row' = IF row = "absent" THEN row ELSE r
  BY ConstantsAssumption DEF TypeOK, Fault, Write, Update

LEMMA Solo ==
  ASSUME InTurn, ~overlap, faults = 0, NEW p \in Procs, pc[p] # "idle"
  PROVE  Busy = {p} /\ Alone(p) /\ (daemon = "recovering" => op[p] = "recover")
  BY DEF InTurn, Busy

\* The operation ends, and the row is true.
LEMMA Ends ==
  ASSUME TypeOK, NEW p \in Procs, Busy = {p}, daemon = "recovering" => op[p] = "recover",
         Finish(p), Agree(row)'
  PROVE  InTurn'
  <1>1. Busy' = {}  BY DEF Busy, Finish, TypeOK
  <1>2. daemon' = "serving"  BY DEF Finish, TypeOK
  <1>3. QED  BY <1>1, <1>2 DEF InTurn

\* The operation goes on.
LEMMA GoesOn ==
  ASSUME TypeOK, NEW p \in Procs, Busy = {p}, daemon = "recovering" => op[p] = "recover",
         NEW l, Continue(p, l), Alone(p)'
  PROVE  l # "idle" => InTurn'
  <1> SUFFICES ASSUME l # "idle" PROVE InTurn'  OBVIOUS
  <1>1. Busy' = {p}  BY DEF Busy, Continue, Goto, TypeOK
  <1>2. QED  BY <1>1 DEF InTurn, Continue

LEMMA TurnStart ==
  ASSUME TypeOK, InTurn, ~overlap, faults' = 0, NEW p \in Procs,
         StartRead(p) \/ AdapterFails(p) \/ Register(p) \/ WriteRunning(p)
  PROVE  InTurn'
  <1>1. faults = 0 /\ pc[p] # "idle"
    BY NoFault DEF StartRead, AdapterFails, Register, WriteRunning
  <1>2. Busy = {p} /\ Alone(p) /\ (daemon = "recovering" => op[p] = "recover")  BY <1>1, Solo
  <1>3. CASE StartRead(p)
    <2>1. CASE row # "absent" /\ Continue(p, "adapterStart")
      <3>1. pc'[p] = "adapterStart" /\ UNCHANGED <<op, row, agent, rec>>
        BY <1>3, <2>1, NoFault DEF StartRead, Continue, Goto, TypeOK
      <3>2. Alone(p)'  BY <1>2, <1>3, <2>1, <3>1 DEF Alone, StartRead
      <3>3. QED  BY <1>2, <2>1, <3>2, GoesOn
    <2>2. CASE row = "absent" /\ StartFails(p)
      <3>1. agent = NoInstance /\ UNCHANGED <<row, agent, rec>>
        BY <1>2, <1>3, <2>2, NoFault DEF Alone, Agree, StartRead
      <3>2. CASE op[p] = "auto"
        <4>1. Continue(p, "autoFailed")  BY <2>2, <3>2 DEF StartFails
        <4>2. pc'[p] = "autoFailed" /\ op'[p] = "auto"
          BY <3>2, <4>1 DEF Continue, Goto, TypeOK
        <4>3. Alone(p)'  BY <3>1, <4>2 DEF Alone
        <4>4. QED  BY <1>2, <4>1, <4>3, GoesOn
      <3>3. CASE op[p] # "auto"
        BY <1>2, <2>2, <3>1, <3>3, Ends DEF StartFails, Agree
      <3>4. QED  BY <3>2, <3>3
    <2>3. QED  BY <1>3, <2>1, <2>2, NoFault DEF StartRead
  <1>4. CASE AdapterFails(p)
    <2>1. row' = "Failed" /\ UNCHANGED <<agent, rec>> /\ StartFails(p)
      BY <1>2, <1>4, NoFault DEF AdapterFails, Alone
    <2>2. CASE op[p] = "auto"
      <3>1. Continue(p, "autoFailed")  BY <2>1, <2>2 DEF StartFails
      <3>2. pc'[p] = "autoFailed" /\ op'[p] = "auto"
        BY <2>2, <3>1 DEF Continue, Goto, TypeOK
      <3>3. Alone(p)'  BY <1>2, <1>4, <2>1, <2>2, <3>2 DEF Alone, AdapterFails
      <3>4. QED  BY <1>2, <3>1, <3>3, GoesOn
    <2>3. CASE op[p] # "auto"  BY <1>2, <2>1, <2>3, Ends DEF StartFails, Agree
    <2>4. QED  BY <2>2, <2>3
  <1>5. CASE Register(p)
    <2>1. agent' # NoInstance /\ UNCHANGED <<row, op, rec>>
      BY <1>5, ConstantsAssumption DEF Register
    <2>2. Continue(p, "writeRunning") /\ pc'[p] = "writeRunning"
      BY <1>5 DEF Register, Continue, Goto, TypeOK
    <2>3. Alone(p)'  BY <1>2, <1>5, <2>1, <2>2 DEF Alone, Register
    <2>4. QED  BY <1>2, <2>2, <2>3, GoesOn
  <1>6. CASE WriteRunning(p)
    <2>1. row' = "Running" /\ UNCHANGED <<agent, rec>> /\ agent # NoInstance
          /\ StartSucceeds(p)
      BY <1>2, <1>6, NoFault DEF WriteRunning, Alone
    <2>2. Agree(row)'  BY <2>1 DEF Agree
    <2>3. CASE op[p] = "restart"
      <3>1. Continue(p, "resetCount")  BY <2>1, <2>3 DEF StartSucceeds
      <3>2. pc'[p] = "resetCount" /\ op'[p] = "restart"
        BY <2>3, <3>1 DEF Continue, Goto, TypeOK
      <3>3. Alone(p)'  BY <2>2, <3>2 DEF Alone
      <3>4. QED  BY <1>2, <3>1, <3>3, GoesOn
    <2>4. CASE op[p] # "restart"  BY <1>2, <2>1, <2>2, <2>4, Ends DEF StartSucceeds
    <2>5. QED  BY <2>3, <2>4
  <1>7. QED  BY <1>3, <1>4, <1>5, <1>6

\* StopAgent returns, and the agent does not run.
LEMMA TurnStopped ==
  ASSUME TypeOK, NEW p \in Procs, Busy = {p}, daemon = "recovering" => op[p] = "recover",
         op[p] # "recover", StopReturns(p, TRUE) \/ StopReturns(p, FALSE),
         agent' = NoInstance, row' # "Running"
  PROVE  InTurn'
  <1>1. CASE Finish(p)  BY <1>1, Ends DEF Agree
  <1>2. CASE \/ op[p] \in {"restart", "auto"} /\ Continue(p, "startRead")
             \/ op[p] = "delete" /\ Continue(p, "deleteRow")
             \/ op[p] = "breaker" /\ Continue(p, "writeTripped")
             \/ op[p] = "pause" /\ Continue(p, "writePaused")
    <2>1. PICK l \in {"startRead", "deleteRow", "writeTripped", "writePaused"} :
                 Continue(p, l) /\ (l = "startRead" => op[p] \in {"restart", "auto"})
      BY <1>2
    <2>2. pc'[p] = l /\ op'[p] = op[p]  BY <2>1 DEF Continue, Goto, TypeOK
    <2>3. Alone(p)'  BY <2>1, <2>2 DEF Alone, Agree
    <2>4. QED  BY <2>1, <2>3, GoesOn
  <1>3. QED  BY <1>1, <1>2 DEF StopReturns

LEMMA TurnStop ==
  ASSUME TypeOK, InTurn, ~overlap, faults' = 0, NEW p \in Procs,
         Take(p) \/ AdapterStop(p) \/ WriteStopped(p)
  PROVE  InTurn'
  <1>1. faults = 0 /\ pc[p] # "idle"  BY NoFault DEF Take, AdapterStop, WriteStopped
  <1>2. Busy = {p} /\ Alone(p) /\ (daemon = "recovering" => op[p] = "recover")  BY <1>1, Solo
  <1>3. op[p] # "recover"  BY <1>2 DEF Alone, Take, AdapterStop, WriteStopped
  <1>4. CASE Take(p)
    <2>1. CASE agent = NoInstance
      <3>1. row' # "Running" /\ agent' = NoInstance
        BY <1>2, <1>4, <2>1 DEF Take, Alone, Agree
      <3>2. QED  BY <1>2, <1>3, <1>4, <2>1, <3>1, TurnStopped DEF Take
    <2>2. CASE agent # NoInstance
      <3>1. Continue(p, "adapterStop") /\ agent' = NoInstance  BY <1>4, <2>2 DEF Take
      <3>2. pc'[p] = "adapterStop" /\ op'[p] = op[p]  BY <3>1 DEF Continue, Goto, TypeOK
      <3>3. Alone(p)'  BY <1>3, <3>1, <3>2 DEF Alone
      <3>4. QED  BY <1>2, <3>1, <3>3, GoesOn
    <2>3. QED  BY <2>1, <2>2
  <1>5. CASE AdapterStop(p)
    <2>1. Continue(p, "writeStopped") /\ agent' = NoInstance
      BY <1>2, <1>5 DEF AdapterStop, Continue, Goto, Alone
    <2>2. pc'[p] = "writeStopped" /\ op'[p] = op[p]  BY <2>1 DEF Continue, Goto, TypeOK
    <2>3. Alone(p)'  BY <1>3, <2>1, <2>2 DEF Alone
    <2>4. QED  BY <1>2, <2>1, <2>3, GoesOn
  <1>6. CASE WriteStopped(p)
    <2>1. pc[p] = "writeStopped" /\ Update("Stopped") /\ StopReturns(p, TRUE) /\ agent' = agent
      BY <1>6 DEF WriteStopped
    <2>2. agent' = NoInstance  BY <1>2, <2>1 DEF Alone
    <2>3. row' = IF row = "absent" THEN row ELSE "Stopped"  BY <2>1, NoFault
    <2>4. row' # "Running"  BY <2>3
    <2>5. QED  BY <1>2, <1>3, <2>1, <2>2, <2>4, TurnStopped
  <1>7. QED  BY <1>4, <1>5, <1>6

LEMMA TurnRest ==
  ASSUME TypeOK, InTurn, ~overlap, faults' = 0, NEW p \in Procs,
         \/ ApplyWrite(p) \/ ApplyCreate(p) \/ DeleteRow(p) \/ ResetCount(p)
         \/ AutoFailed(p) \/ Execute(p) \/ WritePaused(p) \/ WriteTripped(p)
  PROVE  InTurn'
  <1>1. faults = 0 /\ pc[p] # "idle"
    BY NoFault DEF ApplyWrite, ApplyCreate, DeleteRow, ResetCount, AutoFailed, Execute,
                   WritePaused, WriteTripped, MarkPhase
  <1>2. Busy = {p} /\ Alone(p) /\ (daemon = "recovering" => op[p] = "recover")  BY <1>1, Solo
  <1>3. CASE ApplyWrite(p)
    BY <1>2, <1>3, NoFault, Ends DEF ApplyWrite, Alone, Agree
  <1>4. CASE ApplyCreate(p)
    BY <1>2, <1>4, NoFault, Ends DEF ApplyCreate, Alone, Agree
  <1>5. CASE DeleteRow(p)
    BY <1>2, <1>5, NoFault, Ends DEF DeleteRow, Alone, Agree
  <1>6. CASE ResetCount(p)
    BY <1>2, <1>6, Ends DEF ResetCount, Alone, Agree
  <1>7. CASE AutoFailed(p)
    BY <1>2, <1>7, NoFault, Ends DEF AutoFailed, Alone, Agree
  <1>8. CASE Execute(p)
    <2>1. Agree(row)' /\ UNCHANGED <<row, agent>>  BY <1>2, <1>8 DEF Execute, Alone, Agree
    <2>2. CASE Finish(p)  BY <1>2, <2>1, <2>2, Ends
    <2>3. CASE Become(p, "breaker", "take") /\ UNCHANGED daemon
      <3>1. pc'[p] = "take" /\ op'[p] = "breaker"  BY <2>3 DEF Become, TypeOK
      <3>2. Busy' = {p}  BY <1>2, <2>3 DEF Busy, Become, TypeOK
      <3>3. daemon' # "recovering"  BY <1>2, <1>8, <2>3 DEF Alone, Execute
      <3>4. Alone(p)'  BY <2>1, <3>1 DEF Alone
      <3>5. QED  BY <3>2, <3>3, <3>4 DEF InTurn
    <2>4. QED  BY <1>8, <2>2, <2>3 DEF Execute
  <1>9. CASE WritePaused(p)
    BY <1>2, <1>9, NoFault, Ends DEF WritePaused, MarkPhase, Alone, Agree
  <1>10. CASE WriteTripped(p)
    BY <1>2, <1>10, NoFault, Ends DEF WriteTripped, MarkPhase, Alone, Agree
  <1>11. QED  BY <1>3, <1>4, <1>5, <1>6, <1>7, <1>8, <1>9, <1>10

LEMMA TurnCall == ASSUME TypeOK, InTurn, NEW p \in Procs, Call(p) PROVE InTurn'
  <1> SUFFICES ASSUME ~overlap', faults' = 0 PROVE InTurn'  BY DEF InTurn
  <1>1. /\ ~overlap /\ Busy = {} /\ daemon = "serving" /\ daemon' = "serving"
        /\ faults = 0 /\ UNCHANGED <<row, agent>>
    <2>1. /\ ~overlap /\ Busy = {} /\ daemon' = daemon /\ faults = 0 /\ UNCHANGED <<row, agent>>
          /\ daemon = "serving" \/ agent # NoInstance
      BY DEF Call, Apply, Start, Stop, Delete, Restart, ExecuteTask, Called, Enters
    <2>2. daemon = "serving"  BY <2>1 DEF InTurn
    <2>3. QED  BY <2>1, <2>2
  <1>2. Agree(row) /\ Agree(row)'  BY <1>1 DEF InTurn, Agree
  <1>3. PICK o, l : Become(p, o, l) /\ o \in Operations \ {"recover"}
                    /\ l \in Labels \ {"idle"}
    BY DEF Call, Apply, Start, Stop, Delete, Restart, ExecuteTask, Labels, Operations
  <1>4. pc'[p] = l /\ op'[p] = o  BY <1>3 DEF Become, TypeOK
  <1>5. Busy' = {p}  BY <1>1, <1>3 DEF Busy, Become, TypeOK
  <1>6. Alone(p)'
    <2>1. CASE Apply(p)
      <3>1. rec'[p] = row /\ op'[p] = "apply" /\ pc'[p] \in {"applyCreate", "applyWrite"}
            /\ (pc'[p] = "applyCreate" => row = "absent")
        BY <2>1 DEF Apply, Become, TypeOK
      <3>2. QED  BY <1>1, <1>2, <3>1 DEF Alone, Agree
    <2>2. CASE Start(p)
      <3>1. op'[p] = "start" /\ pc'[p] = "startRead"  BY <2>2 DEF Start, Become, TypeOK
      <3>2. QED  BY <1>2, <3>1 DEF Alone
    <2>3. CASE Stop(p) \/ ExecuteTask(p)
      <3>1. op'[p] \in {"stop", "task", "pause"} /\ pc'[p] \in {"take", "execute"}
        BY <2>3 DEF Stop, ExecuteTask, Become, TypeOK
      <3>2. QED  BY <1>2, <3>1 DEF Alone
    <2>4. CASE Delete(p)
      <3>1. op'[p] = "delete" /\ pc'[p] \in {"take", "deleteRow"}
            /\ (pc'[p] = "deleteRow" => agent = NoInstance)
        BY <2>4 DEF Delete, Become, TypeOK
      <3>2. QED  BY <1>1, <1>2, <3>1 DEF Alone
    <2>5. CASE Restart(p)
      <3>1. \/ op'[p] = "freshRestart" /\ pc'[p] = "startRead"
            \/ op'[p] = "restart" /\ pc'[p] = "take"
        BY <2>5 DEF Restart, Become, TypeOK
      <3>2. QED  BY <1>2, <3>1 DEF Alone
    <2>6. QED  BY <2>1, <2>2, <2>3, <2>4, <2>5 DEF Call
  <1>7. QED  BY <1>1, <1>5, <1>6 DEF InTurn

LEMMA TurnHealth == ASSUME TypeOK, InTurn, HealthStep PROVE InTurn'
  <1> SUFFICES ASSUME ~overlap', faults' = 0 PROVE InTurn'  BY DEF InTurn
  <1>1. CASE Snapshot \/ AskHealth \/ Wait
    <2>1. UNCHANGED <<row, agent, pc, op, rec, daemon, overlap, faults>> /\ Busy' = Busy
      BY <1>1 DEF Snapshot, AskHealth, Wait, Busy
    <2>2. agent = NoInstance => check' = "idle" \/ check # "idle"
      BY <1>1 DEF Snapshot, AskHealth, Wait
    <2>3. QED  BY <1>1, <2>1, <2>2 DEF InTurn, Alone, Agree, Snapshot, AskHealth, Wait
  <1>2. CASE GiveUp
    <2>1. /\ UNCHANGED <<agent, pc, op, rec, daemon, overlap>> /\ Busy' = Busy
          /\ faults = 0 /\ check' = "idle"
          /\ row' = IF row = "absent" THEN row ELSE "Failed"
      BY <1>2, NoFault DEF GiveUp, Busy
    <2>2. ASSUME NEW p \in Busy, Alone(p) PROVE Alone(p)'
      BY <2>1, <2>2 DEF Alone, Agree
    <2>3. QED  BY <2>1, <2>2 DEF InTurn, Agree
  <1>3. CASE AutoRestart
    <2>1. PICK p \in Autos : /\ Become(p, "auto", "take") /\ pc[p] = "idle"
                             /\ check = "due" /\ Update("Retrying")
                             /\ overlap' = (overlap \/ Busy # {})
                             /\ UNCHANGED <<agent, rec, daemon>>
      BY <1>3 DEF AutoRestart
    <2>2. /\ ~overlap /\ Busy = {} /\ faults = 0
          /\ row' = IF row = "absent" THEN row ELSE "Retrying"
      BY <2>1, NoFault
    <2>3. daemon = "serving"  BY <2>1, <2>2 DEF InTurn
    <2>4. Busy' = {p} /\ pc'[p] = "take" /\ op'[p] = "auto"
      BY <2>1, <2>2 DEF Busy, Become, TypeOK
    <2>5. Alone(p)'  BY <2>2, <2>4 DEF Alone, Agree
    <2>6. QED  BY <2>1, <2>3, <2>4, <2>5 DEF InTurn
  <1>4. QED  BY <1>1, <1>2, <1>3 DEF HealthStep

LEMMA TurnRecover ==
  ASSUME TypeOK, InTurn, NEW p \in Procs, RecoverAgents(p) PROVE InTurn'
  <1> SUFFICES ASSUME ~overlap', faults' = 0 PROVE InTurn'  BY DEF InTurn
  <1>1. /\ daemon = "recovering" /\ Busy = {} /\ ~overlap /\ faults = 0
        /\ agent = NoInstance /\ UNCHANGED <<row, agent>>
    BY DEF RecoverAgents, InTurn
  <1>2. CASE row = "Running"
    <2>1. Become(p, "recover", "startRead") /\ UNCHANGED daemon
      BY <1>2 DEF RecoverAgents
    <2>2. Busy' = {p} /\ pc'[p] = "startRead" /\ op'[p] = "recover"
      BY <1>1, <2>1 DEF Busy, Become, TypeOK
    <2>3. Alone(p)'  BY <1>1, <2>2 DEF Alone
    <2>4. QED  BY <2>2, <2>3 DEF InTurn
  <1>3. CASE row # "Running"
    <2>1. daemon' = "serving" /\ Busy' = {}  BY <1>1, <1>3 DEF RecoverAgents, Busy
    <2>2. QED  BY <1>1, <1>3, <2>1 DEF InTurn, Agree
  <1>4. QED  BY <1>2, <1>3

LEMMA TurnInit == Init => InTurn
  BY DEF Init, InTurn, Busy, Agree

LEMMA TurnStep == TypeOK /\ InTurn /\ [Next]_vars => InTurn'
  <1> SUFFICES ASSUME TypeOK, InTurn, [Next]_vars PROVE InTurn'  OBVIOUS
  <1>1. CASE \E p \in Procs : ProcessStep(p)
    <2>1. PICK p \in Procs : ProcessStep(p)  BY <1>1
    <2>2. SUFFICES ASSUME ~overlap', faults' = 0 PROVE InTurn'  BY DEF InTurn
    <2>3. CASE StartRead(p) \/ AdapterFails(p) \/ Register(p) \/ WriteRunning(p)
      <3>1. ~overlap  BY <2>2, <2>3 DEF StartRead, AdapterFails, Register, WriteRunning
      <3>2. QED  BY <2>2, <2>3, <3>1, TurnStart
    <2>4. CASE Take(p) \/ AdapterStop(p) \/ WriteStopped(p)
      <3>1. ~overlap  BY <2>2, <2>4 DEF Take, AdapterStop, WriteStopped
      <3>2. QED  BY <2>2, <2>4, <3>1, TurnStop
    <2>5. CASE \/ ApplyWrite(p) \/ ApplyCreate(p) \/ DeleteRow(p) \/ ResetCount(p)
               \/ AutoFailed(p) \/ Execute(p) \/ WritePaused(p) \/ WriteTripped(p)
      <3>1. ~overlap
        BY <2>2, <2>5 DEF ApplyWrite, ApplyCreate, DeleteRow, ResetCount, AutoFailed,
                          Execute, WritePaused, WriteTripped, MarkPhase
      <3>2. QED  BY <2>2, <2>5, <3>1, TurnRest
    <2>6. QED  BY <2>1, <2>3, <2>4, <2>5 DEF ProcessStep
  <1>2. CASE \E p \in Callers : RecoverAgents(p)  BY <1>2, TurnRecover
  <1>3. CASE \E p \in Callers : Call(p)  BY <1>3, TurnCall
  <1>4. CASE HealthStep  BY <1>4, TurnHealth
  <1>5. CASE BackoffEnds  BY <1>5 DEF BackoffEnds, InTurn, Busy, Alone, Agree
  <1>6. CASE FallSick  BY <1>6 DEF FallSick, InTurn, Busy, Alone, Agree
  <1>7. CASE Crash
    <2>1. Busy' = {} /\ daemon' = "recovering" /\ agent' = NoInstance /\ check' = "idle"
      BY <1>7 DEF Crash, Busy
    <2>2. QED  BY <2>1 DEF InTurn
  <1>8. CASE UNCHANGED vars  BY <1>8 DEF vars, InTurn, Busy, Alone, Agree
  <1>9. QED  BY <1>1, <1>2, <1>3, <1>4, <1>5, <1>6, <1>7, <1>8 DEF Next

\* Operations that do not overlap, whatever the health loop does between their steps and
\* wherever the daemon crashes, leave a row that tells whether the agent runs.
THEOREM RowCorrect == Spec => []RowIsTrue
  <1>1. InTurn => RowIsTrue  BY DEF InTurn, RowIsTrue, Agree
  <1>2. QED  BY <1>1, TypeCorrect, TurnInit, TurnStep, PTL DEF Spec
=============================================================================
