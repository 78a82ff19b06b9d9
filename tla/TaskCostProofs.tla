--------------------------- MODULE TaskCostProofs ---------------------------
(***************************************************************************)
(* Of TaskCost, for any number of workers, any limits, windows and results *)
(* and any number of restarts and failed writes: the types, that spending  *)
(* is bounded although it is checked before and charged after a task       *)
(* (SpendingCorrect), and that what is counted is on disk (DiskCorrect).   *)
(***************************************************************************)
EXTENDS TaskCost, FiniteSetTheorems, TLAPS

-----------------------------------------------------------------------------
(* Numbers. *)

LEMMA Division ==
  ASSUME NEW a \in Nat, NEW b \in Nat, a <= b, NEW n \in Nat \ {0}
  PROVE  a \div n \in Nat /\ a \div n <= b \div n
BY Z3

\* A multiple grows with its factor.
LEMMA Multiples ==
  ASSUME NEW m \in Nat, NEW i \in Nat, NEW j \in Nat
  PROVE  /\ m * i \in Nat /\ i * m = m * i
         /\ m * (i + 1) = m * i + m
         /\ i <= j => m * i <= m * j
BY Z3

-----------------------------------------------------------------------------
(* Types. *)

\* A task that has been executed has a charge, of this day or an earlier one.
Charged ==
  \A w \in Workers : stage[w] \in {"persist", "append", "usage"} =>
    charge[w] \in Charges /\ charge[w].day <= DayOf(hour)

CostInv == CostTypeOK /\ Charged

LEMMA Constants ==
  /\ IsFiniteSet(Workers) /\ MaxCharge \in Nat \ {0} /\ LastHour \in Nat
  /\ HoursPerDay \in Nat \ {0} /\ DaysPerMonth \in Nat \ {0}
  /\ MaxAgentStarts \in Nat /\ MaxBadWrites \in Nat
  /\ \A m \in Meters : MeterLimit[m] \in Nat /\ MeterSpan[m] \in Nat \ {0}
<1>1. HoursPerDay * DaysPerMonth \in Nat \ {0}
  <2>1. \A i, j \in Nat \ {0} : i * j \in Nat \ {0}  BY Z3
  <2>2. QED  BY <2>1, CostAssumption
<1>2. QED  BY <1>1, CostAssumption DEF Meters, MeterLimit, MeterSpan

LEMMA Days ==
  ASSUME NEW h \in 0 .. LastHour
  PROVE  DayOf(h) \in CostDays
<1>1. h \div HoursPerDay \in Nat /\ h \div HoursPerDay <= LastHour \div HoursPerDay
  BY Division, Constants
<1>2. LastHour \div HoursPerDay \in Nat  BY Division, Constants
<1>3. QED  BY <1>1, <1>2 DEF DayOf, CostDays

LEMMA DaysPass ==
  ASSUME NEW h \in Nat, NEW k \in Nat, h <= k
  PROVE  DayOf(h) \in Nat /\ DayOf(k) \in Nat /\ DayOf(h) <= DayOf(k)
<1>1. k <= k  OBVIOUS
<1>2. QED  BY <1>1, Division, Constants DEF DayOf

LEMMA Windows ==
  ASSUME hour \in Nat, NEW m \in Meters
  PROVE  WindowEnd(m) \in Nat
<1>1. hour \div MeterSpan[m] \in Nat  BY Division, Constants
<1>2. QED  BY <1>1, Multiples, Constants DEF WindowEnd

\* What a task adds to the counters and to the total of its day.
LEMMA Amounts ==
  ASSUME NEW r \in Results
  PROVE  /\ EventCost(r) \in 0 .. MaxCharge
         /\ \A m \in Meters : Used(m, r) \in 0 .. MaxCharge
BY CostAssumption DEF EventCost, Used, Meters, TokenMeters

LEMMA AddToType ==
  ASSUME NEW f \in [CostDays -> Nat], NEW w \in Workers, charge[w] \in Charges
  PROVE  AddTo(f, w) \in [CostDays -> Nat]
<1>1. charge[w].day \in CostDays /\ charge[w].result \in Results  BY DEF Charges
<1>2. EventCost(charge[w].result) \in Nat  BY <1>1, Amounts
<1>3. QED  BY <1>1, <1>2 DEF AddTo

LEMMA CostInitInv == CostInit => CostInv
<1> SUFFICES ASSUME CostInit PROVE CostInv  OBVIOUS
<1>1. 0 \in 0 .. LastHour /\ 0 \in 0 .. MaxAgentStarts /\ 0 \in 0 .. MaxBadWrites  BY Constants
<1>2. seen \in [Workers -> [now : 0 .. LastHour, count : [Meters -> Nat]]]
  BY <1>1 DEF CostInit, NothingSeen
<1>3. CostTypeOK  BY <1>1, <1>2 DEF CostInit, CostTypeOK, Stages
<1>4. Charged  BY DEF CostInit, Charged
<1>5. QED  BY <1>3, <1>4 DEF CostInv

LEMMA CostStep == CostInv /\ [CostNext]_costVars => CostInv'
<1> SUFFICES ASSUME CostInv, [CostNext]_costVars PROVE CostInv'  OBVIOUS
<1> USE DEF costClock, ledger
<1>1. ASSUME NEW w \in Workers, ExecuteStep(w) PROVE CostInv'
  <2> USE DEF CostInv, CostTypeOK, Charged, Step, Stages
  <2>1. CASE PassBudget(w) \/ FindNoConfig(w) \/ ExecuteFails(w)
    <3>1. PICK to \in {"quota", "running", "idle"} : stage' = [stage EXCEPT ![w] = to]
      BY <2>1 DEF PassBudget, FindNoConfig, ExecuteFails
    <3>2. UNCHANGED <<costClock, agentUp, seen, charge, usage, ledger>>
      BY <2>1 DEF PassBudget, FindNoConfig, ExecuteFails
    <3>3. CostTypeOK'  BY <3>1, <3>2
    <3>4. Charged'  BY <3>1, <3>2
    <3>5. QED  BY <3>3, <3>4
  <2>2. CASE ReadUsage(w)
    <3>1. [now |-> hour, count |-> [m \in Meters |-> usage[m].count]]
            \in [now : 0 .. LastHour, count : [Meters -> Nat]]
      OBVIOUS
    <3>2. seen' \in [Workers -> [now : 0 .. LastHour, count : [Meters -> Nat]]]
      BY <2>2, <3>1 DEF ReadUsage
    <3>3. stage' = [stage EXCEPT ![w] = "check"]
          /\ UNCHANGED <<costClock, agentUp, charge, usage, ledger>>
      BY <2>2 DEF ReadUsage
    <3>4. CostTypeOK'  BY <3>2, <3>3
    <3>5. Charged'  BY <3>3
    <3>6. QED  BY <3>4, <3>5
  <2>3. CASE AdmitTask(w) \/ RefuseTask(w)
    <3>1. NothingSeen \in [now : 0 .. LastHour, count : [Meters -> Nat]]
      BY Constants DEF NothingSeen
    <3>2. seen' = [seen EXCEPT ![w] = NothingSeen]
      BY <2>3 DEF AdmitTask, RefuseTask, Forget
    <3>3. seen' \in [Workers -> [now : 0 .. LastHour, count : [Meters -> Nat]]]
      BY <3>1, <3>2
    <3>4. PICK to \in {"running", "idle"} : stage' = [stage EXCEPT ![w] = to]
      BY <2>3 DEF AdmitTask, RefuseTask
    <3>5. UNCHANGED <<costClock, charge, usage, ledger>>  BY <2>3 DEF AdmitTask, RefuseTask
    <3>6. agentUp' \in BOOLEAN
      <4>1. CASE AdmitTask(w)  BY <4>1 DEF AdmitTask
      <4>2. CASE RefuseTask(w)  BY <4>2 DEF RefuseTask
      <4>3. QED  BY <2>3, <4>1, <4>2
    <3>7. CostTypeOK'  BY <3>3, <3>4, <3>5, <3>6
    <3>8. Charged'  BY <3>4, <3>5
    <3>9. QED  BY <3>7, <3>8
  <2>4. CASE ExecuteSucceeds(w)
    <3>1. PICK r \in Results : charge' = [charge EXCEPT ![w] = [result |-> r, day |-> DayOf(hour)]]
      BY <2>4 DEF ExecuteSucceeds
    <3>2. [result |-> r, day |-> DayOf(hour)] \in Charges  BY Days DEF Charges
    <3>3. DayOf(hour) <= DayOf(hour)  BY Days DEF CostDays
    <3>4. stage' = [stage EXCEPT ![w] = "persist"]
          /\ UNCHANGED <<costClock, agentUp, seen, usage, ledger>>
      BY <2>4 DEF ExecuteSucceeds
    <3>5. CostTypeOK'  BY <3>1, <3>2, <3>4
    <3>6. Charged'  BY <3>1, <3>2, <3>3, <3>4
    <3>7. QED  BY <3>5, <3>6
  <2>5. CASE PersistEvent(w)
    <3>1. AddTo(logged, w) \in [CostDays -> Nat]  BY <2>5, AddToType DEF PersistEvent
    <3>2. stage' = [stage EXCEPT ![w] = "append"] /\ stage[w] = "persist" /\ torn' = FALSE
          /\ UNCHANGED <<costClock, agentUp, seen, charge, usage, counted, badWrites>>
      BY <2>5 DEF PersistEvent
    <3>3. logged' \in [CostDays -> Nat]  BY <2>5, <3>1 DEF PersistEvent
    <3>4. CostTypeOK'  BY <3>2, <3>3
    <3>5. Charged'  BY <3>2
    <3>6. QED  BY <3>4, <3>5
  <2>6. CASE PersistFails(w)
    <3>1. badWrites' \in 0 .. MaxBadWrites  BY <2>6, Constants DEF PersistFails
    <3>2. torn' \in BOOLEAN  BY <2>6 DEF PersistFails
    <3>3. stage[w] = "persist" /\ stage' = [stage EXCEPT ![w] = "usage"]
          /\ UNCHANGED <<costClock, agentUp, seen, charge, usage, counted, logged>>
      BY <2>6 DEF PersistFails
    <3>4. CostTypeOK'  BY <3>1, <3>2, <3>3
    <3>5. Charged'  BY <3>3
    <3>6. QED  BY <3>4, <3>5
  <2>7. CASE AppendEvent(w)
    <3>1. AddTo(counted, w) \in [CostDays -> Nat]
      <4>1. charge[w] \in Charges  BY <2>7 DEF AppendEvent
      <4>2. counted \in [CostDays -> Nat]  OBVIOUS
      <4>3. QED  BY <4>1, <4>2, AddToType
    <3>2. stage[w] = "append" /\ stage' = [stage EXCEPT ![w] = "usage"]
          /\ counted' = AddTo(counted, w)
          /\ UNCHANGED <<costClock, agentUp, seen, charge, usage, logged, torn, badWrites>>
      BY <2>7 DEF AppendEvent
    <3>3. CostTypeOK'  BY <3>1, <3>2
    <3>4. Charged'  BY <3>2
    <3>5. QED  BY <3>3, <3>4
  <2>8. CASE RecordUsage(w)
    <3>1. charge[w].result \in Results  BY <2>8 DEF RecordUsage, Charges
    <3>2. \A m \in Meters : Used(m, charge[w].result) \in Nat  BY <3>1, Amounts
    <3>3. \A m \in Meters : WindowEnd(m) \in Nat  BY Windows
    <3>4. usage' \in [Meters -> [count : Nat, reset : Nat]]
      BY <2>8, <3>2, <3>3 DEF RecordUsage
    <3>5. stage' = [stage EXCEPT ![w] = "idle"] /\ charge' = [charge EXCEPT ![w] = NoCharge]
          /\ UNCHANGED <<costClock, agentUp, seen, ledger>>
      BY <2>8 DEF RecordUsage
    <3>6. CostTypeOK'  BY <3>4, <3>5
    <3>7. Charged'  BY <3>5
    <3>8. QED  BY <3>6, <3>7
  <2>9. QED  BY <1>1, <2>1, <2>2, <2>3, <2>4, <2>5, <2>6, <2>7, <2>8 DEF ExecuteStep
<1>2. CASE AgentStops \/ AgentStarts
  <2>1. starts' \in 0 .. MaxAgentStarts
    <3>1. starts \in 0 .. MaxAgentStarts  BY DEF CostInv, CostTypeOK
    <3>2. CASE AgentStops  BY <3>1, <3>2 DEF AgentStops
    <3>3. CASE AgentStarts  BY <3>1, <3>3, Constants DEF AgentStarts
    <3>4. QED  BY <1>2, <3>2, <3>3
  <2>2. UNCHANGED <<hour, onExceed, stage, seen, charge, usage, ledger>>
    BY <1>2 DEF AgentStops, AgentStarts
  <2>3. agentUp' \in BOOLEAN  BY <1>2 DEF AgentStops, AgentStarts
  <2>4. QED  BY <2>1, <2>2, <2>3 DEF CostInv, CostTypeOK, Charged
<1>3. CASE HourPasses
  <2>1. hour' \in 0 .. LastHour  BY <1>3, Constants DEF HourPasses, CostInv, CostTypeOK
  <2>2. DayOf(hour) \in Nat /\ DayOf(hour') \in Nat /\ DayOf(hour) <= DayOf(hour')
    <3>1. hour \in Nat /\ hour' \in Nat /\ hour <= hour'
      BY <1>3, Constants DEF HourPasses, CostInv, CostTypeOK
    <3>2. QED  BY <3>1, DaysPass
  <2>3. \A w \in Workers : charge[w] \in Charges => charge[w].day \in Nat
    BY Days, Constants DEF Charges, CostDays
  <2>4. QED  BY <1>3, <2>1, <2>2, <2>3 DEF HourPasses, CostInv, CostTypeOK, Charged
<1>4. CASE DaemonRestarts
  <2>1. seen' \in [Workers -> [now : 0 .. LastHour, count : [Meters -> Nat]]]
    BY <1>4, Constants DEF DaemonRestarts, NothingSeen
  <2>2. QED  BY <1>4, <2>1 DEF DaemonRestarts, CostInv, CostTypeOK, Charged, Stages
<1>5. CASE UNCHANGED costVars
  BY <1>5 DEF costVars, CostInv, CostTypeOK, Charged
<1>6. QED  BY <1>1, <1>2, <1>3, <1>4, <1>5 DEF CostNext

LEMMA CostInvariant == CostSpec => []CostInv
BY CostInitInv, CostStep, PTL DEF CostSpec

\* The type invariant of budget and quotas, for any workers, limits and windows.
THEOREM CostTypeCorrect == CostSpec => []CostTypeOK
<1>1. CostInv => CostTypeOK  BY DEF CostInv
<1>2. QED  BY <1>1, CostInvariant, PTL
-----------------------------------------------------------------------------
(* What is counted, and what is on disk. *)

\* The units of cost that were written for a day and are not in memory yet: they
\* are counted as a set of pairs, so that no sum over the workers is needed.
Units(d) == {u \in Workers \X (1 .. MaxCharge) :
              /\ stage[u[1]] = "append" /\ charge[u[1]].day = d
              /\ u[2] <= EventCost(charge[u[1]].result)}
Pending(d) == Cardinality(Units(d))

\* A torn line will take one event with it, for which one write has failed.
OnDisk ==
  /\ torn => badWrites >= 1
  /\ \A d \in CostDays :
       counted[d] + Pending(d) + (IF torn THEN MaxCharge ELSE 0)
         <= logged[d] + MaxCharge * badWrites

\* Nothing is on disk that is neither counted nor about to be.
InMemory == \A d \in CostDays : logged[d] <= counted[d] + Pending(d)

DiskInv == OnDisk /\ InMemory

\* What the task of a worker adds to the total of a day.
Share(w, d) == IF charge[w].day = d THEN EventCost(charge[w].result) ELSE 0

LEMMA UnitsType ==
  ASSUME NEW d
  PROVE  IsFiniteSet(Units(d)) /\ Pending(d) \in Nat
<1>1. IsFiniteSet(1 .. MaxCharge)  BY FS_Interval, Constants
<1>2. IsFiniteSet(Workers \X (1 .. MaxCharge))  BY <1>1, FS_Product, Constants
<1>3. Units(d) \in SUBSET (Workers \X (1 .. MaxCharge))  BY DEF Units
<1>4. QED  BY <1>2, <1>3, FS_Subset, FS_CardinalityType DEF Pending

LEMMA ShareType ==
  ASSUME NEW w \in Workers, NEW d \in CostDays, charge[w] \in Charges
  PROVE  /\ Share(w, d) \in 0 .. MaxCharge
         /\ \A f \in [CostDays -> Nat] : AddTo(f, w)[d] = f[d] + Share(w, d)
<1>1. charge[w].day \in CostDays /\ charge[w].result \in Results  BY DEF Charges
<1>2. EventCost(charge[w].result) \in 0 .. MaxCharge  BY <1>1, Amounts
<1>3. Share(w, d) \in 0 .. MaxCharge  BY <1>2, Constants DEF Share
<1>4. ASSUME NEW f \in [CostDays -> Nat] PROVE AddTo(f, w)[d] = f[d] + Share(w, d)
  BY <1>1, <1>2 DEF AddTo, Share
<1>5. QED  BY <1>3, <1>4

\* The units of one worker.
LEMMA OwnUnits ==
  ASSUME NEW w, NEW n \in Nat
  PROVE  IsFiniteSet({w} \X (1 .. n)) /\ Cardinality({w} \X (1 .. n)) = n
<1>1. IsFiniteSet(1 .. n) /\ Cardinality(1 .. n) = n  BY FS_Interval
<1>2. IsFiniteSet({w}) /\ Cardinality({w}) = 1  BY FS_Singleton
<1>3. Cardinality({w} \X (1 .. n)) = Cardinality({w}) * Cardinality(1 .. n)
      /\ IsFiniteSet({w} \X (1 .. n))
  BY <1>1, <1>2, FS_Product
<1>4. QED  BY <1>1, <1>2, <1>3

\* What is pending grows by the share of a worker that gets to append.
LEMMA Enters ==
  ASSUME NEW w \in Workers, NEW d \in CostDays, charge[w] \in Charges,
         stage \in [Workers -> Stages], stage[w] # "append",
         stage' = [stage EXCEPT ![w] = "append"], charge' = charge
  PROVE  Pending(d)' = Pending(d) + Share(w, d)
<1> DEFINE Own == {w} \X (1 .. Share(w, d))
<1>1. Share(w, d) \in 0 .. MaxCharge /\ Share(w, d) \in Nat  BY ShareType
<1>2. IsFiniteSet(Own) /\ Cardinality(Own) = Share(w, d)  BY <1>1, OwnUnits
<1>3. Units(d)' = Units(d) \cup Own
  <2>1. ASSUME NEW v \in Workers, NEW i \in 1 .. MaxCharge, v # w
        PROVE  <<v, i>> \in Units(d)' <=> <<v, i>> \in Units(d)
    BY <2>1 DEF Units
  <2>2. ASSUME NEW i \in 1 .. MaxCharge
        PROVE  <<w, i>> \in Units(d)' <=> <<w, i>> \in Own
    <3>1. <<w, i>> \in Units(d)' <=> charge[w].day = d /\ i <= EventCost(charge[w].result)
      BY DEF Units
    <3>2. QED  BY <3>1, <1>1, Constants DEF Share
  <2>3. ASSUME NEW i PROVE <<w, i>> \notin Units(d)  BY DEF Units
  <2>4. Own \subseteq Workers \X (1 .. MaxCharge)  BY <1>1, Constants
  <2>5. /\ Units(d) \subseteq Workers \X (1 .. MaxCharge)
        /\ Units(d)' \subseteq Workers \X (1 .. MaxCharge)
    BY DEF Units
  <2>6. ASSUME NEW v, NEW i, <<v, i>> \in Own PROVE v = w  BY <2>6
  <2> HIDE DEF Own
  <2>7. ASSUME NEW v \in Workers, NEW i \in 1 .. MaxCharge
        PROVE  <<v, i>> \in Units(d)' <=> <<v, i>> \in Units(d) \cup Own
    BY <2>1, <2>2, <2>3, <2>6
  <2>8. QED  BY <2>4, <2>5, <2>7
<1>4. Units(d) \cap Own = {}  BY DEF Units
<1>5. IsFiniteSet(Units(d)) /\ Cardinality(Units(d)) \in Nat  BY UnitsType DEF Pending
<1> HIDE DEF Own
<1>6. Cardinality(Units(d) \cup Own)
        = Cardinality(Units(d)) + Cardinality(Own) - Cardinality(Units(d) \cap Own)
  BY <1>2, <1>5, FS_Union
<1>7. Cardinality(Units(d) \cap Own) = 0  BY <1>4, FS_EmptySet
<1>8. QED  BY <1>1, <1>2, <1>3, <1>5, <1>6, <1>7 DEF Pending

\* And shrinks by it when the worker has appended.
LEMMA Leaves ==
  ASSUME NEW w \in Workers, NEW d \in CostDays, charge[w] \in Charges,
         stage \in [Workers -> Stages], stage[w] = "append",
         stage' = [stage EXCEPT ![w] = "usage"], charge' = charge
  PROVE  Pending(d)' \in Nat /\ Pending(d) = Pending(d)' + Share(w, d)
<1> DEFINE Own == {w} \X (1 .. Share(w, d))
<1>1. Share(w, d) \in 0 .. MaxCharge /\ Share(w, d) \in Nat  BY ShareType
<1>2. IsFiniteSet(Own) /\ Cardinality(Own) = Share(w, d)  BY <1>1, OwnUnits
<1>3. Units(d)' = Units(d) \ Own
  <2>1. ASSUME NEW v \in Workers, NEW i \in 1 .. MaxCharge, v # w
        PROVE  <<v, i>> \in Units(d)' <=> <<v, i>> \in Units(d)
    BY <2>1 DEF Units
  <2>2. ASSUME NEW i \in 1 .. MaxCharge
        PROVE  <<w, i>> \in Units(d) <=> <<w, i>> \in Own
    <3>1. <<w, i>> \in Units(d) <=> charge[w].day = d /\ i <= EventCost(charge[w].result)
      BY DEF Units
    <3>2. QED  BY <3>1, <1>1, Constants DEF Share
  <2>3. ASSUME NEW i PROVE <<w, i>> \notin Units(d)'  BY DEF Units
  <2>5. /\ Units(d) \subseteq Workers \X (1 .. MaxCharge)
        /\ Units(d)' \subseteq Workers \X (1 .. MaxCharge)
    BY DEF Units
  <2>6. ASSUME NEW v, NEW i, <<v, i>> \in Own PROVE v = w  BY <2>6
  <2> HIDE DEF Own
  <2>7. ASSUME NEW v \in Workers, NEW i \in 1 .. MaxCharge
        PROVE  <<v, i>> \in Units(d)' <=> <<v, i>> \in Units(d) \ Own
    BY <2>1, <2>2, <2>3, <2>6
  <2>8. QED  BY <2>5, <2>7
<1>4. Own \subseteq Units(d)  BY <1>1, Constants DEF Units, Share
<1>5. IsFiniteSet(Units(d)) /\ Cardinality(Units(d)) \in Nat  BY UnitsType DEF Pending
<1> HIDE DEF Own
<1>6. /\ Cardinality(Units(d) \ Own) = Cardinality(Units(d)) - Cardinality(Units(d) \cap Own)
      /\ Cardinality(Units(d) \ Own) \in Nat
  BY <1>5, FS_Difference, FS_CardinalityType
<1>7. Units(d) \cap Own = Own  BY <1>4
<1>8. Pending(d)' = Cardinality(Units(d) \ Own)  BY <1>3 DEF Pending
<1>9. Pending(d)' = Pending(d) - Share(w, d)  BY <1>2, <1>6, <1>7, <1>8 DEF Pending
<1>10. QED  BY <1>1, <1>5, <1>6, <1>8, <1>9 DEF Pending

\* Nothing else changes it.
LEMMA StaysPending ==
  ASSUME NEW d,
         \A w \in Workers : /\ stage'[w] = "append" <=> stage[w] = "append"
                            /\ stage[w] = "append" => charge'[w] = charge[w]
  PROVE  Pending(d)' = Pending(d)
<1>1. Units(d)' = Units(d)  BY DEF Units
<1>2. QED  BY <1>1 DEF Pending

LEMMA NonePending ==
  ASSUME NEW d, \A w \in Workers : stage[w] # "append"
  PROVE  Pending(d) = 0
<1>1. Units(d) = {}  BY DEF Units
<1>2. QED  BY <1>1, FS_EmptySet DEF Pending

LEMMA DiskInit == CostInit => DiskInv
<1> SUFFICES ASSUME CostInit PROVE DiskInv  OBVIOUS
<1>1. \A d \in CostDays : Pending(d) = 0  BY NonePending DEF CostInit
<1>2. MaxCharge * 0 = 0  BY Constants
<1>3. QED  BY <1>1, <1>2 DEF CostInit, DiskInv, OnDisk, InMemory

LEMMA DiskStep == CostInv /\ CostInv' /\ DiskInv /\ [CostNext]_costVars => DiskInv'
<1> SUFFICES ASSUME CostInv, CostInv', DiskInv, [CostNext]_costVars PROVE DiskInv'  OBVIOUS
<1> USE DEF costClock, ledger
<1>a. /\ stage \in [Workers -> Stages] /\ badWrites \in Nat /\ torn \in BOOLEAN
      /\ counted \in [CostDays -> Nat] /\ logged \in [CostDays -> Nat]
  BY Constants DEF CostInv, CostTypeOK
<1>b. \A d \in CostDays : Pending(d) \in Nat  BY UnitsType
<1>c. MaxCharge \in Nat /\ MaxCharge * badWrites \in Nat
      /\ MaxCharge * (badWrites + 1) = MaxCharge * badWrites + MaxCharge
      /\ (badWrites >= 1 => MaxCharge <= MaxCharge * badWrites)
  <2>1. MaxCharge * 1 = MaxCharge  BY Constants
  <2>2. QED  BY <1>a, <2>1, Multiples, Constants
<1>d. \A d \in CostDays : /\ logged[d] <= counted[d] + Pending(d)
                          /\ counted[d] + Pending(d) + (IF torn THEN MaxCharge ELSE 0)
                               <= logged[d] + MaxCharge * badWrites
  BY DEF DiskInv, OnDisk, InMemory
<1>e. torn => badWrites >= 1  BY DEF DiskInv, OnDisk
<1>0. ASSUME \A d \in CostDays : Pending(d)' = Pending(d),
             UNCHANGED <<counted, logged, torn, badWrites>>
      PROVE  DiskInv'
  BY <1>0, <1>d, <1>e DEF DiskInv, OnDisk, InMemory
<1>1. ASSUME NEW w \in Workers, ExecuteStep(w) PROVE DiskInv'
  <2>1. CASE \/ PassBudget(w) \/ FindNoConfig(w) \/ ReadUsage(w) \/ AdmitTask(w)
             \/ RefuseTask(w) \/ ExecuteFails(w) \/ ExecuteSucceeds(w) \/ RecordUsage(w)
    <3>1. \A v \in Workers : /\ stage'[v] = "append" <=> stage[v] = "append"
                             /\ stage[v] = "append" => charge'[v] = charge[v]
      <4>1. CASE \/ PassBudget(w) \/ FindNoConfig(w) \/ ReadUsage(w) \/ AdmitTask(w)
                 \/ RefuseTask(w) \/ ExecuteFails(w)
        BY <1>a, <4>1 DEF PassBudget, FindNoConfig, ReadUsage, AdmitTask, RefuseTask,
                          ExecuteFails, Step
      <4>2. CASE ExecuteSucceeds(w)
        BY <1>a, <4>2 DEF ExecuteSucceeds, Step, CostInv, CostTypeOK
      <4>3. CASE RecordUsage(w)
        BY <1>a, <4>3 DEF RecordUsage, Step, CostInv, CostTypeOK
      <4>4. QED  BY <2>1, <4>1, <4>2, <4>3
    <3>2. \A d \in CostDays : Pending(d)' = Pending(d)  BY <3>1, StaysPending
    <3>3. UNCHANGED <<counted, logged, torn, badWrites>>
      BY <2>1 DEF PassBudget, FindNoConfig, ReadUsage, AdmitTask, RefuseTask, ExecuteFails,
                  ExecuteSucceeds, RecordUsage
    <3>4. QED  BY <1>0, <3>2, <3>3
  <2>2. CASE PersistEvent(w)
    <3>1. /\ stage[w] = "persist" /\ stage' = [stage EXCEPT ![w] = "append"]
          /\ charge' = charge /\ counted' = counted /\ badWrites' = badWrites
          /\ torn' = FALSE /\ logged' = IF torn THEN logged ELSE AddTo(logged, w)
      BY <2>2 DEF PersistEvent, Step
    <3>2. charge[w] \in Charges  BY <3>1 DEF CostInv, Charged
    <3>3. ASSUME NEW d \in CostDays
          PROVE  /\ logged'[d] <= counted'[d] + Pending(d)'
                 /\ counted'[d] + Pending(d)' <= logged'[d] + MaxCharge * badWrites
      <4>1. Pending(d)' = Pending(d) + Share(w, d)  BY <1>a, <3>1, <3>2, Enters
      <4>2. Share(w, d) \in 0 .. MaxCharge /\ AddTo(logged, w)[d] = logged[d] + Share(w, d)
        BY <1>a, <3>2, ShareType
      <4>3. CASE torn
        <5>1. logged'[d] = logged[d]  BY <3>1, <4>3
        <5>2. counted[d] + Pending(d) + MaxCharge <= logged[d] + MaxCharge * badWrites
          BY <1>d, <4>3
        <5>3. QED  BY <1>a, <1>b, <1>c, <1>d, <3>1, <4>1, <4>2, <5>1, <5>2
      <4>4. CASE ~torn
        <5>1. logged'[d] = logged[d] + Share(w, d)  BY <3>1, <4>2, <4>4
        <5>2. counted[d] + Pending(d) <= logged[d] + MaxCharge * badWrites
          BY <1>a, <1>b, <1>c, <1>d, <4>4
        <5>3. QED  BY <1>a, <1>b, <1>c, <1>d, <3>1, <4>1, <4>2, <5>1, <5>2
      <4>5. QED  BY <4>3, <4>4
    <3>4. QED
      <4>1. \A d \in CostDays : counted'[d] \in Nat /\ Pending(d)' \in Nat
        <5>1. ASSUME NEW d \in CostDays PROVE Pending(d)' = Pending(d) + Share(w, d)
          BY <1>a, <3>1, <3>2, Enters
        <5>2. \A d \in CostDays : Share(w, d) \in 0 .. MaxCharge  BY <3>2, ShareType
        <5>3. \A d \in CostDays : Pending(d)' \in Nat  BY <1>b, <1>c, <5>1, <5>2
        <5>4. QED  BY <1>a, <3>1, <5>3
      <4>2. QED  BY <1>c, <3>1, <3>3, <4>1 DEF DiskInv, OnDisk, InMemory
  <2>3. CASE PersistFails(w)
    <3>1. /\ stage[w] = "persist" /\ stage' = [stage EXCEPT ![w] = "usage"]
          /\ charge' = charge /\ counted' = counted /\ badWrites' = badWrites + 1
          /\ logged' = logged
      BY <2>3 DEF PersistFails, Step
    <3>2. \A v \in Workers : stage'[v] = "append" <=> stage[v] = "append"  BY <1>a, <3>1
    <3>3. \A d \in CostDays : Pending(d)' = Pending(d)  BY <3>1, <3>2, StaysPending
    <3>4. torn' => badWrites' >= 1  BY <1>a, <3>1
    <3>5. ASSUME NEW d \in CostDays
          PROVE  counted'[d] + Pending(d)' + (IF torn' THEN MaxCharge ELSE 0)
                   <= logged'[d] + MaxCharge * badWrites'
      <4>1. counted[d] + Pending(d) <= logged[d] + MaxCharge * badWrites
        BY <1>a, <1>b, <1>c, <1>d
      <4>2. QED  BY <1>a, <1>b, <1>c, <3>1, <3>3, <4>1
    <3>6. InMemory'  BY <1>d, <3>1, <3>3 DEF InMemory
    <3>7. QED  BY <3>4, <3>5, <3>6 DEF DiskInv, OnDisk
  <2>4. CASE AppendEvent(w)
    <3>1. /\ stage[w] = "append" /\ stage' = [stage EXCEPT ![w] = "usage"]
          /\ charge' = charge /\ counted' = AddTo(counted, w) /\ badWrites' = badWrites
          /\ logged' = logged /\ torn' = torn
      BY <2>4 DEF AppendEvent, Step
    <3>2. charge[w] \in Charges  BY <3>1 DEF CostInv, Charged
    <3>3. ASSUME NEW d \in CostDays
          PROVE  counted'[d] + Pending(d)' = counted[d] + Pending(d)
      <4>1. Pending(d) = Pending(d)' + Share(w, d)  BY <1>a, <3>1, <3>2, Leaves
      <4>2. Share(w, d) \in 0 .. MaxCharge /\ AddTo(counted, w)[d] = counted[d] + Share(w, d)
        BY <1>a, <3>2, ShareType
      <4>3. Pending(d)' \in Nat  BY <1>a, <3>1, <3>2, Leaves
      <4>4. QED  BY <1>a, <3>1, <4>1, <4>2, <4>3
    <3>4. QED  BY <1>d, <1>e, <3>1, <3>3 DEF DiskInv, OnDisk, InMemory
  <2>5. QED  BY <1>1, <2>1, <2>2, <2>3, <2>4 DEF ExecuteStep
<1>2. CASE AgentStops \/ AgentStarts \/ HourPasses \/ UNCHANGED costVars
  <2>1. UNCHANGED <<stage, charge, counted, logged, torn, badWrites>>
    BY <1>2 DEF AgentStops, AgentStarts, HourPasses, costVars
  <2>2. \A d \in CostDays : Pending(d)' = Pending(d)  BY <2>1, StaysPending
  <2>3. QED  BY <1>0, <2>1, <2>2
<1>3. CASE DaemonRestarts
  <2>1. /\ stage' = [w \in Workers |-> "idle"] /\ counted' = logged
        /\ UNCHANGED <<logged, torn, badWrites>>
    BY <1>3 DEF DaemonRestarts
  <2>2. ASSUME NEW d \in CostDays PROVE Pending(d)' = 0
    <3>1. Units(d)' = {}  BY <2>1 DEF Units
    <3>2. QED  BY <3>1, FS_EmptySet DEF Pending
  <2>3. QED  BY <1>a, <1>c, <1>e, <2>1, <2>2 DEF DiskInv, OnDisk, InMemory
<1>4. QED  BY <1>1, <1>2, <1>3 DEF CostNext

LEMMA DiskInvariant == CostSpec => [](CostInv /\ DiskInv)
<1>1. CostInit => CostInv /\ DiskInv  BY CostInitInv, DiskInit
<1>2. (CostInv /\ DiskInv) /\ [CostNext]_costVars => (CostInv /\ DiskInv)'
  BY CostStep, DiskStep
<1>3. QED  BY <1>1, <1>2, PTL DEF CostSpec

\* What the tracker counts can be loaded again, less what failed writes took: for
\* any number of workers, failed writes and restarts between any two steps.
THEOREM DiskCorrect == CostSpec => []SpendingOnDisk
<1>1. CostInv /\ DiskInv => SpendingOnDisk
  <2> SUFFICES ASSUME CostInv, DiskInv, NEW d \in CostDays
               PROVE  counted[d] <= logged[d] + MaxCharge * badWrites
    BY DEF SpendingOnDisk
  <2>1. /\ counted[d] \in Nat /\ logged[d] \in Nat /\ badWrites \in Nat /\ Pending(d) \in Nat
    <3>1. Pending(d) \in Nat  BY UnitsType
    <3>2. /\ counted \in [CostDays -> Nat] /\ logged \in [CostDays -> Nat]
          /\ badWrites \in Nat
      BY Constants DEF CostInv, CostTypeOK
    <3>3. QED  BY <3>1, <3>2
  <2>2. MaxCharge \in Nat /\ MaxCharge * badWrites \in Nat  BY <2>1, Multiples, Constants
  <2>3. counted[d] + Pending(d) + (IF torn THEN MaxCharge ELSE 0)
          <= logged[d] + MaxCharge * badWrites
    BY DEF DiskInv, OnDisk
  <2>4. QED  BY <2>1, <2>2, <2>3
<1>2. QED  BY <1>1, DiskInvariant, PTL

-----------------------------------------------------------------------------
(* The most that a set of workers can charge. *)

Charging(S) == MaxCharge * Cardinality(S)

LEMMA ChargingOfMore ==
  ASSUME NEW T \in SUBSET Workers, NEW S \in SUBSET T
  PROVE  /\ Charging(S) \in Nat /\ Charging(T) \in Nat
         /\ Charging(S) <= Charging(T) /\ Charging(T) <= Concurrency
<1>1. IsFiniteSet(T)  BY FS_Subset, Constants
<1>2. /\ Cardinality(S) \in Nat /\ Cardinality(T) \in Nat /\ Cardinality(Workers) \in Nat
      /\ Cardinality(S) <= Cardinality(T) /\ Cardinality(T) <= Cardinality(Workers)
  BY <1>1, FS_Subset, FS_CardinalityType, Constants
<1>3. QED  BY <1>2, Multiples, Constants DEF Charging, Concurrency

\* Without one of its members, it can charge so much less.
LEMMA ChargingWithout ==
  ASSUME NEW T \in SUBSET Workers, NEW w \in T, NEW S \in SUBSET (T \ {w})
  PROVE  Charging(S) + MaxCharge <= Charging(T)
<1>1. IsFiniteSet(T)  BY FS_Subset, Constants
<1>2. IsFiniteSet(T \ {w}) /\ Cardinality(T \ {w}) = Cardinality(T) - 1
  BY <1>1, FS_RemoveElement
<1>3. /\ Cardinality(S) \in Nat /\ Cardinality(T) \in Nat
      /\ Cardinality(S) + 1 <= Cardinality(T)
  BY <1>1, <1>2, FS_Subset, FS_CardinalityType
<1>4. /\ MaxCharge * (Cardinality(S) + 1) = MaxCharge * Cardinality(S) + MaxCharge
      /\ MaxCharge * (Cardinality(S) + 1) <= MaxCharge * Cardinality(T)
  <2>1. Cardinality(S) + 1 \in Nat  BY <1>3
  <2>2. MaxCharge \in Nat  BY Constants
  <2>3. QED  BY <1>3, <2>1, <2>2, Multiples
<1>5. QED  BY <1>4 DEF Charging

-----------------------------------------------------------------------------
(* The budget. *)

\* The workers that have passed the budget and not added their event.
Spenders == {w \in Workers : stage[w] \in {"quota", "check", "running", "persist", "append"}}

\* What is counted today, and what the spenders may add, stays below the limit but
\* for one charge of every worker; later days have no events.
BudgetInv ==
  /\ \A d \in CostDays : d > DayOf(hour) => counted[d] = 0 /\ logged[d] = 0
  /\ DailyLimit > 0 =>
       counted[DayOf(hour)] + Charging(Spenders) <= DailyLimit - 1 + Concurrency

\* What is pending can be charged by those that are about to append.
LEMMA PendingBound ==
  ASSUME NEW d
  PROVE  Pending(d) <= Charging(Spenders)
<1> DEFINE S == {w \in Workers : stage[w] = "append"}
<1>1. S \in SUBSET Spenders /\ Spenders \in SUBSET Workers /\ S \in SUBSET Workers
  BY DEF Spenders
<1>2. Units(d) \in SUBSET (S \X (1 .. MaxCharge))  BY DEF Units
<1> HIDE DEF S
<1>3. IsFiniteSet(S) /\ Cardinality(S) \in Nat
  BY <1>1, FS_Subset, FS_CardinalityType, Constants
<1>4. IsFiniteSet(1 .. MaxCharge) /\ Cardinality(1 .. MaxCharge) = MaxCharge
  BY FS_Interval, Constants
<1>5. /\ IsFiniteSet(S \X (1 .. MaxCharge))
      /\ Cardinality(S \X (1 .. MaxCharge)) = Cardinality(S) * MaxCharge
  BY <1>3, <1>4, FS_Product
<1>6. Cardinality(Units(d)) <= Cardinality(S \X (1 .. MaxCharge))
  BY <1>2, <1>5, FS_Subset
<1>7. Cardinality(S \X (1 .. MaxCharge)) = Charging(S)
  BY <1>3, <1>5, Multiples, Constants DEF Charging
<1>8. Charging(S) <= Charging(Spenders) /\ Charging(S) \in Nat /\ Charging(Spenders) \in Nat
  BY <1>1, ChargingOfMore
<1>9. Pending(d) \in Nat  BY UnitsType
<1>10. QED  BY <1>6, <1>7, <1>8, <1>9 DEF Pending

LEMMA BudgetInit == CostInit => BudgetInv
<1> SUFFICES ASSUME CostInit PROVE BudgetInv  OBVIOUS
<1>1. Spenders = {}  BY DEF CostInit, Spenders
<1>2. Charging({}) = 0  BY FS_EmptySet, Constants DEF Charging
<1>3. Concurrency \in Nat  BY ChargingOfMore DEF Charging, Concurrency
<1>4. DailyLimit \in Nat  BY CostAssumption
<1>5. hour \in 0 .. LastHour /\ DayOf(hour) \in CostDays  BY Days, Constants DEF CostInit
<1>6. QED  BY <1>1, <1>2, <1>3, <1>4, <1>5 DEF CostInit, BudgetInv

LEMMA BudgetStep ==
  CostInv /\ CostInv' /\ DiskInv /\ BudgetInv /\ [CostNext]_costVars => BudgetInv'
<1> SUFFICES ASSUME CostInv, CostInv', DiskInv, BudgetInv, [CostNext]_costVars
             PROVE  BudgetInv'
  OBVIOUS
<1> USE DEF costClock, ledger
<1>a. /\ stage \in [Workers -> Stages] /\ hour \in 0 .. LastHour /\ hour' \in 0 .. LastHour
      /\ counted \in [CostDays -> Nat] /\ logged \in [CostDays -> Nat]
      /\ counted' \in [CostDays -> Nat] /\ logged' \in [CostDays -> Nat]
  BY DEF CostInv, CostTypeOK
<1>b. /\ DayOf(hour) \in CostDays /\ DayOf(hour') \in CostDays /\ CostDays \subseteq Nat
      /\ counted[DayOf(hour)] \in Nat /\ counted'[DayOf(hour')] \in Nat
  BY <1>a, Days, Constants DEF CostDays
<1>c. /\ Spenders \in SUBSET Workers /\ Spenders' \in SUBSET Workers
      /\ Charging(Spenders) \in Nat /\ Charging(Spenders)' \in Nat /\ Concurrency \in Nat
      /\ Charging(Spenders)' = Charging(Spenders') /\ Charging(Spenders') <= Concurrency
  <2>1. Spenders \in SUBSET Workers /\ Spenders' \in SUBSET Workers  BY DEF Spenders
  <2>2. Charging(Spenders)' = Charging(Spenders')  BY DEF Charging
  <2>3. Concurrency = Charging(Workers)  BY DEF Charging, Concurrency
  <2>4. QED  BY <2>1, <2>2, <2>3, ChargingOfMore
<1>d. DailyLimit \in Nat /\ MaxCharge \in Nat  BY CostAssumption
<1>e. /\ \A d \in CostDays : d > DayOf(hour) => counted[d] = 0 /\ logged[d] = 0
      /\ DailyLimit > 0 =>
           counted[DayOf(hour)] + Charging(Spenders) <= DailyLimit - 1 + Concurrency
  BY DEF BudgetInv
<1>0. ASSUME UNCHANGED <<hour, counted, logged>>, Spenders' \subseteq Spenders PROVE BudgetInv'
  <2>1. Charging(Spenders)' <= Charging(Spenders)  BY <1>0, <1>c, ChargingOfMore
  <2>2. QED  BY <1>0, <1>b, <1>c, <1>d, <1>e, <2>1 DEF BudgetInv, DayOf
<1>1. ASSUME NEW w \in Workers, ExecuteStep(w) PROVE BudgetInv'
  <2>1. CASE PassBudget(w)
    <3>1. DailyLimit > 0 => counted[DayOf(hour)] < DailyLimit
      <4>1. ~(DailyLimit > 0 /\ counted[DayOf(hour)] >= DailyLimit)
        BY <2>1 DEF PassBudget, BudgetExceeded
      <4>2. QED  BY <1>b, <1>d, <4>1
    <3>2. UNCHANGED <<hour, counted, logged>>  BY <2>1 DEF PassBudget
    <3>3. QED  BY <1>b, <1>c, <1>d, <1>e, <3>1, <3>2 DEF BudgetInv, DayOf
  <2>2. CASE \/ FindNoConfig(w) \/ ReadUsage(w) \/ AdmitTask(w) \/ RefuseTask(w)
             \/ ExecuteFails(w) \/ ExecuteSucceeds(w) \/ PersistFails(w) \/ RecordUsage(w)
    <3>1. UNCHANGED <<hour, counted, logged>>
      BY <2>2 DEF FindNoConfig, ReadUsage, AdmitTask, RefuseTask, ExecuteFails,
                  ExecuteSucceeds, PersistFails, RecordUsage
    <3>2. Spenders' \subseteq Spenders
      BY <1>a, <2>2 DEF FindNoConfig, ReadUsage, AdmitTask, RefuseTask, ExecuteFails,
                        ExecuteSucceeds, PersistFails, RecordUsage, Step, Spenders
    <3>3. QED  BY <1>0, <3>1, <3>2
  <2>3. CASE PersistEvent(w)
    <3>1. /\ stage[w] = "persist" /\ hour' = hour /\ counted' = counted
          /\ logged' = IF torn THEN logged ELSE AddTo(logged, w)
      BY <2>3 DEF PersistEvent, Step
    <3>2. Spenders' \subseteq Spenders  BY <1>a, <2>3 DEF PersistEvent, Step, Spenders
    <3>3. charge[w] \in Charges /\ charge[w].day <= DayOf(hour)
      BY <3>1 DEF CostInv, Charged
    <3>4. ASSUME NEW d \in CostDays, d > DayOf(hour) PROVE logged'[d] = 0
      <4>1. AddTo(logged, w)[d] = logged[d]
        <5>1. charge[w].day \in Nat /\ DayOf(hour) \in Nat /\ d \in Nat
          BY <1>b, <3>3 DEF Charges
        <5>2. d # charge[w].day  BY <5>1, <3>3, <3>4
        <5>3. QED  BY <1>a, <5>2 DEF AddTo
      <4>2. QED  BY <1>e, <3>1, <3>4, <4>1
    <3>5. Charging(Spenders)' <= Charging(Spenders)  BY <3>2, <1>c, ChargingOfMore
    <3>6. QED  BY <1>b, <1>c, <1>d, <1>e, <3>1, <3>4, <3>5 DEF BudgetInv, DayOf
  <2>4. CASE AppendEvent(w)
    <3>1. /\ stage[w] = "append" /\ stage' = [stage EXCEPT ![w] = "usage"]
          /\ UNCHANGED <<hour, logged>> /\ counted' = AddTo(counted, w)
      BY <2>4 DEF AppendEvent, Step
    <3>2. w \in Spenders /\ Spenders' \in SUBSET (Spenders \ {w})
      BY <1>a, <3>1 DEF Spenders
    <3>3. Charging(Spenders)' + MaxCharge <= Charging(Spenders)
      BY <1>c, <3>2, ChargingWithout
    <3>4. charge[w] \in Charges /\ charge[w].day <= DayOf(hour)
      BY <3>1 DEF CostInv, Charged
    <3>5. ASSUME NEW d \in CostDays, d > DayOf(hour) PROVE counted'[d] = 0
      <4>1. AddTo(counted, w)[d] = counted[d]
        <5>1. charge[w].day \in Nat /\ DayOf(hour) \in Nat /\ d \in Nat
          BY <1>b, <3>4 DEF Charges
        <5>2. d # charge[w].day  BY <5>1, <3>4, <3>5
        <5>3. QED  BY <1>a, <5>2 DEF AddTo
      <4>2. QED  BY <1>e, <3>1, <3>5, <4>1
    <3>6. counted'[DayOf(hour)] <= counted[DayOf(hour)] + MaxCharge
      <4>1. /\ Share(w, DayOf(hour)) \in 0 .. MaxCharge
            /\ AddTo(counted, w)[DayOf(hour)] = counted[DayOf(hour)] + Share(w, DayOf(hour))
        BY <1>a, <1>b, <3>4, ShareType
      <4>2. QED  BY <1>b, <1>d, <3>1, <4>1
    <3>7. DayOf(hour') = DayOf(hour)  BY <3>1
    <3>8. DailyLimit > 0 =>
            counted'[DayOf(hour')] + Charging(Spenders)' <= DailyLimit - 1 + Concurrency
      BY <1>b, <1>c, <1>d, <1>e, <3>3, <3>6, <3>7
    <3>9. QED  BY <1>e, <3>1, <3>5, <3>7, <3>8 DEF BudgetInv, DayOf
  <2>5. QED  BY <1>1, <2>1, <2>2, <2>3, <2>4 DEF ExecuteStep
<1>2. CASE AgentStops \/ AgentStarts \/ UNCHANGED costVars
  <2>1. UNCHANGED <<hour, counted, logged, stage>>
    BY <1>2 DEF AgentStops, AgentStarts, costVars
  <2>2. Spenders' = Spenders  BY <2>1 DEF Spenders
  <2>3. QED  BY <1>0, <2>1, <2>2
<1>3. CASE HourPasses
  <2>1. hour' = hour + 1 /\ UNCHANGED <<counted, logged, stage>>  BY <1>3 DEF HourPasses
  <2>2. DayOf(hour) <= DayOf(hour')  BY <1>a, <2>1, DaysPass
  <2>3. Spenders' = Spenders  BY <2>1 DEF Spenders
  <2>4. \A d \in CostDays : d > DayOf(hour') => counted'[d] = 0 /\ logged'[d] = 0
    <3>1. SUFFICES ASSUME NEW d \in CostDays, d > DayOf(hour')
                   PROVE  counted'[d] = 0 /\ logged'[d] = 0
      OBVIOUS
    <3>2. d \in Nat /\ DayOf(hour) \in Nat /\ DayOf(hour') \in Nat  BY <1>b
    <3>3. d > DayOf(hour)  BY <2>2, <3>1, <3>2
    <3>4. UNCHANGED <<counted, logged>>  BY <2>1
    <3>5. QED  BY <1>e, <3>3, <3>4
  <2>5. CASE DayOf(hour') = DayOf(hour)
    BY <1>c, <1>e, <2>1, <2>3, <2>4, <2>5 DEF BudgetInv, DayOf
  <2>6. CASE DayOf(hour') # DayOf(hour)
    <3>1. counted'[DayOf(hour')] = 0
      <4>1. DayOf(hour) \in Nat /\ DayOf(hour') \in Nat  BY <1>b
      <4>2. DayOf(hour') > DayOf(hour)  BY <2>2, <2>6, <4>1
      <4>3. counted' = counted  BY <2>1
      <4>4. QED  BY <1>b, <1>e, <4>2, <4>3
    <3>2. DailyLimit > 0 =>
            counted'[DayOf(hour')] + Charging(Spenders)' <= DailyLimit - 1 + Concurrency
      BY <1>c, <1>d, <3>1
    <3>3. QED  BY <2>4, <3>2 DEF BudgetInv, DayOf
  <2>7. QED  BY <2>5, <2>6
<1>4. CASE DaemonRestarts
  <2>1. /\ stage' = [w \in Workers |-> "idle"] /\ counted' = logged
        /\ UNCHANGED <<hour, logged>>
    BY <1>4 DEF DaemonRestarts
  <2>2. Spenders' = {}  BY <2>1 DEF Spenders
  <2>3. Charging(Spenders)' = 0  BY <1>c, <2>2, FS_EmptySet, Constants DEF Charging
  <2>4. Pending(DayOf(hour)) <= Charging(Spenders) /\ Pending(DayOf(hour)) \in Nat
    BY PendingBound, UnitsType
  <2>5. logged[DayOf(hour)] <= counted[DayOf(hour)] + Pending(DayOf(hour))
    BY <1>b DEF DiskInv, InMemory
  <2>6. DayOf(hour') = DayOf(hour) /\ logged[DayOf(hour)] \in Nat  BY <1>a, <1>b, <2>1
  <2>7. DailyLimit > 0 =>
          counted'[DayOf(hour')] + Charging(Spenders)' <= DailyLimit - 1 + Concurrency
    BY <1>b, <1>c, <1>d, <1>e, <2>1, <2>3, <2>4, <2>5, <2>6
  <2>8. QED  BY <1>e, <2>1, <2>6, <2>7 DEF BudgetInv, DayOf
<1>5. QED  BY <1>1, <1>2, <1>3, <1>4 DEF CostNext

-----------------------------------------------------------------------------
(* The quota. *)

\* The workers that may yet add to the tokens of the hour: those that have passed
\* the quota, those that will, and, while the agent is down, those before it.
Users ==
  {w \in Workers : \/ stage[w] \in {"running", "persist", "append", "usage"}
                   \/ stage[w] = "check" /\ ~AtLimit(w, 1)
                   \/ stage[w] = "quota" /\ ~agentUp}

\* The hour's tokens and what the users may add stay below the limit, but for one
\* charge of every worker and one more for every time that the agent was stopped.
QuotaBound == TokenPerHour - 1 + Concurrency * (1 + Stops)
QuotaInv ==
  /\ \A w \in Workers : seen[w].now <= hour
  /\ (TokenPerHour > 0 /\ onExceed # "alert") => InWindow(1) + Charging(Users) <= QuotaBound

LEMMA UsersType ==
  /\ Users \in SUBSET Workers /\ Charging(Users) \in Nat /\ Charging(Users) <= Concurrency
  /\ Concurrency \in Nat
<1>1. Users \in SUBSET Workers  BY DEF Users
<1>2. Concurrency = Charging(Workers)  BY DEF Charging, Concurrency
<1>3. QED  BY <1>1, <1>2, ChargingOfMore

\* Every stop allows as much again.
LEMMA QuotaBounds ==
  ASSUME CostTypeOK
  PROVE  /\ Stops \in Nat /\ Concurrency * (1 + Stops) \in Nat
         /\ \A k \in Nat : Concurrency * (1 + (k + 1)) = Concurrency * (1 + k) + Concurrency
         /\ Concurrency <= Concurrency * (1 + Stops)
<1>1. Stops \in Nat /\ 1 + Stops \in Nat  BY Constants DEF CostTypeOK, Stops
<1>2. Concurrency \in Nat  BY UsersType
<1>3. Concurrency * 1 = Concurrency  BY <1>2
<1>4. \A k \in Nat : Concurrency * (1 + (k + 1)) = Concurrency * (1 + k) + Concurrency
  <2>1. SUFFICES ASSUME NEW k \in Nat
                 PROVE  Concurrency * (1 + (k + 1)) = Concurrency * (1 + k) + Concurrency
    OBVIOUS
  <2>2. 1 + k \in Nat /\ 1 + (k + 1) = (1 + k) + 1  OBVIOUS
  <2>3. QED  BY <1>2, <2>2, Multiples
<1>5. 1 <= 1 + Stops  BY <1>1
<1>6. QED  BY <1>1, <1>2, <1>3, <1>4, <1>5, Multiples

LEMMA QuotaInit == CostInit => QuotaInv
<1> SUFFICES ASSUME CostInit PROVE QuotaInv  OBVIOUS
<1>1. Users = {}  BY DEF CostInit, Users
<1>2. Charging(Users) = 0  BY <1>1, FS_EmptySet, Constants DEF Charging
<1>3. InWindow(1) = 0  BY DEF CostInit, InWindow, Meters
<1>4. CostTypeOK  BY CostInitInv DEF CostInv
<1>5. TokenPerHour \in Nat  BY CostAssumption
<1>6. Concurrency * (1 + Stops) \in Nat  BY <1>4, QuotaBounds
<1>7. \A w \in Workers : seen[w].now <= hour  BY DEF CostInit, NothingSeen
<1>8. QED  BY <1>2, <1>3, <1>5, <1>6, <1>7 DEF QuotaInv, QuotaBound

LEMMA QuotaStep == CostInv /\ CostInv' /\ QuotaInv /\ [CostNext]_costVars => QuotaInv'
<1> SUFFICES ASSUME CostInv, CostInv', QuotaInv, [CostNext]_costVars PROVE QuotaInv'  OBVIOUS
<1> USE DEF costClock, ledger
<1>a. /\ stage \in [Workers -> Stages] /\ hour \in Nat /\ hour' \in Nat
      /\ usage \in [Meters -> [count : Nat, reset : Nat]]
      /\ usage' \in [Meters -> [count : Nat, reset : Nat]]
      /\ seen \in [Workers -> [now : 0 .. LastHour, count : [Meters -> Nat]]]
      /\ agentUp \in BOOLEAN /\ starts \in Nat /\ 1 \in Meters
  BY Constants DEF CostInv, CostTypeOK, Meters
<1>b. InWindow(1) \in Nat /\ InWindow(1)' \in Nat  BY <1>a DEF InWindow
<1>c. /\ Users \in SUBSET Workers /\ Users' \in SUBSET Workers
      /\ Charging(Users) \in Nat /\ Charging(Users)' \in Nat /\ Concurrency \in Nat
      /\ Charging(Users)' = Charging(Users') /\ Charging(Users') <= Concurrency
  <2>1. Users \in SUBSET Workers /\ Users' \in SUBSET Workers  BY DEF Users
  <2>2. Charging(Users)' = Charging(Users')  BY DEF Charging
  <2>3. Concurrency = Charging(Workers)  BY DEF Charging, Concurrency
  <2>4. QED  BY <2>1, <2>2, <2>3, ChargingOfMore
<1>d. /\ Concurrency * (1 + Stops) \in Nat /\ Concurrency <= Concurrency * (1 + Stops)
      /\ Stops \in Nat
      /\ \A k \in Nat : Concurrency * (1 + (k + 1)) = Concurrency * (1 + k) + Concurrency
  BY QuotaBounds DEF CostInv
<1>e. TokenPerHour \in Nat /\ MaxCharge \in Nat /\ MeterLimit[1] = TokenPerHour
  BY CostAssumption DEF MeterLimit
<1>f. /\ \A w \in Workers : seen[w].now <= hour
      /\ (TokenPerHour > 0 /\ onExceed # "alert") => InWindow(1) + Charging(Users) <= QuotaBound
  BY DEF QuotaInv
<1>g. onExceed' = onExceed  BY DEF CostNext, ExecuteStep, PassBudget, FindNoConfig, ReadUsage,
    AdmitTask, RefuseTask, ExecuteFails, ExecuteSucceeds, PersistEvent, PersistFails,
    AppendEvent, RecordUsage, AgentStops, AgentStarts, HourPasses, DaemonRestarts, costVars
<1>0. ASSUME InWindow(1)' <= InWindow(1), QuotaBound' = QuotaBound,
             \A w \in Workers : seen'[w].now <= hour',
             (TokenPerHour > 0 /\ onExceed # "alert") => Users' \subseteq Users
      PROVE  QuotaInv'
  <2>1. (TokenPerHour > 0 /\ onExceed # "alert") => Charging(Users)' <= Charging(Users)
    BY <1>0, <1>c, ChargingOfMore
  <2>2. QuotaBound \in Int  BY <1>d, <1>e DEF QuotaBound
  <2>3. QED  BY <1>0, <1>b, <1>c, <1>f, <1>g, <2>1, <2>2 DEF QuotaInv
<1>1. ASSUME NEW w \in Workers, ExecuteStep(w) PROVE QuotaInv'
  <2>1. CASE \/ PassBudget(w) \/ FindNoConfig(w) \/ ExecuteFails(w) \/ ExecuteSucceeds(w)
             \/ PersistEvent(w) \/ PersistFails(w) \/ AppendEvent(w)
    <3>1. UNCHANGED <<hour, seen, usage, agentUp, starts>>
      BY <2>1 DEF PassBudget, FindNoConfig, ExecuteFails, ExecuteSucceeds, PersistEvent,
                  PersistFails, AppendEvent
    <3>2. \A v \in Workers : AtLimit(v, 1)' = AtLimit(v, 1)  BY <3>1 DEF AtLimit, SeenCount
    <3>3. Users' \subseteq Users
      BY <1>a, <2>1, <3>1, <3>2 DEF PassBudget, FindNoConfig, ExecuteFails, ExecuteSucceeds,
             PersistEvent, PersistFails, AppendEvent, Step, Users
    <3>4. InWindow(1)' = InWindow(1) /\ QuotaBound' = QuotaBound
      BY <3>1 DEF InWindow, QuotaBound, Stops
    <3>5. QED  BY <1>0, <1>b, <1>f, <3>1, <3>3, <3>4
  <2>2. CASE ReadUsage(w)
    <3>1. /\ stage[w] = "quota" /\ stage' = [stage EXCEPT ![w] = "check"] /\ agentUp
          /\ seen' = [seen EXCEPT ![w] = [now |-> hour, count |-> [m \in Meters |-> usage[m].count]]]
          /\ UNCHANGED <<hour, usage, agentUp, starts>>
      BY <2>2 DEF ReadUsage, Step
    <3>2. InWindow(1)' = InWindow(1) /\ QuotaBound' = QuotaBound
      BY <3>1 DEF InWindow, QuotaBound, Stops
    <3>3. \A v \in Workers : seen'[v].now <= hour'  BY <1>a, <1>f, <3>1
    <3>4. \A v \in Workers \ {w} : AtLimit(v, 1)' = AtLimit(v, 1)
      BY <1>a, <3>1 DEF AtLimit, SeenCount
    <3>5. CASE AtLimit(w, 1)'
      <4>1. Users' \subseteq Users  BY <1>a, <3>1, <3>4, <3>5 DEF Users
      <4>2. QED  BY <1>0, <1>b, <3>2, <3>3, <4>1
    <3>6. CASE ~AtLimit(w, 1)'
      <4>1. SeenCount(w, 1)' = InWindow(1)  BY <1>a, <3>1 DEF SeenCount, InWindow
      <4>2. TokenPerHour > 0 => InWindow(1) <= TokenPerHour - 1
        BY <1>b, <1>e, <3>6, <4>1 DEF AtLimit
      <4>3. TokenPerHour > 0 => InWindow(1) + Charging(Users)' <= QuotaBound
        BY <1>b, <1>c, <1>d, <1>e, <4>2 DEF QuotaBound
      <4>4. QED  BY <3>2, <3>3, <4>3 DEF QuotaInv
    <3>7. QED  BY <3>5, <3>6
  <2>3. CASE AdmitTask(w)
    <3>1. /\ stage[w] = "check" /\ stage' = [stage EXCEPT ![w] = "running"]
          /\ seen' = [seen EXCEPT ![w] = NothingSeen]
          /\ ~QuotaExceeded(w) \/ onExceed = "alert"
          /\ UNCHANGED <<hour, usage, agentUp, starts>>
      BY <2>3 DEF AdmitTask, Step, Forget
    <3>2. InWindow(1)' = InWindow(1) /\ QuotaBound' = QuotaBound
      BY <3>1 DEF InWindow, QuotaBound, Stops
    <3>3. \A v \in Workers : seen'[v].now <= hour'  BY <1>a, <1>f, <3>1 DEF NothingSeen
    <3>4. \A v \in Workers \ {w} : AtLimit(v, 1)' = AtLimit(v, 1)
      BY <1>a, <3>1 DEF AtLimit, SeenCount
    <3>5. onExceed # "alert" => ~AtLimit(w, 1)  BY <1>a, <3>1 DEF QuotaExceeded, Meters
    <3>6. onExceed # "alert" => Users' \subseteq Users
      BY <1>a, <3>1, <3>4, <3>5 DEF Users
    <3>7. QED  BY <1>0, <1>b, <3>2, <3>3, <3>6
  <2>4. CASE RefuseTask(w)
    <3>1. /\ stage[w] = "check" /\ stage' = [stage EXCEPT ![w] = "idle"]
          /\ seen' = [seen EXCEPT ![w] = NothingSeen]
          /\ agentUp' = (agentUp /\ onExceed # "pause")
          /\ UNCHANGED <<hour, usage, starts>>
      BY <2>4 DEF RefuseTask, Step, Forget
    <3>2. InWindow(1)' = InWindow(1)  BY <3>1 DEF InWindow
    <3>3. \A v \in Workers : seen'[v].now <= hour'  BY <1>a, <1>f, <3>1 DEF NothingSeen
    <3>4. \A v \in Workers \ {w} : AtLimit(v, 1)' = AtLimit(v, 1)
      BY <1>a, <3>1 DEF AtLimit, SeenCount
    <3>5. CASE agentUp' = agentUp
      <4>1. Users' \subseteq Users  BY <1>a, <3>1, <3>4, <3>5 DEF Users
      <4>2. QuotaBound' = QuotaBound  BY <3>1, <3>5 DEF QuotaBound, Stops
      <4>3. QED  BY <1>0, <1>b, <3>2, <3>3, <4>1, <4>2
    <3>6. CASE agentUp /\ ~agentUp'
      <4>1. Stops' = Stops + 1  BY <1>a, <3>1, <3>6 DEF Stops
      <4>2. QuotaBound' = QuotaBound + Concurrency  BY <1>c, <1>d, <1>e, <4>1 DEF QuotaBound
      <4>3. QuotaBound \in Int  BY <1>d, <1>e DEF QuotaBound
      <4>4. (TokenPerHour > 0 /\ onExceed # "alert") =>
              InWindow(1)' + Charging(Users)' <= QuotaBound'
        BY <1>b, <1>c, <1>f, <3>2, <4>2, <4>3
      <4>5. QED  BY <1>g, <3>3, <4>4 DEF QuotaInv
    <3>7. QED  BY <1>a, <3>1, <3>5, <3>6
  <2>5. CASE RecordUsage(w)
    <3>1. /\ stage[w] = "usage" /\ stage' = [stage EXCEPT ![w] = "idle"]
          /\ usage'[1] = IF hour >= usage[1].reset
                           THEN [count |-> Used(1, charge[w].result), reset |-> WindowEnd(1)]
                           ELSE [usage[1] EXCEPT !.count = @ + Used(1, charge[w].result)]
          /\ UNCHANGED <<hour, seen, agentUp, starts>>
      BY <1>a, <2>5 DEF RecordUsage, Step
    <3>2. Used(1, charge[w].result) \in 0 .. MaxCharge
      BY <1>a, <3>1, Amounts DEF CostInv, Charged, Charges
    <3>3. WindowEnd(1) = hour + 1
      <4>1. MeterSpan[1] = 1  BY DEF MeterSpan
      <4>2. hour \div 1 = hour  BY <1>a
      <4>3. (hour + 1) * 1 = hour + 1  BY <1>a
      <4>4. QED  BY <4>1, <4>2, <4>3 DEF WindowEnd
    <3>4. InWindow(1)' <= InWindow(1) + MaxCharge
      <4>1. CASE hour >= usage[1].reset
        BY <1>a, <1>e, <3>1, <3>2, <3>3, <4>1 DEF InWindow
      <4>2. CASE ~(hour >= usage[1].reset)
        BY <1>a, <1>e, <3>1, <3>2, <4>2 DEF InWindow
      <4>3. QED  BY <4>1, <4>2
    <3>5. usage[1].reset <= usage'[1].reset /\ usage'[1].reset > hour
      <4>1. CASE hour >= usage[1].reset  BY <1>a, <3>1, <3>3, <4>1
      <4>2. CASE ~(hour >= usage[1].reset)  BY <1>a, <3>1, <4>2
      <4>3. QED  BY <4>1, <4>2
    <3>6. \A v \in Workers : AtLimit(v, 1) => AtLimit(v, 1)'
      <4>1. SUFFICES ASSUME NEW v \in Workers, AtLimit(v, 1) PROVE AtLimit(v, 1)'  OBVIOUS
      <4>2. seen[v].now <= hour /\ seen[v].now \in Nat /\ seen[v].count[1] \in Nat
        BY <1>a, <1>f, Constants
      <4>3. SeenCount(v, 1)' = seen[v].count[1]
        BY <1>a, <3>1, <3>5, <4>2 DEF SeenCount
      <4>4. SeenCount(v, 1) <= seen[v].count[1]  BY <4>2 DEF SeenCount
      <4>5. SeenCount(v, 1) \in Nat  BY <4>2 DEF SeenCount
      <4>6. QED  BY <1>e, <4>1, <4>2, <4>3, <4>4, <4>5 DEF AtLimit
    <3>7. w \in Users /\ Users' \in SUBSET (Users \ {w})
      BY <1>a, <3>1, <3>6 DEF Users
    <3>8. Charging(Users)' + MaxCharge <= Charging(Users)
      BY <1>c, <3>7, ChargingWithout
    <3>9. QuotaBound' = QuotaBound  BY <3>1 DEF QuotaBound, Stops
    <3>10. \A v \in Workers : seen'[v].now <= hour'  BY <1>f, <3>1
    <3>11. QuotaBound \in Int  BY <1>d, <1>e DEF QuotaBound
    <3>12. (TokenPerHour > 0 /\ onExceed # "alert") =>
             InWindow(1)' + Charging(Users)' <= QuotaBound'
      BY <1>b, <1>c, <1>e, <1>f, <3>4, <3>8, <3>9, <3>11
    <3>13. QED  BY <1>g, <3>10, <3>12 DEF QuotaInv
  <2>6. QED  BY <1>1, <2>1, <2>2, <2>3, <2>4, <2>5 DEF ExecuteStep
<1>2. CASE AgentStops
  <2>1. agentUp /\ ~agentUp' /\ UNCHANGED <<hour, starts, seen, usage>>
    BY <1>2 DEF AgentStops
  <2>2. Stops' = Stops + 1  BY <1>a, <2>1 DEF Stops
  <2>3. QuotaBound' = QuotaBound + Concurrency  BY <1>c, <1>d, <1>e, <2>2 DEF QuotaBound
  <2>4. QuotaBound \in Int  BY <1>d, <1>e DEF QuotaBound
  <2>5. InWindow(1)' = InWindow(1)  BY <2>1 DEF InWindow
  <2>6. (TokenPerHour > 0 /\ onExceed # "alert") =>
          InWindow(1)' + Charging(Users)' <= QuotaBound'
    BY <1>b, <1>c, <1>f, <2>3, <2>4, <2>5
  <2>7. \A v \in Workers : seen'[v].now <= hour'  BY <1>f, <2>1
  <2>8. QED  BY <1>g, <2>6, <2>7 DEF QuotaInv
<1>3. CASE AgentStarts \/ HourPasses \/ UNCHANGED costVars
  <2>1. /\ UNCHANGED <<stage, seen, usage>> /\ hour <= hour'
        /\ Stops' = Stops /\ (agentUp => agentUp')
    BY <1>a, <1>3 DEF AgentStarts, HourPasses, costVars, Stops
  <2>2. InWindow(1)' <= InWindow(1)  BY <1>a, <2>1 DEF InWindow
  <2>3. \A v \in Workers : AtLimit(v, 1)' = AtLimit(v, 1)  BY <2>1 DEF AtLimit, SeenCount
  <2>4. Users' \subseteq Users  BY <2>1, <2>3 DEF Users
  <2>5. QuotaBound' = QuotaBound  BY <2>1 DEF QuotaBound
  <2>6. \A v \in Workers : seen'[v].now <= hour'
    <3>1. \A v \in Workers : seen[v].now \in Nat  BY <1>a, Constants
    <3>2. QED  BY <1>a, <1>f, <2>1, <3>1
  <2>7. QED  BY <1>0, <2>2, <2>4, <2>5, <2>6
<1>4. CASE DaemonRestarts
  <2>1. /\ stage' = [w \in Workers |-> "idle"] /\ seen' = [w \in Workers |-> NothingSeen]
        /\ usage' = [m \in Meters |-> [count |-> 0, reset |-> 0]]
        /\ UNCHANGED <<hour, agentUp, starts>>
    BY <1>4 DEF DaemonRestarts
  <2>2. Users' = {}  BY <2>1 DEF Users
  <2>3. InWindow(1)' = 0  BY <1>a, <2>1 DEF InWindow
  <2>4. QuotaBound' = QuotaBound  BY <2>1 DEF QuotaBound, Stops
  <2>5. \A v \in Workers : seen'[v].now <= hour'  BY <1>a, <2>1 DEF NothingSeen
  <2>6. QED  BY <1>0, <1>b, <2>2, <2>3, <2>4, <2>5
<1>5. QED  BY <1>1, <1>2, <1>3, <1>4 DEF CostNext

\* The spending that nobody checks and charges in one step stays within what the
\* tasks that run at once can make of it: for any limits, workers and charges, and
\* any order of their steps, of stops of the agent and of restarts of the daemon.
THEOREM SpendingCorrect == CostSpec => []SpendingIsBounded
<1> DEFINE Inv == CostInv /\ DiskInv /\ BudgetInv /\ QuotaInv
<1>1. CostInit => Inv  BY CostInitInv, DiskInit, BudgetInit, QuotaInit
<1>2. Inv /\ [CostNext]_costVars => Inv'  BY CostStep, DiskStep, BudgetStep, QuotaStep
<1>3. Inv => SpendingIsBounded
  <2> SUFFICES ASSUME Inv PROVE QuotaOvershoot /\ BudgetOvershoot  BY DEF SpendingIsBounded
  <2>1. QuotaOvershoot
    <3>1. Charging(Users) \in Nat  BY UsersType
    <3>2. InWindow(1) \in Nat  BY Constants DEF CostInv, CostTypeOK, InWindow, Meters
    <3>3. QuotaBound \in Int
      <4>1. TokenPerHour \in Nat  BY CostAssumption
      <4>2. QED  BY <4>1, QuotaBounds DEF CostInv, QuotaBound
    <3>4. QED  BY <3>1, <3>2, <3>3 DEF QuotaOvershoot, QuotaInv, QuotaBound
  <2>2. BudgetOvershoot
    <3>1. Spenders \in SUBSET Workers  BY DEF Spenders
    <3>2. Charging(Spenders) \in Nat  BY <3>1, ChargingOfMore
    <3>3. hour \in 0 .. LastHour /\ counted \in [CostDays -> Nat]  BY DEF CostInv, CostTypeOK
    <3>4. counted[DayOf(hour)] \in Nat  BY <3>3, Days
    <3>5. DailyLimit \in Nat /\ Concurrency \in Nat  BY CostAssumption, UsersType
    <3>6. QED  BY <3>2, <3>4, <3>5 DEF BudgetOvershoot, BudgetInv
  <2>3. QED  BY <2>1, <2>2
<1>4. QED  BY <1>1, <1>2, <1>3, PTL DEF CostSpec
=============================================================================
