------------------------------ MODULE TaskCost ------------------------------
(***************************************************************************)
(* What tasks may spend (pkg/cost, and ExecuteTask of pkg/controller).     *)
(* Before it executes, a task asks the Tracker whether the budget of all   *)
(* agents is spent, and the QuotaEnforcer whether the quota of its agent   *)
(* is; afterwards it appends a cost event to a file, adds it to the events *)
(* in memory, and adds its usage to the counters of its agent.  No lock    *)
(* covers two of these steps, and the usage is in memory only.             *)
(*                                                                         *)
(* One agent.  A worker is a request that executes tasks one after the     *)
(* other.  Time is a number of hours.  Of the events the tracker keeps,    *)
(* only their total per day is modelled.  Money has the unit of tokens.    *)
(***************************************************************************)
EXTENDS Naturals, FiniteSets, Functions

CONSTANTS
  Workers,
  TokenPerHour, TokenPerDay, CostPerDay, CostPerMonth,  \* QuotaConfig; 0 is none
  DailyLimit, MonthlyLimit,                             \* BudgetConfig; 0 is none
  HoursPerDay, DaysPerMonth,
  MaxCharge,       \* bound on the tokens and on the cost of one task
  Results,         \* what adapters report of a task
  LastHour,        \* bound on the time
  MaxAgentStarts,  \* bound on the starts of an agent that was stopped
  MaxBadWrites,    \* bound on the writes to the file that fail
  CountCap         \* bound on the usage beyond which no task is modelled

ASSUME CostAssumption ==
  /\ IsFiniteSet(Workers)
  /\ \A n \in {TokenPerHour, TokenPerDay, CostPerDay, CostPerMonth, DailyLimit, MonthlyLimit,
               LastHour, MaxAgentStarts, MaxBadWrites, CountCap} : n \in Nat
  /\ \A n \in {HoursPerDay, DaysPerMonth, MaxCharge} : n \in Nat \ {0}
  /\ Results \subseteq [tokens : 0 .. MaxCharge, cost : 0 .. MaxCharge, reported : BOOLEAN]

VARIABLES
  hour,       \* the time
  onExceed,   \* the agent's onExceed
  agentUp,    \* the agent is in the controller's map
  starts,     \* how often it was started again
  stage,      \* where a worker is in ExecuteTask
  seen,       \* seen[w]: the counters that Check has read, and when
  charge,     \* charge[w]: what the worker's task has used
  usage,      \* agentUsage: per meter, the count and the end of its window
  counted,    \* per day, total cost of the events in memory
  logged,     \* per day, total cost of the events that a load would find
  torn,       \* the last line of the file has no end
  badWrites

costClock == <<hour, onExceed, starts>>
ledger    == <<counted, logged, torn, badWrites>>
costVars  == <<hour, onExceed, agentUp, starts, stage, seen, charge, usage, counted, logged,
               torn, badWrites>>

\* The counters in the order in which Check looks at them: the tokens of an
\* hour and of a day, the cost of a day and of a month.
Meters       == 1 .. 4
TokenMeters  == {1, 2}
MeterLimit   == <<TokenPerHour, TokenPerDay, CostPerDay, CostPerMonth>>
MeterSpan    == <<1, HoursPerDay, HoursPerDay, HoursPerDay * DaysPerMonth>>
WindowEnd(m) == (hour \div MeterSpan[m] + 1) * MeterSpan[m]
Used(m, r)   == IF m \in TokenMeters THEN r.tokens ELSE r.cost

DayOf(h)     == h \div HoursPerDay
CostDays     == 0 .. DayOf(LastHour)
ThisMonth    == {d \in CostDays : d \div DaysPerMonth = DayOf(hour) \div DaysPerMonth}

Charges  == [result : Results, day : CostDays]
NoCharge == [day |-> 0]
NothingSeen == [now |-> 0, count |-> [m \in Meters |-> 0]]

\* The cost of the event: when the agent reports its cost, both parts are zero.
EventCost(r) == IF r.reported THEN 0 ELSE r.cost

-----------------------------------------------------------------------------
CostInit ==
  /\ hour = 0 /\ onExceed \in {"reject", "alert", "pause"}
  /\ agentUp = TRUE /\ starts = 0
  /\ stage = [w \in Workers |-> "idle"]
  /\ seen = [w \in Workers |-> NothingSeen] /\ charge = [w \in Workers |-> NoCharge]
  /\ usage = [m \in Meters |-> [count |-> 0, reset |-> 0]]
  /\ counted = [d \in CostDays |-> 0] /\ logged = [d \in CostDays |-> 0]
  /\ torn = FALSE /\ badWrites = 0

Step(w, from, to) == stage[w] = from /\ stage' = [stage EXCEPT ![w] = to]

\* Mutant: only the budget of the month is compared.
MonthExceeded ==
  MonthlyLimit > 0 /\ FoldFunctionOnSet(+, 0, counted, ThisMonth) >= MonthlyLimit
BudgetExceeded ==
  \/ DailyLimit > 0 /\ counted[DayOf(hour)] >= DailyLimit
  \/ MonthlyLimit > 0 /\ FoldFunctionOnSet(+, 0, counted, ThisMonth) >= MonthlyLimit

\* GetBudgetStatus and GetAdapter: the task fails, or goes on to its quota.
PassBudget(w) ==
  /\ counted[DayOf(hour)] < CountCap /\ \A m \in Meters : usage[m].count < CountCap
  /\ ~BudgetExceeded /\ agentUp
  /\ Step(w, "idle", "quota")
  /\ UNCHANGED <<costClock, agentUp, seen, charge, usage, ledger>>

\* buildQuotaConfig finds no agent, because somebody stopped it: no limits.
FindNoConfig(w) ==
  /\ ~agentUp /\ Step(w, "quota", "running")
  /\ UNCHANGED <<costClock, agentUp, seen, charge, usage, ledger>>

\* Check reads the counters and, later, where their windows end, with no lock.
ReadUsage(w) ==
  /\ agentUp /\ Step(w, "quota", "check")
  /\ seen' = [seen EXCEPT ![w] = [now |-> hour, count |-> [m \in Meters |-> usage[m].count]]]
  /\ UNCHANGED <<costClock, agentUp, charge, usage, ledger>>

SeenCount(w, m) == IF seen[w].now >= usage[m].reset THEN 0 ELSE seen[w].count[m]
AtLimit(w, m)   == MeterLimit[m] > 0 /\ SeenCount(w, m) >= MeterLimit[m]
\* From 80% of a token limit, Check returns an alert and looks no further.
Alerted(w, m)   == m \in TokenMeters /\ MeterLimit[m] > 0
                   /\ SeenCount(w, m) * 10 >= MeterLimit[m] * 8
QuotaExceeded(w) ==
  \E m \in Meters : AtLimit(w, m) /\ \A k \in 1 .. m - 1 : ~Alerted(w, k)

Forget(w) == seen' = [seen EXCEPT ![w] = NothingSeen]

AdmitTask(w) ==
  /\ Step(w, "check", "running") /\ Forget(w)
  /\ ~QuotaExceeded(w) \/ onExceed = "alert"
  /\ UNCHANGED <<costClock, agentUp, charge, usage, ledger>>

\* ExceedPause also stops the agent.
RefuseTask(w) ==
  /\ Step(w, "check", "idle") /\ Forget(w)
  /\ QuotaExceeded(w) /\ onExceed # "alert"
  /\ agentUp' = (agentUp /\ onExceed # "pause")
  /\ UNCHANGED <<costClock, charge, usage, ledger>>

ExecuteFails(w) ==
  /\ Step(w, "running", "idle")
  /\ UNCHANGED <<costClock, agentUp, seen, charge, usage, ledger>>

\* The adapter returns.  The event gets its time when it is recorded.
ExecuteSucceeds(w) ==
  /\ Step(w, "running", "persist")
  /\ \E r \in Results :
       charge' = [charge EXCEPT ![w] = [result |-> r, day |-> DayOf(hour)]]
  /\ UNCHANGED <<costClock, agentUp, seen, usage, ledger>>

AddTo(f, w) == [f EXCEPT ![charge[w].day] = @ + EventCost(charge[w].result)]

\* persistEvent.  A line that continues a torn one is malformed, and is skipped
\* when the file is loaded.
PersistEvent(w) ==
  /\ Step(w, "persist", "append")
  /\ logged' = IF torn THEN logged ELSE AddTo(logged, w)
  /\ torn' = FALSE
  /\ UNCHANGED <<costClock, agentUp, seen, charge, usage, counted, badWrites>>

\* Mutant: the event is added although it was not written.
PersistIgnored(w) ==
  /\ badWrites < MaxBadWrites /\ badWrites' = badWrites + 1
  /\ Step(w, "persist", "append")
  /\ torn' \in {torn, TRUE}
  /\ UNCHANGED <<costClock, agentUp, seen, charge, usage, counted, logged>>

\* The file cannot be opened, or the write ends early (no space, power lost):
\* RecordCost returns an error, which ExecuteTask ignores.
PersistFails(w) ==
  /\ badWrites < MaxBadWrites /\ badWrites' = badWrites + 1
  /\ Step(w, "persist", "usage")
  /\ torn' \in {torn, TRUE}
  /\ UNCHANGED <<costClock, agentUp, seen, charge, usage, counted, logged>>

AppendEvent(w) ==
  /\ Step(w, "append", "usage")
  /\ counted' = AddTo(counted, w)
  /\ UNCHANGED <<costClock, agentUp, seen, charge, usage, logged, torn, badWrites>>

RecordUsage(w) ==
  /\ Step(w, "usage", "idle")
  /\ usage' = [m \in Meters |->
                 IF hour >= usage[m].reset
                   THEN [count |-> Used(m, charge[w].result), reset |-> WindowEnd(m)]
                   ELSE [usage[m] EXCEPT !.count = @ + Used(m, charge[w].result)]]
  /\ charge' = [charge EXCEPT ![w] = NoCharge]
  /\ UNCHANGED <<costClock, agentUp, seen, ledger>>

-----------------------------------------------------------------------------
\* The operator, or the circuit breaker, stops the agent, and starts it again.
AgentStops ==
  /\ agentUp /\ agentUp' = FALSE
  /\ UNCHANGED <<costClock, stage, seen, charge, usage, ledger>>

AgentStarts ==
  /\ ~agentUp /\ starts < MaxAgentStarts
  /\ agentUp' = TRUE /\ starts' = starts + 1
  /\ UNCHANGED <<hour, onExceed, stage, seen, charge, usage, ledger>>

HourPasses ==
  /\ hour < LastHour /\ hour' = hour + 1
  /\ UNCHANGED <<onExceed, agentUp, starts, stage, seen, charge, usage, ledger>>

\* The daemon ends and starts again: NewTracker loads the file, the usage is gone.
DaemonRestarts ==
  /\ \E w \in Workers : stage[w] # "idle"
  /\ stage' = [w \in Workers |-> "idle"]
  /\ seen' = [w \in Workers |-> NothingSeen] /\ charge' = [w \in Workers |-> NoCharge]
  /\ usage' = [m \in Meters |-> [count |-> 0, reset |-> 0]]
  /\ counted' = logged
  /\ UNCHANGED <<costClock, agentUp, logged, torn, badWrites>>

ExecuteStep(w) ==
  \/ PassBudget(w) \/ FindNoConfig(w) \/ ReadUsage(w) \/ AdmitTask(w) \/ RefuseTask(w)
  \/ ExecuteFails(w) \/ ExecuteSucceeds(w)
  \/ PersistEvent(w) \/ PersistFails(w) \/ AppendEvent(w) \/ RecordUsage(w)

CostNext ==
  \/ \E w \in Workers : ExecuteStep(w)
  \/ AgentStops \/ AgentStarts \/ HourPasses \/ DaemonRestarts

CostSpec == CostInit /\ [][CostNext]_costVars

-----------------------------------------------------------------------------
Stages == {"idle", "quota", "check", "running", "persist", "append", "usage"}

\* Every variable has its type.
CostTypeOK ==
  /\ hour \in 0 .. LastHour /\ onExceed \in {"reject", "alert", "pause"}
  /\ agentUp \in BOOLEAN /\ starts \in 0 .. MaxAgentStarts
  /\ stage \in [Workers -> Stages]
  /\ seen \in [Workers -> [now : 0 .. LastHour, count : [Meters -> Nat]]]
  /\ charge \in [Workers -> Charges \cup {NoCharge}]
  /\ usage \in [Meters -> [count : Nat, reset : Nat]]
  /\ counted \in [CostDays -> Nat] /\ logged \in [CostDays -> Nat]
  /\ torn \in BOOLEAN /\ badWrites \in 0 .. MaxBadWrites

Concurrency == MaxCharge * Cardinality(Workers)
InWindow(m)  == IF hour >= usage[m].reset THEN 0 ELSE usage[m].count
Stops       == starts + IF agentUp THEN 0 ELSE 1

\* The tokens of an hour, which are checked before a task and counted after it,
\* exceed their limit by no more than the tasks that run at once can use, and as
\* much again for every stop of the agent: whoever passed GetAdapter before it
\* finds no limits any more.
QuotaOvershoot ==
  (TokenPerHour > 0 /\ onExceed # "alert") =>
    InWindow(1) <= TokenPerHour - 1 + Concurrency * (1 + Stops)

\* The spending of a day that the tracker knows exceeds the budget by no more than
\* the tasks that run at once can cost, also when the daemon restarts and loads
\* events that were written and not yet in memory.
BudgetOvershoot ==
  DailyLimit > 0 => counted[DayOf(hour)] <= DailyLimit - 1 + Concurrency

\* Both: what nobody checks and charges in one step stays within what the tasks that
\* run at once can make of it.
SpendingIsBounded == QuotaOvershoot /\ BudgetOvershoot

\* What the tracker counts can be loaded again after a crash at any point: a write
\* that failed takes at most one later event with it.
SpendingOnDisk ==
  \A d \in CostDays : counted[d] <= logged[d] + MaxCharge * badWrites

\* "Check verifies that executing a task for the given agent would not exceed
\* quotas": the tokens of a day exceed their limit by no more than the tasks that
\* run at once can use, as those of an hour do.
\* In the last fifth of an hour's tokens Check does not look at those of the day; at
\* the start of an hour it does.
DayLimitHolds ==
  (TokenPerDay > 0 /\ onExceed = "reject" /\ Stops = 0) =>
    InWindow(2) <= TokenPerDay - 1 + Concurrency
=============================================================================
