-------------------------- MODULE CompanyRegistry --------------------------
(***************************************************************************)
(* The companies of a federation (pkg/federation): the daemon's map, the   *)
(* file in which every change saves the whole map, and the heartbeat that  *)
(* pings the companies one after the other.  Operations hold the mutex of  *)
(* the controller while they ping and save.  `opctl federation` is another *)
(* process with a controller of its own on the same file.                  *)
(*                                                                         *)
(* A company is its name.  Whoever registers a name again gets a new ID:   *)
(* a heartbeat that listed the old one still pings it, and finds no        *)
(* company to give the outcome to.                                         *)
(***************************************************************************)
EXTENDS Naturals

CONSTANTS
  Companies,
  MaxRequests,   \* bound on the requests to change the registry
  MaxBadSaves,   \* bound on the saves that fail
  MaxReloads     \* bound on the restarts of the daemon

ASSUME RegistryAssumption ==
  MaxRequests \in Nat /\ MaxBadSaves \in Nat /\ MaxReloads \in Nat

\* PUT /federation/companies/:id/status stores any string: "other" is every status that
\* is none of the three that pkg/federation knows.
Statuses == {"Online", "Offline", "Busy", "other"}
Registry == [Companies -> Statuses \cup {"absent"}]

VARIABLES
  companies,  \* fc.companies: the status of each name
  file,       \* the names that federation.json holds
  fileTorn,   \* the file cannot be parsed
  cliRuns,    \* an opctl process has loaded the file and is about to save
  cli,        \* the names that it loaded
  answers,    \* the companies that answer a ping
  todo,       \* the companies in checkAll's list that it has yet to ping
  pinged,     \* the company that was pinged last, with the outcome
  gone,       \* of the companies in checkAll's list, those removed since
  wanted,     \* history: the names that requests added and did not remove
  inSync,     \* history: the daemon has never loaded what another process, or
              \* a save that failed, left
  owned,      \* history: the file is as the daemon saved it last
  requests, badSaves, reloads

beat         == <<todo, pinged, gone>>
disk         == <<file, fileTorn>>
opctl        == <<cliRuns, cli>>
history      == <<wanted, inSync, owned>>
registryVars == <<companies, file, fileTorn, cliRuns, cli, answers, todo, pinged, gone, wanted, inSync,
                  owned, requests, badSaves, reloads>>

Known(reg)   == {c \in Companies : reg[c] # "absent"}
Nobody       == [c \in Companies |-> "absent"]
\* loadState: a file that cannot be parsed is logged, and the map stays empty.
Loaded       == IF fileTorn THEN {} ELSE file
\* The companies of checkAll's list that are not dealt with.
Listed       == todo \cup {p[1] : p \in pinged}
Answer(c)    == IF c \in answers THEN "Online" ELSE "Offline"

-----------------------------------------------------------------------------
RegistryInit ==
  /\ companies = Nobody /\ file = {} /\ fileTorn = FALSE
  /\ cliRuns = FALSE /\ cli = {}
  /\ answers \in SUBSET Companies
  /\ todo = {} /\ pinged = {} /\ gone = {}
  /\ wanted = {} /\ inSync = TRUE /\ owned = TRUE
  /\ requests = 0 /\ badSaves = 0 /\ reloads = 0

\* saveState.  os.WriteFile empties the file before it writes: an error leaves
\* the old file or a torn one.  The map keeps the change in either case.
Saved(reg) ==
  /\ file' = Known(reg) /\ fileTorn' = FALSE /\ owned' = TRUE
  /\ UNCHANGED badSaves

SaveFails ==
  /\ badSaves < MaxBadSaves /\ badSaves' = badSaves + 1
  /\ fileTorn' \in {fileTorn, TRUE} /\ owned' = FALSE
  /\ UNCHANGED file

SaveState(reg) == Saved(reg) \/ SaveFails

Request == requests < MaxRequests /\ requests' = requests + 1

\* Mutant of RegisterCompany: the map is saved before the company is in it.
SaveThenRegister(c) ==
  /\ Request /\ companies[c] = "absent"
  /\ companies' = [companies EXCEPT ![c] = Answer(c)]
  /\ SaveState(companies) /\ wanted' = wanted \cup {c}
  /\ UNCHANGED <<opctl, answers, beat, inSync, reloads>>

RegisterCompany(c) ==
  /\ Request /\ companies[c] = "absent"
  /\ companies' = [companies EXCEPT ![c] = Answer(c)]
  /\ SaveState(companies') /\ wanted' = wanted \cup {c}
  /\ UNCHANGED <<opctl, answers, beat, inSync, reloads>>

UnregisterCompany(c) ==
  /\ Request /\ companies[c] # "absent"
  /\ companies' = [companies EXCEPT ![c] = "absent"]
  /\ SaveState(companies') /\ wanted' = wanted \ {c}
  /\ gone' = gone \cup (Listed \cap {c})
  /\ UNCHANGED <<opctl, answers, todo, pinged, inSync, reloads>>

SetStatus(c, s) ==
  /\ companies[c] # "absent"
  /\ companies' = [companies EXCEPT ![c] = s]
  /\ SaveState(companies')

\* The request's string becomes the status, whatever it is.
UpdateCompanyStatus(c) ==
  /\ Request /\ \E s \in Statuses : SetStatus(c, s)
  /\ UNCHANGED <<opctl, answers, beat, wanted, inSync, reloads>>

-----------------------------------------------------------------------------
\* HeartbeatMonitor.checkAll: a list, then a ping and an update for each.  The mutant lists
\* the companies of the file, as `opctl federation companies` does.
ListFile ==
  /\ todo = {} /\ pinged = {} /\ Loaded # {}
  /\ todo' = Loaded
  /\ UNCHANGED <<companies, disk, opctl, answers, pinged, gone, history, requests, badSaves, reloads>>

ListCompanies ==
  /\ todo = {} /\ pinged = {} /\ Known(companies) # {}
  /\ todo' = Known(companies)
  /\ UNCHANGED <<companies, disk, opctl, answers, pinged, gone, history, requests, badSaves, reloads>>

Ping(c) ==
  /\ c \in todo /\ pinged = {}
  /\ todo' = todo \ {c} /\ pinged' = {<<c, Answer(c)>>}
  /\ UNCHANGED <<companies, disk, opctl, answers, gone, history, requests, badSaves, reloads>>

\* Mutant of RecordPing: a company that is back is only logged.
RecordLoss ==
  \E p \in pinged :
    /\ pinged' = {} /\ gone' = gone \ {p[1]}
    /\ IF p[1] \in gone \/ p[2] = "Online" THEN UNCHANGED <<companies, disk, owned, badSaves>>
                                            ELSE SetStatus(p[1], p[2])
    /\ UNCHANGED <<opctl, answers, todo, wanted, inSync, requests, reloads>>

\* UpdateCompanyStatus does not find the ID of a company that was removed: an error that
\* is logged.  A company that answers and is Online already is not written.
NothingToRecord(p) == p[1] \in gone \/ (p[2] = "Online" /\ companies[p[1]] = "Online")

RecordPing ==
  \E p \in pinged :
    /\ pinged' = {} /\ gone' = gone \ {p[1]}
    /\ IF NothingToRecord(p) THEN UNCHANGED <<companies, disk, owned, badSaves>>
                             ELSE SetStatus(p[1], p[2])
    /\ UNCHANGED <<opctl, answers, todo, wanted, inSync, requests, reloads>>

Reachability ==
  /\ \E c \in Companies : answers' \in {answers \cup {c}, answers \ {c}}
  /\ UNCHANGED <<companies, disk, opctl, beat, history, requests, badSaves, reloads>>

\* The daemon ends and starts again.
Reload ==
  /\ reloads < MaxReloads /\ reloads' = reloads + 1
  /\ companies' = [c \in Companies |-> IF c \in Loaded THEN "Offline" ELSE "absent"]
  /\ todo' = {} /\ pinged' = {} /\ gone' = {}
  /\ inSync' = (inSync /\ owned)
  /\ UNCHANGED <<disk, opctl, answers, wanted, owned, requests, badSaves>>

\* Another process loads the file; later it saves what it loaded and one more.
CliStarts ==
  /\ ~cliRuns /\ requests < MaxRequests
  /\ cliRuns' = TRUE /\ cli' = Loaded
  /\ UNCHANGED <<companies, disk, answers, beat, history, requests, badSaves, reloads>>

CliRegisters(c) ==
  /\ cliRuns /\ c \notin cli /\ Request
  /\ file' = cli \cup {c} /\ fileTorn' = FALSE /\ owned' = FALSE
  /\ cliRuns' = FALSE /\ cli' = {}
  /\ UNCHANGED <<companies, answers, beat, wanted, inSync, badSaves, reloads>>

CheckAll == ListCompanies \/ (\E c \in Companies : Ping(c)) \/ RecordPing

RegistryNext ==
  \/ \E c \in Companies : RegisterCompany(c) \/ UnregisterCompany(c) \/ UpdateCompanyStatus(c)
  \/ CheckAll \/ Reachability \/ Reload
  \/ CliStarts \/ \E c \in Companies : CliRegisters(c)

\* The monitor's ticker fires for ever.
RegistrySpec ==
  RegistryInit /\ [][RegistryNext]_registryVars /\ WF_registryVars(CheckAll)

-----------------------------------------------------------------------------
RegistryTypeOK ==
  /\ companies \in Registry /\ file \subseteq Companies /\ fileTorn \in BOOLEAN
  /\ cliRuns \in BOOLEAN /\ cli \subseteq Companies /\ answers \subseteq Companies
  /\ todo \subseteq Companies /\ pinged \subseteq Companies \X {"Online", "Offline"}
  /\ \A p \in pinged : pinged = {p} /\ p[1] \notin todo
  /\ gone \subseteq Listed /\ Listed \ gone \subseteq Known(companies)
  /\ wanted \subseteq Companies /\ inSync \in BOOLEAN /\ owned \in BOOLEAN
  /\ requests \in 0 .. MaxRequests /\ badSaves \in 0 .. MaxBadSaves
  /\ reloads \in 0 .. MaxReloads

\* The daemon knows the companies that were registered and not removed, however
\* heartbeats and failed saves come between, through restarts that load a file
\* which the daemon could save last.
RegistrySurvives == inSync => Known(companies) = wanted

\* A company that answers from some time on is Online in the end, and one that
\* does not is Offline, whatever status requests and restarts had set.
StatusConverges ==
  \A c \in Companies : \A s \in {"Online", "Offline"} :
    <>[](companies[c] # "absent" /\ Answer(c) = s) => <>[](companies[c] = s)
=============================================================================
