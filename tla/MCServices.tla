----------------------------- MODULE MCServices -----------------------------
(***************************************************************************)
(* Instances for TLC of the parts that keep a state of their own and do    *)
(* not interact with each other.  A behaviour is one of one of them, which *)
(* focus names: the others stay in an initial state.                       *)
(***************************************************************************)
EXTENDS TaskCost, CompanyRegistry, CustomAgent, OpenClawAgent, CliAgents, StoreSchema, GoalDesk,
        DagSort, ChatGateway

CONSTANTS c1, c2, n1, n2, n3, m1, m2

VARIABLE focus

servicesVars == <<focus, costVars, registryVars, stdioVars, wsVars, cliVars, schemaVars, deskVars,
                  sortVars, chatVars>>

-----------------------------------------------------------------------------
MCResults == {[tokens |-> 1, cost |-> 1, reported |-> FALSE]}
MCPlan    == <<2, 0>>
MCAsks    == [r \in Callers |-> IF r = c1 THEN {"create", "plain", "apply"} ELSE {"run"}]
MCNames   == {n1, n2, n3}
MCChatOf  == (m1 :> "telegram") @@ (m2 :> "discord")
MCTexts   == {<<"char">>, <<"newline", "char", "newline", "char", "char">>}

-----------------------------------------------------------------------------
Init ==
  /\ focus \in {"cost", "registry", "stdio", "ws", "cli", "schema", "desk", "sort", "chat"}
  /\ IF focus = "cost" THEN CostInit ELSE onExceed = "alert" /\ CostInit
  /\ IF focus = "registry" THEN RegistryInit ELSE answers = {} /\ RegistryInit
  /\ StdioInit /\ WsInit /\ DeskInit
  /\ IF focus = "cli" THEN CliInit ELSE tool = "claude" /\ CliInit
  /\ IF focus = "schema" THEN SchemaInit
     ELSE backend = "postgres" /\ schema = [t \in Tables |-> Absent] /\ SchemaInit
  /\ IF focus = "sort" THEN SortInit ELSE lists = [n \in Names |-> <<>>] /\ SortInit
  /\ IF focus = "chat" THEN ChatInit ELSE tokens = {} /\ ChatInit

NoCost     == UNCHANGED costVars
NoRegistry == UNCHANGED registryVars
NoStdio    == UNCHANGED stdioVars
NoWs       == UNCHANGED wsVars
NoCli      == UNCHANGED cliVars
NoSchema   == UNCHANGED schemaVars
NoDesk     == UNCHANGED deskVars
NoSort     == UNCHANGED sortVars
NoChat     == UNCHANGED chatVars

Next ==
  /\ UNCHANGED focus
  /\ \/ /\ focus = "cost" /\ CostNext
        /\ NoRegistry /\ NoStdio /\ NoWs /\ NoCli /\ NoSchema /\ NoDesk /\ NoSort /\ NoChat
     \/ /\ focus = "registry" /\ RegistryNext
        /\ NoCost /\ NoStdio /\ NoWs /\ NoCli /\ NoSchema /\ NoDesk /\ NoSort /\ NoChat
     \/ /\ focus = "stdio" /\ StdioNext
        /\ NoCost /\ NoRegistry /\ NoWs /\ NoCli /\ NoSchema /\ NoDesk /\ NoSort /\ NoChat
     \/ /\ focus = "ws" /\ WsNext
        /\ NoCost /\ NoRegistry /\ NoStdio /\ NoCli /\ NoSchema /\ NoDesk /\ NoSort /\ NoChat
     \/ /\ focus = "cli" /\ CliNext
        /\ NoCost /\ NoRegistry /\ NoStdio /\ NoWs /\ NoSchema /\ NoDesk /\ NoSort /\ NoChat
     \/ /\ focus = "schema" /\ SchemaNext
        /\ NoCost /\ NoRegistry /\ NoStdio /\ NoWs /\ NoCli /\ NoDesk /\ NoSort /\ NoChat
     \/ /\ focus = "desk" /\ DeskNext
        /\ NoCost /\ NoRegistry /\ NoStdio /\ NoWs /\ NoCli /\ NoSchema /\ NoSort /\ NoChat
     \/ /\ focus = "sort" /\ SortNext
        /\ NoCost /\ NoRegistry /\ NoStdio /\ NoWs /\ NoCli /\ NoSchema /\ NoDesk /\ NoChat
     \/ /\ focus = "chat" /\ ChatNext
        /\ NoCost /\ NoRegistry /\ NoStdio /\ NoWs /\ NoCli /\ NoSchema /\ NoDesk /\ NoSort

\* The fairness of RegistrySpec and of FairSortSpec.
Fairness == WF_registryVars(focus = "registry" /\ CheckAll) /\ WF_sortVars(focus = "sort" /\ SortNext)

Spec == Init /\ [][Next]_servicesVars /\ Fairness

-----------------------------------------------------------------------------
\* The type invariants of the parts.
ServicesTypeOK ==
  /\ CostTypeOK /\ RegistryTypeOK /\ StdioTypeOK /\ WsTypeOK /\ CliTypeOK /\ SchemaTypeOK
  /\ DeskTypeOK /\ ChatTypeOK

\* Both passes of the algorithm end on every request: see Terminates of DagSort.
SortTerminates == focus = "sort" => Terminates
=============================================================================
