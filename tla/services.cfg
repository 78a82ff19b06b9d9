SPECIFICATION Spec
CONSTANTS
  c1 = c1  c2 = c2  n1 = n1  n2 = n2  n3 = n3
  \* TaskCost
  Workers = {w1, w2}
  TokenPerHour = 2  TokenPerDay = 3  CostPerDay = 0  CostPerMonth = 3
  DailyLimit = 2  MonthlyLimit = 3
  HoursPerDay = 2  DaysPerMonth = 2  LastHour = 1
  MaxCharge = 1  Results <- MCResults
  MaxAgentStarts = 1  MaxBadWrites = 1  CountCap = 3
  \* CompanyRegistry
  Companies = {c1, c2}  MaxRequests = 3  MaxBadSaves = 1  MaxReloads = 1
  \* CustomAgent, OpenClawAgent, CliAgents
  StdioTasks = {t1, t2}  AnswerLength = 2  MayEnd = TRUE
  Requests = {r1, r2}  Connect = hello  MaxRepeats = 1
  CliTasks = {t1, t2}
  \* StoreSchema
  MaxOpens = 2  MaxLocked = 1
  \* GoalDesk
  Callers = {c1, c2}  Editors = {e1}  Asks <- MCAsks  Plan <- MCPlan
  LastTick = 2  MaxMishaps = 1
  \* DagSort
  Names <- MCNames  Unknown = Unknown  MaxDeps = 2
  \* ChatGateway
  m1 = m1  m2 = m2
  Chats = {m1, m2}  ChatOf <- MCChatOf  Texts <- MCTexts  MaxLength = 2
INVARIANTS
  ServicesTypeOK
  SpendingIsBounded
  SpendingOnDisk
  RegistrySurvives
  OwnAnswer
  DrainNeverBlocks
  NobodyIsForgotten
  SerialStopIsClean
  StatementsFit
  TreeIsConnected
  WorkIsReal
  SortIsRight
  ChatIsSafe
PROPERTIES
  StatusConverges
  SortTerminates
CHECK_DEADLOCK FALSE
