SPECIFICATION CostSpec
CONSTANTS
  Workers = {w1}
  TokenPerHour = 5  TokenPerDay = 8  CostPerDay = 0  CostPerMonth = 0
  DailyLimit = 0  MonthlyLimit = 0
  HoursPerDay = 2  DaysPerMonth = 2  LastHour = 1
  MaxCharge = 1  Results <- MCResults
  MaxAgentStarts = 0  MaxBadWrites = 0  CountCap = 9
INVARIANTS
  DayLimitHolds
CHECK_DEADLOCK FALSE
