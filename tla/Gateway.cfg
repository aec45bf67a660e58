SPECIFICATION Spec
CONSTANTS
  Request = {r1, r2, r3}
  r1 = r1
  r2 = r2
  r3 = r3
  User = {u1, u2}
  u1 = u1
  u2 = u2
  Department = {d1}
  d1 = d1
  k1 = k1
  k2 = k2
  NoDepartment = NoDepartment
  None = None
  UserOf <- MCUserOf
  KeyOf <- MCKeyOf
  DepartmentOf <- MCDepartmentOf
  Served <- MCServed
  Window <- MCWindow
  Leaving = {u1}
  MaxCalls = 2
  Usages = {2}
  MaxConcurrency = 1
  WeekLength = 2
  MonthLength = 4
  RetentionDays = 1
  FirstDay = 4
  MaxDay = 5
  MaxFaults = 1
INVARIANTS
  AccountsBalance
  RecordsNeverExceedCalls
  ReportsAgree
  CallsAreLogged
  SlotsFollowHandlers
CHECK_DEADLOCK FALSE
