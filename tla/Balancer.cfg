SPECIFICATION AdmFairSpec
CONSTANTS
  Request = {r1, r2, r3}
  Backend = {b1}
  User = {u1}
  Model = {m1}
  MaxConn <- OneConn
  Serves <- ServeAll
  Owner <- OneUser
  MaxSelecting = 2
  MaxGen = 2
  Admin = {a1, a2}
  ListMayFail = TRUE
INVARIANTS ActiveCountsCalls OverloadIsBounded BalancerFollowsRows
PROPERTY NodesRecover
CHECK_DEADLOCK FALSE
