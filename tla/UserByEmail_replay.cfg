SPECIFICATION Spec
CONSTANTS
  Users = {u1, u2}
  Emails = {e1, e2, e3}
  MaxEvents = 4
INVARIANT QueriesFindTheUser
CHECK_DEADLOCK FALSE
