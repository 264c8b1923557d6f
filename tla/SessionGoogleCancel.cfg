CONSTANTS
  Users = {u1, u2}
  NoUser = NoUser
  GoogleFails = FALSE
  MaxSubmits = 2
  MaxReconnects = 0
SPECIFICATION Spec
INVARIANTS
  NeverTraps
