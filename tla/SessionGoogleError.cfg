CONSTANTS
  Users = {u1, u2}
  NoUser = NoUser
  GoogleFails = TRUE
  MaxSubmits = 2
  MaxReconnects = 0
SPECIFICATION Spec
INVARIANTS
  SignedOutSeesLogin
