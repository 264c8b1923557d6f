CONSTANTS
  Users = {u1}
  NoUser = NoUser
  GoogleFails = FALSE
  MaxSubmits = 2
  MaxReconnects = 0
SPECIFICATION Spec
INVARIANTS
  SignedOutSeesLogin
