CONSTANTS
  Users = {u1, u2}
  NoUser = NoUser
  GoogleFails = TRUE
  MaxSubmits = 3
  MaxReconnects = 0
SPECIFICATION MCSpec
SYMMETRY Symmetry
INVARIANTS
  TypeOK
  
  LoginUnlessRefused
  HudIsAwaited
PROPERTIES
  SeenStaysSeen
