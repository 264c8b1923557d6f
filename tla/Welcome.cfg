CONSTANTS
  ItemCount = 3
  Users = {u1, u2}
  NoUser = NoUser
  GoogleFails = TRUE
  MaxSubmits = 2
  MaxReconnects = 1
SPECIFICATION FairWelcome
INVARIANTS
  StartOnLastPage
  RestartShowsOnboarding
  SeenHasRead
PROPERTIES
  HudGoesAway
