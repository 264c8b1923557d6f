-------------------------------- MODULE Welcome --------------------------------
(***************************************************************************)
(* A new user's way through the app: Session, which decides when Home      *)
(* presents the onboarding and what closing it does, with the pages of     *)
(* module Onboarding behind it.  The start button of the last page is      *)
(* where the two meet: dismissOnboarding calls controllerWantsToDismiss.   *)
(***************************************************************************)
EXTENDS Session, Onboarding

VARIABLES
  patient,    \* history: was a user signed in at the last launch, and waits he since?
  readers,    \* history: users who were shown the last page
  mixed       \* history: users of whom a sign-in was in flight under the onboarding

welcomeVars == <<pageVars, vars, patient, readers, mixed>>

WelcomeInit ==
  /\ PagesInit /\ Init
  /\ patient = FALSE /\ readers = {} /\ mixed = {}

\* A user stays signed in, and while Home fetches him he opens neither the
\* action sheet nor a game.
Waits ==
  /\ modal' # "login"
  /\ InFlight({"fetch"}) # {} => modal' # "sheet" /\ ~inGame'

Under(uid) == modal = "onboarding" /\ \E k \in SignIns : calls[k].uid = uid

\* The app goes on; the pages last as long as their controller is presented.
SessionStep ==
  /\ Next
  /\ ~controllerWantsToDismiss
  /\ \/ /\ modal = "onboarding" /\ modal' = "onboarding"
        /\ UNCHANGED pageVars
     \/ /\ ~(modal = "onboarding" /\ modal' = "onboarding")
        /\ currentIndex' = 0 /\ pageControl' = 0 /\ alpha' = 0
        /\ closed' = FALSE /\ turned' = {0}
  /\ patient' = IF launch THEN currentUser # NoUser ELSE patient /\ Waits
  /\ mixed' = mixed \cup {u \in Users : Under(u)'}
  /\ UNCHANGED readers

TurnPage ==
  /\ modal = "onboarding"
  /\ (\E step \in {-1, 1} : gestureControlDidSwipe(step)) \/ (\E index \in Pages : tapAction(index))
  /\ readers' = IF ItemCount - 1 \in turned' THEN readers \cup {currentUser} ELSE readers
  /\ UNCHANGED <<vars, patient, mixed>>

Start ==
  /\ dismissOnboarding
  /\ controllerWantsToDismiss
  /\ UNCHANGED <<patient, readers, mixed>>

WelcomeNext == SessionStep \/ TurnPage \/ Start

WelcomeSpec == WelcomeInit /\ [][WelcomeNext]_welcomeVars

\* Session's fairness: the user need not turn a page either.
FairWelcome == WelcomeSpec /\ Fairness

--------------------------------------------------------------------------------
(* Properties *)

\* Whoever starts the app signed in, and opens nothing before Home knows him,
\* uses Home only if he was shown the onboarding, now or earlier.  Home tries
\* present() once, when the user has been fetched, and a launch is when it is
\* free to: after a sign-in the fetch may complete while the login pages are
\* still on their way out, and then nothing is presented until the next launch.
RestartShowsOnboarding ==
  patient /\ AtHome /\ calls = <<>> /\ user # NoUser => user.hasSeenOnboarding

\* Nobody's record says that he has seen the onboarding before he was shown its
\* last page, with the time limits: the flag that updateUserHasSeenOnboarding
\* writes is that of the user who turned the pages, unless a sign-in of somebody
\* else was in flight under them; it is his flag then that is written.
SeenHasRead ==
  \A u \in Users \ mixed : profile[u] \in {"seen", "flagOnly"} => u \in readers
================================================================================
