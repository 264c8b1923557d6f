----------------------------- MODULE WelcomeProofs -----------------------------
(***************************************************************************)
(* The onboarding, for any number of pages but one: its pages, by          *)
(* themselves and in the app; and, for any number of users and sign-ins,   *)
(* who is marked as having seen it and that new users are shown it.        *)
(***************************************************************************)
EXTENDS Welcome, SessionProofs

--------------------------------------------------------------------------------
(* The pages *)

PagesInv == PagesTypeOK /\ StartOnLastPage /\ currentIndex \in turned /\ ClosedAfterLastPage

LEMMA TurnPages ==
  ASSUME PagesInv, NEW index \in Int, turnTo(index), UNCHANGED closed
  PROVE  PagesInv'
<1>1. CASE index \in Pages
  <2>1. /\ currentIndex' = index /\ pageControl' = index /\ closed' = closed
        /\ turned' = turned \cup {index}
        /\ alpha' = IF index = ItemCount - 1 THEN 1 ELSE 0
    BY <1>1 DEF turnTo, onboardingWillTransitonToIndex, shouldShowGetStartedButton
  <2>2. PagesTypeOK' /\ ClosedAfterLastPage' /\ currentIndex' \in turned'
    BY <1>1, <2>1 DEF PagesInv, PagesTypeOK, ClosedAfterLastPage
  <2>3. StartOnLastPage'
    BY <2>1 DEF StartOnLastPage
  <2> QED
    BY <2>2, <2>3 DEF PagesInv
<1>2. CASE index \notin Pages
  BY <1>2 DEF PagesInv, PagesTypeOK, StartOnLastPage, ClosedAfterLastPage, turnTo
<1> QED
  BY <1>1, <1>2

LEMMA InitPages == PagesInit => PagesInv
<1> SUFFICES ASSUME PagesInit PROVE PagesInv
  OBVIOUS
<1>1. 0 \in Pages /\ 0 # ItemCount - 1
  BY ItemCountAssumption DEF Pages
<1>2. currentIndex = 0 /\ pageControl = 0 /\ alpha = 0 /\ turned = {0}
  BY DEF PagesInit
<1>3. closed = FALSE
  BY Zenon DEF PagesInit
<1>4. StartOnLastPage /\ currentIndex \in turned
  BY <1>1, <1>2 DEF StartOnLastPage
<1>5. PagesTypeOK /\ ClosedAfterLastPage
  BY <1>1, <1>2, <1>3, Zenon DEF PagesTypeOK, ClosedAfterLastPage
<1> QED
  BY <1>4, <1>5 DEF PagesInv

LEMMA StepPages == PagesInv /\ [PagesNext]_pageVars => PagesInv'
<1> SUFFICES ASSUME PagesInv, [PagesNext]_pageVars PROVE PagesInv'
  OBVIOUS
<1>1. ASSUME NEW step \in {-1, 1}, gestureControlDidSwipe(step) PROVE PagesInv'
  <2>1. currentIndex + step \in Int
    BY ItemCountAssumption DEF PagesInv, PagesTypeOK, Pages
  <2> QED
    BY <1>1, <2>1, TurnPages DEF gestureControlDidSwipe
<1>2. ASSUME NEW index \in Pages, tapAction(index) PROVE PagesInv'
  BY <1>2, ItemCountAssumption, TurnPages DEF tapAction, Pages
<1>3. CASE dismissOnboarding
  BY <1>3 DEF dismissOnboarding, PagesInv, PagesTypeOK, StartOnLastPage, ClosedAfterLastPage
<1>4. CASE UNCHANGED pageVars
  BY <1>4 DEF pageVars, PagesInv, PagesTypeOK, StartOnLastPage, ClosedAfterLastPage
<1> QED
  BY <1>1, <1>2, <1>3, <1>4 DEF PagesNext

\* The variables of the onboarding keep their types.
THEOREM PagesTypeCorrect == PagesSpec => []PagesTypeOK
<1>1. PagesInv => PagesTypeOK
  BY DEF PagesInv
<1> QED
  BY <1>1, InitPages, StepPages, PTL DEF PagesSpec

\* dismissOnboarding is not reached before the last page, for every number of
\* pages but one.
THEOREM LastPageFirst == PagesSpec => []ClosedAfterLastPage
<1>1. PagesInv => ClosedAfterLastPage
  BY DEF PagesInv
<1> QED
  BY <1>1, InitPages, StepPages, PTL DEF PagesSpec

\* In the app the pages take their own steps, or a new controller is presented.
LEMMA PagesInApp ==
  ASSUME PagesInv, [WelcomeNext]_welcomeVars
  PROVE  PagesInv'
<1>1. PagesInit' => PagesInv'
  BY InitPages, PTL
<1>2. PagesInit' \/ [PagesNext]_pageVars
  <2>1. CASE SessionStep
    BY <2>1 DEF SessionStep, PagesInit
  <2>2. CASE TurnPage \/ Start
    BY <2>2 DEF TurnPage, Start, PagesNext
  <2> QED
    BY <2>1, <2>2 DEF WelcomeNext, welcomeVars
<1> QED
  BY <1>1, <1>2, StepPages

\* The pages, the page control and the start button move together, for every
\* number of pages but one, however often the onboarding is presented, closed
\* and interrupted by a restart.
THEOREM Paging == WelcomeSpec => []StartOnLastPage
<1>1. WelcomeInit => PagesInv
  BY InitPages DEF WelcomeInit
<1>2. PagesInv /\ [WelcomeNext]_welcomeVars => PagesInv'
  BY PagesInApp
<1>3. PagesInv => StartOnLastPage
  BY DEF PagesInv
<1> QED
  BY <1>1, <1>2, <1>3, PTL DEF WelcomeSpec

--------------------------------------------------------------------------------
(* Who is marked *)

\* Whoever has the last page before him was shown it, or his sign-in was in
\* flight under the onboarding.
Reading == modal = "onboarding" /\ ItemCount - 1 \in turned => currentUser \in readers \cup mixed

\* The flag is on its way to the server for those only.
FlagsRead == \A k \in DOMAIN calls : calls[k].op = "setSeen" => calls[k].uid \in readers \cup mixed

ReadInv == TypeOK /\ PagesInv /\ Reading /\ FlagsRead /\ SeenHasRead

\* Nobody signs out while the onboarding is on the screen, and who signs in is
\* one of the mixed.
LEMMA SameReader ==
  ASSUME CallTypes, ServerTypes, Kind, SessionStep, modal = "onboarding", modal' = "onboarding"
  PROVE  currentUser' = currentUser \/ currentUser' \in mixed'
<1>1. ASSUME NEW k \in DOMAIN calls, Accepts(k)
      PROVE  currentUser' = currentUser \/ currentUser' \in mixed'
  <2>1. CASE calls[k].op = "resetPassword"
    BY <1>1, <2>1, Acceptance
  <2>2. CASE calls[k].op # "resetPassword"
    <3>1. /\ calls[k].op \in AuthOps /\ Changed(k, Ans(k, "ok"))
          /\ calls[k].uid \in Users /\ currentUser' = calls[k].uid
      BY <1>1, <2>2, Acceptance
    <3>2. k \in DOMAIN calls' /\ calls'[k].op = calls[k].op /\ calls'[k].uid = calls[k].uid
      BY <3>1, AnsOp DEF Changed
    <3>3. \A u \in Users : u = calls[k].uid => Under(u)'
      BY <3>1, <3>2 DEF Under, SignIns, InFlight, AuthOps, LoginOps, PageOps
    <3> QED
      BY <3>1, <3>3 DEF SessionStep
  <2> QED
    BY <2>1, <2>2
<1>2. CASE Quietly \/ launch \/ Closes \/ Traps
  BY <1>2 DEF Quietly, launch, Closes, Traps, serverVars
<1>3. ASSUME NEW c, Submits(c) PROVE currentUser' = currentUser
  BY <1>3 DEF Submits
<1>4. ASSUME NEW k \in DOMAIN calls,
             Ends(k) \/ Writes(k) \/ Reads(k) \/ Goes(k) \/ Drops(k) \/ Leaves(k)
      PROVE  currentUser' = currentUser
  BY <1>4 DEF Ends, Writes, databaseWrites, Reads, databaseReads, Goes, Drops, Leaves, serverVars
<1>5. ASSUME NEW k \in DOMAIN calls, Fetched(k) \/ WasSeen(k) PROVE currentUser' = currentUser
  BY <1>5 DEF Fetched, WasSeen, fetchCompleted, setSeenCompleted, serverVars
<1> QED
  BY <1>1, <1>2, <1>3, <1>4, <1>5 DEF Kind

\* Every call for the flag was there before, unless the onboarding is closed.
LEMMA OldFlags ==
  ASSUME CallTypes, Kind, ~Closes, NEW j \in DOMAIN calls', calls'[j].op = "setSeen"
  PROVE  \E i \in DOMAIN calls : calls[i].op = "setSeen" /\ calls[i].uid = calls'[j].uid
<1>1. Len(calls) \in Nat /\ DOMAIN calls = 1 .. Len(calls)
  BY DEF CallTypes
<1>2. CASE Quietly \/ Traps
  BY <1>2 DEF Quietly, Traps
<1>3. ~launch
  BY Launched
<1>4. ASSUME NEW c, Submits(c)
      PROVE  \E i \in DOMAIN calls : calls[i].op = "setSeen" /\ calls[i].uid = calls'[j].uid
  BY <1>1, <1>4 DEF Submits, Added
<1>5. ASSUME NEW k \in DOMAIN calls, NEW c, Changed(k, c), c.op = calls[k].op,
             c.uid = calls[k].uid \/ c.op # "setSeen"
      PROVE  \E i \in DOMAIN calls : calls[i].op = "setSeen" /\ calls[i].uid = calls'[j].uid
  BY <1>5 DEF Changed
<1>6. ASSUME NEW k \in DOMAIN calls, Ends(k) \/ Accepts(k) \/ Writes(k) \/ Reads(k)
      PROVE  \E i \in DOMAIN calls : calls[i].op = "setSeen" /\ calls[i].uid = calls'[j].uid
  <2>1. CASE Ends(k)
    BY <1>5, <2>1 DEF Ends, AuthOps
  <2>2. CASE Accepts(k) \/ Writes(k) \/ Reads(k)
    BY <1>5, <2>2, AnsOp DEF Accepts, Writes, Reads
  <2> QED
    BY <1>6, <2>1, <2>2
<1>7. ASSUME NEW k \in DOMAIN calls, NEW c, Removed(k) \/ Replaced(k, c), c.op # "setSeen"
      PROVE  \E i \in DOMAIN calls : calls[i].op = "setSeen" /\ calls[i].uid = calls'[j].uid
  BY <1>7, AfterRemoved, AfterReplaced DEF Same
<1>8. ASSUME NEW k \in DOMAIN calls, Goes(k)
      PROVE  \E i \in DOMAIN calls : calls[i].op = "setSeen" /\ calls[i].uid = calls'[j].uid
  <2>1. calls[k] \in Calls
    BY DEF CallTypes
  <2>2. PICK op \in {"register", "credential", "snapshot", "googleProfile"} : Replaced(k, Follow(k, op))
    BY <1>8 DEF Goes
  <2>3. Follow(k, op).op = op
    BY <2>1 DEF Follow, Calls
  <2> QED
    BY <1>7, <2>2, <2>3
<1>9. ASSUME NEW k \in DOMAIN calls, Drops(k) \/ Leaves(k) \/ Fetched(k) \/ WasSeen(k)
      PROVE  \E i \in DOMAIN calls : calls[i].op = "setSeen" /\ calls[i].uid = calls'[j].uid
  <2>1. Call("fetch", currentUser).op # "setSeen"
    BY DEF Call
  <2> QED
    BY <1>7, <1>9, <2>1 DEF Drops, Leaves, Fetched, WasSeen
<1> QED
  BY <1>2, <1>3, <1>4, <1>6, <1>8, <1>9 DEF Kind

\* What the steps of the composition are to the session.
LEMMA SessionSteps ==
  ASSUME TypeOK, [WelcomeNext]_welcomeVars
  PROVE  /\ TypeOK'
         /\ \/ SessionStep /\ Kind /\ ~Closes
            \/ TurnPage
            \/ Start /\ UNCHANGED serverVars /\ modal = "onboarding" /\ modal' = "leaving"
            \/ UNCHANGED welcomeVars
<1>1. [Next]_vars
  BY DEF WelcomeNext, welcomeVars, SessionStep, TurnPage, Start, Next, UserActs
<1>2. TypeOK' /\ Kind
  BY <1>1, StepTypeOK, TypeParts, Kinds
<1>3. CASE SessionStep
  BY <1>2, <1>3 DEF SessionStep, Closes
<1>4. CASE Start
  BY <1>2, <1>4 DEF Start, controllerWantsToDismiss
<1> QED
  BY <1>2, <1>3, <1>4 DEF WelcomeNext

LEMMA StepRead ==
  ASSUME ReadInv, [WelcomeNext]_welcomeVars
  PROVE  ReadInv'
<1>1. TypeOK' /\ PagesInv'
  BY SessionSteps, PagesInApp DEF ReadInv
<1>2. CallTypes /\ ServerTypes
  BY TypeParts DEF ReadInv
<1>3. CASE SessionStep /\ Kind /\ ~Closes
  <2>1. readers' = readers /\ mixed \subseteq mixed'
    BY <1>3 DEF SessionStep
  <2>2. Reading'
    <3>1. CASE modal # "onboarding" /\ modal' = "onboarding"
      <4>1. turned' = {0} /\ ItemCount - 1 # 0
        BY <1>3, <3>1, ItemCountAssumption DEF SessionStep
      <4> QED
        BY <4>1 DEF Reading
    <3>2. CASE modal = "onboarding" /\ modal' = "onboarding"
      <4>1. turned' = turned
        BY <1>3, <3>2 DEF SessionStep, pageVars
      <4>2. currentUser' = currentUser \/ currentUser' \in mixed'
        BY <1>2, <1>3, <3>2, SameReader
      <4> QED
        BY <2>1, <3>2, <4>1, <4>2 DEF ReadInv, Reading
    <3>3. CASE modal' # "onboarding"
      BY <3>3 DEF Reading
    <3> QED
      BY <3>1, <3>2, <3>3
  <2>3. FlagsRead'
    BY <1>2, <1>3, <2>1, OldFlags DEF ReadInv, FlagsRead
  <2>4. SeenHasRead'
    <3>1. CASE profile' = profile
      BY <2>1, <3>1 DEF ReadInv, SeenHasRead
    <3>2. ASSUME NEW k \in DOMAIN calls, Writes(k) PROVE SeenHasRead'
      <4>1. /\ \A u \in Users : u # calls[k].uid => profile'[u] = profile[u]
            /\ calls[k].op # "setSeen" => profile'[calls[k].uid] \in {profile[calls[k].uid], "new"}
        BY <1>2, <3>2, Writing
      <4>2. calls[k].op = "setSeen" => calls[k].uid \in readers \cup mixed
        BY DEF ReadInv, FlagsRead
      <4> QED
        BY <2>1, <4>1, <4>2 DEF ReadInv, SeenHasRead
    <3> QED
      BY <1>3, <3>1, <3>2, ServerStays
  <2> QED
    BY <1>1, <2>2, <2>3, <2>4 DEF ReadInv
<1>4. CASE TurnPage
  <2>1. /\ UNCHANGED <<profile, currentUser, calls, modal>>
        /\ readers' = IF ItemCount - 1 \in turned' THEN readers \cup {currentUser} ELSE readers
        /\ mixed' = mixed
    BY <1>4 DEF TurnPage, vars, serverVars
  <2> QED
    BY <1>1, <2>1 DEF ReadInv, Reading, FlagsRead, SeenHasRead
<1>5. CASE Start /\ UNCHANGED serverVars /\ modal = "onboarding" /\ modal' = "leaving"
  <2>1. readers' = readers /\ mixed' = mixed /\ profile' = profile
    BY <1>5 DEF Start, serverVars
  <2>2. currentUser \in readers \cup mixed
    BY <1>5 DEF ReadInv, Reading, Start, dismissOnboarding, PagesInv, StartOnLastPage
  <2>3. FlagsRead'
    <3>1. CASE currentUser = NoUser
      <4>1. calls' = calls
        BY <1>5, <3>1 DEF Start, controllerWantsToDismiss
      <4> QED
        BY <2>1, <4>1 DEF ReadInv, FlagsRead
    <3>2. CASE currentUser # NoUser
      <4>1. calls' = Append(calls, Call("setSeen", currentUser))
        BY <1>5, <3>2 DEF Start, controllerWantsToDismiss
      <4>2. Call("setSeen", currentUser) \in Calls /\ Call("setSeen", currentUser).uid = currentUser
        BY <1>2, <3>2, NewCall DEF ServerTypes, Ops
      <4>3. Added(Call("setSeen", currentUser))
        BY <1>2, <4>1, <4>2, IsAdded
      <4>4. Len(calls) \in Nat /\ DOMAIN calls = 1 .. Len(calls)
        BY <1>2 DEF CallTypes
      <4>5. \A j \in DOMAIN calls' : calls'[j].uid = currentUser \/ (j \in DOMAIN calls /\ calls'[j] = calls[j])
        BY <4>2, <4>3, <4>4 DEF Added
      <4> QED
        BY <2>1, <2>2, <4>5 DEF ReadInv, FlagsRead
    <3> QED
      BY <3>1, <3>2
  <2> QED
    BY <1>1, <1>5, <2>1, <2>3 DEF ReadInv, Reading, SeenHasRead
<1>6. CASE UNCHANGED welcomeVars
  BY <1>1, <1>6 DEF welcomeVars, vars, serverVars, pageVars, ReadInv, Reading, FlagsRead, SeenHasRead
<1> QED
  BY <1>3, <1>4, <1>5, <1>6, SessionSteps DEF ReadInv

\* Nobody's record says that he has seen the onboarding unless he was shown its
\* last page, or his sign-in was in flight while another had it before him; for
\* any number of users, pages and sign-ins and for database calls that overtake
\* each other.
THEOREM OnlyReadersAreMarked == WelcomeSpec => []SeenHasRead
<1>1. WelcomeInit => ReadInv
  <2> SUFFICES ASSUME WelcomeInit PROVE ReadInv
    OBVIOUS
  <2>1. TypeOK /\ PagesInv
    BY InitTypeOK, InitPages DEF WelcomeInit
  <2>2. calls = <<>> /\ modal = "login" /\ \A u \in Users : profile[u] = "none"
    BY DEF WelcomeInit, Init
  <2> QED
    BY <2>1, <2>2 DEF ReadInv, Reading, FlagsRead, SeenHasRead
<1>2. ReadInv /\ [WelcomeNext]_welcomeVars => ReadInv'
  BY StepRead
<1>3. ReadInv => SeenHasRead
  BY DEF ReadInv
<1> QED
  BY <1>1, <1>2, <1>3, PTL DEF WelcomeSpec

--------------------------------------------------------------------------------
(* Who is welcomed *)

Fetching == \E k \in DOMAIN calls : calls[k].op = "fetch"
Flagging == \E k \in DOMAIN calls : calls[k].op = "setSeen"
Unseen   == user # NoUser /\ ~user.hasSeenOnboarding

\* Home has been started and nothing but the user is being fetched.
Asking ==
  /\ Len(calls) = 1 /\ calls[1].op = "fetch"
  /\ user = NoUser /\ modal = "none" /\ ~inGame

\* If a signed-in user has started the app and waited: no login page is or was
\* there, and Home is either asking for him or, once it knows him to be new, has
\* presented the onboarding, or he has just closed it.
Welcomed ==
  patient =>
    /\ \A k \in DOMAIN calls : calls[k].op \in {"fetch", "setSeen"}
    /\ modal \notin {"login", "trapped"} /\ currentUser # NoUser
    /\ Asking \/ (~Fetching /\ (Unseen => modal = "onboarding" \/ Flagging))

LEMMA StepWelcomed ==
  ASSUME TypeOK, Welcomed, SessionStep, Kind, ~Closes
  PROVE  Welcomed'
<1>1. CallTypes /\ ServerTypes /\ HomeTypes
  BY TypeParts
<1>2. Len(calls) \in Nat /\ DOMAIN calls = 1 .. Len(calls)
  BY <1>1 DEF CallTypes
<1> DEFINE Settled == ~Fetching /\ (Unseen => modal = "onboarding" \/ Flagging)
           Goal == /\ \A k \in DOMAIN calls' : calls'[k].op \in {"fetch", "setSeen"}
                   /\ modal' \notin {"login", "trapped"} /\ currentUser' # NoUser
                   /\ Asking' \/ Settled'
<1>3. SUFFICES ASSUME patient' PROVE Goal
  BY DEF Welcomed
<1>4. CASE launch
  <2>1. currentUser' = currentUser /\ currentUser # NoUser /\ user' = NoUser
    BY <1>3, <1>4 DEF launch, SessionStep
  <2>2. modal' = "none" /\ ~inGame'
    BY <1>4, <2>1 DEF launch, authenticateUser
  <2>3. calls' = <<Call("fetch", currentUser)>>
    BY <1>4, <2>1 DEF launch, fetchUser
  <2>4. Len(calls') = 1 /\ DOMAIN calls' = {1} /\ calls'[1].op = "fetch"
    BY <2>3 DEF Call
  <2> QED
    BY <2>1, <2>2, <2>4 DEF Asking
<1>5. SUFFICES ASSUME ~launch PROVE Goal
  BY <1>4
<1>6. patient /\ Waits
  BY <1>3, <1>5 DEF SessionStep
<1>7. /\ \A k \in DOMAIN calls : calls[k].op \in {"fetch", "setSeen"}
      /\ modal \notin {"login", "trapped"} /\ currentUser # NoUser
      /\ Asking \/ Settled
  BY <1>6 DEF Welcomed
<1>8. modal' # "login" /\ (Fetching => modal' # "sheet" /\ ~inGame')
  BY <1>6 DEF Waits, Fetching, InFlight
<1>9. Asking => Fetching
  BY <1>2 DEF Asking, Fetching
<1>10. CASE Quietly
  <2>1. UNCHANGED <<calls, user, currentUser>>
    BY <1>8, <1>10 DEF Quietly, homeVars
  <2>2. modal' = modal \/ (modal \in {"none", "sheet", "leaving"} /\ modal' \in {"none", "sheet"})
    BY <1>8, <1>10 DEF Quietly
  <2>3. CASE Asking
    BY <1>7, <1>8, <1>9, <2>1, <2>2, <2>3 DEF Asking
  <2>4. CASE Settled
    BY <1>7, <2>1, <2>2, <2>4 DEF Fetching, Flagging, Unseen
  <2> QED
    BY <1>7, <2>3, <2>4
<1>11. ~Traps /\ \A c : ~Submits(c)
  BY <1>7 DEF Traps, Submits
<1>12. ASSUME NEW k \in DOMAIN calls
       PROVE  ~(Ends(k) \/ Accepts(k) \/ Goes(k) \/ Drops(k) \/ Leaves(k))
  <2>1. calls[k].op \in {"fetch", "setSeen"}
    BY <1>7
  <2>2. calls[k].op \notin AuthOps /\ calls[k].op \notin LoginOps
    BY <2>1 DEF AuthOps, LoginOps, PageOps
  <2>3. ~Accepts(k)
    BY <1>1, <2>2, Acceptance
  <2> QED
    BY <2>1, <2>2, <2>3 DEF Ends, Goes, Drops, Leaves
<1>13. ASSUME NEW k \in DOMAIN calls, Writes(k) \/ Reads(k) PROVE Goal
  <2>1. UNCHANGED <<modal, user, currentUser, inGame>>
    BY <1>13 DEF Writes, databaseWrites, Reads, databaseReads, serverVars, homeVars
  <2>2. PICK c : Changed(k, c) /\ c.op = calls[k].op
    BY <1>1, <1>13, AnsOp DEF Writes, Reads
  <2>3. DOMAIN calls' = DOMAIN calls /\ \A j \in DOMAIN calls : calls'[j].op = calls[j].op
    BY <2>2 DEF Changed
  <2>4. (Fetching' <=> Fetching) /\ (Flagging' <=> Flagging) /\ (Unseen' <=> Unseen)
    BY <2>1, <2>3 DEF Fetching, Flagging, Unseen
  <2>5. Asking => Asking'
    <3>1. TypeOK'
      BY StepTypeOK DEF SessionStep
    <3>2. CallTypes'
      BY <3>1 DEF TypeOK, CallTypes
    <3>3. Len(calls') \in Nat /\ DOMAIN calls' = 1 .. Len(calls')
      BY <3>2 DEF CallTypes
    <3>4. Len(calls') = Len(calls)
      BY <1>2, <2>3, <3>3
    <3> QED
      BY <1>2, <2>1, <2>3, <3>4 DEF Asking
  <2> QED
    BY <1>7, <2>1, <2>3, <2>4, <2>5
<1>14. ASSUME NEW k \in DOMAIN calls, Fetched(k) PROVE Goal
  <2>1. calls[k].op = "fetch" /\ currentUser' = currentUser /\ Removed(k)
    BY <1>14 DEF Fetched, fetchCompleted, Completes, serverVars
  <2>2. Asking
    BY <1>7, <2>1 DEF Fetching
  <2>3. DOMAIN calls' = {}
    BY <2>1, <2>2 DEF Asking, Removed
  <2>4. modal' \notin {"login", "trapped"}
    BY <1>7, <1>14, HomeBlocks
  <2>5. Unseen' => modal' = "onboarding"
    <3>1. CASE UNCHANGED <<homeVars, modal>>
      BY <2>2, <3>1 DEF homeVars, Unseen, Asking
    <3>2. ASSUME NEW u, setUser(u) PROVE Unseen' => modal' = "onboarding"
      BY <2>2, <3>2 DEF setUser, presentOnboardingIfNeccessary, Unseen, Asking
    <3> QED
      BY <1>14, <3>1, <3>2 DEF Fetched, fetchCompleted
  <2> QED
    BY <1>7, <2>1, <2>3, <2>4, <2>5 DEF Fetching
<1>15. ASSUME NEW k \in DOMAIN calls, WasSeen(k) PROVE Goal
  <2>1. calls[k].op = "setSeen" /\ currentUser' = currentUser /\ Removed(k)
    BY <1>15 DEF WasSeen, setSeenCompleted, Completes, serverVars
  <2>2. ~Asking
    BY <1>2, <2>1 DEF Asking
  <2>3. \A j \in DOMAIN calls' : calls'[j].op \in {"fetch", "setSeen"} /\ calls'[j].op # "fetch"
    BY <1>1, <1>7, <2>1, <2>2, AfterRemoved DEF Fetching, Same
  <2>4. modal' \notin {"login", "trapped"}
    BY <1>7, <1>15, HomeBlocks
  <2>5. ~Unseen'
    <3>1. CASE user = NoUser
      BY <1>15, <3>1 DEF WasSeen, setSeenCompleted, homeVars, Unseen
    <3>2. CASE user # NoUser
      <4>1. user' = [user EXCEPT !.hasSeenOnboarding = TRUE]
        BY <1>15, <3>2 DEF WasSeen, setSeenCompleted, setUser
      <4>2. user'.hasSeenOnboarding
        BY <1>1, <3>2, <4>1 DEF HomeTypes
      <4> QED
        BY <4>2 DEF Unseen
    <3> QED
      BY <3>1, <3>2
  <2> QED
    BY <1>7, <2>1, <2>3, <2>4, <2>5 DEF Fetching
<1> QED
  BY <1>5, <1>10, <1>11, <1>12, <1>13, <1>14, <1>15 DEF Kind

LEMMA StartWelcomed ==
  ASSUME TypeOK, Welcomed, Start, UNCHANGED serverVars, modal = "onboarding", modal' = "leaving"
  PROVE  Welcomed'
<1>1. CallTypes /\ ServerTypes
  BY TypeParts
<1> SUFFICES ASSUME patient'
             PROVE  /\ \A k \in DOMAIN calls' : calls'[k].op \in {"fetch", "setSeen"}
                    /\ currentUser' # NoUser /\ ~Fetching' /\ Flagging'
  BY DEF Welcomed
<1>2. /\ currentUser # NoUser /\ currentUser' = currentUser
      /\ \A k \in DOMAIN calls : calls[k].op \in {"fetch", "setSeen"}
      /\ ~Fetching
  BY DEF Start, Welcomed, Asking, serverVars
<1>3. calls' = Append(calls, Call("setSeen", currentUser))
  BY <1>2 DEF Start, controllerWantsToDismiss
<1>4. Call("setSeen", currentUser) \in Calls /\ Call("setSeen", currentUser).op = "setSeen"
  BY <1>1, <1>2, NewCall DEF ServerTypes, Ops
<1>5. Added(Call("setSeen", currentUser))
  BY <1>1, <1>3, <1>4, IsAdded
<1>6. Len(calls) \in Nat /\ DOMAIN calls = 1 .. Len(calls)
  BY <1>1 DEF CallTypes
<1>7. Len(calls) + 1 \in DOMAIN calls' /\ calls'[Len(calls) + 1].op = "setSeen"
  BY <1>4, <1>5, <1>6 DEF Added
<1>8. \A j \in DOMAIN calls' : calls'[j].op = "setSeen" \/ (j \in DOMAIN calls /\ calls'[j] = calls[j])
  BY <1>4, <1>5, <1>6 DEF Added
<1> QED
  BY <1>2, <1>7, <1>8 DEF Fetching, Flagging

\* A signed-in user who starts the app, and opens nothing before Home knows him,
\* is shown the onboarding before he gets to use Home if he is new, however late
\* the answers are; for any number of users, also when the connection is lost.
THEOREM RestartsAreWelcomed == WelcomeSpec => []RestartShowsOnboarding
<1> DEFINE Inv == TypeOK /\ Welcomed
<1>1. WelcomeInit => Inv
  BY InitTypeOK DEF WelcomeInit, Welcomed
<1>2. Inv /\ [WelcomeNext]_welcomeVars => Inv'
  <2> SUFFICES ASSUME TypeOK, Welcomed, [WelcomeNext]_welcomeVars PROVE TypeOK' /\ Welcomed'
    OBVIOUS
  <2>1. TypeOK'
    BY SessionSteps
  <2>2. CASE TurnPage \/ UNCHANGED welcomeVars
    <3>1. UNCHANGED <<vars, patient>>
      BY <2>2 DEF TurnPage, welcomeVars
    <3> QED
      BY <2>1, <3>1 DEF vars, serverVars, homeVars, Welcomed, Asking, Fetching, Flagging, Unseen
  <2> QED
    BY <2>1, <2>2, SessionSteps, StepWelcomed, StartWelcomed
<1>3. Inv => RestartShowsOnboarding
  <2> SUFFICES ASSUME Welcomed, patient, AtHome, calls = <<>>, user # NoUser
               PROVE  user.hasSeenOnboarding
    BY DEF RestartShowsOnboarding
  <2> QED
    BY DEF Welcomed, Asking, Flagging, Unseen, AtHome
<1> QED
  BY <1>1, <1>2, <1>3, PTL DEF WelcomeSpec
================================================================================
