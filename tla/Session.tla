-------------------------------- MODULE Session --------------------------------
(***************************************************************************)
(* Signing in and out: HomeController, the login, registration and         *)
(* reset-password controllers, Service.swift, and what they use of         *)
(* Firebase and UIKit.                                                     *)
(*                                                                         *)
(* A handler or completion block runs on the main thread and is one        *)
(* action.  Firebase calls are asynchronous: a call first waits in calls,  *)
(* then is answered by the server (which is when accounts, records and the *)
(* signed-in user change), and later its completion block runs.  The app   *)
(* can be killed at any moment; calls are then lost, answered or not.      *)
(***************************************************************************)
EXTENDS Integers, SequencesExt, GameModes

CONSTANTS
  Users,         \* uids
  NoUser,        \* nil
  GoogleFails,   \* may Firebase refuse a Google credential?
  MaxSubmits,    \* bound: requests of the login pages
  MaxReconnects  \* bound: reconnects between two launches

ASSUME UsersAssumption ==
  NoUser \notin Users /\ NoUser \notin [uid : Users, hasSeenOnboarding : BOOLEAN]
ASSUME SwitchAssumption == GoogleFails \in BOOLEAN
ASSUME BoundsAssumption == MaxSubmits \in Nat /\ MaxReconnects \in Nat

VARIABLES
  accounts,      \* server: how each uid can sign in, see Providers
  profile,       \* server: the record users/<uid>, see Records
  currentUser,   \* Auth.auth().currentUser, kept over restarts
  submits,       \* requests of the login pages so far
  reconnects,    \* how often the database was connected again since the launch
  user,          \* HomeController.user, or NoUser
  welcome,       \* uid whose name welcomeLabel shows, or NoUser
  modal,         \* what HomeController presents, see Modals
  page,          \* top of the login navigation stack
  message,       \* is an alert of showMessage on the login pages?
  inGame,        \* is a game mode pushed over HomeController?
  hud,           \* the shared progress HUD: "off", "up" or "fading"
  covered,       \* is the HUD in the page that is on the screen?
  calls          \* asynchronous calls, oldest first

counters   == <<submits, reconnects>>
serverVars == <<accounts, profile, currentUser, counters>>
homeVars   == <<user, welcome>>
hudVars    == <<hud, covered>>
loginVars  == <<page, message, hudVars>>
vars == <<serverVars, homeVars, modal, loginVars, inGame, calls>>

Providers == {"none", "password", "google"}

\* No record; a new one; one whose hasSeenOnboarding is true; and one that
\* consists of hasSeenOnboarding only.
Records == {"none", "new", "seen", "flagOnly"}

\* "leaving" while what was presented is being dismissed, "trapped" after a
\* Swift runtime trap has ended the process.
Modals == {"none", "login", "onboarding", "sheet", "leaving", "trapped"}

PageOps  == {"logIn", "createUser", "register", "resetPassword"}
AuthOps  == {"logIn", "createUser", "resetPassword", "googleUI", "credential"}
LoginOps == PageOps \cup {"googleUI", "credential", "snapshot", "googleProfile"}
Ops      == LoginOps \cup {"fetch", "setSeen"}

\* from is TRUE as long as the login pages that made the call are on the
\* screen.  A read is answered with the record.
Calls ==
  {c \in [op : Ops, uid : Users \cup {NoUser}, from : BOOLEAN,
           answer : {"pending", "ok", "failed"} \cup Records] :
     c.uid = NoUser => c.op = "resetPassword" \/ (c.op = "googleUI" /\ c.answer # "ok")}

Call(op, uid) == [op |-> op, uid |-> uid, from |-> op \in LoginOps, answer |-> "pending"]

\* The HUD's side of showLoader, see ProgressHUD.
L == INSTANCE Loader WITH state <- hud

InFlight(ops) == {k \in DOMAIN calls : calls[k].op \in ops}
SignIns == InFlight(LoginOps)

--------------------------------------------------------------------------------
(* HomeController, called from handlers and completion blocks *)

\* Mutant: no check that somebody is signed in.
fetchUserUnguarded(cs) == Append(cs, Call("fetch", currentUser))

\* Mutant: a user who was fetched before is not fetched again.
fetchUserOnce(cs) ==
  IF currentUser = NoUser \/ user # NoUser THEN cs ELSE Append(cs, Call("fetch", currentUser))

\* The calls after fetchUser, if cs are the calls before it.
fetchUser(cs) == IF currentUser = NoUser THEN cs ELSE Append(cs, Call("fetch", currentUser))

\* dismiss() closes whatever Home presents, and with it the login pages; the
\* HUD of a page leaves the screen with the page.  cs are the calls of which the completed
\* one is no longer part, h is the HUD.
authenticationComplete(cs, h) ==
  LET dismissed == modal \in {"login", "onboarding", "sheet"}
      away == [k \in DOMAIN cs |-> [cs[k] EXCEPT !.from = FALSE]]
  IN  /\ modal' = IF dismissed THEN "leaving" ELSE modal
      /\ calls' = fetchUser(IF modal = "login" THEN away ELSE cs)
      /\ hud' = h
      /\ covered' = (covered /\ modal # "login")
      /\ message' = FALSE

\* Mutant: the onboarding is presented for a user who was known before.
presentOnboardingIfReplaced(u) ==
  modal' = IF u.hasSeenOnboarding \/ modal # "none" \/ inGame \/ user = NoUser
           THEN modal ELSE "onboarding"

\* present() is ignored while Home presents or dismisses something or is
\* covered by a game.
presentOnboardingIfNeccessary(u) ==
  modal' = IF u.hasSeenOnboarding \/ modal # "none" \/ inGame THEN modal ELSE "onboarding"

showWelcomeLabel(u) == welcome' = IF u.hasSeenOnboarding THEN u.uid ELSE welcome

\* An assignment to user, with its property observer.
setUser(u) ==
  /\ user' = u
  /\ presentOnboardingIfNeccessary(u)
  /\ showWelcomeLabel(u)

--------------------------------------------------------------------------------
(* HomeController: handlers *)

AtHome == modal = "none" /\ ~inGame

handleLogout ==
  /\ AtHome
  /\ modal' = "sheet"
  /\ UNCHANGED <<serverVars, homeVars, loginVars, inGame, calls>>

cancelLogout ==
  /\ modal = "sheet"
  /\ modal' = "none"
  /\ UNCHANGED <<serverVars, homeVars, loginVars, inGame, calls>>

\* signOut() may throw; then only the action sheet goes away.
logout ==
  /\ modal = "sheet"
  /\ \/ /\ currentUser' = NoUser
        /\ modal' = "login"
        /\ page' = "login"
     \/ /\ modal' = "none"
        /\ UNCHANGED <<currentUser, page>>
  /\ UNCHANGED <<accounts, profile, counters, homeVars, message, hudVars, inGame, calls>>

\* The end of the dismissal's animation.
dismissalEnds ==
  /\ modal = "leaving"
  /\ modal' = "none"
  /\ UNCHANGED <<serverVars, homeVars, loginVars, inGame, calls>>

controllerWantsToDismiss ==
  /\ modal = "onboarding"
  /\ modal' = "leaving"
  /\ calls' = IF currentUser = NoUser THEN calls
              ELSE Append(calls, Call("setSeen", currentUser))
  /\ UNCHANGED <<serverVars, homeVars, loginVars, inGame>>

\* A game mode is chosen, or left again.  Rows are counted from 1 here.
didSelectItemAt(row) ==
  /\ AtHome
  /\ row \in DOMAIN Modes
  /\ inGame' = TRUE
  /\ UNCHANGED <<serverVars, homeVars, modal, loginVars, calls>>

moveBack ==
  /\ inGame
  /\ inGame' = FALSE
  /\ UNCHANGED <<serverVars, homeVars, modal, loginVars, calls>>

--------------------------------------------------------------------------------
(* The login pages: handlers *)

\* The HUD covers its page, an alert and the Google web page cover all pages.
Touchable(p) ==
  /\ modal = "login" /\ page = p
  /\ ~covered /\ ~message /\ InFlight({"googleUI"}) = {}

\* showLoader(true): a HUD that is in another page, or has not left it, is not
\* moved.
showLoader ==
  /\ hud' = L!Shown(hud)
  /\ covered' = (hud = "off")

\* Mutant: the HUD is left where it is.
keepLoader == hud

\* showLoader(false) takes the HUD away wherever it is.
hideLoader == L!Hidden(hud)

\* The end of the HUD's last animation.
hudFades ==
  /\ L!Faded
  /\ covered' = FALSE
  /\ UNCHANGED <<serverVars, homeVars, modal, page, message, inGame, calls>>

Submit(p, op, uid) ==
  /\ Touchable(p)
  /\ submits < MaxSubmits
  /\ submits' = submits + 1
  /\ calls' = Append(calls, Call(op, uid))
  /\ UNCHANGED <<accounts, profile, currentUser, reconnects, homeVars, modal, page, message, inGame>>

handleLogin(uid) == Submit("login", "logIn", uid) /\ showLoader
handleSignUP(uid) == Submit("register", "createUser", uid) /\ showLoader
handleResetPassword == Submit("reset", "resetPassword", NoUser) /\ showLoader
handleGoogleLogin == Submit("login", "googleUI", NoUser) /\ UNCHANGED hudVars

\* showRegisterationController and showForgotPassword, and back again.
showPage(from, to) ==
  /\ Touchable(from)
  /\ from # to /\ "login" \in {from, to}
  /\ page' = to
  /\ UNCHANGED <<serverVars, homeVars, modal, message, hudVars, inGame, calls>>

closeMessage ==
  /\ modal = "login" /\ message
  /\ message' = FALSE
  /\ UNCHANGED <<serverVars, homeVars, modal, page, hudVars, inGame, calls>>

--------------------------------------------------------------------------------
(* Firebase: the answers *)

\* The connection to the database is lost and made again: calls that wait are
\* sent again, reads in no particular order and all of them before the writes.
reconnect ==
  /\ reconnects < MaxReconnects
  /\ reconnects' = reconnects + 1
  /\ UNCHANGED <<accounts, profile, currentUser, submits, homeVars, modal, loginVars, inGame, calls>>

\* While the connection lasts the database answers in the order of the calls.
InOrder(k, earlier) ==
  \/ reconnects > 0 \/ calls[k].op \in AuthOps
  \/ \A j \in 1 .. k - 1 : calls[j].op \in AuthOps \/ calls[j].answer \in earlier

Pending(k, op) == calls[k].op = op /\ calls[k].answer = "pending"

Answer(k, a) == calls' = [calls EXCEPT ![k].answer = a]

\* Firebase Auth accepts a request; signing in is part of accepting it.
authAccepts(k) ==
  LET uid == calls[k].uid
  IN  /\ \/ /\ Pending(k, "logIn") /\ accounts[uid] = "password"
            /\ currentUser' = uid
            /\ UNCHANGED accounts
         \/ /\ Pending(k, "createUser") /\ accounts[uid] = "none"
            /\ accounts' = [accounts EXCEPT ![uid] = "password"]
            /\ currentUser' = uid
         \/ /\ Pending(k, "resetPassword")
            /\ UNCHANGED <<accounts, currentUser>>
         \/ /\ Pending(k, "credential")
            /\ \/ accounts' = [accounts EXCEPT ![uid] = "google"]
               \/ accounts[uid] = "password" /\ UNCHANGED accounts
            /\ currentUser' = uid
      /\ Answer(k, "ok")
      /\ UNCHANGED <<profile, counters, homeVars, modal, loginVars, inGame>>

\* Wrong password, address in use, no network, refused credential.
authRefuses(k) ==
  /\ \/ \E op \in {"logIn", "createUser", "resetPassword"} : Pending(k, op)
     \/ GoogleFails /\ Pending(k, "credential")
  /\ Answer(k, "failed")
  /\ UNCHANGED <<serverVars, homeVars, modal, loginVars, inGame>>

\* The Google web page ends: an account was chosen, or the user cancelled.
googleUIEnds(k) ==
  /\ Pending(k, "googleUI")
  /\ \/ \E uid \in Users : calls' = [calls EXCEPT ![k].uid = uid, ![k].answer = "ok"]
     \/ Answer(k, "failed")
  /\ UNCHANGED <<serverVars, homeVars, modal, loginVars, inGame>>

\* updateChildValues of a whole profile, setValue of hasSeenOnboarding.
databaseWrites(k) ==
  LET uid == calls[k].uid
  IN  /\ InOrder(k, Records \cup {"ok", "failed"})
      /\ \/ /\ \E op \in {"register", "googleProfile"} : Pending(k, op)
            /\ profile' = [profile EXCEPT ![uid] = "new"]
            /\ Answer(k, "ok")
         \/ /\ Pending(k, "setSeen")
            /\ profile' = [profile EXCEPT ![uid] = IF @ \in {"none", "flagOnly"}
                                                   THEN "flagOnly" ELSE "seen"]
            /\ Answer(k, "ok")
         \/ /\ \E op \in {"register", "googleProfile", "setSeen"} : Pending(k, op)
            /\ Answer(k, "failed")
            /\ UNCHANGED profile
      /\ UNCHANGED <<accounts, currentUser, counters, homeVars, modal, loginVars, inGame>>

\* observeSingleEvent of a record; the record of somebody who is not signed
\* in may be denied.
databaseReads(k) ==
  /\ InOrder(k, Records \cup {"ok", "failed"})
  /\ Pending(k, "snapshot") \/ Pending(k, "fetch")
  /\ \/ Answer(k, profile[calls[k].uid])
     \/ calls[k].uid # currentUser /\ Answer(k, "failed")
  /\ UNCHANGED <<serverVars, homeVars, modal, loginVars, inGame>>

--------------------------------------------------------------------------------
(* The completion blocks *)

Completes(k, op) == calls[k].op = op /\ calls[k].answer # "pending" /\ InOrder(k, {})

\* The calls without the completed one, and with the one its block makes.
Done(k) == RemoveAt(calls, k)
Continued(k, op) == Append(Done(k), [calls[k] EXCEPT !.op = op, !.answer = "pending"])

\* showLoader(false) and showMessage on a page, which is ignored when the page
\* has left the screen.
Complain(k) ==
  /\ hud' = hideLoader
  /\ message' = (message \/ calls[k].from)
  /\ calls' = Done(k)
  /\ UNCHANGED <<modal, page, covered>>

\* handleLogin's block: an error is only logged.
logInCompleted(k) ==
  /\ Completes(k, "logIn")
  /\ \/ /\ calls[k].answer = "ok"
        /\ authenticationComplete(Done(k), hideLoader)
     \/ /\ calls[k].answer = "failed"
        /\ hud' = hideLoader
        /\ calls' = Done(k)
        /\ UNCHANGED <<modal, message, covered>>
  /\ UNCHANGED <<serverVars, homeVars, page, inGame>>

\* registerUserWithFirebase: the account first, then its profile.  (A result
\* without an error has a user, so the guard between the two never returns;
\* the same holds of the guards of signInWithGoogle.)
createUserCompleted(k) ==
  /\ Completes(k, "createUser")
  /\ \/ /\ calls[k].answer = "ok"
        /\ calls' = Continued(k, "register")
        /\ UNCHANGED <<modal, loginVars>>
     \/ /\ calls[k].answer = "failed"
        /\ Complain(k)
  /\ UNCHANGED <<serverVars, homeVars, inGame>>

registerCompleted(k) ==
  /\ Completes(k, "register")
  /\ \/ /\ calls[k].answer = "ok"
        /\ authenticationComplete(Done(k), hideLoader)
        /\ UNCHANGED page
     \/ /\ calls[k].answer = "failed"
        /\ Complain(k)
  /\ UNCHANGED <<serverVars, homeVars, inGame>>

\* didSendResetPasswordLink goes back to the login page and tells so there.
resetPasswordCompleted(k) ==
  /\ Completes(k, "resetPassword")
  /\ \/ /\ calls[k].answer = "ok"
        /\ hud' = hideLoader
        /\ message' = (message \/ calls[k].from)
        /\ page' = IF calls[k].from THEN "login" ELSE page
        /\ covered' = (covered /\ page' = page)
        /\ calls' = Done(k)
        /\ UNCHANGED modal
     \/ /\ calls[k].answer = "failed"
        /\ Complain(k)
  /\ UNCHANGED <<serverVars, homeVars, inGame>>

\* sign(_:didSignInFor:withError:) does not look at the error.  Without an
\* error the credential goes to Firebase; with one user is nil, and passing
\* it on traps.
googleUICompleted(k) ==
  /\ Completes(k, "googleUI")
  /\ \/ /\ calls[k].answer = "ok"
        /\ calls' = Continued(k, "credential")
        /\ UNCHANGED <<modal, inGame, hudVars>>
     \/ /\ calls[k].answer = "failed"
        /\ modal' = "trapped"
        /\ calls' = <<>> /\ inGame' = FALSE /\ hud' = "off" /\ covered' = FALSE
  /\ UNCHANGED <<serverVars, homeVars, page, message>>

\* signInWithGoogle.  Its completion, in LoginController, ignores the error;
\* the dismiss() after authenticationComplete finds nothing left to dismiss.
credentialCompleted(k) ==
  /\ Completes(k, "credential")
  /\ \/ /\ calls[k].answer = "ok"
        /\ calls' = Continued(k, "snapshot")
        /\ UNCHANGED <<modal, message, hudVars>>
     \/ /\ calls[k].answer = "failed"
        /\ authenticationComplete(Done(k), hud)
  /\ UNCHANGED <<serverVars, homeVars, page, inGame>>

\* Mutant: the profile is written at every sign-in.
neverExists(record) == FALSE

exists(record) == record # "none"

\* Without a record the profile is written, unless the account has no address
\* or no name: then, as after an error, the completion is never called.
snapshotCompleted(k) ==
  /\ Completes(k, "snapshot")
  /\ \/ /\ calls[k].answer # "failed" /\ ~exists(calls[k].answer)
        /\ calls' = Continued(k, "googleProfile")
        /\ UNCHANGED <<modal, message, hudVars>>
     \/ /\ calls[k].answer # "failed" /\ exists(calls[k].answer)
        /\ authenticationComplete(Done(k), hud)
     \/ /\ calls[k].answer = "failed" \/ ~exists(calls[k].answer)
        /\ calls' = Done(k)
        /\ UNCHANGED <<modal, message, hudVars>>
  /\ UNCHANGED <<serverVars, homeVars, page, inGame>>

googleProfileCompleted(k) ==
  /\ Completes(k, "googleProfile")
  /\ authenticationComplete(Done(k), hud)
  /\ UNCHANGED <<serverVars, homeVars, page, inGame>>

\* fetchUser's block.  Without a record nothing happens.
fetchCompleted(k) ==
  LET u == [uid |-> calls[k].uid, hasSeenOnboarding |-> calls[k].answer # "new"]
  IN  /\ Completes(k, "fetch")
      /\ \/ /\ calls[k].answer \in {"none", "failed"}
            /\ UNCHANGED <<homeVars, modal>>
         \/ /\ calls[k].answer \in Records \ {"none"}
            /\ setUser(u)
      /\ calls' = Done(k)
      /\ UNCHANGED <<serverVars, loginVars, inGame>>

\* updateUserHasSeenOnboarding's block ignores the error and changes the user
\* that Home holds by then.
setSeenCompleted(k) ==
  /\ Completes(k, "setSeen")
  /\ \/ user = NoUser /\ UNCHANGED <<homeVars, modal>>
     \/ user # NoUser /\ setUser([user EXCEPT !.hasSeenOnboarding = TRUE])
  /\ calls' = Done(k)
  /\ UNCHANGED <<serverVars, loginVars, inGame>>

--------------------------------------------------------------------------------
(* The app *)

\* A new installation: nobody has an account, so the login page is presented.
Init ==
  /\ accounts = [u \in Users |-> "none"]
  /\ profile = [u \in Users |-> "none"]
  /\ currentUser = NoUser /\ submits = 0 /\ reconnects = 0
  /\ user = NoUser /\ welcome = NoUser
  /\ modal = "login" /\ page = "login" /\ message = FALSE
  /\ inGame = FALSE
  /\ hud = "off" /\ covered = FALSE
  /\ calls = <<>>

\* Mutant: the login controller is not presented.
noAuthentication == "none"

\* What authenticateUser makes Home present.
authenticateUser == IF currentUser = NoUser THEN "login" ELSE "none"

\* The app ends at any moment and is started again: application(_:didFinish-
\* LaunchingWithOptions:), HomeController.viewDidLoad and authenticateUser.
launch ==
  /\ modal' = authenticateUser
  /\ calls' = fetchUser(<<>>)
  /\ user' = NoUser /\ welcome' = NoUser
  /\ page' = "login" /\ message' = FALSE
  /\ hud' = "off" /\ covered' = FALSE
  /\ inGame' = FALSE
  /\ reconnects' = 0
  /\ UNCHANGED <<accounts, profile, currentUser, submits>>

FirebaseAnswers(k) ==
  authAccepts(k) \/ authRefuses(k) \/ databaseWrites(k) \/ databaseReads(k)

BlockRuns(k) ==
  \/ logInCompleted(k) \/ createUserCompleted(k) \/ registerCompleted(k)
  \/ resetPasswordCompleted(k)
  \/ googleUICompleted(k) \/ credentialCompleted(k) \/ snapshotCompleted(k)
  \/ googleProfileCompleted(k)
  \/ fetchCompleted(k) \/ setSeenCompleted(k)

UserActs ==
  \/ handleLogout \/ cancelLogout \/ logout
  \/ controllerWantsToDismiss
  \/ \E row \in 1 .. 3 : didSelectItemAt(row)
  \/ moveBack
  \/ \E uid \in Users : handleLogin(uid) \/ handleSignUP(uid)
  \/ handleResetPassword
  \/ handleGoogleLogin \/ \E k \in DOMAIN calls : googleUIEnds(k)
  \/ \E from, to \in {"login", "register", "reset"} : showPage(from, to)
  \/ closeMessage

Next ==
  \/ launch \/ reconnect
  \/ UserActs
  \/ dismissalEnds \/ hudFades
  \/ \E k \in DOMAIN calls : FirebaseAnswers(k) \/ BlockRuns(k)

Spec == Init /\ [][Next]_vars

\* Firebase answers, the run loop runs the blocks and ends animations.  The
\* user need not do anything.
Fairness ==
  /\ WF_vars(dismissalEnds) /\ WF_vars(hudFades)
  /\ WF_vars(\E k \in DOMAIN calls : FirebaseAnswers(k) \/ BlockRuns(k))

--------------------------------------------------------------------------------
(* Properties *)

\* Every variable stays in its range.
TypeOK ==
  /\ accounts \in [Users -> Providers]
  /\ profile \in [Users -> Records]
  /\ currentUser \in Users \cup {NoUser}
  /\ submits \in 0 .. MaxSubmits /\ reconnects \in 0 .. MaxReconnects
  /\ user \in [uid : Users, hasSeenOnboarding : BOOLEAN] \cup {NoUser}
  /\ welcome \in Users \cup {NoUser}
  /\ modal \in Modals
  /\ page \in {"login", "register", "reset"}
  /\ message \in BOOLEAN
  /\ inGame \in BOOLEAN
  /\ hud \in L!States /\ covered \in BOOLEAN
  /\ calls \in Seq(Calls)

\* Whoever is not signed in has the login pages before him: Home and the games
\* behind it are for signed-in users.
SignedOutSeesLogin ==
  currentUser = NoUser => modal \in {"login", "trapped"}

\* No event makes the app hit a runtime trap.
NeverTraps == modal # "trapped"

Complete(uid) == profile[uid] \in {"new", "seen"}

\* When no call is in flight and the login pages are gone, Home holds the user
\* who is signed in, however quickly users changed, however many sign-ins were
\* in flight at once and whichever blocks ran late, and greets nobody else;
\* unless that user has no complete profile.  (After a reconnect the answer of
\* an older fetch may come last.)
HomeKnowsUser ==
  calls = <<>> /\ modal \in {"none", "onboarding", "sheet"} /\ currentUser # NoUser /\ reconnects = 0
    => /\ Complete(currentUser) => user # NoUser /\ user.uid = currentUser
       /\ Complete(currentUser) /\ user.hasSeenOnboarding => welcome = currentUser

\* A HUD that is up and not on its way out belongs to a call that is in flight,
\* whose block will take it down: no page stays blocked.
HudIsAwaited == hud = "up" => InFlight(PageOps) # {}

\* The page under a HUD becomes usable again.
HudGoesAway == covered ~> ~covered
================================================================================
