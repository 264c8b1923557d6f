# A TLA+ model of CardPang

CardPang ("FruitPang", a card memory game for iOS) is about 2300 lines of Swift
under `CardPang/CardPang/`. It has no tests. This directory models the game and
its countdown, the decks it is played with, signing in and out, the forms and the
onboarding, and the two vendored classes whose state decides what the app's own
code does: the progress HUD and Firebase's connection to the database. TLC checks
the models on small instances, and TLAPS proves every invariant and action
property that the runs check, for any number of cards, cells, images, users, calls,
pages, texts, writes and faults, and for every time limit.

All app code runs on the main thread. What interleaves are the events the run
loop delivers (touches, timer firings, delayed blocks, layout passes) and the
completion blocks of Firebase and Google sign-in. Firebase's database client has
a dispatch queue of its own, on which the same holds.

## Inventory

| Component | State | Operations | Interacts with |
|---|---|---|---|
| Game mode controllers (`EasyModeController`, `NormalModeController`, `HardModeController`: the same code with other numbers) | `cardArray`, `firstFlippedCardIndex`, `milliseconds`, `timer` | `viewDidLoad`, `didSelectItemAt`, `checkForMatches`, `timerElapsed`, `checkGameEnded`, `showAlert`, `moveBack`, `cellForItemAt` | generator (call), cells (calls), collection view (callbacks), timer (callback, retains the controller) |
| `CardCell` | side and alpha of two image views | `setCard`, `flip`, `flipBack` (half a second later), `remove` | is lent to one row after the other by the collection view |
| `CardModel` | two local arrays | `getEasyCards`, `getNormalCards`, `getHardCards` | called once per game |
| `Service` | none of its own; Firebase's accounts, `users/<uid>` records and current user | `logUserIn`, `registerUserWithFirebase`, `signInWithGoogle`, `fetchUser`, `updateUserHasSeenOnboarding`, `resetPassword` | asynchronous calls with completion blocks |
| `HomeController` | `user`, welcome label, what it presents | `authenticateUser`, `fetchUser`, `authenticationComplete`, `presentOnboardingIfNeccessary`, `controllerWantsToDismiss`, `handleLogout`, `logout`, `didSelectItemAt` | presents login and onboarding, pushes a game; is the delegate of both |
| Login, registration and reset-password controllers | view model, texts, the page on top, the HUD shared by all pages | submit handlers, `sign(_:didSignInFor:withError:)`, page changes, `didSendResetPasswordLink`, form updates | `Service`, delegate `HomeController` |
| Form view models | a copy of the typed texts | `formIsValid` | asked by the pages whenever a text changes |
| Onboarding | page index, page control, visibility of the start button | `currentIndex`, `tapAction`, `gestureControlDidSwipe` of the `PaperOnboarding` view, `onboardingWillTransitonToIndex`, `dismissOnboarding` | delegate `HomeController` |
| HUD (`showLoader`, `JGProgressHUD`) | the view it is in, the animation under way, a remembered dismissal | `show`, `dismiss`, ends of animations | one object for all pages |
| Database connection (`FPersistentConnection`) | connection state, reasons of interruption, retry, token fetch, listens, puts without answer, held answers | `listen`, `unlisten`, `putInternal`, `refreshAuthToken`, `interruptForReason`, `resumeForReason`, callbacks of requests and of the connection | under every database call of `Service`; the server |
| Views, constants, layout extensions | none | layout | |

What is hard here, and the property that makes each part correct:

* **Game**: the last pair against the last firing of the timer; touches faster
  than the half second of `flipBack`; touches after the end; leaving while the
  timer still retains the controller. Correct means: the rules of a memory game
  are kept, exactly one right result is announced and nothing changes after it.
* **Cells**: a cell is recycled, kept for a row off the screen, or absent when
  `cellForItem(at:)` is asked; a flip-back block hits whatever its cell shows by
  then. Correct means: matched cards are hidden and no others, and no picture of
  a card that lies face down can be seen.
* **Generators**: random draws with rejection and a swap with a random position.
  Correct means: a legal deck is returned, and the loop ends.
* **Session**: answers that arrive after the user has changed, two-step
  registration with a failure or a crash in between, errors nobody looks at, one
  HUD for three pages, `present` calls that UIKit drops. Correct means: who is
  signed out sees the login pages, Home knows the user who is signed in, no page
  stays blocked.
* **Forms**: a text field and its view model are two copies, texts assigned by
  code are not reported, and one of the three requests is made of the view model.
  Correct means: a request is made of what the page shows, and buttons follow it.
* **Onboarding**: page, page control and button change in three places. Correct
  means: the way out is there on the last page, and only there.
* **Countdown**: a timer that misses firings stands for a clock. Correct means:
  nobody loses early, and nobody wins after the limit. The second does not hold;
  what holds is a bound on the delay.
* **HUD**: shows during a fade-out are ignored, dismissals during an animation are
  remembered. Correct means: none is lost and none is left over.
* **Database connection**: lost connections, refused tokens, late callbacks,
  writes sent twice. Correct means: a retry is never forgotten, a completion block
  runs once, and no old write undoes a newer one that was reported as written.

`PROJECT.json` lists every hazard with the line where it bites.

## Modules

| Module | Models |
|---|---|
| `Deck` | what a legal deck is: every image that occurs occurs exactly twice |
| `CardModel` | the generators, one action per draw (`Accept`, `Reject`) and per swap (`Swap`) |
| `CardCell` | a cell as a record and its operations as operators on it |
| `MemoryGame` | the abstract specification: the rules of a memory game against a clock |
| `GameMode` | a game mode controller with its collection view, `EXTENDS Deck, CardCell` |
| `PatientPlayer` | `GameMode` with a history of the player's patience, which one property speaks of |
| `GameModes` | the numbers that make `GameMode` the easy, normal and hard mode |
| `TimedGame` | a game beside a clock and the modes of the run loop, `EXTENDS GameMode` |
| `Session` | Home, login pages, Service, and what they use of Firebase and UIKit, `EXTENDS GameModes`, uses `Loader` |
| `Forms` | text fields, view models and buttons of the three login pages |
| `Onboarding` | the pages of the onboarding |
| `Welcome` | `Session` and `Onboarding` composed (`EXTENDS` both): a new user's way through the app |
| `Loader` | the abstract specification: what callers of `showLoader` see of the HUD |
| `ProgressHUD` | `JGProgressHUD` and the pages that share it; implements `Loader` |
| `PersistentConnection` | Firebase's connection to the database, with the server |
| `MCGameMode` | `PatientPlayer` for TLC: rows that are alike, one deck for all |
| `MCSession` | `Session` with the histories that two of its properties speak of, and symmetry |
| `MCTimedGame` | symmetry for TLC |
| `CardModelProofs`, `GameModeProofs`, `TimedGameProofs`, `FormsProofs`, `ProgressHUDProofs`, `ConnectionProofs`, `SessionProofs`, `WelcomeProofs` | theorems |

`CardModel` shows that generators return `Decks(0 .. 2 * Pairs - 1, Images)`;
`GameMode` starts from an arbitrary member of `Decks(Rows, Images)`. That is how
the two are joined. `Loader` joins `Session` and `ProgressHUD`: `Session` takes
its HUD from it, and `ProgressHUD` implements it. `Welcome` joins `Session` and
`Onboarding`. `GameModes` asserts that the numbers of the three modes
satisfy the assumptions of both, so the theorems apply to all of them. The
definitions of `GameMode` are mapped to the lines of `EasyModeController`; its
counterparts in `NormalModeController` and `HardModeController` differ in the
generator, the initial time, insets and wording only.

### GameMode

The objects of `cardArray` are three functions on rows (`deck`, `isFlipped`,
`isMatched`). A handler is one action and includes everything it calls:
`didSelectItemAt` includes `checkForMatches`, which includes `checkGameEnded` and
`showAlert`. An early return changes nothing, so it is no action of its own.
`results` is a history variable: the titles `showAlert` was called with.

The timer counts firings, not time: `Limit` firings and the time is up.
`milliseconds` is a `Float`, exact for whole numbers up to 2^24, which is what
`FloatAssumption` asks.

`UICollectionView` is external. The model lets it do what UIKit is free to do:
prepare a cell that serves no other row (`cellForItemAt`), scroll a row off
(`scrollOff`) and keep its cell, show a kept cell again without asking the data
source (`redisplay`), or recycle it (`recycle`). `cellForItem(at:)` is nil for a
row off the screen; `reloadItems` drops the cell kept for it. `UIView.animate`
assigns the animated value at once; only the half second before `flipBack`'s
block runs is a state of its own (`flipBacks` counts the blocks per cell).
`present` does nothing when the controller is not on the screen, and an alert
keeps touches away from what is under it.

`PatientPlayer` adds the history `hasty`: whether a card was ever touched while a
flip-back was waiting. In `MCGameMode` all rows scroll, which makes them
interchangeable, so one deck stands for all.

### TimedGame

`scheduledTimer` puts the timer of a game into the default mode of the main run
loop. The model gives it a fire date and the clock a tick; a timer that missed
fire dates fires once for all of them. In the tracking mode (the player drags the
collection view) and while the app is suspended it is not served at all, and
`missed` counts that time. In the default mode a due timer may have to wait for
the main thread, which lays out the label at every firing, prepares cells and runs
blocks: `BusyTick` lets up to `Latency` milliseconds pass for each firing, and
`waited` counts them. The code gives no bound for that, so `Latency` is a constant
and the theorems hold for every value of it; with 0 the phone is infinitely fast.
Touches that are no drag come in the default mode, rows scroll in the tracking
mode.

### Session

A Firebase call is a record in `calls` with three moments: issued, answered by
the server (`authAccepts`, `authRefuses`, `databaseWrites`, `databaseReads`; this
is when accounts, records and the current user change), completed (its block
runs). The blocks of `registerUserWithFirebase` and `signInWithGoogle` issue the
next call of their chain (`Continued`). `launch` may happen at any moment: all
calls are lost, answered or not; Firebase keeps the current user.

A record is reduced to what the app reads from it: absent, `hasSeenOnboarding`
false, true, or true with nothing else in it (`setValue` on a record that was
never written). `modal` is what Home presents, `"leaving"` during a dismissal;
`present` is dropped unless Home presents nothing and no game covers it. The HUD
is off, up or fading, as `Loader` says, and `covered` tells whether it is over the
page on top or on one that has been left: a HUD that is visible is not moved by a
second `show(in:)`, and a show during the fade-out is dropped.

Nothing keeps the user from a second request while one is in flight: the Google
path shows no HUD, and a HUD on one page does not cover the next. The only bound
is on how many requests are made (`MaxSubmits`), so all of them can be in flight
at once. The database answers in the order of the calls as long as the connection
lasts; after a `reconnect` its client sends waiting calls again, reads in no
particular order and before the writes, so from then on until the next launch the
model lets answers come in any order. `GoogleFails` says whether Firebase may
refuse a Google credential.

The block of `signInWithGoogle`'s read returns without calling its completion when
the account has no address or no name (`Service.swift:54-55`): a disjunct of
`snapshotCompleted`. The other early returns of the file (`:30`, `:40`, `:49`) are
for results without a user or without an authentication, which Firebase and Google
hand over only together with an error; they are not modelled.

`MCSession` adds three histories, which say exactly when a property is not
promised: `refused` (a Google credential was refused and nobody has signed in
since), `overtaken` (the user signed out while a sign-in was in flight) and `twice`
(users of whom two sign-ins were in flight at once since the launch).

### Welcome

A step of `Welcome` is a step of `Session`, a page turned in the onboarding that
Home presents, or both at once: the start button (`dismissOnboarding`) is
`controllerWantsToDismiss`. A controller that is presented is new and starts on its
first page. Three histories go along. `patient` says that somebody was signed in
when the app was last started, has stayed so, and has opened neither a game nor the
logout sheet while Home was fetching him. `readers` are the users who were shown
the last page. `mixed` are users of whom a sign-in was in flight under the
onboarding of whoever was signed in then.

### Forms

`text` is what the fields show and `viewModel` what the view models hold; `Nil` is
a field that was never assigned, which counts as invalid like an empty one.
`loadEmail` fills the reset page by code, without `textDidChange`. `showLoader`
ends editing, so fields do not change under a HUD; but a HUD need not come up
(see `ProgressHUD`), so after submitting both are possible. `sent` is the last
request. Pages other than the login page live from push to pop, and the answer to
a reset request pops whatever page is on top by then.

### Onboarding

`turnTo` is `currentIndex(_:animated:)`: it tells the controller, which shows or
hides the button, and then moves the page and the page control. Swipes before the
first and after the last page do nothing.

### Loader and ProgressHUD

`Loader` has three states. In `ProgressHUD` they are made of the view the HUD is
in (a weak reference), the animation under way and the remembered dismissal. The
refinement mapping `loader` says that a HUD on its way up is up unless it has been
told to go, and fading from then on. Requests of several pages, and several of one
page, can be in flight; each completion dismisses the HUD, whoever has shown it.

### PersistentConnection

A callback is one action, as everything runs on one queue, and closing a
connection calls `onDisconnect` at once. A connection is two queues of requests
and answers. When it is lost both are gone for the client, but the server may
still read what was under way (`late`), and carry it out. It may do so until the
next connection is ready: the client sends the id of its last session along
(`lastSessionID`, `FPersistentConnection.m:328, 511`, which becomes `ls=` in the
URL), by which the server ends that session before it opens the next. This is an
assumption about a server whose code is not here; without it an old write could
be carried out at any later time. All puts write the same place, and `value` is
the put whose value is there: carrying out a put again overwrites a later one.

A token fetch that a later retry has overtaken is counted in `stale`; its callback
must do nothing. A listen request remembers whether its listen is still there (`current`), which stands for the
comparison `currentListenSpec == listenSpec`. The answer to a put is held in
`putsToAck` while `unackedListensCount` is not 0. `restoreState` sends the listens
in any order, as they come from a dictionary, and then the puts in the order of
their indices. `called` is a history: the answers that completion blocks were
called with.

## Runs

| Run | Configuration | Instance | Shows |
|---|---|---|---|
| `cardmodel` | `CardModel.cfg` | 3 pairs out of 4 images | each `Card` object exactly once at every moment, a legal deck in the end, termination |
| `gamemode` | `GameMode.cfg` | 4 cards, 2 cells, all rows scroll, 2 firings | rules, result, timer, finality, what cells show, that a player who waits for the flip-backs sees the truth, that `GameMode` implements `MemoryGame`, that every game is decided and wrong guesses are turned back |
| `session` | `Session.cfg` | 2 users, 3 requests of the login pages | Home knows the right user when calls have settled; who is signed out sees the login pages but for two stated cases; who saw the onboarding is not made new but for one; a HUD is always awaited by a call that will hide it |
| `welcome` | `Welcome.cfg` | 2 users, 2 requests, 1 reconnect, 3 pages | a new user who starts the app and waits is shown the onboarding, the start button is on its last page only, only who was shown that page counts as having seen it, but for a user who comes in under it, and a page under the HUD becomes usable again |
| `forms` | `Forms.cfg` | 2 texts beside the empty one | buttons follow what the fields show, requests are made of it |
| `progresshud` | `ProgressHUD.cfg` | 3 pages, 2 requests each | a HUD that stays is awaited, `ProgressHUD` implements `Loader` with its fairness |
| `timedgame` | `TimedGame.cfg` | 2 cards, limit 3, latency 1, clock up to 9 | nobody loses early; other run-loop modes and late firings account for all delay of the end |
| `connection` | `PersistentConnection.cfg` | 2 puts, 1 query, 3 faults | retries, assertions, counts, one call per block, that a write reported as carried out is not undone, and that every put gets its answer |
| `connectionheld` | `ConnectionHeld.cfg` | 1 put, 1 query | violation: see below |
| `googleerror` | `SessionGoogleError.cfg` | 2 users, 2 requests | violation: see below |
| `lategoogle` | `SessionLateGoogle.cfg` | 1 user, 2 requests, no refused credential | violation: see below |
| `googlecancel` | `SessionGoogleCancel.cfg` | 2 users, 2 requests | violation: see below |

Every property has a mutant, an operator `Mutant: ...` next to the definition it
replaces, with which the run fails.

### Disagreements found

* **A refused Google credential opens Home.** `signInWithGoogle` passes the error
  on (`Service.swift:46`), the completion in `LoginController.swift:235-238` calls
  `authenticationComplete` regardless, and Home with its games is there for a user
  who is not signed in. Firebase's header documents the error as "nil if the
  request was successful", and the password paths do look at it.
* **A late Google sign-in opens Home.** The completion of a Google sign-in does not
  ask whether its user is still signed in, and `authenticationComplete`
  (`HomeController.swift:167-170`) dismisses whatever Home presents. When another
  sign-in has been completed meanwhile and its user has signed out again, that is
  the login pages: Home stands open with nobody signed in, although no call failed.
* **Cancelling Google sign-in traps.** The delegate method
  (`LoginController.swift:234`) passes its implicitly unwrapped `user` to a
  non-optional parameter without looking at `withError`; `GIDSignIn.h` says the
  flow "was successful if `error` is `nil`".
* **A completion block may be held back for good.** `FIRDatabaseReference.h:100`
  says that the block is "called after the write has been committed". The answer
  of a committed write is held while a listen is unanswered. If the app gives up
  the listen (a single-event observer does after its first event, which may come
  before the answer to the listen) and the connection is lost before its
  answer, `onDisconnect` resets the count but not the list
  (`FPersistentConnection.m:374`), no listen is sent on the new connection, and
  only the answer of some later listen lets go of the block. In CardPang that
  block takes down the HUD of a registration or marks the onboarding as seen.

### Known limits of what holds

* A player who touches a card again within the half second of its flip-back sees
  it turned face down although it counts as flipped (`PatientSeesTruth` is about
  the others; `FaceUpIsAccountedFor` holds all the same).
* A game can be won after its time limit. The onboarding says "제한 시간 안에
  게임을 끝내보세요! Easy(30초), Normal(40초), Hard(50초)" (`Constants.swift:18`), but
  the countdown counts firings of a 1 ms timer (`EasyModeController.swift:49` and its
  counterparts). Firings that come late are not made up for, and during a drag and
  in the background there are none: TLC refutes
  `results = <<"won">> => clock <= Limit`. `DecidedOnTime` says how long a game can
  last.
* `HomeKnowsUser` needs a connection that has lasted since the launch: after a
  reconnect the answer for the previous user may come last. It excepts users whose
  profile was never completed, because registration failed or was cut off between
  its two calls: for them `fetchUser` returns nothing and Home stays without a user.
* After a sign-in a new user may not be shown the onboarding. `authenticationComplete`
  starts the dismissal of the login pages and the fetch in one turn; when the answer
  comes before the animation has ended, which takes no more than a fast network,
  UIKit drops `present`, and nothing tries again. `RestartShowsOnboarding` is
  therefore about the next launch.
* `SeenHasRead` excepts users who come in under the onboarding of another: a late
  Google credential changes the current user, and it is his flag that the start
  button writes (`Service.swift:80-81`). Without the exception TLC refutes it.
* `LoginUnlessRefused` has the two exceptions that `googleerror` and `lategoogle`
  show; without either TLC refutes it.
* `SeenStaysSeen` excepts users of whom two sign-ins were in flight at once: both may
  find no record, and the later of the two profile writes then resets
  `hasSeenOnboarding`. Without the exception TLC refutes it.
* A write that the server has carried out may be sent again and then be denied,
  for instance with another token: its block reports an error although it took
  effect. `CalledOnce` therefore says only what a success means. What the server
  holds may go back to an older value for a while when writes are carried out
  again; `AcknowledgedStays` says that it never goes back behind a write whose
  success was reported.

### Bounds

* `MaxFlipBacks = 1`: flip-back blocks waiting for one cell; a second wrong guess
  on a cell whose block waits is cut off. Two blocks were also tried, on the
  instance of `gamemode`, and change nothing; they add only a second identical assignment.
* `Limit = 2`: a firing that does not end the time and one that does; every event
  can come before, between and after them.
* Four cards are the smallest deck with a wrong guess and a pair that is not the
  last. All rows scroll, so the first card of a try can be off the screen while
  its partner or a wrong card is touched, and there are fewer cells than rows, so
  cells must be recycled. Four cells with two rows that never scroll were also
  tried, and the safety properties hold.
* `MaxSubmits`: requests of the login pages, over all launches. Three let two
  sign-ins overlap and a third come after the sign-out; they are enough for each
  exception above to happen. Calls that blocks make are not bounded otherwise, and
  neither are restarts. `MaxReconnects` counts reconnects between two launches, and
  one suffices, as answers come in any order from then on. `welcome` has
  one, `session` none, to stay small: `HomeKnowsUser` speaks of a lasting connection,
  and the theorems about the others hold for any number. With one user and one
  reconnect `session` was also checked, and holds (1.09 million states).
* 3 pairs out of 4 images: rejection happens and one image stays out.
* `MaxTime = 9` with `Limit = 3` and `Latency = 1`: three firings, each late, take 6 of
  the 9 milliseconds; so there is time for one firing too many, and for a drag or
  several before, between and after the firings. Two cards are enough to win or to lose.
* `ItemCount = 3`: the app has 3 pages. What concerns the pages alone is proved for
  every number above one.
* `MaxRequests = 2` and three pages: a page can wait for two answers, and a third
  can ask while the HUD is fading in one and awaited in another.
* `MaxPuts`, `MaxFaults`, `MaxWire`, `MaxStale`: writes, faults (lost connections,
  refusals, interruptions), messages under way for the client to send more of its
  own (restoring may exceed it) and overtaken token fetches. Two puts are needed
  for an order; three faults let a connection and its successor be lost while both
  have carried the same write, and a third be refused.

`CHECK_DEADLOCK FALSE` stands where the system really stops: a generator that has
returned and a game that is decided and left. In `Session` the app can always be
started again.

### Fairness

`CardModel`: the loops run, and the random numbers do not avoid the new ones for
ever. `GameMode`: the run loop fires a scheduled timer and runs delayed blocks.
`Session`: Firebase answers, blocks run, dismissals end. Nothing is assumed of
the player or of scrolling. Firebase completes writes only while it is
connected, so `HudGoesAway` assumes that the connection comes back, and that no
block is held back as `connectionheld` shows. `GameIsDecided` assumes that no drag
and no stay in the background lasts for ever. `ProgressHUD`: UIKit ends
animations. `PersistentConnection`: scheduled retries run, token fetches end, the
connection becomes ready, the server answers, `open` is called; interruptions by
the app need not end, so `PutSettles` has their end as a premise. Faults are
bounded, so they do come to an end.

## Proofs

`CardModelProofs` (for all `Pairs`, `NumImages` with `PairsAssumption`): the
inductive invariant is `TypeOK`, `EveryCardOnce` and the progress of the loops:
at most `Pairs` numbers are drawn, there are twice as many cards, and nothing is
swapped while numbers are drawn. `EveryCardOnce` alone says nothing about the
length of the array, which the deck needs. When the generator has
returned the two cards of an image are two positions, and no third card has it:
`GeneratorReturnsDeck`.

`GameModeProofs` (for all constants with the assumptions of `GameMode`): `IInv` is
`TypeOK`, `CardInv` and `ScreenInv`. `CardInv` adds to the checked invariants that
the deck stays legal (a match needs that the partner is unique) and that matched
cards are flipped (otherwise a matched card could become the open one).
`ScreenInv` adds that no two rows share a cell and that visible rows have one
(otherwise an operation on one card's cell could change another's). One lemma per
action shows that it preserves `IInv`; touches are split into first card, match
and miss. From `IInv` follow the seven invariants, `ResultIsFinal` and
`Refinement`: an effective touch is `OpenFirst`, `FindPair` or `Miss` of
`MemoryGame`, a firing is `TimeUp` or invisible, everything else is invisible.
`PatienceIsRewarded` adds to `IInv` what waiting buys (`Patient`): no flip-back
waits while a card is open, so none can hit the cell of the open card, and that
cell shows its front. Without it a block on a recycled cell could turn a card
that counts as flipped.

`TimedGameProofs` (for all constants with the assumptions of `GameMode` and
`LatencyAssumption`, `MaxTimeAssumption`): every step of `TimedGame` is a
step of `GameMode` or leaves it alone, so `IInv` of `GameModeProofs` carries over. Beside it stands the link of
countdown and clock: `Limit - milliseconds`, the number of firings, is at most the
number of elapsed milliseconds, and they keep up with the time in the default mode;
the fire date is what bounds both. With latency every firing may take `1 + Latency`
milliseconds of the default mode, and the one that is due has taken what it has
`waited` so far (`KeepsUp`); as late firings are not made up for these add up, and the
bound is a product. `NotLostEarly` and `OnTime` follow, for every `Latency`.

`FormsProofs` (for all `Texts`): the invariant is `TypeOK`, `ViewModelAgrees`, and
that a button is enabled exactly when its view model is valid; with the agreement
this gives `ButtonsFollowForms`, and with both `RequestsAreShown`.

`SessionProofs` (for all `Users` and bounds with the assumptions of `Session`):
the lemma `Kinds` sorts the steps of the app by what they do to the calls, to
Home and to Firebase (a page submits, a call is accepted, writes, reads, goes on
with the next call of its chain or is dropped, a fetch comes back, the pages are
closed...), and the invariants are shown for each kind. None of the theorems has a
hypothesis beyond the named assumptions of `Session`: any number of sign-ins may be
in flight, and reconnects may happen.
* `LoginGuardsHome`: a call that means that somebody has signed in is in flight only
  while somebody is signed in, or the last user signed out under it (`AcceptedKnown`);
  so only the block of a refused credential can close the login pages for nobody
  otherwise, and `Refusal` says that the refusal is on record then.
* `NoProfileTwice`: whoever is signed in, or about to be marked as having seen the
  onboarding, has an account (`HasAccount`); unless he is one of the `twice`, a user
  has one sign-in in flight (`Once`); and a sign-in of his that will write a whole
  profile does so for a user without a complete record (`FreshWrite`). No order of
  answers is used.
* `HomeKnowsLast`: without a reconnect, and if the user has a complete profile, Home
  either holds the user who is signed in and waits for nothing, or the youngest fetch in
  flight is his and, as answers come in order, the last one to arrive, or a block is
  still to come that will fetch him (`Known`, with `Holds`, `Awaits`, `Arrives` and
  `Leads`). The last case is what sign-ins at once add.

`WelcomeProofs` (for every `ItemCount` above one; one page is excluded for a reason:
its button would never appear): the invariant of the pages adds that the page shown
is among those that were shown; every step of `Welcome` is a step of the pages, a new
controller, or leaves them alone, so `Paging` carries over to the app.
`OnlyReadersAreMarked`: nobody signs out while the onboarding is on the screen, and
who signs in is one of the `mixed`, so who has its last page before him was shown it
or is one of them (`Reading`), and flags are under way for those only (`FlagsRead`).
`RestartsAreWelcomed`: as long as a user who started the app waits, no call of the
login pages is in flight, and Home is either asking for him with nothing in the way
(`Asking`), or has its answer, and then the onboarding is before him if he is new, or
he has just closed it (`Welcomed`).

`ProgressHUDProofs` (for all `Views`, `MaxRequests`): the invariant says that a HUD
that is up is awaited and that no dismissal is remembered outside an animation.
`Implements` is the refinement of `Loader!Spec`; its fairness is model-checked.

`ConnectionProofs` (for all `Queries` and bounds): the invariant relates connection
state, token fetch, retry and wire. A retry is scheduled exactly when the
connection is down and not interrupted (`NeverForgotten`), a fetch belongs to the
attempt under way or to none, and requests are under way only on a connection the
client knows (`AssertionsHold`). Three invariants build on it. `CountInv` has the
types and the count: lemmas say what sending, receiving, forgetting and restoring
do to the number of listens in a sequence of messages (`ListensCounted`). `BlockInv`
adds that answers under way are those of the server (`AnswersTrue`), that a put
whose answer was given out or is held is not outstanding any more, and that given
out and held answers have nothing in common (`CallInv`); so the second answer to a
put that was sent twice finds nothing to call (`BlocksCalledOnce`). `PutInv` adds the
order. On one connection puts and their answers go in ascending order, and only
outstanding puts are on it or on the lost connection that the server may still read,
which is empty once a new one is ready (`WireOrder`); a new connection starts again
with all outstanding puts, as none is lost (`NoneLost`, `UnderWay`) and the first
answer on it is that of the auth after which it is restored (`RestoreFirst`). So all
answered puts are older than all outstanding ones (`AnswerOrder`), and a put that is
carried out again cannot be older than one whose success is on its way or was
reported (`ValueOrder`). From it follow `AcknowledgedWritesStay` and `NoPutLost`.

Only model-checked: liveness (`Terminates`, `GameIsDecided`,
`WrongGuessIsTurnedBack`, `HudGoesAway`, `PutSettles`, the fairness in
`ImplementsLoader`), which the prover does not do under fairness.

## Not modelled

* Layout, colours, wording, assets; the empty handler of the Apple button.
* Of `FPersistentConnection`: `onDisconnect` operations, purges and transactions,
  which the app does not use. A listen that the server revokes acts like
  `unlisten`. Delays of the retry helper are left out: a retry may fire at once.
* The other vendored code under `Pods/`: FirebaseAuth, Core and Analytics,
  GoogleSignIn, AppAuth, GTMSessionFetcher, leveldb, nanopb and their headers. It
  is the larger part of the repository's lines and all of its C and C++, and the
  app never calls most of it: leveldb stands behind the database's persistence,
  which the app does not switch on, and nanopb encodes usage statistics. Where the
  app depends on what such code does, the model has it as external behaviour
  (which requests Firebase accepts, the Google page, the order of answers).

## Plan

1. The app as a whole: `Session` with a game behind `inGame`, games that were left
   and still run, and a second game started meanwhile.
2. Theorems about the composition of 1.
