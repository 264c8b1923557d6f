------------------------------ MODULE ProgressHUD ------------------------------
(***************************************************************************)
(* The progress HUD that all controllers share (UIViewController.hud, a    *)
(* JGProgressHUD) and the controllers that show it around their requests.  *)
(*                                                                         *)
(* The HUD appears and disappears in animations.  A show is ignored during *)
(* an animation and while the HUD has a view; a dismissal during an        *)
(* animation is remembered until the animation ends.  Requests of several  *)
(* controllers can be in flight, and each completion dismisses the HUD,    *)
(* whoever has shown it.  Only the calls that showLoader makes are         *)
(* modelled, with the settings of the app: animated, and without a minimum *)
(* display time.                                                           *)
(***************************************************************************)
EXTENDS Integers

CONSTANTS
  Views,         \* the views of controllers that call showLoader
  Nil,           \* no view
  MaxRequests    \* bound: requests of one controller in flight

ASSUME ViewsAssumption == Nil \notin Views
ASSUME BoundAssumption == MaxRequests \in Nat

VARIABLES
  targetView,     \* the view that the HUD is in, a weak reference
  transitioning,  \* the animation under way: "no", "presenting", "dismissing"
  dismissAfterTransitionFinished,
  waiting         \* waiting[v]: requests of v's controller without an answer

hudVars == <<targetView, transitioning, dismissAfterTransitionFinished>>
vars == <<hudVars, waiting>>

Init ==
  /\ targetView = Nil
  /\ transitioning = "no"
  /\ dismissAfterTransitionFinished = FALSE
  /\ waiting = [v \in Views |-> 0]

--------------------------------------------------------------------------------
(* JGProgressHUD *)

\* Mutant: a HUD that is on its way out is shown again.
showInViewAnyway(view) ==
  IF targetView # Nil /\ transitioning # "dismissing"
  THEN UNCHANGED hudVars
  ELSE /\ targetView' = view
       /\ transitioning' = "presenting"
       /\ UNCHANGED dismissAfterTransitionFinished

showInView(view) ==
  IF transitioning # "no" \/ targetView # Nil
  THEN UNCHANGED hudVars
  ELSE /\ targetView' = view
       /\ transitioning' = "presenting"
       /\ UNCHANGED dismissAfterTransitionFinished

\* Mutant: a dismissal during an animation is ignored.
dismissNow ==
  /\ transitioning' = IF transitioning = "no" /\ targetView # Nil
                      THEN "dismissing" ELSE transitioning
  /\ UNCHANGED <<targetView, dismissAfterTransitionFinished>>

dismiss ==
  IF transitioning # "no"
  THEN /\ dismissAfterTransitionFinished' = TRUE
       /\ UNCHANGED <<targetView, transitioning>>
  ELSE /\ transitioning' = IF targetView = Nil THEN "no" ELSE "dismissing"
       /\ UNCHANGED <<targetView, dismissAfterTransitionFinished>>

\* A remembered dismissal is carried out when the HUD has appeared.
cleanUpAfterPresentation ==
  /\ transitioning' = IF dismissAfterTransitionFinished /\ targetView # Nil
                      THEN "dismissing" ELSE "no"
  /\ dismissAfterTransitionFinished' = FALSE
  /\ UNCHANGED targetView

\* Mutant: a dismissal during the dismissal is kept for the next time.
cleanUpKeepingDismissal ==
  /\ targetView' = Nil
  /\ transitioning' = "no"
  /\ UNCHANGED dismissAfterTransitionFinished

cleanUpAfterDismissal ==
  /\ targetView' = Nil
  /\ transitioning' = "no"
  /\ dismissAfterTransitionFinished' = FALSE

animationDidFinish ==
  /\ \/ transitioning = "presenting" /\ cleanUpAfterPresentation
     \/ transitioning = "dismissing" /\ cleanUpAfterDismissal
  /\ UNCHANGED waiting

--------------------------------------------------------------------------------
(* The controllers *)

\* hitTest: the HUD gets all touches of the view it is in, faded or not.
handleSubmit(view) ==
  /\ view # targetView
  /\ waiting[view] < MaxRequests
  /\ showInView(view)
  /\ waiting' = [waiting EXCEPT ![view] = @ + 1]

\* Mutant: a block that runs although it was run before.
completionAgain(view) ==
  /\ dismiss
  /\ waiting' = [waiting EXCEPT ![view] = @ - 1]

completion(view) ==
  /\ waiting[view] > 0
  /\ dismiss
  /\ waiting' = [waiting EXCEPT ![view] = @ - 1]

\* A controller goes away, and its view with it.  A completion block that has
\* not run yet keeps it alive.
deallocate(view) ==
  /\ waiting[view] = 0
  /\ targetView = view
  /\ targetView' = Nil
  /\ UNCHANGED <<transitioning, dismissAfterTransitionFinished, waiting>>

Next ==
  \/ \E view \in Views : handleSubmit(view) \/ completion(view) \/ deallocate(view)
  \/ animationDidFinish

Spec == Init /\ [][Next]_vars

\* UIKit ends animations, also those of views that are not on the screen.
FairSpec == Spec /\ WF_vars(animationDidFinish)

--------------------------------------------------------------------------------
(* Properties *)

\* Every variable stays in its range.
TypeOK ==
  /\ targetView \in Views \cup {Nil}
  /\ transitioning \in {"no", "presenting", "dismissing"}
  /\ dismissAfterTransitionFinished \in BOOLEAN
  /\ waiting \in [Views -> 0 .. MaxRequests]

\* The HUD as its callers see it: on its way up it is up, unless it has been
\* told to go; without a view it is gone when the animation has ended.
loader ==
  IF targetView = Nil /\ transitioning = "no" THEN "off"
  ELSE IF transitioning = "dismissing" \/ dismissAfterTransitionFinished \/ targetView = Nil
       THEN "fading" ELSE "up"

\* A HUD that stays up is in a view whose controller still waits: whichever
\* controllers show and dismiss it, and at whatever moment of an animation,
\* nobody's view stays covered after its request has been answered.
UpIsAwaited == loader = "up" => waiting[targetView] > 0

L == INSTANCE Loader WITH state <- loader

\* The HUD keeps what module Loader promises: a remembered dismissal is
\* neither lost nor left over for the next show, and a HUD that was dismissed
\* disappears although shows and dismissals go on.
ImplementsLoader == L!FairSpec
================================================================================
