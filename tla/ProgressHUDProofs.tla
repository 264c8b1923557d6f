--------------------------- MODULE ProgressHUDProofs ---------------------------
(***************************************************************************)
(* The HUD, for any number of views and requests: it is up only where      *)
(* somebody waits, and it makes no step that module Loader does not allow. *)
(* That it disappears in the end rests on fairness and is left to TLC.     *)
(***************************************************************************)
EXTENDS ProgressHUD, TLAPS

\* A dismissal is remembered during an animation only, and a dismissed HUD may
\* lose its view but has not got a new one.
DeferredInTransition == dismissAfterTransitionFinished => transitioning # "no"

IInv == TypeOK /\ DeferredInTransition /\ UpIsAwaited

\* How each operation of the HUD moves it, as its callers see it.
LEMMA ShowSteps ==
  ASSUME TypeOK, DeferredInTransition, NEW view \in Views, showInView(view)
  PROVE  /\ loader' = L!Shown(loader)
         /\ DeferredInTransition'
         /\ loader' = "up" => (loader = "up" /\ UNCHANGED targetView) \/ targetView' = view
<1>1. CASE transitioning # "no" \/ targetView # Nil
  <2>1. UNCHANGED hudVars
    BY <1>1 DEF showInView
  <2> QED
    BY <1>1, <2>1 DEF hudVars, loader, L!Shown, DeferredInTransition
<1>2. CASE transitioning = "no" /\ targetView = Nil
  <2>1. /\ targetView' = view /\ transitioning' = "presenting"
        /\ dismissAfterTransitionFinished' = dismissAfterTransitionFinished
    BY <1>2 DEF showInView
  <2>2. dismissAfterTransitionFinished = FALSE
    BY <1>2 DEF DeferredInTransition, TypeOK
  <2>3. view # Nil
    BY ViewsAssumption
  <2> QED
    BY <1>2, <2>1, <2>2, <2>3 DEF loader, L!Shown, DeferredInTransition
<1> QED
  BY <1>1, <1>2

LEMMA DismissSteps ==
  ASSUME TypeOK, DeferredInTransition, dismiss
  PROVE  loader' = L!Hidden(loader) /\ DeferredInTransition' /\ loader' # "up"
<1>1. CASE transitioning # "no"
  <2>1. /\ dismissAfterTransitionFinished' = TRUE
        /\ targetView' = targetView /\ transitioning' = transitioning
    BY <1>1 DEF dismiss
  <2> QED
    BY <1>1, <2>1 DEF loader, L!Hidden, DeferredInTransition
<1>2. CASE transitioning = "no"
  <2>1. /\ transitioning' = IF targetView = Nil THEN "no" ELSE "dismissing"
        /\ targetView' = targetView
        /\ dismissAfterTransitionFinished' = dismissAfterTransitionFinished
    BY <1>2 DEF dismiss
  <2>2. dismissAfterTransitionFinished = FALSE
    BY <1>2 DEF DeferredInTransition, TypeOK
  <2> QED
    BY <1>2, <2>1, <2>2 DEF loader, L!Hidden, DeferredInTransition
<1> QED
  BY <1>1, <1>2

LEMMA FinishSteps ==
  ASSUME TypeOK, animationDidFinish
  PROVE  /\ loader' = loader \/ (loader = "fading" /\ loader' = "off")
         /\ DeferredInTransition'
         /\ loader' = "up" => loader = "up" /\ UNCHANGED targetView
<1>1. CASE transitioning = "presenting" /\ cleanUpAfterPresentation
  <2>1. CASE dismissAfterTransitionFinished
    BY <1>1, <2>1 DEF cleanUpAfterPresentation, loader, DeferredInTransition
  <2>2. CASE ~dismissAfterTransitionFinished
    BY <1>1, <2>2 DEF cleanUpAfterPresentation, loader, DeferredInTransition
  <2> QED
    BY <2>1, <2>2
<1>2. CASE transitioning = "dismissing" /\ cleanUpAfterDismissal
  BY <1>2 DEF cleanUpAfterDismissal, loader, DeferredInTransition
<1> QED
  BY <1>1, <1>2 DEF animationDidFinish

LEMMA DeallocateSteps ==
  ASSUME IInv, NEW view \in Views, deallocate(view)
  PROVE  loader' = loader \/ (loader = "fading" /\ loader' = "off")
<1>1. loader # "up"
  BY DEF IInv, UpIsAwaited, deallocate, TypeOK
<1>2. targetView # Nil
  BY ViewsAssumption DEF deallocate
<1> QED
  BY <1>1, <1>2 DEF deallocate, loader

--------------------------------------------------------------------------------

LEMMA TypeStep == TypeOK /\ [Next]_vars => TypeOK'
<1> SUFFICES ASSUME TypeOK, [Next]_vars PROVE TypeOK'
  OBVIOUS
<1> USE ViewsAssumption, BoundAssumption
<1>1. ASSUME NEW view \in Views, handleSubmit(view) PROVE TypeOK'
  BY <1>1 DEF handleSubmit, showInView, hudVars, TypeOK
<1>2. ASSUME NEW view \in Views, completion(view) PROVE TypeOK'
  <2>1. waiting' \in [Views -> 0 .. MaxRequests]
    BY <1>2 DEF completion, TypeOK
  <2>2. /\ targetView' = targetView
        /\ transitioning' \in {"no", "presenting", "dismissing"}
        /\ dismissAfterTransitionFinished' \in BOOLEAN
    BY <1>2, Zenon DEF completion, dismiss, TypeOK
  <2> QED
    BY <2>1, <2>2 DEF TypeOK
<1>3. ASSUME NEW view \in Views, deallocate(view) PROVE TypeOK'
  BY <1>3 DEF deallocate, TypeOK
<1>4. CASE animationDidFinish
  BY <1>4 DEF animationDidFinish, cleanUpAfterPresentation, cleanUpAfterDismissal, TypeOK
<1>5. CASE UNCHANGED vars
  BY <1>5 DEF vars, hudVars, TypeOK
<1> QED
  BY <1>1, <1>2, <1>3, <1>4, <1>5 DEF Next

\* Every step keeps the invariant and moves the HUD as Loader allows.
LEMMA StepMoves == IInv /\ [Next]_vars => IInv' /\ [L!Next]_loader
<1> SUFFICES ASSUME IInv, [Next]_vars PROVE IInv' /\ [L!Next]_loader
  OBVIOUS
<1> USE DEF IInv, L!Next, L!Show, L!Hide, L!Faded
<1>t. TypeOK'
  BY TypeStep
<1>1. ASSUME NEW view \in Views, handleSubmit(view) PROVE IInv' /\ [L!Next]_loader
  <2>1. /\ loader' = L!Shown(loader)
        /\ DeferredInTransition'
        /\ loader' = "up" => (loader = "up" /\ UNCHANGED targetView) \/ targetView' = view
    BY <1>1, ShowSteps DEF handleSubmit
  <2>2. waiting' = [waiting EXCEPT ![view] = @ + 1] /\ waiting \in [Views -> Nat]
    BY <1>1, BoundAssumption DEF handleSubmit, TypeOK
  <2>3. loader = "up" => targetView \in Views
    BY DEF loader, TypeOK
  <2>4. UpIsAwaited'
    BY <2>1, <2>2, <2>3 DEF UpIsAwaited
  <2> QED
    BY <1>t, <2>1, <2>4
<1>2. ASSUME NEW view \in Views, completion(view) PROVE IInv' /\ [L!Next]_loader
  <2>1. loader' = L!Hidden(loader) /\ DeferredInTransition' /\ loader' # "up"
    BY <1>2, DismissSteps DEF completion
  <2> QED
    BY <1>t, <2>1 DEF UpIsAwaited
<1>3. ASSUME NEW view \in Views, deallocate(view) PROVE IInv' /\ [L!Next]_loader
  <2>1. loader' = loader \/ (loader = "fading" /\ loader' = "off")
    BY <1>3, DeallocateSteps
  <2>2. loader # "up"
    BY <1>3 DEF UpIsAwaited, deallocate, TypeOK
  <2>3. DeferredInTransition'
    BY <1>3 DEF deallocate, DeferredInTransition
  <2> QED
    BY <1>t, <2>1, <2>2, <2>3 DEF UpIsAwaited
<1>4. CASE animationDidFinish
  <2>1. /\ loader' = loader \/ (loader = "fading" /\ loader' = "off")
        /\ DeferredInTransition'
        /\ loader' = "up" => loader = "up" /\ UNCHANGED targetView
    BY <1>4, FinishSteps
  <2>2. UNCHANGED waiting
    BY <1>4 DEF animationDidFinish
  <2> QED
    BY <1>t, <2>1, <2>2 DEF UpIsAwaited
<1>5. CASE UNCHANGED vars
  <2>1. loader' = loader /\ UNCHANGED <<targetView, waiting>> /\ DeferredInTransition'
    BY <1>5 DEF vars, hudVars, loader, DeferredInTransition
  <2> QED
    BY <1>t, <2>1 DEF UpIsAwaited
<1> QED
  BY <1>1, <1>2, <1>3, <1>4, <1>5 DEF Next

LEMMA InitInv == Init => IInv /\ L!Init
<1> SUFFICES ASSUME Init PROVE IInv /\ L!Init
  OBVIOUS
<1>1. TypeOK
  <2>1. waiting \in [Views -> 0 .. MaxRequests]
    BY BoundAssumption DEF Init
  <2>2. dismissAfterTransitionFinished \in BOOLEAN
    BY Zenon DEF Init
  <2> QED
    BY <2>1, <2>2, Zenon DEF Init, TypeOK
<1>2. loader = "off" /\ DeferredInTransition
  BY DEF Init, loader, DeferredInTransition
<1> QED
  BY <1>1, <1>2 DEF IInv, UpIsAwaited, L!Init

\* The variables of the HUD and the controllers keep their types.
THEOREM TypeCorrect == Spec => []TypeOK
<1>1. IInv => TypeOK
  BY DEF IInv
<1> QED
  BY <1>1, InitInv, StepMoves, PTL DEF Spec

\* JGProgressHUD under the app's showLoader calls: a view is covered for good
\* only while its controller waits.
THEOREM AwaitedWhenUp == Spec => []UpIsAwaited
<1>1. IInv => UpIsAwaited
  BY DEF IInv
<1> QED
  BY <1>1, InitInv, StepMoves, PTL DEF Spec

\* The HUD with its animations implements the three-state loader that module
\* Session uses.
THEOREM Implements == Spec => L!Spec
  BY InitInv, StepMoves, PTL DEF Spec, L!Spec
================================================================================
