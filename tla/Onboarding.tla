------------------------------ MODULE Onboarding ------------------------------
(***************************************************************************)
(* The pages of the onboarding: OnboardingController with the              *)
(* PaperOnboarding view it drives.  The view turns pages and tells its     *)
(* delegate beforehand, the controller shows or hides the start button;    *)
(* page, page control and button are three views that change in three      *)
(* places.  What closing the onboarding does is in module Session.         *)
(***************************************************************************)
EXTENDS Integers

CONSTANT ItemCount   \* onboardingItems.count

\* The button of a single page would never be shown: it is hidden at first
\* and the view does not announce the page it starts with.
ASSUME ItemCountAssumption == ItemCount \in Nat /\ ItemCount > 1

VARIABLES
  currentIndex,   \* page that PaperOnboarding shows, counted from 0
  pageControl,    \* page that its page control marks
  alpha,          \* alpha of getStartButton
  closed,         \* has dismissOnboarding been called?
  turned          \* history: the pages that were shown

pageVars == <<currentIndex, pageControl, alpha, closed, turned>>

Pages == 0 .. ItemCount - 1

\* Mutant: off by one.
shouldShowBeforeLast(index) == index = ItemCount - 2

shouldShowGetStartedButton(index) == index = ItemCount - 1

\* Mutant: the button is only ever shown.
animateGetStartedButtonOnce(index) ==
  alpha' = IF shouldShowGetStartedButton(index) THEN 1 ELSE alpha

\* The controller's delegate method; animations are reduced to the values
\* they assign.
onboardingWillTransitonToIndex(index) ==
  alpha' = IF shouldShowGetStartedButton(index) THEN 1 ELSE 0

\* currentIndex(_:animated:) of PaperOnboarding.  Before the first page and
\* after the last one nothing happens.
turnTo(index) ==
  \/ /\ index \in Pages
     /\ onboardingWillTransitonToIndex(index)
     /\ currentIndex' = index
     /\ pageControl' = index
     /\ turned' = turned \cup {index}
  \/ /\ index \notin Pages
     /\ UNCHANGED <<alpha, currentIndex, pageControl, turned>>

--------------------------------------------------------------------------------

PagesInit ==
  /\ currentIndex = 0 /\ pageControl = 0
  /\ alpha = 0
  /\ closed = FALSE
  /\ turned = {0}

gestureControlDidSwipe(step) ==
  /\ ~closed
  /\ turnTo(currentIndex + step)
  /\ UNCHANGED closed

\* A tap on the page control.  It hits an item or nothing; the delegate is
\* told a second time, about the same page.
tapAction(index) ==
  /\ ~closed
  /\ index # currentIndex
  /\ turnTo(index)
  /\ UNCHANGED closed

\* A transparent button gets no touches.
dismissOnboarding ==
  /\ ~closed /\ alpha = 1
  /\ closed' = TRUE
  /\ UNCHANGED <<currentIndex, pageControl, alpha, turned>>

PagesNext ==
  \/ \E step \in {-1, 1} : gestureControlDidSwipe(step)
  \/ \E index \in Pages : tapAction(index)
  \/ dismissOnboarding

PagesSpec == PagesInit /\ [][PagesNext]_pageVars

--------------------------------------------------------------------------------
(* Properties *)

\* Every variable stays in its range.
PagesTypeOK ==
  /\ currentIndex \in Pages /\ pageControl \in Pages
  /\ alpha \in {0, 1}
  /\ closed \in BOOLEAN
  /\ turned \subseteq Pages

\* However the user swipes and taps, the start button can be touched exactly
\* when the last page is shown, and the page control marks the page shown.
StartOnLastPage ==
  /\ alpha = 1 <=> currentIndex = ItemCount - 1
  /\ pageControl = currentIndex

\* Who has closed the onboarding has seen its last page, with the time limits.
ClosedAfterLastPage == closed => ItemCount - 1 \in turned
================================================================================
