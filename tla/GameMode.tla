------------------------------- MODULE GameMode -------------------------------
(***************************************************************************)
(* One game: EasyModeController, NormalModeController or                   *)
(* HardModeController, which are the same code with other numbers, and the *)
(* collection view of CardCells it drives.                                 *)
(*                                                                         *)
(* Everything runs on the main thread, so a handler is one action.  What   *)
(* interleaves is the order of the events the run loop delivers: touches,  *)
(* firings of the repeating timer, the blocks flipBack left on the main    *)
(* queue, the alert's button, the back button, and the layout passes of    *)
(* the collection view, which takes cells away from rows that scroll off   *)
(* the screen and hands recycled cells to rows that scroll on.             *)
(***************************************************************************)
EXTENDS Integers, Sequences, Deck, CardCell

CONSTANTS
  Rows,          \* the rows of cardArray, 0 .. 2 * pairs - 1
  Images,        \* the image names
  NoRow,         \* nil for firstFlippedCardIndex
  Cells,         \* the CardCell objects of the collection view
  NoCell,        \* no cell is prepared for a row
  Limit,         \* the initial value of milliseconds
  Scrollable,    \* the rows that can be scrolled off the screen
  MaxFlipBacks   \* bound: flip-back blocks that wait for the same cell

ASSUME RowsAssumption ==
  /\ Rows # {}
  /\ NoRow \notin Rows
  /\ Scrollable \subseteq Rows

ASSUME CellsAssumption == NoCell \notin Cells

ASSUME LimitAssumption == Limit \in Nat \ {0}

\* milliseconds is a Float; up to 2^24 it counts down by 1 exactly.
ASSUME FloatAssumption == Limit <= 2^24

ASSUME BoundAssumption == MaxFlipBacks \in Nat

VARIABLES
  deck,                    \* imageName of every card in cardArray
  isFlipped,               \* isFlipped of every card
  isMatched,               \* isMatched of every card
  firstFlippedCardIndex,   \* row of the first card of the current try, or NoRow
  milliseconds,            \* time left
  timer,                   \* is the timer scheduled (not invalidated)?
  onScreen,                \* is the controller on the navigation stack?
  alert,                   \* title of the alert on the screen, or "none"
  results,                 \* history: the titles showAlert was called with
  cellAt,                  \* the cell prepared for a row, or NoCell
  visible,                 \* the rows whose cell is on the screen
  cells,                   \* state of every cell
  flipBacks                \* flip-back blocks waiting for each cell

cardVars   == <<deck, isFlipped, isMatched, firstFlippedCardIndex>>
clockVars  == <<milliseconds, timer>>
resultVars == <<alert, results>>
layoutVars == <<cellAt, visible>>
vars == <<cardVars, clockVars, onScreen, resultVars, layoutVars, cells, flipBacks>>

AllMatched == \A r \in Rows : isMatched[r]

--------------------------------------------------------------------------------
(* Life cycle, timer and result *)

\* viewDidLoad: a shuffled deck, the timer scheduled; no layout pass yet.
Init ==
  /\ deck \in Decks(Rows, Images)
  /\ isFlipped = [r \in Rows |-> FALSE]
  /\ isMatched = [r \in Rows |-> FALSE]
  /\ firstFlippedCardIndex = NoRow
  /\ milliseconds = Limit
  /\ timer = TRUE
  /\ onScreen = TRUE
  /\ alert = "none"
  /\ results = <<>>
  /\ cellAt = [r \in Rows |-> NoCell]
  /\ visible = {}
  /\ cells = [c \in Cells |-> newCell]
  /\ flipBacks = [c \in Cells |-> 0]

\* present() on a controller whose view has left the window does nothing.
showAlert(title) ==
  /\ results' = Append(results, title)
  /\ alert' = IF onScreen /\ alert = "none" THEN title ELSE alert

\* Mutant: a won game does not invalidate the timer.
checkGameEndedKeepsTimer(matched, time, running) ==
  /\ timer' = running
  /\ IF \A r \in Rows : matched[r] THEN showAlert("won")
     ELSE IF time > 0 THEN UNCHANGED resultVars
     ELSE showAlert("lost")

\* Mutant: only a won game is announced.
checkGameEndedOnlyWon(matched, time, running) ==
  LET isWon == \A r \in Rows : matched[r]
  IN  /\ timer' = (running /\ ~(isWon /\ time > 0))
      /\ IF isWon THEN showAlert("won") ELSE UNCHANGED resultVars

\* Called with the values that isMatched, milliseconds and the timer have at
\* the time of the call.
checkGameEnded(matched, time, running) ==
  LET isWon == \A r \in Rows : matched[r]
  IN  /\ timer' = (running /\ ~(isWon /\ time > 0))
      /\ IF isWon THEN showAlert("won")
         ELSE IF time > 0 THEN UNCHANGED resultVars
         ELSE showAlert("lost")

\* Mutant: off by one.
TimeIsOver(time) == time < 0

TimeIsUp(time) == time <= 0

\* Mutant: two timers are scheduled, so every millisecond is counted twice.
timerElapsedTwice ==
  /\ timer
  /\ milliseconds' = milliseconds - 2
  /\ IF TimeIsUp(milliseconds - 2)
     THEN checkGameEnded(isMatched, milliseconds - 2, FALSE)
     ELSE UNCHANGED <<timer, resultVars>>
  /\ UNCHANGED <<cardVars, onScreen, layoutVars, cells, flipBacks>>

timerElapsed ==
  /\ timer
  /\ milliseconds' = milliseconds - 1
  /\ IF TimeIsUp(milliseconds - 1)
     THEN checkGameEnded(isMatched, milliseconds - 1, FALSE)
     ELSE UNCHANGED <<timer, resultVars>>
  /\ UNCHANGED <<cardVars, onScreen, layoutVars, cells, flipBacks>>

\* The button of the alert: it has no handler, the alert just goes away.
dismissAlert ==
  /\ alert # "none"
  /\ alert' = "none"
  /\ UNCHANGED <<cardVars, clockVars, onScreen, results, layoutVars, cells, flipBacks>>

\* The back button, out of reach while an alert is up.  The timer keeps its
\* target alive and goes on.
moveBack ==
  /\ onScreen
  /\ alert = "none"
  /\ onScreen' = FALSE
  /\ UNCHANGED <<cardVars, clockVars, resultVars, layoutVars, cells, flipBacks>>

--------------------------------------------------------------------------------
(* Touching a card *)

\* Mutant: a second touch of the open card is not ignored.
TouchableTwice(r) == milliseconds > 0 /\ isMatched[r] = FALSE

\* Mutant: touches are not ignored when the time is up.
TouchableLate(r) == isFlipped[r] = FALSE /\ isMatched[r] = FALSE

\* The touches that are not ignored.
Touchable(r) ==
  /\ milliseconds > 0
  /\ isFlipped[r] = FALSE /\ isMatched[r] = FALSE

\* Mutant: the second card of a wrong guess stays flipped.
TurnedOneBack(one, two) == [isFlipped EXCEPT ![one] = FALSE, ![two] = TRUE]

\* isFlipped after a wrong guess.
TurnedBack(one, two) == [isFlipped EXCEPT ![one] = FALSE, ![two] = FALSE]

\* Mutant: the first card is not reloaded.
reloadNothing(r) == cellAt

\* The collection view forgets the cell it may have kept for a row that is
\* off the screen.
reloadItems(r) == [cellAt EXCEPT ![r] = NoCell]

\* shown is the state of the cells after the flip of the second card.
\* cellForItem(at:) is nil for a row that is not on the screen.
checkForMatches(one, two, shown) ==
  LET there == {cellAt[r] : r \in {one, two} \cap visible}
  IN  /\ \/ /\ deck[one] = deck[two]
            /\ isMatched' = [isMatched EXCEPT ![one] = TRUE, ![two] = TRUE]
            /\ isFlipped' = [isFlipped EXCEPT ![two] = TRUE]
            /\ cells' = [c \in Cells |-> IF c \in there THEN remove(shown[c]) ELSE shown[c]]
            /\ checkGameEnded(isMatched', milliseconds, timer)
            /\ UNCHANGED flipBacks
         \/ /\ deck[one] # deck[two]
            /\ \A c \in there : flipBacks[c] < MaxFlipBacks
            /\ isFlipped' = TurnedBack(one, two)
            /\ cells' = shown
            /\ flipBacks' = [c \in Cells |-> IF c \in there THEN flipBacks[c] + 1
                                                            ELSE flipBacks[c]]
            /\ UNCHANGED <<isMatched, timer, resultVars>>
      /\ cellAt' = IF one \in visible THEN cellAt ELSE reloadItems(one)
      /\ firstFlippedCardIndex' = NoRow

\* A touch reaches a card that is on the screen and under no alert.  When the
\* code returns early nothing changes.
didSelectItemAt(r) ==
  /\ onScreen /\ alert = "none" /\ r \in visible
  /\ Touchable(r)
  /\ LET shown == [cells EXCEPT ![cellAt[r]] = flip(@)]
     IN  \/ /\ firstFlippedCardIndex = NoRow
            /\ cells' = shown
            /\ isFlipped' = [isFlipped EXCEPT ![r] = TRUE]
            /\ firstFlippedCardIndex' = r
            /\ UNCHANGED <<isMatched, timer, resultVars, cellAt, flipBacks>>
         \/ /\ firstFlippedCardIndex # NoRow
            /\ checkForMatches(firstFlippedCardIndex, r, shown)
  /\ UNCHANGED <<deck, milliseconds, onScreen, visible>>

--------------------------------------------------------------------------------
(* The screen: delayed blocks and the layout passes of UICollectionView *)

\* A block of flipBack runs, whatever card its cell shows by now.
flipBackFires(c) ==
  /\ flipBacks[c] > 0
  /\ flipBacks' = [flipBacks EXCEPT ![c] = @ - 1]
  /\ cells' = [cells EXCEPT ![c] = flipBackBlock(@)]
  /\ UNCHANGED <<cardVars, clockVars, onScreen, resultVars, layoutVars>>

\* A row without a prepared cell comes on the screen: a cell that serves no
\* other row is dequeued and set up.
cellForItemAt(r, c) ==
  /\ onScreen
  /\ cellAt[r] = NoCell
  /\ \A s \in Rows : cellAt[s] # c
  /\ cellAt' = [cellAt EXCEPT ![r] = c]
  /\ visible' = visible \cup {r}
  /\ cells' = [cells EXCEPT ![c] = setCard(@, isFlipped[r], isMatched[r])]
  /\ UNCHANGED <<cardVars, clockVars, onScreen, resultVars, flipBacks>>

\* A row that was scrolled off comes back while its cell is still prepared:
\* the cell is shown again as it is, the data source is not asked.
redisplay(r) ==
  /\ onScreen
  /\ r \notin visible
  /\ cellAt[r] # NoCell
  /\ visible' = visible \cup {r}
  /\ UNCHANGED <<cardVars, clockVars, onScreen, resultVars, cellAt, cells, flipBacks>>

scrollOff(r) ==
  /\ onScreen
  /\ r \in Scrollable \cap visible
  /\ visible' = visible \ {r}
  /\ UNCHANGED <<cardVars, clockVars, onScreen, resultVars, cellAt, cells, flipBacks>>

\* The cell kept for a row off the screen goes to the reuse queue.
recycle(r) ==
  /\ onScreen
  /\ r \notin visible
  /\ cellAt[r] # NoCell
  /\ cellAt' = [cellAt EXCEPT ![r] = NoCell]
  /\ UNCHANGED <<cardVars, clockVars, onScreen, resultVars, visible, cells, flipBacks>>

--------------------------------------------------------------------------------

ScreenNext ==
  \/ \E c \in Cells : flipBackFires(c)
  \/ \E r \in Rows, c \in Cells : cellForItemAt(r, c)
  \/ \E r \in Rows : redisplay(r)
  \/ \E r \in Rows : scrollOff(r)
  \/ \E r \in Rows : recycle(r)

Next ==
  \/ \E r \in Rows : didSelectItemAt(r)
  \/ timerElapsed
  \/ dismissAlert
  \/ moveBack
  \/ ScreenNext

Spec == Init /\ [][Next]_vars

\* The run loop fires a scheduled repeating timer and drains the main queue.
\* Nothing is assumed of the player or of scrolling.
Fairness ==
  /\ WF_vars(timerElapsed)
  /\ \A c \in Cells : WF_vars(flipBackFires(c))

FairSpec == Spec /\ Fairness

\* When a patient player touches the next card.
NoFlipBackWaits == \A c \in Cells : flipBacks[c] = 0

--------------------------------------------------------------------------------
(* Invariants of the game *)

\* Every variable stays in its range.
TypeOK ==
  /\ deck \in [Rows -> Images]
  /\ isFlipped \in [Rows -> BOOLEAN]
  /\ isMatched \in [Rows -> BOOLEAN]
  /\ firstFlippedCardIndex \in Rows \cup {NoRow}
  /\ milliseconds \in 0 .. Limit
  /\ timer \in BOOLEAN
  /\ onScreen \in BOOLEAN
  /\ alert \in {"none", "won", "lost"}
  /\ results \in Seq({"won", "lost"})
  /\ cellAt \in [Rows -> Cells \cup {NoCell}]
  /\ visible \in SUBSET Rows
  /\ cells \in [Cells -> Cell]
  /\ flipBacks \in [Cells -> 0 .. MaxFlipBacks]

\* Between two events the only card that counts as flipped without being
\* matched is the one firstFlippedCardIndex names, however fast the player
\* touches cards: a card can be neither compared with itself nor left over
\* flipped, which would make it untouchable and the game unwinnable.
FirstFlippedIsOnlyOpenCard ==
  \A r \in Rows : (isFlipped[r] /\ ~isMatched[r]) <=> firstFlippedCardIndex = r

\* The two cards of an image are matched together: never one alone and never
\* a card with the partner of another.
PairsMatchTogether ==
  \A r, s \in Rows : deck[r] = deck[s] => (isMatched[r] <=> isMatched[s])

\* The timer is scheduled exactly as long as the game is undecided, also
\* after the player left the screen; so a won game cannot expire afterwards,
\* and an expired one does not keep the controller alive.
TimerRunsWhileUndecided ==
  timer <=> (milliseconds > 0 /\ ~AllMatched)

\* The result is announced once, when the timer stops, and it is the right
\* one: the last pair and the end of the time cannot both announce theirs.
OneRightResult ==
  results = IF timer THEN <<>> ELSE <<IF AllMatched THEN "won" ELSE "lost">>

\* Once the result is announced no touch and no event changes the cards or
\* the remaining time: closing the alert does not reopen the game.
DecidedIsFinal ==
  [][results # <<>> => UNCHANGED <<cardVars, milliseconds, results>>]_vars

--------------------------------------------------------------------------------
(* Invariants of the screen *)

\* A prepared cell is transparent exactly when its card is matched, although
\* cells are recycled between matched and unmatched cards and the first card
\* of a pair may be off the screen, its cell kept, when it is matched.
TransparentIffMatched ==
  \A r \in Rows : cellAt[r] # NoCell =>
     (cells[cellAt[r]].alpha = 0 <=> isMatched[r])

FaceUp(r) ==
  /\ cellAt[r] # NoCell
  /\ cells[cellAt[r]].alpha = 1
  /\ cells[cellAt[r]].face = "front"

\* A card shows its picture only if it is flipped or a flip-back waits for
\* its cell: no recycled, kept or reloaded cell gives a picture away.
FaceUpIsAccountedFor ==
  \A r \in Rows : FaceUp(r) => isFlipped[r] \/ flipBacks[cellAt[r]] > 0

\* For a patient player the screen tells the truth: an unmatched card shows
\* its picture if and only if the game counts it as flipped, except while a
\* flip-back waits for its cell.  (A player who touches a card again before
\* its flip-back has run sees it turned face down while it is flipped.)
ScreenAgreesWithCards ==
  \A r \in Rows :
     cellAt[r] # NoCell /\ ~isMatched[r] /\ flipBacks[cellAt[r]] = 0
       => (FaceUp(r) <=> isFlipped[r])

--------------------------------------------------------------------------------
(* Liveness *)

\* Every game ends: the result is announced and the timer, which keeps the
\* controller alive, is invalidated for good, also when the player has left.
GameIsDecided == <>[](results # <<>> /\ ~timer)

\* A card of a wrong guess does not stay face up.
WrongGuessIsTurnedBack ==
  \A r \in Rows : (FaceUp(r) /\ ~isFlipped[r]) ~> ~(FaceUp(r) /\ ~isFlipped[r])

--------------------------------------------------------------------------------
(* The game implements the rules of MemoryGame *)

Outcome == IF results = <<>> THEN "playing" ELSE Head(results)

Game == INSTANCE MemoryGame WITH
          found   <- {r \in Rows : isMatched[r]},
          open    <- firstFlippedCardIndex,
          outcome <- Outcome

\* Whatever the timer, the cells, the alerts and the navigation do, what
\* happens to the cards and to the result is a play of the memory game.
ImplementsMemoryGame == Game!GameSpec
===============================================================================
