------------------------------- MODULE CardModel -------------------------------
(***************************************************************************)
(* The deck generators of Model/CardModel.swift.  getEasyCards,            *)
(* getNormalCards and getHardCards are the same code with 6, 8 and 10      *)
(* pairs: a loop that draws random numbers, rejects the ones already drawn *)
(* and appends two new Card objects per accepted number, followed by a     *)
(* shuffle that swaps every position with a random one.                    *)
(*                                                                         *)
(* A generator runs to completion inside viewDidLoad; its steps are        *)
(* separate actions here so that every outcome of every random draw is     *)
(* explored and so that the state in the middle of the shuffle is visible. *)
(***************************************************************************)
EXTENDS Naturals, Sequences, Deck

CONSTANTS
  Pairs,      \* distinct images drawn: 6 (Easy), 8 (Normal) or 10 (Hard)
  NumImages   \* images card1 ... card<NumImages> in the asset catalogue: 13

\* With more pairs than images the drawing loop could never end.
ASSUME PairsAssumption ==
  /\ Pairs \in Nat \ {0}
  /\ NumImages \in Nat
  /\ Pairs <= NumImages

Images == 1 .. NumImages

\* A Card object: the number of its image and which of the two objects
\* created for that number it is (1 for cardOne, 2 for cardTwo).
Cards == Images \X {1, 2}

imageName(card) == card[1]

VARIABLES
  generatedNumbersArray,   \* the image numbers accepted so far
  generatedCardsArray,     \* the Card objects; array index k is position k + 1
  i                        \* loop variable of the shuffle, 0 before it starts

vars == <<generatedNumbersArray, generatedCardsArray, i>>

Contains(s, x) == \E k \in 1 .. Len(s) : s[k] = x

\* Mutant: the loop waits for as many numbers as there will be cards.
DrawingUntilFull == Len(generatedNumbersArray) < 2 * Pairs

Drawing   == Len(generatedNumbersArray) < Pairs
Shuffling == ~Drawing /\ i < Len(generatedCardsArray)
Returned  == ~Drawing /\ i = Len(generatedCardsArray)

\* Mutant: no check for numbers that were drawn before.
NeverDrawn(randomNumber) == FALSE

AlreadyDrawn(randomNumber) == Contains(generatedNumbersArray, randomNumber)

\* Mutant: arc4random_uniform without + 1.
ZeroBasedCards(randomNumber) == <<<<randomNumber - 1, 1>>, <<randomNumber - 1, 2>>>>

\* cardOne and cardTwo, the objects made for an accepted number.
TwoCards(randomNumber) == <<<<randomNumber, 1>>, <<randomNumber, 2>>>>

\* Mutant: temporaryStorage is not written back.
Overwritten(cards, k, l) == [cards EXCEPT ![k] = cards[l]]

\* Exchange of positions k and l through temporaryStorage.
Exchanged(cards, k, l) ==
  LET temporaryStorage == cards[k]
  IN  [cards EXCEPT ![k] = cards[l], ![l] = temporaryStorage]

--------------------------------------------------------------------------------

Init ==
  /\ generatedNumbersArray = <<>>
  /\ generatedCardsArray = <<>>
  /\ i = 0

\* The loop body when the drawn number is new.
Accept(randomNumber) ==
  /\ Drawing
  /\ ~AlreadyDrawn(randomNumber)
  /\ generatedNumbersArray' = Append(generatedNumbersArray, randomNumber)
  /\ generatedCardsArray' = generatedCardsArray \o TwoCards(randomNumber)
  /\ UNCHANGED i

\* The loop body when the number was drawn before: draw again.
Reject(randomNumber) ==
  /\ Drawing
  /\ AlreadyDrawn(randomNumber)
  /\ UNCHANGED vars

\* One iteration of the shuffle: exchange index i with a random index.
Swap(randomNumber) ==
  /\ Shuffling
  /\ generatedCardsArray' = Exchanged(generatedCardsArray, i + 1, randomNumber + 1)
  /\ i' = i + 1
  /\ UNCHANGED generatedNumbersArray

Next ==
  \/ \E randomNumber \in Images : Accept(randomNumber)
  \/ \E randomNumber \in Images : Reject(randomNumber)
  \/ \E randomNumber \in 0 .. Len(generatedCardsArray) - 1 : Swap(randomNumber)

\* arc4random_uniform does not return already drawn numbers for ever (it does
\* so with probability zero), and the loops never block.
Fairness ==
  /\ WF_vars(\E randomNumber \in Images : Accept(randomNumber))
  /\ WF_vars(\E randomNumber \in 0 .. Len(generatedCardsArray) - 1 : Swap(randomNumber))

Spec == Init /\ [][Next]_vars
FairSpec == Spec /\ Fairness

--------------------------------------------------------------------------------

\* The two arrays and the counter of a generator stay in their ranges.
TypeOK ==
  /\ generatedNumbersArray \in Seq(Images)
  /\ generatedCardsArray \in Seq(Cards)
  /\ i \in 0 .. 2 * Pairs

\* At every moment, also between two swaps, the array holds both cards of
\* every number drawn so far, and each of those objects exactly once: the
\* drawing loop never adds a third card of an image and no swap loses or
\* duplicates a Card object.
EveryCardOnce ==
  /\ \A k, l \in 1 .. Len(generatedCardsArray) :
        generatedCardsArray[k] = generatedCardsArray[l] => k = l
  /\ \A card \in Cards :
        Contains(generatedCardsArray, card)
          <=> Contains(generatedNumbersArray, imageName(card))

\* The image of every row of the collection view, rows counted from 0.
Dealt == [row \in 0 .. Len(generatedCardsArray) - 1 |->
             imageName(generatedCardsArray[row + 1])]

\* What a generator returns is one of the decks the game specification starts
\* from: 2 * Pairs cards, every image that occurs occurring exactly twice, so
\* the game can be won.
ReturnsDeck == Returned => Dealt \in Decks(0 .. 2 * Pairs - 1, Images)

\* The generator returns: viewDidLoad does not hang in the drawing loop.
Terminates == <>Returned
================================================================================
