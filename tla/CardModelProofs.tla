--------------------------- MODULE CardModelProofs ---------------------------
(***************************************************************************)
(* CardModel for every number of pairs and of images: the generators only  *)
(* ever return legal decks.                                                *)
(***************************************************************************)
EXTENDS CardModel, TLAPS

\* How the two loops progress: two cards per accepted number, and the shuffle
\* starts at index 0 when all numbers are drawn.
Progress ==
  /\ Len(generatedCardsArray) = 2 * Len(generatedNumbersArray)
  /\ Len(generatedNumbersArray) <= Pairs
  /\ i <= Len(generatedCardsArray)
  /\ Drawing => i = 0

IInv == TypeOK /\ Progress /\ EveryCardOnce

--------------------------------------------------------------------------------

\* The empty arrays of a generator that starts satisfy the invariant.
LEMMA InitIInv == Init => IInv
BY PairsAssumption DEF Init, IInv, TypeOK, Progress, EveryCardOnce, Drawing, Contains, Images

\* Accepting a new number keeps every card in the array exactly once: the two
\* Card objects appended for it cannot be there yet.
LEMMA AcceptIInv ==
  ASSUME IInv, NEW n \in Images, Accept(n)
  PROVE  IInv'
<1> DEFINE nums == generatedNumbersArray
           cards == generatedCardsArray
<1>1. /\ nums \in Seq(Images) /\ nums' \in Seq(Images)
      /\ Len(nums') = Len(nums) + 1
      /\ nums'[Len(nums) + 1] = n
      /\ \A k \in 1 .. Len(nums) : nums'[k] = nums[k]
  BY DEF IInv, TypeOK, Accept
<1>2. <<n, 1>> \in Cards /\ <<n, 2>> \in Cards
  BY DEF Cards
<1>3. /\ cards \in Seq(Cards) /\ cards' \in Seq(Cards)
      /\ Len(cards') = Len(cards) + 2
      /\ cards'[Len(cards) + 1] = <<n, 1>>
      /\ cards'[Len(cards) + 2] = <<n, 2>>
      /\ \A k \in 1 .. Len(cards) : cards'[k] = cards[k]
  BY <1>2 DEF IInv, TypeOK, Accept, TwoCards
<1>4. TypeOK'
  BY <1>1, <1>3 DEF IInv, TypeOK, Accept
<1>5. Progress'
  BY <1>1, <1>3, PairsAssumption DEF IInv, TypeOK, Progress, Accept, Drawing
<1>6. \A k \in 1 .. Len(cards) : cards[k] # <<n, 1>> /\ cards[k] # <<n, 2>>
  <2>1. ~Contains(nums, n)
    BY DEF Accept, AlreadyDrawn
  <2>2. imageName(<<n, 1>>) = n /\ imageName(<<n, 2>>) = n
    BY DEF imageName
  <2>3. ~Contains(cards, <<n, 1>>) /\ ~Contains(cards, <<n, 2>>)
    BY <1>2, <2>1, <2>2 DEF IInv, EveryCardOnce
  <2> QED
    BY <2>3 DEF Contains
<1>. Len(cards) \in Nat /\ 1 .. Len(cards') = 1 .. Len(cards) \cup {Len(cards) + 1, Len(cards) + 2}
  BY <1>3
<1>7. ASSUME NEW k \in 1 .. Len(cards'), NEW l \in 1 .. Len(cards'), cards'[k] = cards'[l]
      PROVE  k = l
  <2>1. CASE k \in 1 .. Len(cards) /\ l \in 1 .. Len(cards)
    BY <2>1, <1>3, <1>7 DEF IInv, EveryCardOnce
  <2>2. CASE k \in 1 .. Len(cards) /\ l \notin 1 .. Len(cards)
    BY <2>2, <1>3, <1>6, <1>7
  <2>3. CASE k \notin 1 .. Len(cards) /\ l \in 1 .. Len(cards)
    BY <2>3, <1>3, <1>6, <1>7
  <2>4. CASE k \notin 1 .. Len(cards) /\ l \notin 1 .. Len(cards)
    BY <2>4, <1>3, <1>7
  <2> QED
    BY <2>1, <2>2, <2>3, <2>4
<1>8. ASSUME NEW card \in Cards
      PROVE  Contains(cards, card)' <=> Contains(nums, imageName(card))'
  <2>1. Contains(cards, card)' <=> Contains(cards, card) \/ card = <<n, 1>> \/ card = <<n, 2>>
    <3>1. Contains(cards, card)' <=> \E k \in 1 .. Len(cards') : cards'[k] = card
      BY DEF Contains
    <3>2. Contains(cards, card) <=> \E k \in 1 .. Len(cards) : cards'[k] = card
      BY <1>3 DEF Contains
    <3> QED
      BY <3>1, <3>2, <1>3
  <2>2. Contains(nums, imageName(card))' <=> Contains(nums, imageName(card)) \/ imageName(card) = n
    BY <1>1 DEF Contains
  <2>3. imageName(card) = n <=> card = <<n, 1>> \/ card = <<n, 2>>
    BY DEF Cards, imageName
  <2> QED
    BY <2>1, <2>2, <2>3 DEF IInv, EveryCardOnce
<1> QED
  BY <1>4, <1>5, <1>7, <1>8 DEF IInv, EveryCardOnce, imageName

\* Exchanging two entries of the array neither loses nor duplicates a card,
\* also when an index is exchanged with itself.
LEMMA SwapIInv ==
  ASSUME IInv, NEW n \in 0 .. Len(generatedCardsArray) - 1, Swap(n)
  PROVE  IInv'
<1> DEFINE nums == generatedNumbersArray
           cards == generatedCardsArray
           at(k) == IF k = i + 1 THEN n + 1 ELSE IF k = n + 1 THEN i + 1 ELSE k
<1>1. /\ i \in Nat /\ i + 1 \in 1 .. Len(cards) /\ n + 1 \in 1 .. Len(cards)
      /\ cards \in Seq(Cards)
  BY DEF IInv, TypeOK, Swap, Shuffling
<1>2. /\ cards' \in Seq(Cards)
      /\ Len(cards') = Len(cards)
      /\ \A k \in 1 .. Len(cards) : at(k) \in 1 .. Len(cards) /\ cards'[k] = cards[at(k)]
  BY <1>1 DEF Swap, Exchanged
<1>3. nums' = nums /\ i' = i + 1
  BY DEF Swap
<1>4. TypeOK' /\ Progress'
  BY <1>1, <1>2, <1>3, PairsAssumption
     DEF IInv, TypeOK, Progress, Swap, Drawing, Shuffling
<1>5. \A k, l \in 1 .. Len(cards') : cards'[k] = cards'[l] => k = l
  <2> SUFFICES ASSUME NEW k \in 1 .. Len(cards), NEW l \in 1 .. Len(cards),
                      cards'[k] = cards'[l]
               PROVE  k = l
    BY <1>2
  <2>1. at(k) = at(l)
    BY <1>2 DEF IInv, EveryCardOnce
  <2> QED
    BY <2>1, <1>1
<1>6. ASSUME NEW card \in Cards
      PROVE  Contains(cards, card)' <=> Contains(cards, card)
  <2>1. \A k \in 1 .. Len(cards) : at(at(k)) = k
    BY <1>1
  <2> QED
    BY <1>2, <2>1 DEF Contains
<1> QED
  BY <1>3, <1>4, <1>5, <1>6 DEF IInv, EveryCardOnce, imageName, Contains

\* Every reachable state of a generator satisfies the inductive invariant.
THEOREM Invariance == Spec => []IInv
<1>1. Init => IInv
  BY InitIInv
<1>2. IInv /\ [Next]_vars => IInv'
  <2> SUFFICES ASSUME IInv, [Next]_vars PROVE IInv'
    OBVIOUS
  <2>1. CASE UNCHANGED vars
    BY <2>1 DEF vars, IInv, TypeOK, Progress, EveryCardOnce, Contains, Drawing, imageName
  <2>2. ASSUME NEW n \in Images, Reject(n) PROVE IInv'
    BY <2>2, <2>1 DEF Reject, vars, IInv, TypeOK, Progress, EveryCardOnce, Contains, Drawing, imageName
  <2> QED
    BY <2>1, <2>2, AcceptIInv, SwapIInv DEF Next
<1> QED
  BY <1>1, <1>2, PTL DEF Spec

\* TypeOK for every number of pairs and images.
THEOREM TypeCorrect == Spec => []TypeOK
BY Invariance, PTL DEF IInv

\* EveryCardOnce for every number of pairs and images: neither the drawing
\* loop nor the shuffle ever loses or duplicates a Card object.
THEOREM CardsOnce == Spec => []EveryCardOnce
BY Invariance, PTL DEF IInv

--------------------------------------------------------------------------------

\* Once both loops are done the invariant makes the array a legal deck: the
\* partner of a card is the other object created for the same number.
LEMMA InvariantGivesDeck == IInv => ReturnsDeck
<1> SUFFICES ASSUME IInv, Returned
             PROVE  Dealt \in [0 .. 2 * Pairs - 1 -> Images] /\ IsDeck(Dealt)
  BY DEF ReturnsDeck, Decks
<1> DEFINE nums == generatedNumbersArray
           cards == generatedCardsArray
           S == 0 .. Len(cards) - 1
<1>1. cards \in Seq(Cards) /\ nums \in Seq(Images)
  BY DEF IInv, TypeOK
<1>2. Len(cards) = 2 * Pairs
  BY <1>1, PairsAssumption DEF IInv, Progress, Returned, Drawing
<1>3. \A k \in S : k + 1 \in 1 .. Len(cards) /\ cards[k + 1] \in Cards
  BY <1>1
<1>4. DOMAIN Dealt = S /\ \A k \in S : Dealt[k] = cards[k + 1][1]
  BY DEF Dealt, imageName
<1>5. ASSUME NEW p \in S
      PROVE  \E q \in S \ {p} : \A r \in S : Dealt[r] = Dealt[p] <=> r \in {p, q}
  <2>0. PICK n \in Images, x \in {1, 2} : cards[p + 1] = <<n, x>>
    BY <1>3 DEF Cards
  <2> DEFINE partner == <<n, 3 - x>>
  <2>1. /\ cards[p + 1][1] = n
        /\ \/ cards[p + 1] = <<n, 1>> /\ partner = <<n, 2>>
           \/ cards[p + 1] = <<n, 2>> /\ partner = <<n, 1>>
    BY <2>0
  <2>2. partner \in Cards /\ cards[p + 1] \in Cards /\ partner # cards[p + 1]
    BY <2>1, <1>3 DEF Cards
  <2>3. Contains(cards, partner)
    <3>1. Contains(cards, cards[p + 1])
      BY <1>3 DEF Contains
    <3>2. imageName(partner) = imageName(cards[p + 1])
      BY <2>1 DEF imageName
    <3> QED
      BY <2>2, <3>1, <3>2 DEF IInv, EveryCardOnce
  <2>4. PICK k \in 1 .. Len(cards) : cards[k] = partner
    BY <2>3 DEF Contains
  <2>5. k - 1 \in S \ {p}
    BY <2>2, <2>4, <1>1
  <2>6. ASSUME NEW r \in S PROVE Dealt[r] = Dealt[p] <=> r \in {p, k - 1}
    <3>1. Dealt[r] = Dealt[p] <=> cards[r + 1] = <<n, 1>> \/ cards[r + 1] = <<n, 2>>
      BY <2>1, <1>3, <1>4 DEF Cards
    <3>2. Dealt[r] = Dealt[p] <=> cards[r + 1] = cards[p + 1] \/ cards[r + 1] = cards[k]
      BY <2>1, <2>4, <3>1
    <3>3. \A a, b \in 1 .. Len(cards) : cards[a] = cards[b] => a = b
      BY DEF IInv, EveryCardOnce
    <3>4. Dealt[r] = Dealt[p] <=> r + 1 = p + 1 \/ r + 1 = k
      BY <3>2, <3>3, <1>3, <2>4
    <3> QED
      BY <3>4, <1>1
  <2> QED
    BY <2>5, <2>6
<1>6. Dealt \in [0 .. 2 * Pairs - 1 -> Images]
  BY <1>2, <1>3 DEF Dealt, imageName, Cards
<1> QED
  BY <1>4, <1>5, <1>6 DEF IsDeck

\* ReturnsDeck for every number of pairs and images, and so for the 6, 8 and
\* 10 pairs of the three modes: every image on the board occurs exactly twice.
THEOREM GeneratorReturnsDeck == Spec => []ReturnsDeck
BY Invariance, InvariantGivesDeck, PTL
================================================================================
