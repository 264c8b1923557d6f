--------------------------- MODULE ConnectionProofs ---------------------------
(***************************************************************************)
(* The connection for any number of puts, queries, faults and messages:    *)
(* its retry and the assertions in the code, the count of unanswered       *)
(* listens, completion blocks that run once, and the order of puts.        *)
(***************************************************************************)
EXTENDS PersistentConnection, FiniteSetTheorems, SequenceTheorems, TLAPS

\* Ranges of what the state machine branches on.
Ranges ==
  /\ connectionState \in States
  /\ scheduledRetry \in BOOLEAN
  /\ fetching \in BOOLEAN

IInv == Ranges /\ RetryIffDown /\ Assertions

\* The part of the invariant that actions on puts and listens leave alone.
LEMMA Frame ==
  ASSUME IInv, UNCHANGED stateVars, UNCHANGED fetching,
         toServer' # <<>> \/ toClient' # <<>> => connected
  PROVE  IInv'
  BY DEF IInv, Ranges, RetryIffDown, Assertions, stateVars, connected

LEMMA ForgetNothing == ASSUME NEW q PROVE Forget(<<>>, q) = <<>>
  BY DEF Forget

\* A connection that is closed, for whatever reason.
LEMMA Closed ==
  ASSUME IInv, Open, interruptReasons \subseteq interruptReasons',
         onDisconnect(interruptReasons'), UNCHANGED fetching
  PROVE  IInv'
<1>1. connectionState # "Disconnected" /\ connectionState # "GettingToken"
  BY DEF Open
<1>2. scheduledRetry = FALSE /\ fetching = FALSE
  BY <1>1 DEF IInv, Ranges, RetryIffDown, Assertions
<1>3. /\ connectionState' = "Disconnected"
      /\ scheduledRetry' = (interruptReasons' = {})
      /\ toServer' = <<>> /\ toClient' = <<>>
  BY <1>2 DEF onDisconnect, tryScheduleReconnect
<1> QED
  BY <1>2, <1>3 DEF IInv, Ranges, RetryIffDown, Assertions, States, connected

\* Nothing is under way when there is no connection.
LEMMA Quiet ==
  ASSUME IInv, ~connected
  PROVE  toServer = <<>> /\ toClient = <<>>
  BY DEF IInv, Assertions

LEMMA AppStep ==
  ASSUME IInv, App
  PROVE  IInv'
<1>1. ASSUME NEW q \in Queries, listen(q) PROVE IInv'
  <2>1. toServer' # <<>> \/ toClient' # <<>> => connected
    BY <1>1, Quiet DEF listen
  <2> QED
    BY <1>1, <2>1, Frame DEF listen, tokenVars
<1>2. ASSUME NEW q \in Queries, unlisten(q) PROVE IInv'
  <2>1. toServer' # <<>> \/ toClient' # <<>> => connected
    BY <1>2, Quiet, ForgetNothing DEF unlisten
  <2> QED
    BY <1>2, <2>1, Frame DEF unlisten, tokenVars
<1>3. CASE putInternal
  <2>1. toServer' # <<>> \/ toClient' # <<>> => connected
    BY <1>3, Quiet DEF putInternal, canSendWrites, connected
  <2> QED
    BY <1>3, <2>1, Frame DEF putInternal, tokenVars
<1>4. ASSUME NEW token \in BOOLEAN, refreshAuthToken(token) PROVE IInv'
  <2>1. toServer' # <<>> \/ toClient' # <<>> => connected
    BY <1>4, Quiet DEF refreshAuthToken
  <2> QED
    BY <1>4, <2>1, Frame DEF refreshAuthToken
<1> QED
  BY <1>1, <1>2, <1>3, <1>4 DEF App

LEMMA InterruptionStep ==
  ASSUME IInv, Interruption
  PROVE  IInv'
<1>1. CASE connectionLost
  BY <1>1, Closed DEF connectionLost, tokenVars
<1>2. CASE authRevoked
  BY <1>2, Closed DEF authRevoked, connected, Open
<1>3. CASE tokenFailed
  <2>1. connectionState \in {"GettingToken", "Disconnected"}
    BY <1>3 DEF tokenFailed, IInv, Assertions
  <2>2. toServer = <<>> /\ toClient = <<>>
    BY <2>1, Quiet DEF connected
  <2>3. /\ connectionState' = "Disconnected" /\ fetching' = FALSE
        /\ UNCHANGED <<interruptReasons, toServer, toClient>>
        /\ scheduledRetry' = IF interruptReasons = {} THEN TRUE ELSE scheduledRetry
    BY <1>3 DEF tokenFailed, tryScheduleReconnect, wireVars
  <2>4. interruptReasons # {} => scheduledRetry = FALSE
    BY DEF IInv, Ranges, RetryIffDown
  <2> QED
    BY <2>2, <2>3, <2>4 DEF IInv, Ranges, RetryIffDown, Assertions, States
<1>4. ASSUME NEW reason, interruptForReason(reason) PROVE IInv'
  <2>1. CASE Open
    BY <1>4, <2>1, Closed DEF interruptForReason, tokenVars
  <2>2. CASE ~Open
    <3>1. toServer = <<>> /\ toClient = <<>>
      BY <2>2, Quiet DEF Open, connected
    <3>2. /\ connectionState' = "Disconnected" /\ scheduledRetry' = FALSE
          /\ interruptReasons' # {}
          /\ UNCHANGED <<fetching, toServer, toClient>>
      BY <1>4, <2>2 DEF interruptForReason, tokenVars
    <3> QED
      BY <3>1, <3>2 DEF IInv, Ranges, RetryIffDown, Assertions, States
  <2> QED
    BY <2>1, <2>2
<1>5. ASSUME NEW reason, resumeForReason(reason) PROVE IInv'
  <2>1. scheduledRetry = FALSE
    BY <1>5 DEF resumeForReason, IInv, Ranges, RetryIffDown
  <2>2. /\ scheduledRetry' = (connectionState = "Disconnected" /\ interruptReasons' = {})
        /\ UNCHANGED <<connectionState, fetching, toServer, toClient>>
    BY <1>5, <2>1 DEF resumeForReason, tryScheduleReconnect, tokenVars, wireVars
  <2> QED
    BY <2>2 DEF IInv, Ranges, RetryIffDown, Assertions, connected
<1>6. CASE reachable
  <2>1. UNCHANGED <<connectionState, interruptReasons, fetching, toServer, toClient>>
    BY <1>6 DEF reachable, tokenVars, wireVars
  <2>2. scheduledRetry' = scheduledRetry
    BY <1>6 DEF reachable, tryScheduleReconnect, IInv, Ranges, RetryIffDown
  <2> QED
    BY <2>1, <2>2 DEF IInv, Ranges, RetryIffDown, Assertions, connected
<1> QED
  BY <1>1, <1>2, <1>3, <1>4, <1>5, <1>6 DEF Interruption

LEMMA ConnectStep ==
  ASSUME IInv, Connect
  PROVE  IInv'
<1>1. CASE retryFires
  <2>1. connectionState = "Disconnected"
    BY <1>1 DEF retryFires, IInv, RetryIffDown
  <2>2. toServer = <<>> /\ toClient = <<>>
    BY <2>1, Quiet DEF connected
  <2>3. /\ connectionState' = "GettingToken" /\ scheduledRetry' = FALSE /\ fetching' = TRUE
        /\ UNCHANGED <<toServer, toClient>>
    BY <1>1 DEF retryFires, wireVars
  <2> QED
    BY <2>2, <2>3 DEF IInv, Ranges, RetryIffDown, Assertions, States
<1>2. ASSUME NEW token \in BOOLEAN, tokenFetched(token) PROVE IInv'
  <2>1. connectionState \in {"GettingToken", "Disconnected"}
    BY <1>2 DEF tokenFetched, IInv, Assertions
  <2>2. toServer = <<>> /\ toClient = <<>>
    BY <2>1, Quiet DEF connected
  <2>3. /\ fetching' = FALSE
        /\ UNCHANGED <<interruptReasons, scheduledRetry, toServer, toClient>>
        /\ connectionState' = IF connectionState = "GettingToken"
                              THEN "Connecting" ELSE connectionState
    BY <1>2 DEF tokenFetched, wireVars
  <2> QED
    BY <2>1, <2>2, <2>3 DEF IInv, Ranges, RetryIffDown, Assertions, States
<1>3. CASE staleToken
  <2>1. UNCHANGED <<stateVars, fetching, toServer, toClient>>
    BY <1>3 DEF staleToken, wireVars
  <2>2. toServer' # <<>> \/ toClient' # <<>> => connected
    BY <2>1, Quiet
  <2> QED
    BY <2>1, <2>2, Frame
<1>4. CASE onReady
  <2>1. connectionState' \in {"Authenticating", "Connected"} /\ connectionState = "Connecting"
    BY <1>4 DEF onReady
  <2>2. UNCHANGED <<interruptReasons, scheduledRetry, fetching>>
    BY <1>4 DEF onReady, tokenVars
  <2>3. fetching = FALSE /\ scheduledRetry = FALSE
    BY <2>1 DEF IInv, Ranges, RetryIffDown, Assertions
  <2> QED
    BY <2>1, <2>2, <2>3 DEF IInv, Ranges, RetryIffDown, Assertions, States, connected
<1> QED
  BY <1>1, <1>2, <1>3, <1>4 DEF Connect

LEMMA AnswerStep ==
  ASSUME IInv, Answer
  PROVE  IInv'
<1>0. connected
  BY Quiet DEF Answer, authAnswered, putAnswered, listenAnswered, Received
<1>1. CASE authAnswered
  <2>0. UNCHANGED <<interruptReasons, fetching>>
    BY <1>1 DEF authAnswered
  <2>1. CASE onDisconnect(interruptReasons)
    <3>1. onDisconnect(interruptReasons')
      BY <2>0, <2>1
    <3> QED
      BY <1>0, <2>0, <3>1, Closed DEF connected, Open
  <2>2. CASE connectionState' = "Connected" /\ UNCHANGED scheduledRetry
    BY <1>0, <2>0, <2>2 DEF IInv, Ranges, RetryIffDown, Assertions, States, connected
  <2> QED
    BY <1>1, <2>1, <2>2 DEF authAnswered
<1>2. CASE putAnswered
  BY <1>0, <1>2, Frame DEF putAnswered, tokenVars
<1>3. CASE listenAnswered
  BY <1>0, <1>3, Frame DEF listenAnswered, tokenVars
<1> QED
  BY <1>1, <1>2, <1>3 DEF Answer

LEMMA StepIInv == IInv /\ [Next]_vars => IInv'
<1> SUFFICES ASSUME IInv, [Next]_vars PROVE IInv'
  OBVIOUS
<1>1. ASSUME NEW status \in Status, serverAnswers(status) PROVE IInv'
  <2>1. connected
    BY <1>1, Quiet DEF serverAnswers
  <2> QED
    BY <1>1, <2>1, Frame DEF serverAnswers, tokenVars
<1>2. CASE serverReadsLate
  <2>1. UNCHANGED <<stateVars, fetching, toServer, toClient>>
    BY <1>2 DEF serverReadsLate, tokenVars
  <2> QED
    BY <2>1, Quiet, Frame
<1>3. CASE UNCHANGED vars
  <2>1. UNCHANGED <<stateVars, fetching, toServer, toClient>>
    BY <1>3 DEF vars, tokenVars, wireVars
  <2> QED
    BY <2>1, Quiet, Frame
<1> QED
  BY <1>1, <1>2, <1>3, AppStep, InterruptionStep, ConnectStep, AnswerStep DEF Next

LEMMA InitIInv == Init => IInv
<1> SUFFICES ASSUME Init PROVE IInv
  OBVIOUS
<1>1. /\ connectionState = "Disconnected" /\ interruptReasons = {"waitingForOpen"}
      /\ toServer = <<>> /\ toClient = <<>>
  BY Zenon DEF Init
<1>2. scheduledRetry = FALSE /\ fetching = FALSE
  BY Zenon DEF Init
<1> QED
  BY <1>1, <1>2 DEF IInv, Ranges, RetryIffDown, Assertions, States

\* FPersistentConnection never stays down without a retry or a reason, and
\* never has a retry when it is not down.
THEOREM NeverForgotten == Spec => []RetryIffDown
<1>1. IInv => RetryIffDown
  BY DEF IInv
<1> QED
  BY <1>1, InitIInv, StepIInv, PTL DEF Spec

\* The state assertions of FPersistentConnection cannot fail.
THEOREM AssertionsHold == Spec => []Assertions
<1>1. IInv => Assertions
  BY DEF IInv
<1> QED
  BY <1>1, InitIInv, StepIInv, PTL DEF Spec
--------------------------------------------------------------------------------
(* Messages *)

LEMMA Sent ==
  /\ \A b \in BOOLEAN : Auth(b) \in Messages({"none"})
  /\ \A q \in Queries : Listen(q) \in Messages({"none"})
  /\ \A i \in Puts : Put(i) \in Messages({"none"})
  BY DEF Auth, Listen, Put, Messages

\* A listen that is given up changes no message but its own requests.
LEMMA Forgotten ==
  ASSUME NEW statuses, NEW msgs \in Seq(Messages(statuses)), NEW q
  PROVE  /\ Forget(msgs, q) \in Seq(Messages(statuses))
         /\ DOMAIN Forget(msgs, q) = DOMAIN msgs /\ Len(Forget(msgs, q)) = Len(msgs)
         /\ \A k \in DOMAIN msgs :
              /\ Forget(msgs, q)[k].kind = msgs[k].kind
              /\ msgs[k].kind # "listen" => Forget(msgs, q)[k] = msgs[k]
<1>1. \A k \in 1 .. Len(msgs) : msgs[k] \in Messages(statuses)
  OBVIOUS
<1>2. \A k \in 1 .. Len(msgs) :
        msgs[k].kind = "listen" =>
          /\ [msgs[k] EXCEPT !.current = FALSE] \in Messages(statuses)
          /\ [msgs[k] EXCEPT !.current = FALSE].kind = "listen"
  BY <1>1 DEF Messages
<1>3. \A k \in 1 .. Len(msgs) :
        /\ Forget(msgs, q)[k] \in Messages(statuses)
        /\ Forget(msgs, q)[k].kind = msgs[k].kind
        /\ msgs[k].kind # "listen" => Forget(msgs, q)[k] = msgs[k]
  BY <1>1, <1>2 DEF Forget
<1>4. Forget(msgs, q) = [k \in 1 .. Len(msgs) |-> Forget(msgs, q)[k]]
  BY DEF Forget
<1> QED
  BY <1>3, <1>4, IsASeq

\* The server's answer is the request with a status.
LEMMA Answered ==
  ASSUME NEW r \in Messages({"none"}), NEW status \in Status
  PROVE  /\ [r EXCEPT !.status = status] \in Messages(Status)
         /\ [r EXCEPT !.status = status].kind = r.kind
         /\ [r EXCEPT !.status = status].status = status
         /\ r.kind = "put" => [r EXCEPT !.status = status].index = r.index
         /\ r.kind = "auth" => [r EXCEPT !.status = status].restore = r.restore
  BY DEF Messages

LEMMA Concatenated ==
  ASSUME NEW S, NEW s \in Seq(S), NEW t \in Seq(S)
  PROVE  /\ s \o t \in Seq(S)
         /\ Len(s \o t) = Len(s) + Len(t)
         /\ \A k \in 1 .. Len(s) : (s \o t)[k] = s[k]
         /\ \A k \in 1 .. Len(t) : (s \o t)[Len(s) + k] = t[k]
  OBVIOUS

\* An order in which a finite set is sent has every member once.
LEMMA Enumeration ==
  ASSUME NEW S, IsFiniteSet(S), NEW order \in SetToSeqs(S)
  PROVE  /\ order \in Seq(S) /\ Len(order) = Cardinality(S)
         /\ \A x \in S : \E k \in DOMAIN order : order[k] = x
<1> DEFINE D == 1 .. Cardinality(S)
<1>1. Cardinality(S) \in Nat
  BY FS_CardinalityType
<1>2. order \in [D -> S] /\ \A i, j \in D : i # j => order[i] # order[j]
  BY DEF SetToSeqs
<1>3. order \in Seq(S) /\ Len(order) = Cardinality(S) /\ DOMAIN order = D
  BY <1>1, <1>2
<1>4. Cardinality(D) = Cardinality(S)
  BY <1>1, FS_Interval
<1>5. order \in Injection(D, S)
  BY <1>2 DEF Injection, IsInjective
<1>6. order \in Surjection(D, S)
  BY <1>4, <1>5, FS_Injection
<1> QED
  BY <1>3, <1>6 DEF Surjection

\* What restoreState sends: the listens, then the puts.
LEMMA RestoredMessages ==
  ASSUME NEW S \in SUBSET Queries, IsFiniteSet(S), NEW order \in SetToSeqs(S),
         NEW puts \in Seq(Puts)
  PROVE  /\ Restored(order, puts) \in Seq(Messages({"none"}))
         /\ Len(Restored(order, puts)) = Cardinality(S) + Len(puts)
         /\ \A k \in 1 .. Cardinality(S) : Restored(order, puts)[k].kind = "listen"
         /\ \A k \in 1 .. Len(puts) : Restored(order, puts)[Cardinality(S) + k] = Put(puts[k])
<1> DEFINE first == [k \in DOMAIN order |-> Listen(order[k])]
           second == [k \in DOMAIN puts |-> Put(puts[k])]
<1>1. order \in Seq(S) /\ Len(order) = Cardinality(S)
  BY Enumeration
<1>2. /\ first \in Seq(Messages({"none"})) /\ Len(first) = Cardinality(S)
      /\ \A k \in 1 .. Cardinality(S) : first[k].kind = "listen"
  <2>1. \A k \in 1 .. Len(order) : Listen(order[k]) \in Messages({"none"})
    BY <1>1, Sent
  <2>2. \A k \in 1 .. Len(order) : Listen(order[k]).kind = "listen"
    BY DEF Listen
  <2> QED
    BY <1>1, <2>1, <2>2
<1>3. /\ second \in Seq(Messages({"none"})) /\ Len(second) = Len(puts)
      /\ \A k \in 1 .. Len(puts) : second[k] = Put(puts[k])
  <2>1. \A k \in 1 .. Len(puts) : Put(puts[k]) \in Messages({"none"})
    BY Sent
  <2> QED
    BY <2>1
<1>4. Restored(order, puts) = first \o second
  BY DEF Restored
<1>5. Cardinality(S) \in Nat
  BY FS_CardinalityType
<1> HIDE DEF first, second
<1>6. first \in Seq(Messages({"none"})) /\ second \in Seq(Messages({"none"}))
  BY <1>2, <1>3
<1>7. /\ first \o second \in Seq(Messages({"none"}))
      /\ Len(first \o second) = Len(first) + Len(second)
      /\ \A k \in 1 .. Len(first) : (first \o second)[k] = first[k]
      /\ \A k \in 1 .. Len(second) : (first \o second)[Len(first) + k] = second[k]
  BY <1>6, Concatenated
<1> QED
  BY <1>2, <1>3, <1>4, <1>5, <1>6, <1>7

--------------------------------------------------------------------------------
(* Types *)

\* Listens are made one by one, so there are finitely many.
TypeInv == TypeOK /\ IsFiniteSet(listens)

\* What goes through the connection and what waits for it.
WireTypes ==
  /\ listens \subseteq Queries /\ IsFiniteSet(listens)
  /\ unackedListensCount \in Nat
  /\ toServer \in Seq(Messages({"none"})) /\ late \in Seq(Messages({"none"}))
  /\ toClient \in Seq(Messages(Status))

PutTypes ==
  /\ outstandingPuts \subseteq 1 .. putCounter - 1
  /\ putCounter \in 1 .. MaxPuts + 1
  /\ putsToAck \in Seq(PutAnswers) /\ called \in Seq(PutAnswers)
  /\ applied \subseteq Puts /\ refused \subseteq Puts /\ value \in 0 .. MaxPuts

StateTypes ==
  /\ connectionState \in States
  /\ interruptReasons \subseteq Reasons
  /\ scheduledRetry \in BOOLEAN /\ fetching \in BOOLEAN /\ authToken \in BOOLEAN

CounterTypes == stale \in 0 .. MaxStale /\ faults \in 0 .. MaxFaults

LEMMA TypeParts == TypeInv <=> WireTypes /\ PutTypes /\ StateTypes /\ CounterTypes
  BY DEF TypeInv, TypeOK, WireTypes, PutTypes, StateTypes, CounterTypes

LEMMA CounterTypesStep ==
  ASSUME CounterTypes, [Next]_vars
  PROVE  CounterTypes'
<1>1. ASSUME Fault, UNCHANGED stale PROVE CounterTypes'
  BY <1>1, BoundsAssumption DEF CounterTypes, Fault
<1>2. ASSUME UNCHANGED faults, stale' = stale \/ (stale < MaxStale /\ stale' = stale + 1)
                                             \/ (stale > 0 /\ stale' = stale - 1)
      PROVE  CounterTypes'
  BY <1>2, BoundsAssumption DEF CounterTypes
<1>3. CASE App
  BY <1>2, <1>3 DEF App, listen, unlisten, putInternal, refreshAuthToken, tokenVars
<1>4. CASE Interruption
  BY <1>1, <1>2, <1>4 DEF Interruption, connectionLost, authRevoked, tokenFailed,
     interruptForReason, resumeForReason, reachable, tokenVars
<1>5. CASE Connect
  BY <1>2, <1>5 DEF Connect, retryFires, tokenFetched, staleToken, onReady, tokenVars
<1>6. CASE Answer
  BY <1>2, <1>6 DEF Answer, authAnswered, putAnswered, listenAnswered, tokenVars
<1>7. ASSUME NEW status, serverAnswers(status) PROVE CounterTypes'
  BY <1>1, <1>2, <1>7 DEF serverAnswers, tokenVars
<1>8. CASE serverReadsLate \/ UNCHANGED vars
  BY <1>2, <1>8 DEF serverReadsLate, tokenVars, vars
<1> QED
  BY <1>3, <1>4, <1>5, <1>6, <1>7, <1>8 DEF Next

\* The state machine's own variables.
LEMMA StateTypesStep ==
  ASSUME StateTypes, [Next]_vars
  PROVE  StateTypes'
<1> USE DEF StateTypes
<1>1. ASSUME NEW q, listen(q) \/ unlisten(q) PROVE StateTypes'
  BY <1>1 DEF listen, unlisten, stateVars, tokenVars
<1>2. CASE putInternal
  BY <1>2 DEF putInternal, stateVars, tokenVars
<1>3. ASSUME NEW token \in BOOLEAN, refreshAuthToken(token) PROVE StateTypes'
  BY <1>3 DEF refreshAuthToken, stateVars
<1>4. CASE connectionLost
  BY <1>4 DEF connectionLost, onDisconnect, tryScheduleReconnect, tokenVars, States
<1>5. CASE authRevoked
  BY <1>5 DEF authRevoked, onDisconnect, tryScheduleReconnect, States
<1>6. CASE tokenFailed
  BY <1>6 DEF tokenFailed, tryScheduleReconnect, States
<1>7. ASSUME NEW reason \in {"serverKill", "repoInterrupt"}, interruptForReason(reason)
      PROVE  StateTypes'
  BY <1>7 DEF interruptForReason, onDisconnect, tryScheduleReconnect, tokenVars, States, Reasons
<1>8. ASSUME NEW reason, resumeForReason(reason) PROVE StateTypes'
  BY <1>8 DEF resumeForReason, tryScheduleReconnect, tokenVars
<1>9. CASE reachable
  BY <1>9 DEF reachable, tryScheduleReconnect, tokenVars
<1>10. CASE retryFires
  BY <1>10 DEF retryFires, States
<1>11. ASSUME NEW token \in BOOLEAN, tokenFetched(token) PROVE StateTypes'
  BY <1>11 DEF tokenFetched, States
<1>12. CASE staleToken
  BY <1>12 DEF staleToken, stateVars
<1>13. CASE onReady
  BY <1>13 DEF onReady, tokenVars, States
<1>14. CASE authAnswered
  BY <1>14 DEF authAnswered, onDisconnect, tryScheduleReconnect, States
<1>15. CASE putAnswered
  BY <1>15 DEF putAnswered, stateVars, tokenVars
<1>16. CASE listenAnswered
  BY <1>16 DEF listenAnswered, stateVars, tokenVars
<1>17. ASSUME NEW status \in Status, serverAnswers(status) PROVE StateTypes'
  BY <1>17 DEF serverAnswers, stateVars, tokenVars
<1>18. CASE serverReadsLate
  BY <1>18 DEF serverReadsLate, stateVars, tokenVars
<1>19. CASE UNCHANGED vars
  BY <1>19 DEF vars, stateVars, tokenVars
<1> QED
  BY <1>1, <1>2, <1>3, <1>4, <1>5, <1>6, <1>7, <1>8, <1>9, <1>10, <1>11, <1>12, <1>13,
     <1>14, <1>15, <1>16, <1>17, <1>18, <1>19
     DEF Next, App, Interruption, Connect, Answer

--------------------------------------------------------------------------------
(* Counting listen requests *)

Listening(msgs) == {k \in DOMAIN msgs : msgs[k].kind = "listen"}

LEMMA UpTo ==
  ASSUME NEW n \in Nat
  PROVE  IsFiniteSet(1 .. n) /\ Cardinality(1 .. n) = n
<1>1. /\ IsFiniteSet(1 .. n)
      /\ Cardinality(1 .. n) = IF 1 > n THEN 0 ELSE n - 1 + 1
  BY FS_Interval
<1> QED
  BY <1>1

LEMMA ListensInListening == \A msgs : ListensIn(msgs) = Cardinality(Listening(msgs))
  BY DEF ListensIn, Listening

LEMMA ListeningFinite ==
  ASSUME NEW S, NEW msgs \in Seq(S)
  PROVE  IsFiniteSet(Listening(msgs)) /\ Cardinality(Listening(msgs)) \in Nat
<1>1. Listening(msgs) \subseteq 1 .. Len(msgs) /\ Len(msgs) \in Nat
  BY DEF Listening
<1>2. IsFiniteSet(1 .. Len(msgs))
  BY <1>1, FS_Interval
<1> QED
  BY <1>1, <1>2, FS_Subset, FS_CardinalityType

LEMMA ListensInType ==
  ASSUME NEW S, NEW msgs \in Seq(S)
  PROVE  ListensIn(msgs) \in Nat
  BY ListeningFinite, ListensInListening

LEMMA CountNone ==
  ASSUME NEW S, NEW msgs \in Seq(S), \A k \in DOMAIN msgs : msgs[k].kind # "listen"
  PROVE  ListensIn(msgs) = 0
<1>1. {k \in DOMAIN msgs : msgs[k].kind = "listen"} = {}
  OBVIOUS
<1> QED
  BY <1>1, FS_EmptySet DEF ListensIn

LEMMA CountAll ==
  ASSUME NEW S, NEW msgs \in Seq(S), \A k \in DOMAIN msgs : msgs[k].kind = "listen"
  PROVE  ListensIn(msgs) = Len(msgs)
<1>1. {k \in DOMAIN msgs : msgs[k].kind = "listen"} = 1 .. Len(msgs) /\ Len(msgs) \in Nat
  OBVIOUS
<1> QED
  BY <1>1, UpTo DEF ListensIn

LEMMA CountOne ==
  ASSUME NEW S, NEW m \in S
  PROVE  ListensIn(<<m>>) = IF m.kind = "listen" THEN 1 ELSE 0
<1>1. <<m>> \in Seq(S) /\ Len(<<m>>) = 1 /\ \A k \in DOMAIN <<m>> : <<m>>[k] = m
  OBVIOUS
<1>2. CASE m.kind = "listen"
  BY <1>1, <1>2, CountAll
<1>3. CASE m.kind # "listen"
  BY <1>1, <1>3, CountNone
<1> QED
  BY <1>2, <1>3

LEMMA CountConcat ==
  ASSUME NEW S, NEW s \in Seq(S), NEW t \in Seq(S)
  PROVE  ListensIn(s \o t) = ListensIn(s) + ListensIn(t)
<1> DEFINE Shifted == {Len(s) + k : k \in Listening(t)}
           shift == [k \in Listening(t) |-> Len(s) + k]
<1>1. /\ s \o t \in Seq(S) /\ Len(s \o t) = Len(s) + Len(t)
      /\ \A k \in 1 .. Len(s) : (s \o t)[k] = s[k]
      /\ \A k \in 1 .. Len(t) : (s \o t)[Len(s) + k] = t[k]
  BY Concatenated
<1>2. Len(s) \in Nat /\ Len(t) \in Nat /\ DOMAIN s = 1 .. Len(s) /\ DOMAIN t = 1 .. Len(t)
      /\ DOMAIN (s \o t) = 1 .. Len(s) + Len(t)
  BY <1>1
<1>3. Listening(s \o t) = Listening(s) \cup Shifted
  <2>1. \A k \in 1 .. Len(s) + Len(t) : k \in 1 .. Len(s) \/ \E j \in 1 .. Len(t) : k = Len(s) + j
    <3> SUFFICES ASSUME NEW k \in 1 .. Len(s) + Len(t), k \notin 1 .. Len(s)
                 PROVE  \E j \in 1 .. Len(t) : k = Len(s) + j
      OBVIOUS
    <3>1. k - Len(s) \in 1 .. Len(t) /\ k = Len(s) + (k - Len(s))
      BY <1>2
    <3> QED
      BY <3>1
  <2>2. ASSUME NEW k \in Listening(s \o t) PROVE k \in Listening(s) \cup Shifted
    <3>1. CASE k \in 1 .. Len(s)
      BY <1>1, <1>2, <2>2, <3>1 DEF Listening
    <3>2. CASE \E j \in 1 .. Len(t) : k = Len(s) + j
      BY <1>1, <1>2, <2>2, <3>2 DEF Listening
    <3> QED
      BY <1>2, <2>1, <2>2, <3>1, <3>2 DEF Listening
  <2>3. ASSUME NEW k \in Listening(s) PROVE k \in Listening(s \o t)
    BY <1>1, <1>2, <2>3 DEF Listening
  <2>4. ASSUME NEW j \in Listening(t) PROVE Len(s) + j \in Listening(s \o t)
    BY <1>1, <1>2, <2>4 DEF Listening
  <2> QED
    BY <2>2, <2>3, <2>4
<1>4. Listening(s) \cap Shifted = {}
  BY <1>2 DEF Listening
<1>5. shift \in Bijection(Listening(t), Shifted)
  BY <1>2 DEF Listening, Bijection, Injection, Surjection, IsInjective
<1>6. IsFiniteSet(Shifted) /\ Cardinality(Shifted) = Cardinality(Listening(t))
  BY <1>5, ListeningFinite, FS_Bijection DEF ExistsBijection
<1>7. Cardinality(Listening(s) \cap Shifted) = 0
  BY <1>4, FS_EmptySet
<1>8. /\ IsFiniteSet(Listening(s)) /\ Cardinality(Listening(s)) \in Nat
      /\ Cardinality(Listening(t)) \in Nat
  BY ListeningFinite
<1>9. Cardinality(Listening(s) \cup Shifted)
        = Cardinality(Listening(s)) + Cardinality(Shifted) - Cardinality(Listening(s) \cap Shifted)
  BY <1>6, <1>8, FS_Union
<1>10. /\ ListensIn(s) = Cardinality(Listening(s)) /\ ListensIn(t) = Cardinality(Listening(t))
       /\ ListensIn(s \o t) = Cardinality(Listening(s) \cup Shifted)
  BY <1>3, ListensInListening
<1> HIDE DEF Shifted
<1> QED
  BY <1>6, <1>7, <1>8, <1>9, <1>10

LEMMA CountAppend ==
  ASSUME NEW S, NEW msgs \in Seq(S), NEW m \in S
  PROVE  ListensIn(Append(msgs, m)) = ListensIn(msgs) + (IF m.kind = "listen" THEN 1 ELSE 0)
<1>1. Append(msgs, m) = msgs \o <<m>> /\ <<m>> \in Seq(S)
  OBVIOUS
<1>2. ListensIn(<<m>>) = IF m.kind = "listen" THEN 1 ELSE 0
  BY <1>1, CountOne
<1> QED
  BY <1>1, <1>2, CountConcat

LEMMA CountTail ==
  ASSUME NEW S, NEW msgs \in Seq(S), msgs # <<>>
  PROVE  ListensIn(msgs) = ListensIn(Tail(msgs)) + (IF Head(msgs).kind = "listen" THEN 1 ELSE 0)
<1>1. Head(msgs) \in S /\ <<Head(msgs)>> \in Seq(S) /\ Tail(msgs) \in Seq(S)
  OBVIOUS
<1>2. ListensIn(<<Head(msgs)>>) = IF Head(msgs).kind = "listen" THEN 1 ELSE 0
  BY <1>1, CountOne
<1>3. msgs = <<Head(msgs)>> \o Tail(msgs)
  OBVIOUS
<1>4. ListensIn(<<Head(msgs)>> \o Tail(msgs)) = ListensIn(<<Head(msgs)>>) + ListensIn(Tail(msgs))
  BY <1>1, CountConcat
<1>5. ListensIn(msgs) = ListensIn(<<Head(msgs)>>) + ListensIn(Tail(msgs))
  BY ONLY <1>3, <1>4
<1>6. ListensIn(Tail(msgs)) \in Nat
  BY <1>1, ListensInType
<1> QED
  BY <1>2, <1>5, <1>6

\* Giving up a listen leaves its requests unanswered.
LEMMA CountForgotten ==
  ASSUME NEW statuses, NEW msgs \in Seq(Messages(statuses)), NEW q
  PROVE  ListensIn(Forget(msgs, q)) = ListensIn(msgs)
<1>1. {k \in DOMAIN Forget(msgs, q) : Forget(msgs, q)[k].kind = "listen"}
        = {k \in DOMAIN msgs : msgs[k].kind = "listen"}
  BY Forgotten
<1> QED
  BY <1>1 DEF ListensIn

LEMMA CountRestored ==
  ASSUME NEW S \in SUBSET Queries, IsFiniteSet(S), NEW order \in SetToSeqs(S),
         NEW puts \in Seq(Puts)
  PROVE  ListensIn(Restored(order, puts)) = Cardinality(S)
<1> DEFINE msgs == Restored(order, puts)
<1>1. Cardinality(S) \in Nat /\ Len(puts) \in Nat
  BY FS_CardinalityType
<1>2. DOMAIN msgs = 1 .. Cardinality(S) + Len(puts)
  BY <1>1, RestoredMessages
<1>3. \A k \in 1 .. Cardinality(S) + Len(puts) : msgs[k].kind = "listen" <=> k <= Cardinality(S)
  <2> TAKE k \in 1 .. Cardinality(S) + Len(puts)
  <2>1. CASE k <= Cardinality(S)
    BY <1>1, <2>1, RestoredMessages
  <2>2. CASE ~(k <= Cardinality(S))
    <3>1. k - Cardinality(S) \in 1 .. Len(puts) /\ k = Cardinality(S) + (k - Cardinality(S))
      BY <1>1, <2>2
    <3>2. msgs[k] = Put(puts[k - Cardinality(S)])
      BY <3>1, RestoredMessages
    <3> QED
      BY <2>2, <3>2 DEF Put
  <2> QED
    BY <2>1, <2>2
<1>4. {k \in DOMAIN msgs : msgs[k].kind = "listen"} = 1 .. Cardinality(S)
  BY <1>1, <1>2, <1>3
<1> QED
  BY <1>1, <1>4, UpTo DEF ListensIn

--------------------------------------------------------------------------------
(* The connection's messages and their count *)

WireInv == WireTypes /\ UnackedListensCounted

LEMMA CountTypes ==
  ASSUME WireTypes
  PROVE  ListensIn(toServer) \in Nat /\ ListensIn(toClient) \in Nat
  BY ListensInType DEF WireTypes

\* One more request.
LEMMA RequestSent ==
  ASSUME WireInv, NEW m \in Messages({"none"}), toServer' = Append(toServer, m),
         UNCHANGED toClient, late' \in {late, <<>>},
         listens' \subseteq Queries, IsFiniteSet(listens'),
         unackedListensCount' = unackedListensCount + (IF m.kind = "listen" THEN 1 ELSE 0)
  PROVE  WireInv'
<1>1. toServer \in Seq(Messages({"none"})) /\ toServer' \in Seq(Messages({"none"}))
  BY DEF WireInv, WireTypes
<1>2. ListensIn(toServer') = ListensIn(toServer) + (IF m.kind = "listen" THEN 1 ELSE 0)
  BY <1>1, CountAppend
<1>3. /\ ListensIn(toServer) \in Nat /\ ListensIn(toClient) \in Nat
      /\ unackedListensCount = ListensIn(toServer) + ListensIn(toClient)
      /\ ListensIn(toClient') = ListensIn(toClient)
  BY CountTypes DEF WireInv, UnackedListensCounted
<1>4. unackedListensCount' \in Nat /\ unackedListensCount' = ListensIn(toServer') + ListensIn(toClient')
  BY <1>2, <1>3
<1>5. late' \in Seq(Messages({"none"}))
  <2>1. late \in Seq(Messages({"none"})) /\ <<>> \in Seq(Messages({"none"}))
    BY DEF WireInv, WireTypes
  <2> QED
    BY <2>1
<1> QED
  BY <1>1, <1>4, <1>5 DEF WireInv, WireTypes, UnackedListensCounted

\* A connection that is closed leaves no listen to be answered.
LEMMA DisconnectCounts ==
  ASSUME WireTypes, NEW reasons, onDisconnect(reasons), UNCHANGED listens
  PROVE  WireInv'
<1>1. /\ unackedListensCount' = 0 /\ toServer' = <<>> /\ toClient' = <<>>
      /\ late' \in Seq(Messages({"none"}))
  <2>1. late' = late \o toServer
    BY DEF onDisconnect
  <2> QED
    BY <2>1, Concatenated DEF onDisconnect, WireTypes
<1>2. <<>> \in Seq(Messages({"none"})) /\ <<>> \in Seq(Messages(Status))
  OBVIOUS
<1>3. ListensIn(<<>>) = 0
  <2>1. {k \in DOMAIN <<>> : <<>>[k].kind = "listen"} = {}
    OBVIOUS
  <2> QED
    BY <2>1, FS_EmptySet DEF ListensIn
<1> QED
  BY <1>1, <1>2, <1>3 DEF WireInv, WireTypes, UnackedListensCounted

\* Puts that are sent again are sent once each, in ascending order.
LEMMA Resent ==
  ASSUME PutTypes, NEW puts \in SortedPuts
  PROVE  /\ puts \in Seq(Puts) /\ puts \in Seq(outstandingPuts)
         /\ \A i \in outstandingPuts : \E k \in DOMAIN puts : puts[k] = i
         /\ \A j, k \in DOMAIN puts : j < k => puts[j] < puts[k]
<1>1. outstandingPuts \subseteq Puts /\ outstandingPuts \subseteq 1 .. MaxPuts
  BY BoundsAssumption DEF PutTypes, Puts
<1>2. IsFiniteSet(outstandingPuts)
  BY <1>1, UpTo, BoundsAssumption, FS_Subset
<1>3. puts \in SetToSeqs(outstandingPuts) /\ \A j, k \in DOMAIN puts : j < k => puts[j] < puts[k]
  BY DEF SortedPuts
<1>4. /\ puts \in Seq(outstandingPuts)
      /\ \A i \in outstandingPuts : \E k \in DOMAIN puts : puts[k] = i
  BY <1>2, <1>3, Enumeration
<1>5. puts \in Seq(Puts)
  <2>1. Len(puts) \in Nat /\ puts = [k \in 1 .. Len(puts) |-> puts[k]]
    BY <1>4
  <2>2. \A k \in 1 .. Len(puts) : puts[k] \in outstandingPuts
    BY <1>4
  <2> QED
    BY <1>1, <2>1, <2>2, IsASeq
<1> QED
  BY <1>3, <1>4, <1>5

LEMMA RestoreCounts ==
  ASSUME WireTypes, PutTypes, restoreState
  PROVE  /\ toServer' \in Seq(Messages({"none"}))
         /\ Cardinality(listens) \in Nat
         /\ ListensIn(toServer') = ListensIn(toServer) + Cardinality(listens)
         /\ unackedListensCount' = unackedListensCount + Cardinality(listens)
<1>1. PICK order \in SetToSeqs(listens), puts \in SortedPuts :
        /\ toServer' = toServer \o Restored(order, puts)
        /\ unackedListensCount' = unackedListensCount + Cardinality(listens)
  BY DEF restoreState
<1>2. listens \in SUBSET Queries /\ IsFiniteSet(listens) /\ toServer \in Seq(Messages({"none"}))
  BY DEF WireTypes
<1>3. puts \in Seq(Puts)
  BY Resent
<1>4. Restored(order, puts) \in Seq(Messages({"none"}))
  BY <1>2, <1>3, RestoredMessages
<1>5. ListensIn(Restored(order, puts)) = Cardinality(listens)
  BY <1>2, <1>3, CountRestored
<1>6. ListensIn(toServer \o Restored(order, puts))
        = ListensIn(toServer) + ListensIn(Restored(order, puts))
  BY <1>2, <1>4, CountConcat
<1>7. Cardinality(listens) \in Nat
  BY <1>2, FS_CardinalityType
<1>8. toServer' \in Seq(Messages({"none"}))
  BY <1>1, <1>2, <1>4, Concatenated
<1>9. ListensIn(toServer') = ListensIn(toServer) + Cardinality(listens)
  BY ONLY <1>1, <1>5, <1>6
<1> QED
  BY <1>1, <1>7, <1>8, <1>9

\* The answer to a listen, and every other answer.
LEMMA AnswerTaken ==
  ASSUME WireInv, toClient # <<>>
  PROVE  /\ Head(toClient) \in Messages(Status) /\ Tail(toClient) \in Seq(Messages(Status))
         /\ ListensIn(toServer) \in Nat /\ ListensIn(Tail(toClient)) \in Nat
         /\ unackedListensCount
              = ListensIn(toServer) + ListensIn(Tail(toClient))
                  + (IF Head(toClient).kind = "listen" THEN 1 ELSE 0)
<1>1. toClient \in Seq(Messages(Status))
  BY DEF WireInv, WireTypes
<1>2. Head(toClient) \in Messages(Status) /\ Tail(toClient) \in Seq(Messages(Status))
  BY <1>1
<1>3. ListensIn(toClient)
        = ListensIn(Tail(toClient)) + (IF Head(toClient).kind = "listen" THEN 1 ELSE 0)
  BY <1>1, CountTail
<1>4. ListensIn(toServer) \in Nat /\ ListensIn(Tail(toClient)) \in Nat
  BY <1>2, CountTypes, ListensInType DEF WireInv
<1>5. unackedListensCount = ListensIn(toServer) + ListensIn(toClient)
  BY DEF WireInv, UnackedListensCounted
<1> QED
  BY <1>2, <1>3, <1>4, <1>5

LEMMA WireAppStep ==
  ASSUME WireInv, PutTypes, App
  PROVE  WireInv'
<1>0. WireTypes /\ UnackedListensCounted
  BY DEF WireInv
<1>1. ASSUME NEW q \in Queries, listen(q) PROVE WireInv'
  <2>1. listens' \subseteq Queries /\ IsFiniteSet(listens')
    BY <1>0, <1>1, FS_AddElement DEF listen, WireTypes
  <2>2. CASE connected
    <3>1. Listen(q) \in Messages({"none"}) /\ Listen(q).kind = "listen"
      BY Sent DEF Listen
    <3>2. /\ toServer' = Append(toServer, Listen(q)) /\ UNCHANGED <<toClient, late>>
          /\ unackedListensCount' = unackedListensCount + 1
      BY <1>1, <2>2 DEF listen
    <3> QED
      BY <2>1, <3>1, <3>2, RequestSent
  <2>3. CASE ~connected
    <3>1. UNCHANGED <<toServer, toClient, late, unackedListensCount>>
      BY <1>1, <2>3 DEF listen
    <3> QED
      BY <2>1, <3>1 DEF WireInv, WireTypes, UnackedListensCounted
  <2> QED
    BY <2>2, <2>3
<1>2. ASSUME NEW q \in Queries, unlisten(q) PROVE WireInv'
  <2>1. listens' \subseteq Queries /\ IsFiniteSet(listens')
    BY <1>0, <1>2, FS_Subset DEF unlisten, WireTypes
  <2>2. /\ toServer' = Forget(toServer, q) /\ toClient' = Forget(toClient, q)
        /\ UNCHANGED <<late, unackedListensCount>>
    BY <1>2 DEF unlisten
  <2>3. /\ toServer' \in Seq(Messages({"none"})) /\ toClient' \in Seq(Messages(Status))
        /\ ListensIn(toServer') = ListensIn(toServer) /\ ListensIn(toClient') = ListensIn(toClient)
    BY <1>0, <2>2, Forgotten, CountForgotten DEF WireTypes
  <2> QED
    BY <2>1, <2>2, <2>3 DEF WireInv, WireTypes, UnackedListensCounted
<1>3. CASE putInternal
  <2>1. UNCHANGED <<listens, unackedListensCount, toClient, late>>
    BY <1>3 DEF putInternal, listenVars
  <2>2. CASE canSendWrites
    <3>1. Put(putCounter) \in Messages({"none"}) /\ Put(putCounter).kind = "put"
      <4>1. putCounter \in Puts
        BY <1>3, BoundsAssumption DEF putInternal, PutTypes, Puts
      <4> QED
        BY <4>1, Sent DEF Put
    <3>2. toServer' = Append(toServer, Put(putCounter))
      BY <1>3, <2>2 DEF putInternal
    <3>3. /\ unackedListensCount' = unackedListensCount + 0
          /\ listens' \subseteq Queries /\ IsFiniteSet(listens')
      BY <1>0, <2>1 DEF WireTypes
    <3> QED
      BY <2>1, <3>1, <3>2, <3>3, RequestSent
  <2>3. CASE ~canSendWrites
    <3>1. UNCHANGED toServer
      BY <1>3, <2>3 DEF putInternal
    <3> QED
      BY <2>1, <3>1 DEF WireInv, WireTypes, UnackedListensCounted
  <2> QED
    BY <2>2, <2>3
<1>4. ASSUME NEW token \in BOOLEAN, refreshAuthToken(token) PROVE WireInv'
  <2>1. UNCHANGED <<listens, unackedListensCount, toClient, late>>
    BY <1>4 DEF refreshAuthToken, listenVars
  <2>2. CASE connected /\ token
    <3>1. Auth(FALSE) \in Messages({"none"}) /\ Auth(FALSE).kind = "auth"
      BY Sent DEF Auth
    <3>2. toServer' = Append(toServer, Auth(FALSE))
      BY <1>4, <2>2 DEF refreshAuthToken
    <3>3. /\ unackedListensCount' = unackedListensCount + 0
          /\ listens' \subseteq Queries /\ IsFiniteSet(listens')
      BY <1>0, <2>1 DEF WireTypes
    <3> QED
      BY <2>1, <3>1, <3>2, <3>3, RequestSent
  <2>3. CASE ~(connected /\ token)
    <3>1. UNCHANGED toServer
      BY <1>4, <2>3 DEF refreshAuthToken
    <3> QED
      BY <2>1, <3>1 DEF WireInv, WireTypes, UnackedListensCounted
  <2> QED
    BY <2>2, <2>3
<1> QED
  BY <1>1, <1>2, <1>3, <1>4 DEF App

\* Steps that concern no message.
LEMMA WireFrame ==
  ASSUME WireInv, UNCHANGED <<wireVars, listenVars>>
  PROVE  WireInv'
  BY DEF WireInv, WireTypes, UnackedListensCounted, wireVars, listenVars

LEMMA WireInterruptionStep ==
  ASSUME WireInv, Interruption
  PROVE  WireInv'
<1>0. WireTypes
  BY DEF WireInv
<1>1. CASE connectionLost
  BY <1>0, <1>1, DisconnectCounts DEF connectionLost
<1>2. CASE authRevoked
  BY <1>0, <1>2, DisconnectCounts DEF authRevoked
<1>3. CASE tokenFailed
  BY <1>3, WireFrame DEF tokenFailed
<1>4. ASSUME NEW reason, interruptForReason(reason) PROVE WireInv'
  <2>1. CASE Open
    BY <1>0, <1>4, <2>1, DisconnectCounts DEF interruptForReason
  <2>2. CASE ~Open
    BY <1>4, <2>2, WireFrame DEF interruptForReason, wireVars, listenVars
  <2> QED
    BY <2>1, <2>2
<1>5. ASSUME NEW reason, resumeForReason(reason) PROVE WireInv'
  BY <1>5, WireFrame DEF resumeForReason
<1>6. CASE reachable
  BY <1>6, WireFrame DEF reachable
<1> QED
  BY <1>1, <1>2, <1>3, <1>4, <1>5, <1>6 DEF Interruption

LEMMA WireConnectStep ==
  ASSUME WireInv, PutTypes, Connect
  PROVE  WireInv'
<1>0. WireTypes
  BY DEF WireInv
<1>1. CASE retryFires
  BY <1>1, WireFrame DEF retryFires
<1>2. ASSUME NEW token, tokenFetched(token) PROVE WireInv'
  BY <1>2, WireFrame DEF tokenFetched
<1>3. CASE staleToken
  BY <1>3, WireFrame DEF staleToken
<1>4. CASE onReady
  <2>1. UNCHANGED <<listens, toClient>> /\ late' = <<>>
    BY <1>4 DEF onReady
  <2>2. CASE authToken
    <3>1. Auth(TRUE) \in Messages({"none"}) /\ Auth(TRUE).kind = "auth"
      BY Sent DEF Auth
    <3>2. toServer' = Append(toServer, Auth(TRUE)) /\ UNCHANGED unackedListensCount
      BY <1>4, <2>2 DEF onReady
    <3>3. /\ unackedListensCount' = unackedListensCount + 0
          /\ listens' \subseteq Queries /\ IsFiniteSet(listens')
      BY <1>0, <2>1, <3>2 DEF WireTypes
    <3> QED
      BY <2>1, <3>1, <3>2, <3>3, RequestSent
  <2>3. CASE ~authToken
    <3>1. restoreState
      BY <1>4, <2>3 DEF onReady
    <3>2. /\ toServer' \in Seq(Messages({"none"}))
          /\ Cardinality(listens) \in Nat
          /\ ListensIn(toServer') = ListensIn(toServer) + Cardinality(listens)
          /\ unackedListensCount' = unackedListensCount + Cardinality(listens)
      BY <1>0, <3>1, RestoreCounts
    <3>3. /\ ListensIn(toServer) \in Nat /\ ListensIn(toClient) \in Nat
          /\ unackedListensCount = ListensIn(toServer) + ListensIn(toClient)
          /\ ListensIn(toClient') = ListensIn(toClient)
      BY <1>0, <2>1, CountTypes DEF WireInv, UnackedListensCounted
    <3>4. /\ unackedListensCount' \in Nat
          /\ unackedListensCount' = ListensIn(toServer') + ListensIn(toClient')
      BY <3>2, <3>3
    <3>5. late' \in Seq(Messages({"none"}))
      BY <2>1
    <3> QED
      BY <1>0, <2>1, <3>2, <3>4, <3>5 DEF WireInv, WireTypes, UnackedListensCounted
  <2> QED
    BY <2>2, <2>3
<1> QED
  BY <1>1, <1>2, <1>3, <1>4 DEF Connect

LEMMA WireAnswerStep ==
  ASSUME WireInv, PutTypes, Answer
  PROVE  WireInv'
<1>0. WireTypes /\ UnackedListensCounted
  BY DEF WireInv
<1>1. toClient # <<>>
  BY DEF Answer, authAnswered, putAnswered, listenAnswered, Received
<1>2. /\ Head(toClient) \in Messages(Status) /\ Tail(toClient) \in Seq(Messages(Status))
      /\ ListensIn(toServer) \in Nat /\ ListensIn(Tail(toClient)) \in Nat
      /\ unackedListensCount
           = ListensIn(toServer) + ListensIn(Tail(toClient))
               + (IF Head(toClient).kind = "listen" THEN 1 ELSE 0)
  BY <1>1, AnswerTaken
<1>3. ASSUME Head(toClient).kind # "listen", toClient' = Tail(toClient),
             UNCHANGED <<listens, late>>, UNCHANGED <<toServer, unackedListensCount>> \/ restoreState
      PROVE  WireInv'
  <2>1. /\ unackedListensCount = ListensIn(toServer) + ListensIn(Tail(toClient))
        /\ ListensIn(toClient') = ListensIn(Tail(toClient))
    BY <1>2, <1>3
  <2>2. /\ toServer' \in Seq(Messages({"none"})) /\ unackedListensCount' \in Nat
        /\ unackedListensCount' = ListensIn(toServer') + ListensIn(toClient')
    <3>1. CASE UNCHANGED <<toServer, unackedListensCount>>
      BY <1>0, <1>2, <2>1, <3>1 DEF WireTypes
    <3>2. CASE restoreState
      <4>1. /\ toServer' \in Seq(Messages({"none"}))
            /\ Cardinality(listens) \in Nat
            /\ ListensIn(toServer') = ListensIn(toServer) + Cardinality(listens)
            /\ unackedListensCount' = unackedListensCount + Cardinality(listens)
        BY <1>0, <3>2, RestoreCounts
      <4> QED
        BY <1>2, <2>1, <4>1
    <3> QED
      BY <1>3, <3>1, <3>2
  <2> QED
    BY <1>0, <1>2, <1>3, <2>2 DEF WireInv, WireTypes, UnackedListensCounted
<1>4. CASE authAnswered
  <2>1. Head(toClient).kind # "listen" /\ UNCHANGED listens
    BY <1>4 DEF authAnswered, Received
  <2>2. CASE Head(toClient).status = "ok"
    BY <1>3, <1>4, <2>1, <2>2 DEF authAnswered
  <2>3. CASE Head(toClient).status # "ok"
    BY <1>0, <1>4, <2>1, <2>3, DisconnectCounts DEF authAnswered
  <2> QED
    BY <2>2, <2>3
<1>5. CASE putAnswered
  BY <1>3, <1>5 DEF putAnswered, Received, listenVars
<1>6. CASE listenAnswered
  <2>1. /\ Head(toClient).kind = "listen" /\ UNCHANGED late
        /\ unackedListensCount' = unackedListensCount - 1
        /\ listens' \subseteq listens
    BY <1>6 DEF listenAnswered, Received
  <2>2. /\ toServer' \in Seq(Messages({"none"})) /\ toClient' \in Seq(Messages(Status))
        /\ ListensIn(toServer') = ListensIn(toServer)
        /\ ListensIn(toClient') = ListensIn(Tail(toClient))
    <3>1. CASE listens' = listens
      <4>1. toServer' = toServer /\ toClient' = Tail(toClient)
        BY <1>6, <3>1 DEF listenAnswered
      <4> QED
        BY <1>0, <1>2, <4>1 DEF WireTypes
    <3>2. CASE listens' # listens
      <4> DEFINE q == Head(toClient).query
      <4>1. toServer' = Forget(toServer, q) /\ toClient' = Forget(Tail(toClient), q)
        BY <1>6, <3>2 DEF listenAnswered
      <4> QED
        BY <1>0, <1>2, <4>1, Forgotten, CountForgotten DEF WireTypes
    <3> QED
      BY <3>1, <3>2
  <2>3. /\ unackedListensCount' \in Nat
        /\ unackedListensCount' = ListensIn(toServer') + ListensIn(toClient')
    BY <1>2, <2>1, <2>2
  <2>4. listens' \subseteq Queries /\ IsFiniteSet(listens')
    BY <1>0, <2>1, FS_Subset DEF WireTypes
  <2> QED
    BY <1>0, <2>1, <2>2, <2>3, <2>4 DEF WireInv, WireTypes, UnackedListensCounted
<1> QED
  BY <1>4, <1>5, <1>6 DEF Answer

LEMMA WireStep ==
  ASSUME WireInv, PutTypes, [Next]_vars
  PROVE  WireInv'
<1>0. WireTypes
  BY DEF WireInv
<1>1. ASSUME NEW status \in Status, serverAnswers(status) PROVE WireInv'
  <2> DEFINE r == Head(toServer)
             a == [r EXCEPT !.status = status]
  <2>1. /\ toServer # <<>> /\ toServer' = Tail(toServer) /\ toClient' = Append(toClient, a)
        /\ UNCHANGED <<late, listens, unackedListensCount>>
    BY <1>1 DEF serverAnswers, listenVars
  <2>2. /\ r \in Messages({"none"}) /\ Tail(toServer) \in Seq(Messages({"none"}))
        /\ toServer \in Seq(Messages({"none"})) /\ toClient \in Seq(Messages(Status))
    BY <1>0, <2>1 DEF WireTypes
  <2>3. a \in Messages(Status) /\ a.kind = r.kind
    BY <2>2, Answered
  <2> HIDE DEF r, a
  <2>4. ListensIn(toServer) = ListensIn(Tail(toServer)) + (IF r.kind = "listen" THEN 1 ELSE 0)
    BY <2>1, <2>2, CountTail DEF r
  <2>5. ListensIn(Append(toClient, a)) = ListensIn(toClient) + (IF r.kind = "listen" THEN 1 ELSE 0)
    BY <2>2, <2>3, CountAppend
  <2>6. ListensIn(toClient) \in Nat /\ ListensIn(Tail(toServer)) \in Nat
    BY <1>0, <2>2, CountTypes, ListensInType
  <2>7. ListensIn(toServer') + ListensIn(toClient') = ListensIn(toServer) + ListensIn(toClient)
    BY <2>1, <2>4, <2>5, <2>6
  <2>8. toClient' \in Seq(Messages(Status))
    BY <2>1, <2>2, <2>3
  <2> QED
    BY <2>1, <2>2, <2>7, <2>8 DEF WireInv, WireTypes, UnackedListensCounted
<1>2. CASE serverReadsLate
  <2>1. late # <<>> /\ late' = Tail(late) /\ UNCHANGED <<toServer, toClient, listenVars>>
    BY <1>2 DEF serverReadsLate
  <2>2. late' \in Seq(Messages({"none"}))
    BY <1>0, <2>1 DEF WireTypes
  <2> QED
    BY <2>1, <2>2 DEF WireInv, WireTypes, UnackedListensCounted, listenVars
<1>3. CASE UNCHANGED vars
  BY <1>3, WireFrame DEF vars
<1> QED
  BY <1>1, <1>2, <1>3, WireAppStep, WireInterruptionStep, WireConnectStep, WireAnswerStep DEF Next

--------------------------------------------------------------------------------
(* Puts and the answers to them *)

\* Steps other than these leave puts, their answers and the server alone.
LEMMA PutStepOrFrame ==
  ASSUME [Next]_vars
  PROVE  \/ putInternal \/ putAnswered \/ listenAnswered
         \/ \E status \in Status : serverAnswers(status)
         \/ serverReadsLate
         \/ UNCHANGED <<putVars, serverVars>>
<1>1. CASE App
  BY <1>1 DEF App, listen, unlisten, refreshAuthToken
<1>2. CASE Interruption
  BY <1>2 DEF Interruption, connectionLost, authRevoked, tokenFailed, interruptForReason,
     resumeForReason, reachable
<1>3. CASE Connect
  BY <1>3 DEF Connect, retryFires, tokenFetched, staleToken, onReady
<1>4. CASE Answer
  BY <1>4 DEF Answer, authAnswered
<1>5. CASE UNCHANGED vars
  BY <1>5 DEF vars
<1> QED
  BY <1>1, <1>2, <1>3, <1>4, <1>5 DEF Next

\* The index of a put that is answered, and its status.
LEMMA PutReceived ==
  ASSUME WireTypes, toClient # <<>>, Head(toClient).kind = "put"
  PROVE  [index |-> Head(toClient).index, status |-> Head(toClient).status] \in PutAnswers
<1>1. Head(toClient) \in Messages(Status)
  BY DEF WireTypes
<1> QED
  BY <1>1 DEF Messages, PutAnswers

\* What the server does with a put.
LEMMA ServerStep ==
  ASSUME WireTypes, (\E status \in Status : serverAnswers(status)) \/ serverReadsLate
  PROVE  /\ UNCHANGED putVars
         /\ \/ UNCHANGED serverVars
            \/ \E i \in Puts : Apply(i) \/ Deny(i)
<1>1. ASSUME NEW status \in Status, serverAnswers(status)
      PROVE  UNCHANGED putVars /\ (UNCHANGED serverVars \/ \E i \in Puts : Apply(i) \/ Deny(i))
  <2>1. toServer # <<>> /\ UNCHANGED putVars
    BY <1>1 DEF serverAnswers
  <2>2. Head(toServer) \in Messages({"none"})
    BY <2>1 DEF WireTypes
  <2>3. Head(toServer).kind = "put" => Head(toServer).index \in Puts
    BY <2>2 DEF Messages
  <2> QED
    BY <1>1, <2>1, <2>3 DEF serverAnswers
<1>2. CASE serverReadsLate
  <2>1. late # <<>> /\ UNCHANGED putVars
    BY <1>2 DEF serverReadsLate
  <2>2. Head(late) \in Messages({"none"})
    BY <2>1 DEF WireTypes
  <2>3. Head(late).kind = "put" => Head(late).index \in Puts
    BY <2>2 DEF Messages
  <2> QED
    BY <1>2, <2>1, <2>3 DEF serverReadsLate
<1> QED
  BY <1>1, <1>2

LEMMA PutTypesStep ==
  ASSUME WireTypes, PutTypes, [Next]_vars
  PROVE  PutTypes'
<1>0. called \in Seq(PutAnswers) /\ putsToAck \in Seq(PutAnswers)
  BY DEF PutTypes
<1>1. CASE putInternal
  <2>1. /\ outstandingPuts' = outstandingPuts \cup {putCounter} /\ putCounter' = putCounter + 1
        /\ putCounter <= MaxPuts
        /\ UNCHANGED <<putsToAck, called, applied, refused, value>>
    BY <1>1 DEF putInternal, serverVars
  <2>2. outstandingPuts' \subseteq 1 .. putCounter' - 1 /\ putCounter' \in 1 .. MaxPuts + 1
    BY <2>1, BoundsAssumption DEF PutTypes
  <2> QED
    BY <2>1, <2>2 DEF PutTypes
<1>2. CASE putAnswered
  <2> DEFINE a == [index |-> Head(toClient).index, status |-> Head(toClient).status]
  <2>1. a \in PutAnswers
    BY <1>2, PutReceived DEF putAnswered, Received
  <2>2. /\ outstandingPuts' \subseteq outstandingPuts /\ UNCHANGED <<putCounter, applied, refused, value>>
        /\ called' = called \/ called' = Append(called, a)
        /\ putsToAck' = putsToAck \/ putsToAck' = Append(putsToAck, a)
    BY <1>2 DEF putAnswered, serverVars
  <2> HIDE DEF a
  <2>3. Append(called, a) \in Seq(PutAnswers) /\ Append(putsToAck, a) \in Seq(PutAnswers)
    BY <1>0, <2>1
  <2>4. called' \in Seq(PutAnswers) /\ putsToAck' \in Seq(PutAnswers)
    BY <1>0, <2>2, <2>3
  <2> QED
    BY <2>2, <2>4 DEF PutTypes
<1>3. CASE listenAnswered
  <2>1. /\ UNCHANGED <<outstandingPuts, putCounter, applied, refused, value>>
        /\ \/ UNCHANGED <<called, putsToAck>>
           \/ called' = called \o putsToAck /\ putsToAck' = <<>>
    BY <1>3 DEF listenAnswered, ackPuts, serverVars
  <2>2. called \o putsToAck \in Seq(PutAnswers) /\ <<>> \in Seq(PutAnswers)
    BY <1>0
  <2>3. called' \in Seq(PutAnswers) /\ putsToAck' \in Seq(PutAnswers)
    BY <1>0, <2>1, <2>2
  <2> QED
    BY <2>1, <2>3 DEF PutTypes
<1>4. CASE (\E status \in Status : serverAnswers(status)) \/ serverReadsLate
  <2>1. /\ UNCHANGED putVars
        /\ UNCHANGED serverVars \/ \E i \in Puts : Apply(i) \/ Deny(i)
    BY <1>4, ServerStep
  <2> QED
    <3>1. UNCHANGED <<outstandingPuts, putCounter, putsToAck, called>>
      BY <2>1 DEF putVars
    <3>2. CASE UNCHANGED serverVars
      BY <3>1, <3>2 DEF PutTypes, serverVars
    <3>3. ASSUME NEW i \in Puts, Apply(i) \/ Deny(i) PROVE PutTypes'
      <4>1. i \in 0 .. MaxPuts
        BY BoundsAssumption DEF Puts
      <4>2. applied' \subseteq Puts /\ refused' \subseteq Puts /\ value' \in 0 .. MaxPuts
        BY <3>3, <4>1 DEF PutTypes, Apply, Deny
      <4> QED
        BY <3>1, <4>2 DEF PutTypes
    <3> QED
      BY <2>1, <3>2, <3>3
<1>5. CASE UNCHANGED <<putVars, serverVars>>
  BY <1>5 DEF PutTypes, putVars, serverVars
<1> QED
  BY <1>1, <1>2, <1>3, <1>4, <1>5, PutStepOrFrame

CountInv == TypeInv /\ UnackedListensCounted

LEMMA InitCountInv == Init => CountInv
<1> SUFFICES ASSUME Init PROVE CountInv
  OBVIOUS
<1>1. /\ connectionState = "Disconnected" /\ interruptReasons = {"waitingForOpen"}
      /\ stale = 0 /\ faults = 0 /\ listens = {} /\ unackedListensCount = 0
      /\ outstandingPuts = {} /\ putCounter = 1 /\ putsToAck = <<>> /\ called = <<>>
      /\ toServer = <<>> /\ toClient = <<>> /\ late = <<>>
      /\ applied = {} /\ refused = {} /\ value = 0
  BY Zenon DEF Init
<1>2. scheduledRetry = FALSE /\ fetching = FALSE /\ authToken = FALSE
  BY Zenon DEF Init
<1>3. StateTypes
  BY <1>1, <1>2 DEF StateTypes, States, Reasons
<1>4. CounterTypes
  BY <1>1, BoundsAssumption DEF CounterTypes
<1>5. WireTypes
  BY <1>1, FS_EmptySet DEF WireTypes
<1>6. PutTypes
  BY <1>1, BoundsAssumption DEF PutTypes
<1>7. UnackedListensCounted
  <2>1. {k \in DOMAIN <<>> : <<>>[k].kind = "listen"} = {}
    OBVIOUS
  <2> QED
    BY <1>1, <2>1, FS_EmptySet DEF UnackedListensCounted, ListensIn
<1> QED
  BY <1>3, <1>4, <1>5, <1>6, <1>7, TypeParts DEF CountInv

LEMMA StepCountInv == CountInv /\ [Next]_vars => CountInv'
<1> SUFFICES ASSUME CountInv, [Next]_vars PROVE CountInv'
  OBVIOUS
<1>1. WireTypes /\ PutTypes /\ StateTypes /\ CounterTypes /\ WireInv
  BY TypeParts DEF CountInv, WireInv
<1>2. WireInv' /\ PutTypes' /\ StateTypes' /\ CounterTypes'
  BY <1>1, WireStep, PutTypesStep, StateTypesStep, CounterTypesStep
<1>3. TypeInv'
  <2>1. WireTypes' /\ PutTypes' /\ StateTypes' /\ CounterTypes'
    BY <1>2 DEF WireInv
  <2> QED
    BY <2>1 DEF TypeInv, TypeOK, WireTypes, PutTypes, StateTypes, CounterTypes
<1> QED
  BY <1>2, <1>3 DEF CountInv, WireInv

\* Every variable of FPersistentConnection's model stays in its range; the count
\* of unanswered listens never goes below zero.
THEOREM TypeCorrect == Spec => []TypeOK
<1>1. CountInv => TypeOK
  BY DEF CountInv, TypeInv
<1> QED
  BY <1>1, InitCountInv, StepCountInv, PTL DEF Spec

\* unackedListensCount is the number of listen requests without an answer, over
\* lost connections, restored listens and listens that were given up meanwhile.
THEOREM ListensCounted == Spec => []UnackedListensCounted
<1>1. CountInv => UnackedListensCounted
  BY DEF CountInv
<1> QED
  BY <1>1, InitCountInv, StepCountInv, PTL DEF Spec

--------------------------------------------------------------------------------
(* Completion blocks *)

Seen == applied \cup refused

\* An answer that is under way says what the server has done.
TrueIn(msgs) ==
  \A k \in DOMAIN msgs :
    msgs[k].kind = "put" =>
      /\ msgs[k].index \in Seen
      /\ msgs[k].status = "ok" => msgs[k].index \in applied

AnswersTrue == TrueIn(toClient)

\* Answers that are given out or held: their puts were made, are no longer
\* outstanding, and a success is one of the server.
GivenOut(answers) ==
  \A k \in DOMAIN answers :
    /\ answers[k].index \notin outstandingPuts /\ answers[k].index < putCounter
    /\ answers[k].status = "ok" => answers[k].index \in applied

Distinct(answers) ==
  \A j, k \in DOMAIN answers : answers[j].index = answers[k].index => j = k

Disjoint(s, t) == \A j \in DOMAIN s, k \in DOMAIN t : s[j].index # t[k].index

CallInv ==
  /\ GivenOut(called) /\ GivenOut(putsToAck)
  /\ Distinct(called) /\ Distinct(putsToAck) /\ Disjoint(called, putsToAck)

\* Held answers that are given out after the others.
LEMMA DistinctConcat ==
  ASSUME NEW s \in Seq(PutAnswers), NEW t \in Seq(PutAnswers),
         Distinct(s), Distinct(t), Disjoint(s, t)
  PROVE  Distinct(s \o t)
<1> DEFINE u == s \o t
<1>1. /\ u \in Seq(PutAnswers) /\ Len(u) = Len(s) + Len(t)
      /\ \A k \in 1 .. Len(s) : u[k] = s[k]
      /\ \A k \in 1 .. Len(t) : u[Len(s) + k] = t[k]
  BY Concatenated
<1>2. DOMAIN u = 1 .. Len(u) /\ DOMAIN s = 1 .. Len(s) /\ DOMAIN t = 1 .. Len(t)
      /\ Len(s) \in Nat /\ Len(t) \in Nat
  BY <1>1
<1> HIDE DEF u
<1>3. \A k \in DOMAIN u :
        \/ k \in DOMAIN s /\ u[k] = s[k]
        \/ /\ k > Len(s) /\ k - Len(s) \in DOMAIN t /\ u[k] = t[k - Len(s)]
  <2> TAKE k \in DOMAIN u
  <2>1. CASE k <= Len(s)
    BY <1>1, <1>2, <2>1
  <2>2. CASE ~(k <= Len(s))
    <3>1. k - Len(s) \in 1 .. Len(t) /\ Len(s) + (k - Len(s)) = k
      BY <1>1, <1>2, <2>2
    <3> QED
      BY <1>1, <1>2, <2>2, <3>1
  <2> QED
    BY <2>1, <2>2
<1>4. SUFFICES ASSUME NEW j \in DOMAIN u, NEW k \in DOMAIN u, u[j].index = u[k].index
               PROVE  j = k
  BY DEF Distinct, u
<1>5. CASE j \in DOMAIN s /\ u[j] = s[j] /\ k \in DOMAIN s /\ u[k] = s[k]
  BY <1>4, <1>5 DEF Distinct
<1>6. CASE /\ j > Len(s) /\ j - Len(s) \in DOMAIN t /\ u[j] = t[j - Len(s)]
           /\ k > Len(s) /\ k - Len(s) \in DOMAIN t /\ u[k] = t[k - Len(s)]
  <2>1. j - Len(s) = k - Len(s)
    BY <1>4, <1>6 DEF Distinct
  <2> QED
    BY <1>2, <2>1
<1> QED
  BY <1>3, <1>4, <1>5, <1>6 DEF Disjoint

LEMMA GivenOutConcat ==
  ASSUME NEW s \in Seq(PutAnswers), NEW t \in Seq(PutAnswers), GivenOut(s), GivenOut(t)
  PROVE  GivenOut(s \o t)
<1> DEFINE u == s \o t
<1>1. /\ u \in Seq(PutAnswers) /\ Len(u) = Len(s) + Len(t)
      /\ \A k \in 1 .. Len(s) : u[k] = s[k]
      /\ \A k \in 1 .. Len(t) : u[Len(s) + k] = t[k]
  BY Concatenated
<1>2. DOMAIN u = 1 .. Len(u) /\ DOMAIN s = 1 .. Len(s) /\ DOMAIN t = 1 .. Len(t)
      /\ Len(s) \in Nat /\ Len(t) \in Nat
  BY <1>1
<1> HIDE DEF u
<1>3. ASSUME NEW k \in DOMAIN u
      PROVE  (\E j \in DOMAIN s : u[k] = s[j]) \/ (\E j \in DOMAIN t : u[k] = t[j])
  <2>1. CASE k <= Len(s)
    BY <1>1, <1>2, <2>1
  <2>2. CASE ~(k <= Len(s))
    <3>1. k - Len(s) \in 1 .. Len(t) /\ Len(s) + (k - Len(s)) = k
      BY <1>1, <1>2, <2>2
    <3> QED
      BY <1>1, <1>2, <2>2, <3>1
  <2> QED
    BY <2>1, <2>2
<1>4. GivenOut(u)
  BY <1>3 DEF GivenOut
<1> QED
  BY <1>4 DEF u

LEMMA CallInvSuffices ==
  ASSUME PutTypes, CallInv
  PROVE  CalledOnce
<1>1. called \in Seq(PutAnswers) /\ putsToAck \in Seq(PutAnswers)
  BY DEF PutTypes
<1>2. GivenOut(called \o putsToAck) /\ Distinct(called \o putsToAck)
  BY <1>1, DistinctConcat, GivenOutConcat DEF CallInv
<1> QED
  BY <1>2 DEF CalledOnce, GivenOut, Distinct

LEMMA Appended ==
  ASSUME NEW S, NEW s \in Seq(S), NEW m \in S
  PROVE  /\ Append(s, m) \in Seq(S)
         /\ DOMAIN s = 1 .. Len(s) /\ Len(s) \in Nat
         /\ DOMAIN Append(s, m) = 1 .. Len(s) + 1
         /\ \A k \in DOMAIN Append(s, m) :
              \/ k \in DOMAIN s /\ Append(s, m)[k] = s[k]
              \/ k = Len(s) + 1 /\ Append(s, m)[k] = m
         /\ \A k \in DOMAIN s : Append(s, m)[k] = s[k]
  OBVIOUS

LEMMA Rest ==
  ASSUME NEW S, NEW s \in Seq(S), s # <<>>
  PROVE  /\ Head(s) \in S /\ Head(s) = s[1] /\ Tail(s) \in Seq(S)
         /\ DOMAIN s = 1 .. Len(s) /\ Len(s) \in Nat \ {0}
         /\ DOMAIN Tail(s) = 1 .. Len(s) - 1
         /\ \A k \in DOMAIN Tail(s) : k + 1 \in DOMAIN s /\ Tail(s)[k] = s[k + 1]
  OBVIOUS

LEMMA CallInvStep ==
  ASSUME WireTypes, PutTypes, AnswersTrue, CallInv, [Next]_vars
  PROVE  CallInv'
<1>0. called \in Seq(PutAnswers) /\ putsToAck \in Seq(PutAnswers)
  BY DEF PutTypes
<1>1. CASE putInternal
  <2>1. /\ outstandingPuts' = outstandingPuts \cup {putCounter} /\ putCounter' = putCounter + 1
        /\ UNCHANGED <<putsToAck, called, applied>>
    BY <1>1 DEF putInternal, serverVars
  <2>2. putCounter \in Int
    BY DEF PutTypes
  <2>3. ASSUME NEW answers \in Seq(PutAnswers), GivenOut(answers)
        PROVE  \A k \in DOMAIN answers :
                 /\ answers[k].index \notin outstandingPuts' /\ answers[k].index < putCounter'
                 /\ answers[k].status = "ok" => answers[k].index \in applied'
    <3>1. \A k \in DOMAIN answers : answers[k].index \in Int
      <4>1. \A k \in DOMAIN answers : answers[k] \in PutAnswers
        OBVIOUS
      <4> QED
        BY <4>1 DEF PutAnswers, Puts
    <3> QED
      BY <2>1, <2>2, <2>3, <3>1 DEF GivenOut
  <2> QED
    BY <1>0, <2>1, <2>3 DEF CallInv, GivenOut
<1>2. CASE putAnswered
  <2> DEFINE i == Head(toClient).index
             a == [index |-> Head(toClient).index, status |-> Head(toClient).status]
  <2>1. /\ Received("put") /\ UNCHANGED <<putCounter, applied>>
        /\ \/ /\ i \in outstandingPuts /\ outstandingPuts' = outstandingPuts \ {i}
              /\ \/ called' = Append(called, a) /\ putsToAck' = putsToAck
                 \/ putsToAck' = Append(putsToAck, a) /\ called' = called
           \/ UNCHANGED <<outstandingPuts, putsToAck, called>>
    BY <1>2 DEF putAnswered, serverVars
  <2>2. a \in PutAnswers /\ a.index = i
    BY <2>1, PutReceived DEF Received
  <2>3. 1 \in DOMAIN toClient /\ Head(toClient) = toClient[1]
    <3>1. toClient \in Seq(Messages(Status)) /\ toClient # <<>>
      BY <2>1 DEF WireTypes, Received
    <3> QED
      BY <3>1, Rest
  <2>4. a.status = "ok" => i \in applied
    BY <2>1, <2>3 DEF AnswersTrue, TrueIn, Received
  <2> HIDE DEF i, a
  <2>5. i \in outstandingPuts => i < putCounter
    BY BoundsAssumption DEF PutTypes
  <2>6. CASE UNCHANGED <<outstandingPuts, putsToAck, called>>
    BY <2>1, <2>6 DEF CallInv, GivenOut, Distinct, Disjoint
  <2>7. ASSUME i \in outstandingPuts, outstandingPuts' = outstandingPuts \ {i},
               NEW s \in Seq(PutAnswers), GivenOut(s), Distinct(s)
        PROVE  /\ Distinct(Append(s, a))
               /\ \A k \in DOMAIN s : s[k].index # i
               /\ \A k \in DOMAIN Append(s, a) :
                    /\ Append(s, a)[k].index \notin outstandingPuts'
                    /\ Append(s, a)[k].index < putCounter
                    /\ Append(s, a)[k].status = "ok" => Append(s, a)[k].index \in applied
    <3>1. \A k \in DOMAIN s : s[k].index # i
      BY <2>7 DEF GivenOut
    <3>2. /\ DOMAIN s = 1 .. Len(s) /\ Len(s) \in Nat
          /\ \A k \in DOMAIN Append(s, a) :
               \/ k \in DOMAIN s /\ Append(s, a)[k] = s[k]
               \/ k = Len(s) + 1 /\ Append(s, a)[k] = a
      BY <2>2, Appended
    <3>3. Distinct(Append(s, a))
      BY <2>2, <2>7, <3>1, <3>2 DEF Distinct
    <3>4. \A k \in DOMAIN Append(s, a) :
            /\ Append(s, a)[k].index \notin outstandingPuts'
            /\ Append(s, a)[k].index < putCounter
            /\ Append(s, a)[k].status = "ok" => Append(s, a)[k].index \in applied
      BY <2>2, <2>4, <2>5, <2>7, <3>2 DEF GivenOut
    <3> QED
      BY <3>1, <3>3, <3>4
  <2>8. CASE /\ i \in outstandingPuts /\ outstandingPuts' = outstandingPuts \ {i}
             /\ called' = Append(called, a) /\ putsToAck' = putsToAck
    <3>1. /\ Distinct(called') /\ GivenOut(called)' /\ \A k \in DOMAIN putsToAck : putsToAck[k].index # i
      BY <1>0, <2>1, <2>7, <2>8 DEF CallInv, GivenOut
    <3>2. GivenOut(putsToAck)'
      BY <2>1, <2>8 DEF CallInv, GivenOut
    <3>3. Disjoint(called', putsToAck')
      BY <1>0, <2>2, <2>8, <3>1, Appended DEF CallInv, Disjoint
    <3> QED
      BY <2>8, <3>1, <3>2, <3>3 DEF CallInv, Distinct, Disjoint
  <2>9. CASE /\ i \in outstandingPuts /\ outstandingPuts' = outstandingPuts \ {i}
             /\ putsToAck' = Append(putsToAck, a) /\ called' = called
    <3>1. /\ Distinct(putsToAck') /\ GivenOut(putsToAck)' /\ \A k \in DOMAIN called : called[k].index # i
      BY <1>0, <2>1, <2>7, <2>9 DEF CallInv, GivenOut
    <3>2. GivenOut(called)'
      BY <2>1, <2>9 DEF CallInv, GivenOut
    <3>3. Disjoint(called', putsToAck')
      BY <1>0, <2>2, <2>9, <3>1, Appended DEF CallInv, Disjoint
    <3> QED
      BY <2>9, <3>1, <3>2, <3>3 DEF CallInv, Distinct, Disjoint
  <2> QED
    BY <2>1, <2>6, <2>8, <2>9
<1>3. CASE listenAnswered
  <2>1. /\ UNCHANGED <<outstandingPuts, putCounter, applied>>
        /\ \/ UNCHANGED <<called, putsToAck>>
           \/ called' = called \o putsToAck /\ putsToAck' = <<>>
    BY <1>3 DEF listenAnswered, ackPuts, serverVars
  <2>2. CASE UNCHANGED <<called, putsToAck>>
    BY <2>1, <2>2 DEF CallInv, GivenOut, Distinct, Disjoint
  <2>3. CASE called' = called \o putsToAck /\ putsToAck' = <<>>
    <3>1. GivenOut(called \o putsToAck) /\ Distinct(called \o putsToAck)
      BY <1>0, DistinctConcat, GivenOutConcat DEF CallInv
    <3>2. GivenOut(called)' /\ Distinct(called')
      BY <2>1, <2>3, <3>1 DEF GivenOut
    <3>3. DOMAIN putsToAck' = {}
      BY <2>3
    <3> QED
      BY <3>2, <3>3 DEF CallInv, GivenOut, Distinct, Disjoint
  <2> QED
    BY <2>1, <2>2, <2>3
<1>4. CASE (\E status \in Status : serverAnswers(status)) \/ serverReadsLate
  <2>1. UNCHANGED putVars /\ applied \subseteq applied'
    BY <1>4, ServerStep DEF serverVars, Apply, Deny
  <2> QED
    BY <2>1 DEF CallInv, GivenOut, Distinct, Disjoint, putVars
<1>5. CASE UNCHANGED <<putVars, serverVars>>
  BY <1>5 DEF CallInv, GivenOut, Distinct, Disjoint, putVars, serverVars
<1> QED
  BY <1>1, <1>2, <1>3, <1>4, <1>5, PutStepOrFrame

LEMMA TrueInRest ==
  ASSUME NEW msgs \in Seq(Messages(Status)), TrueIn(msgs)
  PROVE  /\ \A q : TrueIn(Forget(msgs, q))
         /\ msgs # <<>> => TrueIn(Tail(msgs))
<1>1. ASSUME NEW q PROVE TrueIn(Forget(msgs, q))
  <2>1. /\ DOMAIN Forget(msgs, q) = DOMAIN msgs
        /\ \A k \in DOMAIN msgs :
             /\ Forget(msgs, q)[k].kind = msgs[k].kind
             /\ msgs[k].kind # "listen" => Forget(msgs, q)[k] = msgs[k]
    BY Forgotten
  <2> QED
    BY <2>1 DEF TrueIn
<1>2. ASSUME msgs # <<>> PROVE TrueIn(Tail(msgs))
  <2>1. \A k \in DOMAIN Tail(msgs) : k + 1 \in DOMAIN msgs /\ Tail(msgs)[k] = msgs[k + 1]
    BY <1>2, Rest
  <2> QED
    BY <2>1 DEF TrueIn
<1> QED
  BY <1>1, <1>2

LEMMA AnswersFrame ==
  ASSUME NEW msgs, TrueIn(msgs), toClient' = msgs, UNCHANGED serverVars
  PROVE  AnswersTrue'
  BY DEF AnswersTrue, TrueIn, Seen, serverVars

LEMMA NothingUntrue == TrueIn(<<>>)
  BY DEF TrueIn

LEMMA AnswersTrueStep ==
  ASSUME WireTypes, AnswersTrue, [Next]_vars
  PROVE  AnswersTrue'
<1>0. toClient \in Seq(Messages(Status)) /\ TrueIn(toClient)
  BY DEF WireTypes, AnswersTrue
<1>1. ASSUME NEW reasons, onDisconnect(reasons), UNCHANGED serverVars PROVE AnswersTrue'
  BY <1>1, NothingUntrue, AnswersFrame DEF onDisconnect
<1>2. CASE App
  <2>1. ASSUME NEW q, unlisten(q) PROVE AnswersTrue'
    BY <1>0, <2>1, TrueInRest, AnswersFrame DEF unlisten
  <2> QED
    BY <1>0, <1>2, <2>1, AnswersFrame DEF App, listen, putInternal, refreshAuthToken
<1>3. CASE Interruption
  BY <1>0, <1>1, <1>3, AnswersFrame DEF Interruption, connectionLost, authRevoked, tokenFailed,
     interruptForReason, resumeForReason, reachable, wireVars
<1>4. CASE Connect
  BY <1>0, <1>4, AnswersFrame DEF Connect, retryFires, tokenFetched, staleToken, onReady, wireVars
<1>5. CASE authAnswered
  <2>1. toClient # <<>> /\ UNCHANGED serverVars
    BY <1>5 DEF authAnswered, Received
  <2>2. toClient' = Tail(toClient) \/ onDisconnect(interruptReasons)
    BY <1>5 DEF authAnswered
  <2> QED
    BY <1>0, <1>1, <2>1, <2>2, TrueInRest, AnswersFrame
<1>6. CASE putAnswered
  BY <1>0, <1>6, TrueInRest, AnswersFrame DEF putAnswered, Received
<1>7. CASE listenAnswered
  <2>1. toClient # <<>> /\ UNCHANGED serverVars
    BY <1>7 DEF listenAnswered, Received
  <2>2. \/ toClient' = Tail(toClient)
        \/ toClient' = Forget(Tail(toClient), Head(toClient).query)
    BY <1>7 DEF listenAnswered
  <2>3. Tail(toClient) \in Seq(Messages(Status)) /\ TrueIn(Tail(toClient))
    BY <1>0, <2>1, Rest, TrueInRest
  <2>4. TrueIn(Forget(Tail(toClient), Head(toClient).query))
    BY <2>3, TrueInRest
  <2> QED
    BY <2>1, <2>2, <2>3, <2>4, AnswersFrame
<1>8. ASSUME NEW status \in Status, serverAnswers(status) PROVE AnswersTrue'
  <2> DEFINE r == Head(toServer)
             a == [r EXCEPT !.status = status]
  <2>1. /\ toServer # <<>> /\ toClient' = Append(toClient, a)
        /\ \/ r.kind = "put" /\ status = "ok" /\ Apply(r.index)
           \/ r.kind = "put" /\ status # "ok" /\ Deny(r.index)
           \/ r.kind # "put" /\ UNCHANGED serverVars
    BY <1>8 DEF serverAnswers
  <2>2. r \in Messages({"none"})
    BY <2>1 DEF WireTypes
  <2>3. /\ a \in Messages(Status) /\ a.kind = r.kind /\ a.status = status
        /\ r.kind = "put" => a.index = r.index
    BY <2>2, Answered
  <2> HIDE DEF r, a
  <2>4. /\ applied \subseteq applied' /\ Seen \subseteq Seen'
        /\ a.kind = "put" => a.index \in Seen' /\ (a.status = "ok" => a.index \in applied')
    BY <2>1, <2>3 DEF Apply, Deny, serverVars, Seen
  <2>5. \A k \in DOMAIN toClient' :
          (k \in DOMAIN toClient /\ toClient'[k] = toClient[k]) \/ toClient'[k] = a
    BY <1>0, <2>1, <2>3, Appended
  <2> QED
    BY <1>0, <2>4, <2>5 DEF AnswersTrue, TrueIn
<1>9. CASE serverReadsLate
  <2>1. UNCHANGED toClient /\ applied \subseteq applied' /\ Seen \subseteq Seen'
    BY <1>9 DEF serverReadsLate, Apply, Deny, serverVars, Seen
  <2> QED
    BY <1>0, <2>1 DEF AnswersTrue, TrueIn
<1>10. CASE UNCHANGED vars
  BY <1>0, <1>10, AnswersFrame DEF vars, wireVars
<1> QED
  BY <1>2, <1>3, <1>4, <1>5, <1>6, <1>7, <1>8, <1>9, <1>10 DEF Next, Answer

\* What the connection owes to a completion block.
BlockInv == CountInv /\ AnswersTrue /\ CallInv

LEMMA InitBlockInv == Init => BlockInv
<1> SUFFICES ASSUME Init PROVE BlockInv
  OBVIOUS
<1>1. toClient = <<>> /\ called = <<>> /\ putsToAck = <<>>
  BY Zenon DEF Init
<1>2. AnswersTrue /\ CallInv
  BY <1>1 DEF AnswersTrue, TrueIn, CallInv, GivenOut, Distinct, Disjoint
<1> QED
  BY <1>2, InitCountInv DEF BlockInv

LEMMA StepBlockInv == BlockInv /\ [Next]_vars => BlockInv'
<1> SUFFICES ASSUME BlockInv, [Next]_vars PROVE BlockInv'
  OBVIOUS
<1>1. WireTypes /\ PutTypes
  BY TypeParts DEF BlockInv, CountInv
<1> QED
  BY <1>1, StepCountInv, AnswersTrueStep, CallInvStep DEF BlockInv

\* A completion block of FPersistentConnection is called at most once, however
\* often its put is sent, and a success is one of the server.
THEOREM BlocksCalledOnce == Spec => []CalledOnce
<1>1. BlockInv => CalledOnce
  BY TypeParts, CallInvSuffices DEF BlockInv, CountInv
<1> QED
  BY <1>1, InitBlockInv, StepBlockInv, PTL DEF Spec

--------------------------------------------------------------------------------
(* The order of puts *)

\* The puts among some messages, those of them that were carried out, and that
\* they come in the order in which they were made.
PutAt(msgs)  == {k \in DOMAIN msgs : msgs[k].kind = "put"}
PutsIn(msgs) == {msgs[k].index : k \in PutAt(msgs)}
OksIn(msgs)  == {msgs[k].index : k \in {j \in PutAt(msgs) : msgs[j].status = "ok"}}

Ascending(msgs) == \A j, k \in PutAt(msgs) : j < k => msgs[j].index < msgs[k].index

\* The puts among some answers, and those that are reported as carried out.
Indices(answers)   == {answers[k].index : k \in DOMAIN answers}
OkIndices(answers) == {answers[k].index : k \in {j \in DOMAIN answers : answers[j].status = "ok"}}

Below(A, B) == \A a \in A, b \in B : a < b

LEMMA PutsEmpty == PutsIn(<<>>) = {} /\ OksIn(<<>>) = {} /\ Ascending(<<>>)
  BY DEF PutsIn, OksIn, Ascending, PutAt

LEMMA PutsAppend ==
  ASSUME NEW statuses, NEW msgs \in Seq(Messages(statuses)), NEW m \in Messages(statuses)
  PROVE  /\ PutsIn(Append(msgs, m)) = PutsIn(msgs) \cup (IF m.kind = "put" THEN {m.index} ELSE {})
         /\ OksIn(Append(msgs, m))
              = OksIn(msgs) \cup (IF m.kind = "put" /\ m.status = "ok" THEN {m.index} ELSE {})
         /\ Ascending(msgs) /\ (m.kind = "put" => Below(PutsIn(msgs), {m.index}))
              => Ascending(Append(msgs, m))
<1> DEFINE f == Append(msgs, m)
<1>1. /\ DOMAIN msgs = 1 .. Len(msgs) /\ Len(msgs) \in Nat
      /\ DOMAIN f = 1 .. Len(msgs) + 1
      /\ \A k \in DOMAIN f :
           (k \in DOMAIN msgs /\ f[k] = msgs[k]) \/ (k = Len(msgs) + 1 /\ f[k] = m)
      /\ \A k \in DOMAIN msgs : f[k] = msgs[k]
  BY Appended
<1>2. f[Len(msgs) + 1] = m
  OBVIOUS
<1> HIDE DEF f
<1>3. PutAt(f) = PutAt(msgs) \cup (IF m.kind = "put" THEN {Len(msgs) + 1} ELSE {})
  BY <1>1, <1>2 DEF PutAt
<1>4. \A k \in PutAt(msgs) : k \in 1 .. Len(msgs) /\ f[k] = msgs[k]
  BY <1>1 DEF PutAt
<1>5. PutsIn(f) = PutsIn(msgs) \cup (IF m.kind = "put" THEN {m.index} ELSE {})
  BY <1>2, <1>3, <1>4 DEF PutsIn
<1>6. OksIn(f) = OksIn(msgs) \cup (IF m.kind = "put" /\ m.status = "ok" THEN {m.index} ELSE {})
  BY <1>2, <1>3, <1>4 DEF OksIn
<1>7. ASSUME Ascending(msgs), m.kind = "put" => Below(PutsIn(msgs), {m.index})
      PROVE  Ascending(f)
  <2> SUFFICES ASSUME NEW j \in PutAt(f), NEW k \in PutAt(f), j < k
               PROVE  f[j].index < f[k].index
    BY DEF Ascending
  <2>1. j \in PutAt(msgs)
    BY <1>1, <1>3 DEF PutAt
  <2>2. CASE k \in PutAt(msgs)
    BY <1>4, <1>7, <2>1, <2>2 DEF Ascending
  <2>3. CASE k = Len(msgs) + 1 /\ m.kind = "put"
    BY <1>2, <1>4, <1>7, <2>1, <2>3 DEF Below, PutsIn
  <2> QED
    BY <1>3, <2>2, <2>3
<1> QED
  BY <1>5, <1>6, <1>7 DEF f

LEMMA PutsTail ==
  ASSUME NEW statuses, NEW msgs \in Seq(Messages(statuses)), msgs # <<>>
  PROVE  /\ PutsIn(msgs) = PutsIn(Tail(msgs)) \cup
                             (IF Head(msgs).kind = "put" THEN {Head(msgs).index} ELSE {})
         /\ OksIn(Tail(msgs)) \subseteq OksIn(msgs)
         /\ Head(msgs).kind = "put" /\ Head(msgs).status = "ok" => Head(msgs).index \in OksIn(msgs)
         /\ Ascending(msgs) =>
              /\ Ascending(Tail(msgs))
              /\ Head(msgs).kind = "put" => Below({Head(msgs).index}, PutsIn(Tail(msgs)))
<1> DEFINE f == Tail(msgs)
<1>1. /\ DOMAIN msgs = 1 .. Len(msgs) /\ Len(msgs) \in Nat \ {0} /\ Head(msgs) = msgs[1]
      /\ DOMAIN f = 1 .. Len(msgs) - 1
      /\ \A k \in DOMAIN f : k + 1 \in DOMAIN msgs /\ f[k] = msgs[k + 1]
  BY Rest
<1> HIDE DEF f
<1>2. \A k \in PutAt(f) : k \in 1 .. Len(msgs) - 1 /\ k + 1 \in PutAt(msgs) /\ f[k] = msgs[k + 1]
  BY <1>1 DEF PutAt
<1>3. ASSUME NEW k \in PutAt(msgs), k # 1 PROVE k - 1 \in PutAt(f) /\ f[k - 1] = msgs[k]
  <2>1. k - 1 \in DOMAIN f /\ (k - 1) + 1 = k
    BY <1>1, <1>3 DEF PutAt
  <2> QED
    BY <1>1, <2>1 DEF PutAt
<1>4. 1 \in PutAt(msgs) <=> Head(msgs).kind = "put"
  BY <1>1 DEF PutAt
<1>5. PutsIn(msgs) = PutsIn(f) \cup (IF Head(msgs).kind = "put" THEN {Head(msgs).index} ELSE {})
  <2>1. ASSUME NEW k \in PutAt(msgs)
        PROVE  \/ k = 1 /\ Head(msgs).kind = "put" /\ msgs[k].index = Head(msgs).index
               \/ msgs[k].index \in PutsIn(f)
    BY <1>1, <1>3, <1>4 DEF PutsIn
  <2>2. PutsIn(f) \subseteq PutsIn(msgs)
    BY <1>2 DEF PutsIn
  <2>3. Head(msgs).kind = "put" => Head(msgs).index \in PutsIn(msgs)
    BY <1>1, <1>4 DEF PutsIn
  <2>4. PutsIn(msgs) \subseteq PutsIn(f) \cup (IF Head(msgs).kind = "put" THEN {Head(msgs).index} ELSE {})
    BY <2>1 DEF PutsIn
  <2> QED
    BY <2>2, <2>3, <2>4
<1>6. OksIn(f) \subseteq OksIn(msgs)
  BY <1>2 DEF OksIn
<1>7. Head(msgs).kind = "put" /\ Head(msgs).status = "ok" => Head(msgs).index \in OksIn(msgs)
  BY <1>1, <1>4 DEF OksIn
<1>8. ASSUME Ascending(msgs)
      PROVE  Ascending(f) /\ (Head(msgs).kind = "put" => Below({Head(msgs).index}, PutsIn(f)))
  <2>1. ASSUME NEW j \in PutAt(f), NEW k \in PutAt(f), j < k PROVE f[j].index < f[k].index
    <3>1. j + 1 < k + 1
      BY <1>2, <2>1
    <3> QED
      BY <1>2, <1>8, <3>1 DEF Ascending
  <2>2. ASSUME Head(msgs).kind = "put", NEW k \in PutAt(f) PROVE Head(msgs).index < f[k].index
    <3>1. 1 < k + 1 /\ k + 1 \in PutAt(msgs) /\ 1 \in PutAt(msgs) /\ f[k] = msgs[k + 1]
      BY <1>2, <1>4, <2>2
    <3> QED
      BY <1>1, <1>8, <3>1 DEF Ascending
  <2> QED
    BY <2>1, <2>2 DEF Ascending, Below, PutsIn
<1> QED
  BY <1>5, <1>6, <1>7, <1>8 DEF f

\* A listen that is given up leaves the puts alone.
LEMMA PutsForgotten ==
  ASSUME NEW statuses, NEW msgs \in Seq(Messages(statuses)), NEW q
  PROVE  /\ PutsIn(Forget(msgs, q)) = PutsIn(msgs) /\ OksIn(Forget(msgs, q)) = OksIn(msgs)
         /\ Ascending(msgs) => Ascending(Forget(msgs, q))
<1> DEFINE f == Forget(msgs, q)
<1>1. /\ DOMAIN f = DOMAIN msgs
      /\ \A k \in DOMAIN msgs :
           f[k].kind = msgs[k].kind /\ (msgs[k].kind # "listen" => f[k] = msgs[k])
  BY Forgotten
<1> HIDE DEF f
<1>2. PutAt(f) = PutAt(msgs) /\ \A k \in PutAt(msgs) : f[k] = msgs[k]
  BY <1>1 DEF PutAt
<1>3. PutsIn(f) = PutsIn(msgs) /\ OksIn(f) = OksIn(msgs) /\ (Ascending(msgs) => Ascending(f))
  BY <1>2 DEF PutsIn, OksIn, Ascending
<1> QED
  BY <1>3 DEF f

LEMMA PutsConcat ==
  ASSUME NEW S, NEW s \in Seq(S), NEW t \in Seq(S)
  PROVE  PutsIn(s \o t) = PutsIn(s) \cup PutsIn(t)
<1> DEFINE f == s \o t
<1>1. /\ f \in Seq(S) /\ Len(f) = Len(s) + Len(t)
      /\ \A k \in 1 .. Len(s) : f[k] = s[k]
      /\ \A k \in 1 .. Len(t) : f[Len(s) + k] = t[k]
  BY Concatenated
<1> HIDE DEF f
<1>2. /\ Len(s) \in Nat /\ Len(t) \in Nat /\ DOMAIN s = 1 .. Len(s) /\ DOMAIN t = 1 .. Len(t)
      /\ DOMAIN f = 1 .. Len(s) + Len(t)
  BY <1>1
<1>3. ASSUME NEW k \in PutAt(f) PROVE f[k].index \in PutsIn(s) \cup PutsIn(t)
  <2>1. CASE k \in 1 .. Len(s)
    BY <1>1, <1>2, <1>3, <2>1 DEF PutsIn, PutAt
  <2>2. CASE k \notin 1 .. Len(s)
    <3>1. k - Len(s) \in 1 .. Len(t) /\ Len(s) + (k - Len(s)) = k
      BY <1>2, <1>3, <2>2 DEF PutAt
    <3>2. f[k] = t[k - Len(s)]
      BY <1>1, <3>1
    <3>3. k - Len(s) \in PutAt(t)
      BY <1>2, <1>3, <3>1, <3>2 DEF PutAt
    <3> QED
      BY <3>2, <3>3 DEF PutsIn
  <2> QED
    BY <2>1, <2>2
<1>4. ASSUME NEW k \in PutAt(s) PROVE s[k].index \in PutsIn(f)
  BY <1>1, <1>2, <1>4 DEF PutsIn, PutAt
<1>5. ASSUME NEW k \in PutAt(t) PROVE t[k].index \in PutsIn(f)
  <2>1. Len(s) + k \in DOMAIN f /\ f[Len(s) + k] = t[k]
    BY <1>1, <1>2, <1>5 DEF PutAt
  <2> QED
    BY <1>5, <2>1 DEF PutsIn, PutAt
<1>6. PutsIn(f) = PutsIn(s) \cup PutsIn(t)
  <2>1. PutsIn(f) \subseteq PutsIn(s) \cup PutsIn(t)
    BY <1>3 DEF PutsIn
  <2>2. PutsIn(s) \subseteq PutsIn(f) /\ PutsIn(t) \subseteq PutsIn(f)
    BY <1>4, <1>5 DEF PutsIn
  <2> QED
    BY <2>1, <2>2
<1> QED
  BY <1>6 DEF f

\* What restoreState appends to a connection that has carried no put yet.
LEMMA PutsRestored ==
  ASSUME NEW msgs \in Seq(Messages({"none"})), PutsIn(msgs) = {},
         NEW S \in SUBSET Queries, IsFiniteSet(S), NEW order \in SetToSeqs(S),
         NEW puts \in Seq(Puts),
         \A j, k \in DOMAIN puts : j < k => puts[j] < puts[k]
  PROVE  /\ PutsIn(msgs \o Restored(order, puts)) = {puts[k] : k \in DOMAIN puts}
         /\ Ascending(msgs \o Restored(order, puts))
<1> DEFINE rest == Restored(order, puts)
           f == msgs \o rest
           c == Cardinality(S)
           n == Len(msgs) + c
<1>1. /\ rest \in Seq(Messages({"none"}))
      /\ Len(rest) = c + Len(puts)
      /\ \A k \in 1 .. c : rest[k].kind = "listen"
      /\ \A k \in 1 .. Len(puts) : rest[c + k] = Put(puts[k])
  BY RestoredMessages
<1>2. c \in Nat /\ Len(msgs) \in Nat /\ Len(puts) \in Nat /\ DOMAIN puts = 1 .. Len(puts)
  BY FS_CardinalityType
<1> HIDE DEF rest, c
<1>3. /\ f \in Seq(Messages({"none"})) /\ Len(f) = Len(msgs) + Len(rest)
      /\ \A k \in 1 .. Len(msgs) : f[k] = msgs[k]
      /\ \A k \in 1 .. Len(rest) : f[Len(msgs) + k] = rest[k]
  BY <1>1, Concatenated
<1> HIDE DEF f
<1>4. DOMAIN f = 1 .. n + Len(puts) /\ DOMAIN msgs = 1 .. Len(msgs) /\ n \in Nat
  BY <1>1, <1>2, <1>3
<1>5. ASSUME NEW k \in 1 .. Len(puts)
      PROVE  n + k \in PutAt(f) /\ f[n + k].index = puts[k]
  <2>1. c + k \in 1 .. Len(rest) /\ Len(msgs) + (c + k) = n + k
    BY <1>1, <1>2
  <2>2. f[n + k] = Put(puts[k])
    <3>1. f[Len(msgs) + (c + k)] = rest[c + k]
      BY <1>3, <2>1
    <3> QED
      BY <1>1, <2>1, <3>1
  <2>3. n + k \in DOMAIN f
    BY <1>4, <1>2
  <2> QED
    BY <2>2, <2>3 DEF PutAt, Put
<1>6. ASSUME NEW k \in PutAt(f) PROVE k - n \in 1 .. Len(puts) /\ n + (k - n) = k
  <2>1. k \in 1 .. n + Len(puts) /\ f[k].kind = "put"
    BY <1>4 DEF PutAt
  <2>2. k \notin 1 .. Len(msgs)
    <3> SUFFICES ASSUME k \in 1 .. Len(msgs) PROVE FALSE
      OBVIOUS
    <3>1. k \in PutAt(msgs)
      BY <1>3, <1>4, <2>1 DEF PutAt
    <3> QED
      BY <3>1 DEF PutsIn
  <2>3. k - Len(msgs) \in 1 .. Len(rest) /\ Len(msgs) + (k - Len(msgs)) = k
    BY <1>1, <1>2, <2>1, <2>2
  <2>4. f[k] = rest[k - Len(msgs)]
    BY <1>3, <2>3
  <2>5. k - Len(msgs) \notin 1 .. c
    BY <1>1, <2>1, <2>4
  <2> QED
    BY <1>1, <1>2, <2>1, <2>3, <2>5
<1> HIDE DEF n
<1>7. PutsIn(f) = {puts[k] : k \in DOMAIN puts}
  <2>1. ASSUME NEW k \in PutAt(f) PROVE f[k].index \in {puts[l] : l \in DOMAIN puts}
    <3>1. k - n \in 1 .. Len(puts) /\ n + (k - n) = k
      BY <1>6
    <3>2. f[n + (k - n)].index = puts[k - n]
      BY <1>5, <3>1
    <3> QED
      BY <1>2, <3>1, <3>2
  <2>2. \A k \in DOMAIN puts : puts[k] \in PutsIn(f)
    BY <1>2, <1>5 DEF PutsIn
  <2> QED
    BY <2>1, <2>2 DEF PutsIn
<1>8. Ascending(f)
  <2> SUFFICES ASSUME NEW j \in PutAt(f), NEW k \in PutAt(f), j < k
               PROVE  f[j].index < f[k].index
    BY DEF Ascending
  <2>1. /\ j - n \in 1 .. Len(puts) /\ n + (j - n) = j
        /\ k - n \in 1 .. Len(puts) /\ n + (k - n) = k
    BY <1>6
  <2>2. j - n < k - n
    BY <1>4, <2>1 DEF PutAt
  <2>3. f[j].index = puts[j - n] /\ f[k].index = puts[k - n]
    <3>1. f[n + (j - n)].index = puts[j - n] /\ f[n + (k - n)].index = puts[k - n]
      BY <1>5, <2>1
    <3> QED
      BY <2>1, <3>1
  <2> QED
    BY <1>2, <2>1, <2>2, <2>3
<1> QED
  BY <1>7, <1>8 DEF f, rest

\* One more answer, and the held answers given out.
LEMMA AnswersAppend ==
  ASSUME NEW answers \in Seq(PutAnswers), NEW a \in PutAnswers
  PROVE  /\ Indices(Append(answers, a)) = Indices(answers) \cup {a.index}
         /\ OkIndices(Append(answers, a))
              = OkIndices(answers) \cup (IF a.status = "ok" THEN {a.index} ELSE {})
<1> DEFINE f == Append(answers, a)
<1>1. /\ DOMAIN answers = 1 .. Len(answers) /\ Len(answers) \in Nat
      /\ DOMAIN f = 1 .. Len(answers) + 1
      /\ \A k \in DOMAIN f :
           (k \in DOMAIN answers /\ f[k] = answers[k]) \/ (k = Len(answers) + 1 /\ f[k] = a)
      /\ \A k \in DOMAIN answers : f[k] = answers[k]
  BY Appended
<1>2. f[Len(answers) + 1] = a
  OBVIOUS
<1> HIDE DEF f
<1>3. DOMAIN f = DOMAIN answers \cup {Len(answers) + 1}
  BY <1>1
<1>4. /\ Indices(f) = Indices(answers) \cup {a.index}
      /\ OkIndices(f) = OkIndices(answers) \cup (IF a.status = "ok" THEN {a.index} ELSE {})
  BY <1>1, <1>2, <1>3 DEF Indices, OkIndices
<1> QED
  BY <1>4 DEF f

LEMMA AnswersConcat ==
  ASSUME NEW s \in Seq(PutAnswers), NEW t \in Seq(PutAnswers)
  PROVE  /\ Indices(s \o t) = Indices(s) \cup Indices(t)
         /\ OkIndices(s \o t) = OkIndices(s) \cup OkIndices(t)
<1> DEFINE f == s \o t
<1>1. /\ f \in Seq(PutAnswers) /\ Len(f) = Len(s) + Len(t)
      /\ \A k \in 1 .. Len(s) : f[k] = s[k]
      /\ \A k \in 1 .. Len(t) : f[Len(s) + k] = t[k]
  BY Concatenated
<1> HIDE DEF f
<1>2. /\ Len(s) \in Nat /\ Len(t) \in Nat /\ DOMAIN s = 1 .. Len(s) /\ DOMAIN t = 1 .. Len(t)
      /\ DOMAIN f = 1 .. Len(s) + Len(t)
  BY <1>1
<1>3. ASSUME NEW k \in DOMAIN f
      PROVE  (\E j \in DOMAIN s : f[k] = s[j]) \/ (\E j \in DOMAIN t : f[k] = t[j])
  <2>1. CASE k \in 1 .. Len(s)
    BY <1>1, <1>2, <2>1
  <2>2. CASE k \notin 1 .. Len(s)
    <3>1. k - Len(s) \in 1 .. Len(t) /\ Len(s) + (k - Len(s)) = k
      BY <1>2, <1>3, <2>2
    <3>2. f[k] = t[k - Len(s)]
      BY <1>1, <3>1
    <3> QED
      BY <1>2, <3>1, <3>2
  <2> QED
    BY <2>1, <2>2
<1>4. \A k \in DOMAIN s : k \in DOMAIN f /\ f[k] = s[k]
  BY <1>1, <1>2
<1>5. \A k \in DOMAIN t : \E j \in DOMAIN f : f[j] = t[k]
  <2> TAKE k \in DOMAIN t
  <2>1. Len(s) + k \in DOMAIN f /\ f[Len(s) + k] = t[k]
    BY <1>1, <1>2
  <2> QED
    BY <2>1
<1>6. Indices(f) = Indices(s) \cup Indices(t) /\ OkIndices(f) = OkIndices(s) \cup OkIndices(t)
  <2>1. Indices(f) \subseteq Indices(s) \cup Indices(t) /\ OkIndices(f) \subseteq OkIndices(s) \cup OkIndices(t)
    BY <1>3 DEF Indices, OkIndices
  <2>2. Indices(s) \subseteq Indices(f) /\ OkIndices(s) \subseteq OkIndices(f)
    BY <1>4 DEF Indices, OkIndices
  <2>3. Indices(t) \subseteq Indices(f) /\ OkIndices(t) \subseteq OkIndices(f)
    BY <1>5 DEF Indices, OkIndices
  <2> QED
    BY <2>1, <2>2, <2>3
<1> QED
  BY <1>6 DEF f

\* The places of requests or answers of an auth after which the state has to be
\* restored.
Restores(m)     == m.kind = "auth" /\ m.restore
Restoring(msgs) == {k \in DOMAIN msgs : Restores(msgs[k])}

LEMMA RestoringAppend ==
  ASSUME NEW statuses, NEW msgs \in Seq(Messages(statuses)), NEW m \in Messages(statuses)
  PROVE  /\ ~Restores(m) => Restoring(Append(msgs, m)) = Restoring(msgs)
         /\ Restores(m) => Restoring(Append(msgs, m)) = Restoring(msgs) \cup {Len(msgs) + 1}
<1> DEFINE f == Append(msgs, m)
<1>1. /\ DOMAIN msgs = 1 .. Len(msgs) /\ Len(msgs) \in Nat
      /\ DOMAIN f = 1 .. Len(msgs) + 1
      /\ \A k \in DOMAIN msgs : f[k] = msgs[k]
  BY Appended
<1>2. f[Len(msgs) + 1] = m
  OBVIOUS
<1> HIDE DEF f
<1>3. DOMAIN f = DOMAIN msgs \cup {Len(msgs) + 1}
  BY <1>1
<1>4. /\ ~Restores(m) => Restoring(f) = Restoring(msgs)
      /\ Restores(m) => Restoring(f) = Restoring(msgs) \cup {Len(msgs) + 1}
  BY <1>1, <1>2, <1>3 DEF Restoring
<1> QED
  BY <1>4 DEF f

LEMMA RestoringTail ==
  ASSUME NEW statuses, NEW msgs \in Seq(Messages(statuses)), msgs # <<>>,
         Restoring(msgs) \subseteq {1}
  PROVE  Restoring(Tail(msgs)) = {} /\ (Restores(Head(msgs)) <=> Restoring(msgs) = {1})
<1> DEFINE f == Tail(msgs)
<1>1. /\ DOMAIN msgs = 1 .. Len(msgs) /\ Len(msgs) \in Nat \ {0} /\ Head(msgs) = msgs[1]
      /\ DOMAIN f = 1 .. Len(msgs) - 1
      /\ \A k \in DOMAIN f : k + 1 \in DOMAIN msgs /\ f[k] = msgs[k + 1]
  BY Rest
<1> HIDE DEF f
<1>2. ASSUME NEW k \in Restoring(f) PROVE FALSE
  <2>1. k \in 1 .. Len(msgs) - 1 /\ k + 1 \in Restoring(msgs)
    BY <1>1, <1>2 DEF Restoring
  <2> QED
    BY <1>1, <2>1
<1>3. Restoring(f) = {}
  BY <1>2
<1>4. Restores(Head(msgs)) <=> 1 \in Restoring(msgs)
  BY <1>1 DEF Restoring
<1> QED
  BY <1>3, <1>4 DEF f

LEMMA RestoringForgotten ==
  ASSUME NEW statuses, NEW msgs \in Seq(Messages(statuses)), NEW q
  PROVE  Restoring(Forget(msgs, q)) = Restoring(msgs) /\ (msgs = <<>> => Forget(msgs, q) = <<>>)
<1> DEFINE f == Forget(msgs, q)
<1>1. /\ DOMAIN f = DOMAIN msgs
      /\ \A k \in DOMAIN msgs :
           f[k].kind = msgs[k].kind /\ (msgs[k].kind # "listen" => f[k] = msgs[k])
  BY Forgotten
<1> HIDE DEF f
<1>2. Restoring(f) = Restoring(msgs)
  BY <1>1 DEF Restoring, Restores
<1> QED
  BY <1>2, ForgetNothing DEF f

LEMMA RestoringRestored ==
  ASSUME NEW msgs \in Seq(Messages({"none"})), Restoring(msgs) = {},
         NEW S \in SUBSET Queries, IsFiniteSet(S), NEW order \in SetToSeqs(S),
         NEW puts \in Seq(Puts)
  PROVE  Restoring(msgs \o Restored(order, puts)) = {}
<1> DEFINE rest == Restored(order, puts)
           f == msgs \o rest
           c == Cardinality(S)
<1>1. /\ rest \in Seq(Messages({"none"}))
      /\ Len(rest) = c + Len(puts)
      /\ \A k \in 1 .. c : rest[k].kind = "listen"
      /\ \A k \in 1 .. Len(puts) : rest[c + k] = Put(puts[k])
  BY RestoredMessages
<1>2. c \in Nat /\ Len(msgs) \in Nat /\ Len(puts) \in Nat /\ DOMAIN msgs = 1 .. Len(msgs)
  BY FS_CardinalityType
<1> HIDE DEF rest, c
<1>3. /\ f \in Seq(Messages({"none"})) /\ Len(f) = Len(msgs) + Len(rest)
      /\ \A k \in 1 .. Len(msgs) : f[k] = msgs[k]
      /\ \A k \in 1 .. Len(rest) : f[Len(msgs) + k] = rest[k]
  BY <1>1, Concatenated
<1> HIDE DEF f
<1>4. \A k \in 1 .. Len(rest) : rest[k].kind # "auth"
  <2> TAKE k \in 1 .. Len(rest)
  <2>1. CASE k \in 1 .. c
    BY <1>1, <2>1
  <2>2. CASE k \notin 1 .. c
    <3>1. k - c \in 1 .. Len(puts) /\ c + (k - c) = k
      BY <1>1, <1>2, <2>2
    <3>2. rest[c + (k - c)] = Put(puts[k - c])
      BY <1>1, <3>1
    <3> QED
      BY <3>1, <3>2 DEF Put
  <2> QED
    BY <2>1, <2>2
<1>5. ASSUME NEW k \in Restoring(f) PROVE FALSE
  <2>1. k \in 1 .. Len(msgs) + Len(rest) /\ Restores(f[k]) /\ Len(rest) \in Nat
    BY <1>1, <1>2, <1>3 DEF Restoring
  <2>2. CASE k \in 1 .. Len(msgs)
    BY <1>2, <1>3, <2>1, <2>2 DEF Restoring
  <2>3. CASE k \notin 1 .. Len(msgs)
    <3>1. k - Len(msgs) \in 1 .. Len(rest) /\ Len(msgs) + (k - Len(msgs)) = k
      BY <1>2, <2>1, <2>3
    <3>2. f[Len(msgs) + (k - Len(msgs))] = rest[k - Len(msgs)]
      BY <1>3, <3>1
    <3> QED
      BY <1>4, <2>1, <3>1, <3>2 DEF Restores
  <2> QED
    BY <2>2, <2>3
<1>6. Restoring(f) = {}
  BY <1>5
<1> QED
  BY <1>6 DEF f, rest

\* The puts with an answer that was given out or is held, and those of them that
\* are reported as carried out.
AnsweredPuts == Indices(called) \cup Indices(putsToAck)
Acknowledged == OkIndices(called) \cup OkIndices(putsToAck)

\* No put is lost: it has its answer, or it is outstanding, and then it or its
\* answer is on its way whenever the connection can carry writes.
NoneLost == outstandingPuts \cup AnsweredPuts = 1 .. putCounter - 1
UnderWay == canSendWrites => outstandingPuts \subseteq PutsIn(toServer) \cup PutsIn(toClient)

\* On a connection puts and their answers go in order, each put once and only
\* while it is outstanding; a new connection starts without the rest of the
\* last one.
WireOrder ==
  /\ Ascending(toServer) /\ Ascending(toClient)
  /\ Below(PutsIn(toClient), PutsIn(toServer))
  /\ PutsIn(toServer) \cup PutsIn(toClient) \cup PutsIn(late) \subseteq outstandingPuts
  /\ connected => late = <<>>
  /\ ~canSendWrites => PutsIn(toServer) = {} /\ PutsIn(toClient) = {}

\* So answers come in order, over all connections, and what the server has
\* carried out last is no older than what it has answered.
AnswerOrder == Below(AnsweredPuts, outstandingPuts)
ValueOrder  == \A i \in OksIn(toClient) \cup Acknowledged : value >= i

\* Before writes may be sent, the first answer to come is that of the auth after
\* which the state is restored, and another user's sign-in does not overtake it;
\* afterwards there is no such auth, and nothing is restored twice.
RestoreFirst ==
  /\ connectionState = "Connected" => Restoring(toClient) = {} /\ Restoring(toServer) = {}
  /\ connectionState = "Authenticating" =>
       \/ Restoring(toClient) = {1} /\ Restoring(toServer) = {}
       \/ toClient = <<>> /\ Restoring(toServer) = {1}

OrderInv == NoneLost /\ UnderWay /\ WireOrder /\ AnswerOrder /\ ValueOrder /\ RestoreFirst

\* Steps that leave the puts on the connection, the answers and the server alone.
LEMMA OrderFrame ==
  ASSUME OrderInv, UNCHANGED <<putVars, serverVars, late>>,
         Ascending(toServer'), Ascending(toClient'),
         PutsIn(toServer') = PutsIn(toServer), PutsIn(toClient') = PutsIn(toClient),
         OksIn(toClient') \subseteq OksIn(toClient),
         connectionState' = connectionState \/ (~canSendWrites /\ ~connected'),
         RestoreFirst'
  PROVE  OrderInv'
<1>1. UNCHANGED <<outstandingPuts, putCounter, called, putsToAck, value, late>>
  BY DEF putVars, serverVars
<1>2. AnsweredPuts' = AnsweredPuts /\ Acknowledged' = Acknowledged
  BY <1>1 DEF AnsweredPuts, Acknowledged
<1>3. (canSendWrites' => canSendWrites) /\ (connected' => connected)
      /\ (~canSendWrites' => ~canSendWrites)
  BY DEF canSendWrites, connected
<1>4. NoneLost' /\ UnderWay' /\ AnswerOrder' /\ ValueOrder'
  BY <1>1, <1>2, <1>3 DEF OrderInv, NoneLost, UnderWay, AnswerOrder, ValueOrder
<1>5. WireOrder'
  BY <1>1, <1>3 DEF OrderInv, WireOrder
<1> QED
  BY <1>4, <1>5 DEF OrderInv

\* Steps of the state machine that neither send nor receive.
LEMMA OrderStands ==
  ASSUME OrderInv, UNCHANGED <<putVars, wireVars, serverVars>>,
         connectionState' = connectionState \/ (~canSendWrites /\ ~connected')
  PROVE  OrderInv'
<1>1. UNCHANGED <<toServer, toClient, late>>
  BY DEF wireVars
<1>2. RestoreFirst'
  BY <1>1 DEF OrderInv, RestoreFirst, connected
<1>3. Ascending(toServer) /\ Ascending(toClient)
  BY DEF OrderInv, WireOrder
<1> QED
  BY <1>1, <1>2, <1>3, OrderFrame

LEMMA OrderClosed ==
  ASSUME WireTypes, OrderInv, NEW reasons, onDisconnect(reasons), UNCHANGED <<putVars, serverVars>>
  PROVE  OrderInv'
<1>1. /\ UNCHANGED <<outstandingPuts, putCounter, called, putsToAck, value>>
      /\ toServer' = <<>> /\ toClient' = <<>> /\ late' = late \o toServer
      /\ connectionState' = "Disconnected"
  BY DEF serverVars, putVars, onDisconnect
<1>2. AnsweredPuts' = AnsweredPuts /\ Acknowledged' = Acknowledged
  BY <1>1 DEF AnsweredPuts, Acknowledged
<1>3. /\ PutsIn(toServer') = {} /\ PutsIn(toClient') = {} /\ OksIn(toClient') = {}
      /\ Ascending(toServer') /\ Ascending(toClient')
  BY <1>1, PutsEmpty
<1>4. PutsIn(late') = PutsIn(late) \cup PutsIn(toServer)
  BY <1>1, PutsConcat DEF WireTypes
<1>5. ~canSendWrites' /\ ~connected'
  BY <1>1 DEF canSendWrites, connected
<1>6. WireOrder'
  BY <1>1, <1>3, <1>4, <1>5 DEF OrderInv, WireOrder, Below
<1>7. NoneLost' /\ UnderWay' /\ AnswerOrder' /\ ValueOrder' /\ RestoreFirst'
  BY <1>1, <1>2, <1>3, <1>5 DEF OrderInv, NoneLost, UnderWay, AnswerOrder, ValueOrder, RestoreFirst
<1> QED
  BY <1>6, <1>7 DEF OrderInv

\* A request of another kind is sent.
LEMMA OrderSent ==
  ASSUME WireTypes, OrderInv, NEW m \in Messages({"none"}), m.kind # "put", ~Restores(m),
         toServer' = Append(toServer, m),
         UNCHANGED <<connectionState, putVars, toClient, late, serverVars>>
  PROVE  OrderInv'
<1>1. toServer \in Seq(Messages({"none"}))
  BY DEF WireTypes
<1>2. PutsIn(toServer') = PutsIn(toServer) /\ Ascending(toServer')
  BY <1>1, PutsAppend DEF OrderInv, WireOrder
<1>3. RestoreFirst'
  <2>1. Restoring(toServer') = Restoring(toServer)
    BY <1>1, RestoringAppend
  <2> QED
    BY <2>1 DEF OrderInv, RestoreFirst
<1>4. Ascending(toClient)
  BY DEF OrderInv, WireOrder
<1> QED
  BY <1>2, <1>3, <1>4, OrderFrame

\* The state is restored on a connection that has carried no put yet.
LEMMA OrderRestored ==
  ASSUME WireTypes, PutTypes, OrderInv, ~canSendWrites, restoreState,
         connectionState' = "Connected", late' = <<>>,
         PutsIn(toClient') = PutsIn(toClient), OksIn(toClient') \subseteq OksIn(toClient),
         Ascending(toClient'), Restoring(toServer) = {}, Restoring(toClient') = {},
         UNCHANGED <<putVars, serverVars>>
  PROVE  OrderInv'
<1>1. /\ toServer \in Seq(Messages({"none"})) /\ listens \in SUBSET Queries /\ IsFiniteSet(listens)
      /\ PutsIn(toServer) = {} /\ PutsIn(toClient) = {}
  BY DEF WireTypes, OrderInv, WireOrder
<1>2. UNCHANGED <<outstandingPuts, putCounter, called, putsToAck, value>>
  BY DEF serverVars, putVars
<1>3. PICK order \in SetToSeqs(listens), puts \in SortedPuts :
        toServer' = toServer \o Restored(order, puts)
  BY DEF restoreState
<1>4. /\ puts \in Seq(Puts) /\ puts \in Seq(outstandingPuts)
      /\ \A i \in outstandingPuts : \E k \in DOMAIN puts : puts[k] = i
      /\ \A j, k \in DOMAIN puts : j < k => puts[j] < puts[k]
  BY Resent
<1>5. PutsIn(toServer') = {puts[k] : k \in DOMAIN puts} /\ Ascending(toServer')
  BY <1>1, <1>3, <1>4, PutsRestored
<1>6. PutsIn(toServer') = outstandingPuts
  <2>1. \A k \in DOMAIN puts : puts[k] \in outstandingPuts
    BY <1>4
  <2> QED
    BY <1>4, <1>5, <2>1
<1>7. AnsweredPuts' = AnsweredPuts /\ Acknowledged' = Acknowledged
  BY <1>2 DEF AnsweredPuts, Acknowledged
<1>8. canSendWrites' /\ PutsIn(late') = {}
  BY PutsEmpty DEF canSendWrites
<1>9. WireOrder'
  BY <1>1, <1>2, <1>5, <1>6, <1>8 DEF WireOrder, Below
<1>10. NoneLost' /\ UnderWay' /\ AnswerOrder' /\ ValueOrder'
  BY <1>1, <1>2, <1>6, <1>7 DEF OrderInv, NoneLost, UnderWay, AnswerOrder, ValueOrder
<1>11. RestoreFirst'
  <2>1. Restoring(toServer') = {}
    BY <1>1, <1>3, <1>4, RestoringRestored
  <2> QED
    BY <2>1 DEF RestoreFirst
<1> QED
  BY <1>9, <1>10, <1>11 DEF OrderInv

\* A new put is the last of all.
LEMMA OrderPut ==
  ASSUME WireTypes, PutTypes, OrderInv, putInternal
  PROVE  OrderInv'
<1>1. /\ outstandingPuts' = outstandingPuts \cup {putCounter} /\ putCounter' = putCounter + 1
      /\ putCounter <= MaxPuts
      /\ toServer' = IF canSendWrites THEN Append(toServer, Put(putCounter)) ELSE toServer
      /\ UNCHANGED <<connectionState, called, putsToAck, value, toClient, late>>
  BY DEF putInternal, stateVars, serverVars
<1>2. /\ AnsweredPuts' = AnsweredPuts /\ Acknowledged' = Acknowledged
      /\ canSendWrites' = canSendWrites /\ connected' = connected
      /\ PutsIn(toClient') = PutsIn(toClient) /\ PutsIn(late') = PutsIn(late)
      /\ OksIn(toClient') = OksIn(toClient)
  BY <1>1 DEF AnsweredPuts, Acknowledged, canSendWrites, connected
<1>3. /\ toServer \in Seq(Messages({"none"})) /\ putCounter \in Puts
      /\ Put(putCounter) \in Messages({"none"})
  BY <1>1, Sent, BoundsAssumption DEF WireTypes, PutTypes, Puts
<1>4. putCounter \in Nat \ {0} /\ outstandingPuts \subseteq 1 .. putCounter - 1
      /\ AnsweredPuts \subseteq 1 .. putCounter - 1
  BY BoundsAssumption DEF PutTypes, OrderInv, NoneLost
<1>5. /\ Ascending(toServer) /\ Ascending(toClient) /\ Below(PutsIn(toClient), PutsIn(toServer))
      /\ PutsIn(toServer) \subseteq outstandingPuts /\ PutsIn(toClient) \subseteq outstandingPuts
      /\ PutsIn(late) \subseteq outstandingPuts /\ (connected => late = <<>>)
      /\ ~canSendWrites => PutsIn(toServer) = {} /\ PutsIn(toClient) = {}
  BY DEF OrderInv, WireOrder
<1>6. NoneLost' /\ AnswerOrder'
  BY <1>1, <1>2, <1>4 DEF OrderInv, NoneLost, AnswerOrder, Below
<1>7. ValueOrder'
  BY <1>1, <1>2 DEF OrderInv, ValueOrder
<1>8. CASE canSendWrites
  <2>1. Put(putCounter).kind = "put" /\ Put(putCounter).index = putCounter
    BY DEF Put
  <2>2. Below(PutsIn(toServer), {putCounter}) /\ Below(PutsIn(toClient), {putCounter})
    <3>1. \A i \in outstandingPuts : i < putCounter
      BY <1>4
    <3> QED
      BY <1>5, <3>1 DEF Below
  <2>3. toServer' = Append(toServer, Put(putCounter))
    BY <1>1, <1>8
  <2>4. PutsIn(toServer') = PutsIn(toServer) \cup {putCounter} /\ Ascending(toServer')
    BY <1>3, <1>5, <2>1, <2>2, <2>3, PutsAppend
  <2>5. WireOrder'
    BY <1>1, <1>2, <1>5, <1>8, <2>2, <2>4 DEF WireOrder, Below
  <2>6. UnderWay'
    BY <1>1, <1>2, <1>8, <2>4 DEF OrderInv, UnderWay
  <2>7. RestoreFirst'
    <3>1. Restoring(toServer') = Restoring(toServer)
      BY <1>3, <2>1, <2>3, RestoringAppend DEF Restores
    <3> QED
      BY <1>1, <3>1 DEF OrderInv, RestoreFirst
  <2> QED
    BY <1>6, <1>7, <2>5, <2>6, <2>7 DEF OrderInv
<1>9. CASE ~canSendWrites
  <2>1. UNCHANGED toServer
    BY <1>1, <1>9
  <2>2. WireOrder' /\ UnderWay' /\ RestoreFirst'
    BY <1>1, <1>2, <1>5, <1>9, <2>1 DEF OrderInv, WireOrder, UnderWay, RestoreFirst
  <2> QED
    BY <1>6, <1>7, <2>2 DEF OrderInv
<1> QED
  BY <1>8, <1>9

LEMMA OrderAppStep ==
  ASSUME WireTypes, PutTypes, OrderInv, App
  PROVE  OrderInv'
<1>0. toServer \in Seq(Messages({"none"})) /\ toClient \in Seq(Messages(Status))
  BY DEF WireTypes
<1>1. ASSUME NEW q \in Queries, listen(q) PROVE OrderInv'
  <2>1. UNCHANGED <<connectionState, putVars, toClient, late, serverVars>>
    BY <1>1 DEF listen, stateVars
  <2>2. Listen(q) \in Messages({"none"}) /\ Listen(q).kind # "put" /\ ~Restores(Listen(q))
    BY Sent DEF Listen, Restores
  <2>3. toServer' = Append(toServer, Listen(q)) \/ UNCHANGED toServer
    BY <1>1 DEF listen
  <2> QED
    BY <2>1, <2>2, <2>3, OrderSent, OrderStands DEF wireVars
<1>2. ASSUME NEW q \in Queries, unlisten(q) PROVE OrderInv'
  <2>1. /\ toServer' = Forget(toServer, q) /\ toClient' = Forget(toClient, q)
        /\ UNCHANGED <<connectionState, putVars, late, serverVars>>
    BY <1>2 DEF unlisten, stateVars
  <2>2. /\ PutsIn(toServer') = PutsIn(toServer) /\ Ascending(toServer')
        /\ PutsIn(toClient') = PutsIn(toClient) /\ Ascending(toClient')
        /\ OksIn(toClient') = OksIn(toClient)
    BY <1>0, <2>1, PutsForgotten DEF OrderInv, WireOrder
  <2>3. /\ Restoring(toServer') = Restoring(toServer) /\ Restoring(toClient') = Restoring(toClient)
        /\ toClient = <<>> => toClient' = <<>>
    BY <1>0, <2>1, RestoringForgotten
  <2>4. RestoreFirst'
    BY <2>1, <2>3 DEF OrderInv, RestoreFirst
  <2> QED
    BY <2>1, <2>2, <2>4, OrderFrame
<1>3. ASSUME NEW token \in BOOLEAN, refreshAuthToken(token) PROVE OrderInv'
  <2>1. UNCHANGED <<connectionState, putVars, toClient, late, serverVars>>
    BY <1>3 DEF refreshAuthToken, stateVars
  <2>2. Auth(FALSE) \in Messages({"none"}) /\ Auth(FALSE).kind # "put" /\ ~Restores(Auth(FALSE))
    BY Sent DEF Auth, Restores
  <2>3. toServer' = Append(toServer, Auth(FALSE)) \/ UNCHANGED toServer
    BY <1>3 DEF refreshAuthToken
  <2> QED
    BY <2>1, <2>2, <2>3, OrderSent, OrderStands DEF wireVars
<1> QED
  BY <1>1, <1>2, <1>3, OrderPut DEF App

LEMMA OrderInterruptionStep ==
  ASSUME IInv, WireTypes, OrderInv, Interruption
  PROVE  OrderInv'
<1>1. CASE connectionLost \/ authRevoked
  BY <1>1, OrderClosed DEF connectionLost, authRevoked
<1>2. CASE tokenFailed
  <2>1. connectionState \in {"GettingToken", "Disconnected"} /\ connectionState' = "Disconnected"
    BY <1>2 DEF tokenFailed, IInv, Assertions
  <2>2. ~canSendWrites /\ ~connected'
    BY <2>1 DEF canSendWrites, connected
  <2> QED
    BY <1>2, <2>2, OrderStands DEF tokenFailed
<1>3. CASE reachable
  BY <1>3, OrderStands DEF reachable
<1>4. ASSUME NEW reason, interruptForReason(reason) PROVE OrderInv'
  <2>1. CASE Open
    BY <1>4, <2>1, OrderClosed DEF interruptForReason
  <2>2. CASE ~Open
    <3>1. ~canSendWrites /\ ~connected'
      BY <1>4, <2>2 DEF interruptForReason, Open, canSendWrites, connected
    <3> QED
      BY <1>4, <2>2, <3>1, OrderStands DEF interruptForReason, wireVars
  <2> QED
    BY <2>1, <2>2
<1>5. ASSUME NEW reason, resumeForReason(reason) PROVE OrderInv'
  BY <1>5, OrderStands DEF resumeForReason
<1> QED
  BY <1>1, <1>2, <1>3, <1>4, <1>5 DEF Interruption

LEMMA OrderConnectStep ==
  ASSUME IInv, WireTypes, PutTypes, OrderInv, Connect
  PROVE  OrderInv'
<1>1. CASE retryFires
  <2>1. connectionState = "Disconnected" /\ connectionState' = "GettingToken"
    BY <1>1 DEF retryFires, IInv, RetryIffDown
  <2>2. ~canSendWrites /\ ~connected'
    BY <2>1 DEF canSendWrites, connected
  <2> QED
    BY <1>1, <2>2, OrderStands DEF retryFires
<1>2. ASSUME NEW token, tokenFetched(token) PROVE OrderInv'
  <2>1. \/ UNCHANGED connectionState
        \/ connectionState = "GettingToken" /\ connectionState' = "Connecting"
    BY <1>2 DEF tokenFetched
  <2> QED
    BY <1>2, <2>1, OrderStands DEF tokenFetched, canSendWrites, connected
<1>3. CASE staleToken
  BY <1>3, OrderStands DEF staleToken, stateVars
<1>4. CASE onReady
  <2>1. /\ connectionState = "Connecting" /\ late' = <<>>
        /\ UNCHANGED <<putVars, toClient, serverVars>>
    BY <1>4 DEF onReady
  <2>2. toServer = <<>> /\ toClient = <<>> /\ ~canSendWrites
    BY <2>1, Quiet DEF connected, canSendWrites
  <2>3. CASE authToken
    <3>1. connectionState' = "Authenticating" /\ toServer' = Append(toServer, Auth(TRUE))
      BY <1>4, <2>3 DEF onReady
    <3>2. Auth(TRUE) \in Messages({"none"}) /\ Auth(TRUE).kind # "put" /\ Restores(Auth(TRUE))
      BY Sent DEF Auth, Restores
    <3>3. UNCHANGED <<outstandingPuts, putCounter, called, putsToAck, value>>
      BY <2>1 DEF putVars, serverVars
    <3>4. AnsweredPuts' = AnsweredPuts /\ Acknowledged' = Acknowledged
      BY <3>3 DEF AnsweredPuts, Acknowledged
    <3>5. /\ PutsIn(toServer') = {} /\ Ascending(toServer')
          /\ PutsIn(toClient') = {} /\ OksIn(toClient') = {} /\ Ascending(toClient')
          /\ PutsIn(late') = {}
      <4>1. toServer \in Seq(Messages({"none"}))
        BY DEF WireTypes
      <4> QED
        BY <2>1, <2>2, <3>1, <3>2, <4>1, PutsEmpty, PutsAppend
    <3>6. ~canSendWrites'
      BY <3>1 DEF canSendWrites
    <3>7. WireOrder' /\ NoneLost' /\ UnderWay' /\ AnswerOrder' /\ ValueOrder'
      BY <2>1, <3>3, <3>4, <3>5, <3>6
         DEF OrderInv, WireOrder, NoneLost, UnderWay, AnswerOrder, ValueOrder, Below
    <3>8. RestoreFirst'
      <4>1. toServer \in Seq(Messages({"none"})) /\ Restoring(toServer) = {} /\ Len(toServer) = 0
        BY <2>2 DEF WireTypes, Restoring
      <4>2. Restoring(Append(toServer, Auth(TRUE))) = Restoring(toServer) \cup {Len(toServer) + 1}
        BY <3>2, <4>1, RestoringAppend
      <4>3. Restoring(toServer') = {1} /\ toClient' = <<>>
        <5>1. Len(toServer) + 1 = 1
          BY <4>1
        <5>2. Restoring(toServer) \cup {Len(toServer) + 1} = {1}
          BY <4>1, <5>1, Zenon
        <5>3. Restoring(toServer') = {1}
          BY <3>1, <4>2, <5>2, Zenon
        <5> QED
          BY <2>1, <2>2, <5>3
      <4> QED
        BY <3>1, <4>3 DEF RestoreFirst
    <3> QED
      BY <3>7, <3>8 DEF OrderInv
  <2>4. CASE ~authToken
    <3>1. connectionState' = "Connected" /\ restoreState
      BY <1>4, <2>4 DEF onReady
    <3>2. Ascending(toClient') /\ Restoring(toServer) = {} /\ Restoring(toClient') = {}
      BY <2>1, <2>2, PutsEmpty DEF Restoring
    <3>3. PutsIn(toClient') = PutsIn(toClient) /\ OksIn(toClient') \subseteq OksIn(toClient)
      BY <2>1
    <3> QED
      BY <2>1, <2>2, <3>1, <3>2, <3>3, OrderRestored
  <2> QED
    BY <2>3, <2>4
<1> QED
  BY <1>1, <1>2, <1>3, <1>4 DEF Connect

\* The answer to a put: the put that it is about is the oldest of those that are
\* outstanding, as the others are behind it on the connection.
LEMMA OrderAnswered ==
  ASSUME WireTypes, PutTypes, OrderInv, canSendWrites, putAnswered
  PROVE  OrderInv'
<1> DEFINE i == Head(toClient).index
           a == [index |-> i, status |-> Head(toClient).status]
<1>1. /\ toClient # <<>> /\ Head(toClient).kind = "put" /\ toClient' = Tail(toClient)
      /\ toClient \in Seq(Messages(Status))
      /\ UNCHANGED <<connectionState, putCounter, toServer, late, value>>
  BY DEF putAnswered, Received, stateVars, serverVars, WireTypes
<1>2. a \in PutAnswers
  BY <1>1, PutReceived
<1>3. /\ PutsIn(toClient) = PutsIn(toClient') \cup {i}
      /\ OksIn(toClient') \subseteq OksIn(toClient)
      /\ a.status = "ok" => i \in OksIn(toClient)
      /\ Ascending(toClient') /\ Below({i}, PutsIn(toClient'))
  BY <1>1, PutsTail DEF OrderInv, WireOrder
<1>4. /\ Ascending(toServer) /\ Below(PutsIn(toClient), PutsIn(toServer))
      /\ PutsIn(toServer) \subseteq outstandingPuts /\ PutsIn(toClient) \subseteq outstandingPuts
      /\ late = <<>> /\ outstandingPuts \subseteq PutsIn(toServer) \cup PutsIn(toClient)
  BY DEF OrderInv, WireOrder, UnderWay, canSendWrites, connected
<1>5. i \in outstandingPuts
  BY <1>3, <1>4
<1>6. /\ outstandingPuts' = outstandingPuts \ {i}
      /\ \/ called' = Append(called, a) /\ UNCHANGED putsToAck
         \/ putsToAck' = Append(putsToAck, a) /\ UNCHANGED called
  BY <1>5 DEF putAnswered
<1>7. a.index = i
  OBVIOUS
<1> HIDE DEF i, a
<1>8. /\ AnsweredPuts' = AnsweredPuts \cup {i}
      /\ Acknowledged' = Acknowledged \cup (IF a.status = "ok" THEN {i} ELSE {})
  <2>1. called \in Seq(PutAnswers) /\ putsToAck \in Seq(PutAnswers)
    BY DEF PutTypes
  <2>2. CASE called' = Append(called, a) /\ UNCHANGED putsToAck
    <3>1. /\ Indices(called') = Indices(called) \cup {i}
          /\ OkIndices(called') = OkIndices(called) \cup (IF a.status = "ok" THEN {i} ELSE {})
      BY <1>2, <1>7, <2>1, <2>2, AnswersAppend
    <3> QED
      BY <2>2, <3>1 DEF AnsweredPuts, Acknowledged
  <2>3. CASE putsToAck' = Append(putsToAck, a) /\ UNCHANGED called
    <3>1. /\ Indices(putsToAck') = Indices(putsToAck) \cup {i}
          /\ OkIndices(putsToAck') = OkIndices(putsToAck) \cup (IF a.status = "ok" THEN {i} ELSE {})
      BY <1>2, <1>7, <2>1, <2>3, AnswersAppend
    <3> QED
      BY <2>3, <3>1 DEF AnsweredPuts, Acknowledged
  <2> QED
    BY <1>6, <2>2, <2>3
<1>9. Below({i}, outstandingPuts') /\ Below({i}, PutsIn(toServer))
  BY <1>3, <1>4, <1>6 DEF Below
<1>10. i \notin PutsIn(toServer) /\ i \notin PutsIn(toClient')
  <2>1. i \in Int
    BY <1>5 DEF PutTypes
  <2> QED
    BY <1>3, <1>9, <2>1 DEF Below
<1>11. canSendWrites' /\ PutsIn(late') = {}
  BY <1>1, <1>4, PutsEmpty DEF canSendWrites
<1>12. WireOrder'
  BY <1>1, <1>3, <1>4, <1>6, <1>10, <1>11 DEF WireOrder, Below
<1>13. NoneLost' /\ AnswerOrder'
  BY <1>1, <1>5, <1>6, <1>8, <1>9 DEF OrderInv, NoneLost, AnswerOrder, Below
<1>14. UnderWay'
  BY <1>1, <1>3, <1>4, <1>6 DEF UnderWay
<1>15. ValueOrder'
  BY <1>1, <1>3, <1>8 DEF OrderInv, ValueOrder
<1>16. RestoreFirst'
  <2>1. Restoring(toClient) = {} /\ Restoring(toServer) = {} /\ connectionState = "Connected"
    BY DEF OrderInv, RestoreFirst, canSendWrites
  <2>2. Restoring(toClient') = {}
    BY <1>1, <2>1, RestoringTail
  <2> QED
    BY <1>1, <2>1, <2>2 DEF RestoreFirst
<1> QED
  BY <1>12, <1>13, <1>14, <1>15, <1>16 DEF OrderInv

LEMMA OrderAnswerStep ==
  ASSUME IInv, WireTypes, PutTypes, OrderInv, Answer
  PROVE  OrderInv'
<1>1. /\ toClient # <<>> /\ toClient \in Seq(Messages(Status))
      /\ toServer \in Seq(Messages({"none"}))
  BY DEF WireTypes, Answer, authAnswered, putAnswered, listenAnswered, Received
<1>2. connected /\ late = <<>>
  BY <1>1, Quiet DEF OrderInv, WireOrder
<1>3. /\ Restoring(Tail(toClient)) = {} /\ Restoring(toServer) = {}
      /\ connectionState = "Connected" <=> ~Restores(Head(toClient))
  <2>1. Restoring(toClient) \subseteq {1} /\ Restoring(toServer) = {}
    BY <1>1, <1>2 DEF OrderInv, RestoreFirst, connected
  <2>2. Restoring(Tail(toClient)) = {} /\ (Restores(Head(toClient)) <=> Restoring(toClient) = {1})
    BY <1>1, <2>1, RestoringTail
  <2>3. connectionState = "Connected" <=> Restoring(toClient) # {1}
    BY <1>1, <1>2 DEF OrderInv, RestoreFirst, connected
  <2> QED
    BY <2>1, <2>2, <2>3
<1>4. Head(toClient).kind # "put" =>
        /\ PutsIn(Tail(toClient)) = PutsIn(toClient) /\ Ascending(Tail(toClient))
        /\ OksIn(Tail(toClient)) \subseteq OksIn(toClient)
  BY <1>1, PutsTail DEF OrderInv, WireOrder
<1>5. CASE authAnswered
  <2>1. UNCHANGED <<putVars, serverVars>> /\ Head(toClient).kind = "auth"
    BY <1>5 DEF authAnswered, Received
  <2>2. CASE Head(toClient).status # "ok"
    BY <1>5, <2>1, <2>2, OrderClosed DEF authAnswered
  <2>3. CASE Head(toClient).status = "ok"
    <3>1. connectionState' = "Connected" /\ UNCHANGED late /\ toClient' = Tail(toClient)
      BY <1>5, <2>3 DEF authAnswered
    <3>2. CASE ~Head(toClient).restore
      <4>1. connectionState = "Connected" /\ UNCHANGED toServer
        BY <1>3, <1>5, <2>3, <3>2 DEF authAnswered, Restores
      <4>2. RestoreFirst'
        BY <1>3, <3>1, <4>1 DEF RestoreFirst
      <4>3. Ascending(toServer)
        BY DEF OrderInv, WireOrder
      <4> QED
        BY <1>4, <2>1, <3>1, <4>1, <4>2, <4>3, OrderFrame
    <3>3. CASE Head(toClient).restore
      <4>1. restoreState
        BY <1>5, <2>3, <3>3 DEF authAnswered
      <4>2. ~canSendWrites
        BY <1>3, <2>1, <3>3 DEF Restores, canSendWrites
      <4> QED
        BY <1>2, <1>3, <1>4, <2>1, <3>1, <4>1, <4>2, OrderRestored
    <3> QED
      BY <3>2, <3>3
  <2> QED
    BY <2>2, <2>3
<1>6. CASE putAnswered
  <2>1. Head(toClient).kind = "put"
    BY <1>6 DEF putAnswered, Received
  <2>2. canSendWrites
    BY <1>3, <2>1 DEF Restores, canSendWrites
  <2> QED
    BY <1>6, <2>2, OrderAnswered
<1>7. CASE listenAnswered
  <2> DEFINE q == Head(toClient).query
  <2>1. /\ Head(toClient).kind = "listen"
        /\ toServer' = toServer \/ toServer' = Forget(toServer, q)
        /\ toClient' = Tail(toClient) \/ toClient' = Forget(Tail(toClient), q)
        /\ UNCHANGED <<connectionState, outstandingPuts, putCounter, late, serverVars>>
        /\ \/ UNCHANGED <<called, putsToAck>>
           \/ called' = called \o putsToAck /\ putsToAck' = <<>>
    BY <1>7 DEF listenAnswered, Received, stateVars, ackPuts
  <2> HIDE DEF q
  <2>2. connectionState = "Connected" /\ Tail(toClient) \in Seq(Messages(Status))
    BY <1>1, <1>3, <2>1, Rest DEF Restores
  <2>3. PutsIn(toServer') = PutsIn(toServer) /\ Ascending(toServer')
    BY <1>1, <2>1, PutsForgotten DEF OrderInv, WireOrder
  <2>4. /\ PutsIn(toClient') = PutsIn(toClient) /\ Ascending(toClient')
        /\ OksIn(toClient') \subseteq OksIn(toClient)
    <3>1. /\ PutsIn(Tail(toClient)) = PutsIn(toClient) /\ Ascending(Tail(toClient))
          /\ OksIn(Tail(toClient)) \subseteq OksIn(toClient)
      BY <1>4, <2>1
    <3>2. /\ PutsIn(Forget(Tail(toClient), q)) = PutsIn(Tail(toClient))
          /\ OksIn(Forget(Tail(toClient), q)) = OksIn(Tail(toClient))
          /\ Ascending(Forget(Tail(toClient), q))
      BY <2>2, <3>1, PutsForgotten
    <3> QED
      BY <2>1, <3>1, <3>2
  <2>5. AnsweredPuts' = AnsweredPuts /\ Acknowledged' = Acknowledged
    <3>1. CASE UNCHANGED <<called, putsToAck>>
      BY <3>1 DEF AnsweredPuts, Acknowledged
    <3>2. CASE called' = called \o putsToAck /\ putsToAck' = <<>>
      <4>1. called \in Seq(PutAnswers) /\ putsToAck \in Seq(PutAnswers)
        BY DEF PutTypes
      <4>2. /\ Indices(called') = Indices(called) \cup Indices(putsToAck)
            /\ OkIndices(called') = OkIndices(called) \cup OkIndices(putsToAck)
        BY <3>2, <4>1, AnswersConcat
      <4>3. Indices(<<>>) = {} /\ OkIndices(<<>>) = {}
        BY DEF Indices, OkIndices
      <4> QED
        BY <3>2, <4>2, <4>3 DEF AnsweredPuts, Acknowledged
    <3> QED
      BY <2>1, <3>1, <3>2
  <2>6. /\ UNCHANGED <<outstandingPuts, putCounter, value, late>>
        /\ canSendWrites' = canSendWrites /\ connected' = connected
    BY <2>1 DEF serverVars, canSendWrites, connected
  <2>7. NoneLost' /\ UnderWay' /\ AnswerOrder' /\ ValueOrder'
    BY <2>3, <2>4, <2>5, <2>6 DEF OrderInv, NoneLost, UnderWay, AnswerOrder, ValueOrder
  <2>8. WireOrder'
    BY <2>3, <2>4, <2>6 DEF OrderInv, WireOrder
  <2>9. RestoreFirst'
    <3>1. Restoring(toClient') = {} /\ Restoring(toServer') = {}
      BY <1>1, <1>3, <2>1, <2>2, RestoringForgotten
    <3> QED
      BY <2>1, <2>2, <3>1 DEF RestoreFirst
  <2> QED
    BY <2>7, <2>8, <2>9 DEF OrderInv
<1> QED
  BY <1>5, <1>6, <1>7 DEF Answer

LEMMA OrderServerStep ==
  ASSUME IInv, WireTypes, PutTypes, OrderInv,
         (\E status \in Status : serverAnswers(status)) \/ serverReadsLate
  PROVE  OrderInv'
<1>0. /\ toServer \in Seq(Messages({"none"})) /\ toClient \in Seq(Messages(Status))
      /\ late \in Seq(Messages({"none"}))
  BY DEF WireTypes
<1>1. /\ Ascending(toServer) /\ Ascending(toClient) /\ Below(PutsIn(toClient), PutsIn(toServer))
      /\ PutsIn(toServer) \subseteq outstandingPuts /\ PutsIn(toClient) \subseteq outstandingPuts
      /\ PutsIn(late) \subseteq outstandingPuts /\ (connected => late = <<>>)
      /\ ~canSendWrites => PutsIn(toServer) = {} /\ PutsIn(toClient) = {}
  BY DEF OrderInv, WireOrder
<1>2. /\ Below(AnsweredPuts, outstandingPuts) /\ outstandingPuts \subseteq Int
      /\ AnsweredPuts \subseteq Int /\ OksIn(toClient) \subseteq PutsIn(toClient)
      /\ Acknowledged \subseteq AnsweredPuts
  BY DEF OrderInv, AnswerOrder, NoneLost, PutTypes, OksIn, PutsIn, AnsweredPuts, Acknowledged,
         Indices, OkIndices
<1>3. ASSUME NEW status \in Status, serverAnswers(status) PROVE OrderInv'
  <2> DEFINE r == Head(toServer)
             a == [r EXCEPT !.status = status]
  <2>1. /\ toServer # <<>> /\ toServer' = Tail(toServer) /\ toClient' = Append(toClient, a)
        /\ UNCHANGED <<connectionState, outstandingPuts, putCounter, called, putsToAck, late>>
        /\ \/ r.kind = "put" /\ status = "ok" /\ value' = r.index
           \/ r.kind = "put" /\ status # "ok" /\ UNCHANGED value
           \/ r.kind # "put" /\ UNCHANGED value
    BY <1>3 DEF serverAnswers, stateVars, putVars, serverVars, Apply, Deny
  <2>2. r \in Messages({"none"})
    BY <1>0, <2>1
  <2>3. /\ a \in Messages(Status) /\ a.kind = r.kind /\ a.status = status
        /\ r.kind = "put" => a.index = r.index
        /\ Restores(a) <=> Restores(r)
    BY <2>2, Answered DEF Restores
  <2>4. /\ PutsIn(toServer) = PutsIn(toServer') \cup (IF r.kind = "put" THEN {r.index} ELSE {})
        /\ Ascending(toServer')
        /\ r.kind = "put" => Below({r.index}, PutsIn(toServer'))
    BY <1>0, <1>1, <2>1, PutsTail
  <2> HIDE DEF r, a
  <2>5. r.kind = "put" => Below(PutsIn(toClient), {r.index})
    BY <1>1, <2>4 DEF Below
  <2>6. /\ PutsIn(toClient') = PutsIn(toClient) \cup (IF r.kind = "put" THEN {r.index} ELSE {})
        /\ OksIn(toClient')
             = OksIn(toClient) \cup (IF r.kind = "put" /\ status = "ok" THEN {r.index} ELSE {})
        /\ Ascending(toClient')
    <3>1. /\ PutsIn(Append(toClient, a))
               = PutsIn(toClient) \cup (IF a.kind = "put" THEN {a.index} ELSE {})
          /\ OksIn(Append(toClient, a))
               = OksIn(toClient) \cup (IF a.kind = "put" /\ a.status = "ok" THEN {a.index} ELSE {})
          /\ Ascending(toClient) /\ (a.kind = "put" => Below(PutsIn(toClient), {a.index}))
               => Ascending(Append(toClient, a))
      BY <1>0, <2>3, PutsAppend
    <3>2. a.kind = "put" => Below(PutsIn(toClient), {a.index})
      BY <2>3, <2>5
    <3> QED
      BY <1>1, <2>1, <2>3, <3>1, <3>2
  <2>7. /\ AnsweredPuts' = AnsweredPuts /\ Acknowledged' = Acknowledged
        /\ canSendWrites' = canSendWrites /\ connected' = connected
    BY <2>1 DEF AnsweredPuts, Acknowledged, canSendWrites, connected
  <2>8. NoneLost' /\ AnswerOrder' /\ UnderWay'
    BY <2>1, <2>4, <2>6, <2>7 DEF OrderInv, NoneLost, AnswerOrder, UnderWay
  <2>9. WireOrder'
    <3>1. Below(PutsIn(toClient'), PutsIn(toServer'))
      BY <1>1, <2>4, <2>6 DEF Below
    <3>2. PutsIn(toServer') \cup PutsIn(toClient') = PutsIn(toServer) \cup PutsIn(toClient)
      BY <2>4, <2>6
    <3> QED
      BY <1>1, <2>1, <2>4, <2>6, <2>7, <3>1, <3>2 DEF WireOrder
  <2>10. ValueOrder'
    <3>1. CASE r.kind = "put" /\ status = "ok"
      <4>1. r.index \in outstandingPuts /\ value' = r.index
        BY <1>1, <2>1, <2>4, <3>1
      <4>2. \A i \in OksIn(toClient) \cup Acknowledged : i < r.index /\ i \in Int
        BY <1>1, <1>2, <2>5, <3>1, <4>1 DEF Below
      <4>3. r.index \in Int /\ OksIn(toClient') = OksIn(toClient) \cup {r.index}
        BY <1>2, <2>6, <3>1, <4>1
      <4>4. \A i \in OksIn(toClient') \cup Acknowledged' : value' >= i
        BY <2>7, <4>1, <4>2, <4>3
      <4> QED
        BY <4>4 DEF ValueOrder
    <3>2. CASE ~(r.kind = "put" /\ status = "ok")
      <4>1. UNCHANGED value /\ OksIn(toClient') = OksIn(toClient)
        BY <2>1, <2>6, <3>2
      <4> QED
        BY <2>7, <4>1 DEF OrderInv, ValueOrder
    <3> QED
      BY <3>1, <3>2
  <2>11. RestoreFirst'
    <3>1. connectionState = "Connected" \/ connectionState = "Authenticating"
      BY <2>1, Quiet DEF connected
    <3>2. Restoring(toServer) \subseteq {1}
      BY <3>1 DEF OrderInv, RestoreFirst
    <3>3. Restoring(toServer') = {} /\ (Restores(r) <=> Restoring(toServer) = {1})
      BY <1>0, <2>1, <3>2, RestoringTail DEF r
    <3>4. /\ ~Restores(r) => Restoring(toClient') = Restoring(toClient)
          /\ Restores(r) => Restoring(toClient') = Restoring(toClient) \cup {Len(toClient) + 1}
      BY <1>0, <2>1, <2>3, RestoringAppend
    <3>5. CASE Restores(r)
      <4>1. connectionState = "Authenticating" /\ toClient = <<>>
        BY <3>1, <3>3, <3>5 DEF OrderInv, RestoreFirst
      <4>2. Restoring(toClient) = {} /\ Len(toClient) = 0
        BY <4>1 DEF Restoring
      <4> QED
        BY <2>1, <3>3, <3>4, <3>5, <4>1, <4>2 DEF RestoreFirst
    <3>6. CASE ~Restores(r)
      BY <2>1, <3>3, <3>4, <3>6 DEF OrderInv, RestoreFirst
    <3> QED
      BY <3>5, <3>6
  <2> QED
    BY <2>8, <2>9, <2>10, <2>11 DEF OrderInv
\* The rest of a lost connection is read before the next one is ready.
<1>4. CASE serverReadsLate
  <2>1. /\ late # <<>> /\ late' = Tail(late)
        /\ UNCHANGED <<connectionState, outstandingPuts, putCounter, called, putsToAck,
                       toServer, toClient>>
        /\ \/ Head(late).kind = "put" /\ value' = Head(late).index
           \/ UNCHANGED value
    BY <1>4 DEF serverReadsLate, stateVars, putVars, serverVars, Apply, Deny
  <2>2. ~connected /\ ~canSendWrites
    BY <1>1, <2>1 DEF connected, canSendWrites
  <2>3. /\ PutsIn(late') \subseteq PutsIn(late)
        /\ Head(late).kind = "put" => Head(late).index \in PutsIn(late)
    BY <1>0, <2>1, PutsTail
  <2>4. /\ AnsweredPuts' = AnsweredPuts /\ Acknowledged' = Acknowledged
        /\ canSendWrites' = canSendWrites /\ connected' = connected
    BY <2>1 DEF AnsweredPuts, Acknowledged, canSendWrites, connected
  <2>5. NoneLost' /\ AnswerOrder' /\ UnderWay' /\ RestoreFirst' /\ WireOrder'
    BY <1>1, <2>1, <2>2, <2>3, <2>4
       DEF OrderInv, NoneLost, AnswerOrder, UnderWay, RestoreFirst, WireOrder
  <2>6. ValueOrder'
    <3>1. OksIn(toClient') = {} /\ OksIn(toClient) = {}
      BY <1>1, <1>2, <2>1, <2>2
    <3>2. CASE Head(late).kind = "put" /\ value' = Head(late).index
      <4>1. \A i \in Acknowledged : i < value' /\ i \in Int /\ value' \in Int
        BY <1>1, <1>2, <2>3, <3>2 DEF Below
      <4> QED
        BY <2>4, <3>1, <4>1 DEF ValueOrder
    <3>3. CASE UNCHANGED value
      BY <2>4, <3>1, <3>3 DEF OrderInv, ValueOrder
    <3> QED
      BY <2>1, <3>2, <3>3
  <2> QED
    BY <2>5, <2>6 DEF OrderInv
<1> QED
  BY <1>3, <1>4

PutInv == IInv /\ CountInv /\ OrderInv

LEMMA InitPutInv == Init => PutInv
<1> SUFFICES ASSUME Init PROVE PutInv
  OBVIOUS
<1>1. /\ connectionState = "Disconnected" /\ outstandingPuts = {} /\ putCounter = 1
      /\ toServer = <<>> /\ toClient = <<>> /\ late = <<>> /\ called = <<>> /\ putsToAck = <<>>
  BY Zenon DEF Init
<1>2. AnsweredPuts = {} /\ Acknowledged = {}
  BY <1>1 DEF AnsweredPuts, Acknowledged, Indices, OkIndices
<1>3. WireOrder
  BY <1>1, PutsEmpty DEF WireOrder, Below
<1>4. NoneLost /\ UnderWay /\ AnswerOrder /\ ValueOrder /\ RestoreFirst
  BY <1>1, <1>2, PutsEmpty
     DEF NoneLost, UnderWay, AnswerOrder, ValueOrder, RestoreFirst, Below, canSendWrites
<1> QED
  BY <1>3, <1>4, InitIInv, InitCountInv DEF PutInv, OrderInv

LEMMA StepPutInv == PutInv /\ [Next]_vars => PutInv'
<1> SUFFICES ASSUME PutInv, [Next]_vars PROVE PutInv'
  OBVIOUS
<1>1. WireTypes /\ PutTypes /\ IInv /\ OrderInv
  BY TypeParts DEF PutInv, CountInv
<1>2. ASSUME UNCHANGED vars PROVE OrderInv'
  BY <1>1, <1>2, OrderStands DEF vars, stateVars
<1>3. OrderInv'
  BY <1>1, <1>2, OrderAppStep, OrderInterruptionStep, OrderConnectStep, OrderAnswerStep,
     OrderServerStep DEF Next
<1> QED
  BY <1>3, StepIInv, StepCountInv DEF PutInv

\* Whatever is lost, sent again or carried out twice, a write that
\* FPersistentConnection has reported as carried out is not undone by an older
\* one: the server holds its value or a later one.
THEOREM AcknowledgedWritesStay == Spec => []AcknowledgedStays
<1>1. PutInv => AcknowledgedStays
  <2> SUFFICES ASSUME PutInv, NEW k \in DOMAIN (called \o putsToAck),
                      (called \o putsToAck)[k].status = "ok"
               PROVE  value >= (called \o putsToAck)[k].index
    BY DEF AcknowledgedStays
  <2>1. called \in Seq(PutAnswers) /\ putsToAck \in Seq(PutAnswers)
    BY TypeParts DEF PutInv, CountInv, PutTypes
  <2>2. OkIndices(called \o putsToAck) = Acknowledged
    BY <2>1, AnswersConcat DEF Acknowledged
  <2>3. (called \o putsToAck)[k].index \in OkIndices(called \o putsToAck)
    BY DEF OkIndices
  <2> QED
    BY <2>2, <2>3 DEF PutInv, OrderInv, ValueOrder
<1> QED
  BY <1>1, InitPutInv, StepPutInv, PTL DEF Spec

\* No put is lost: it has its answer or is outstanding, and an outstanding put or
\* its answer is on its way whenever the connection can carry writes.
THEOREM NoPutLost == Spec => [](NoneLost /\ UnderWay)
<1>1. PutInv => NoneLost /\ UnderWay
  BY DEF PutInv, OrderInv
<1> QED
  BY <1>1, InitPutInv, StepPutInv, PTL DEF Spec
================================================================================
