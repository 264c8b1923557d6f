------------------------- MODULE PersistentConnection -------------------------
(***************************************************************************)
(* Firebase's connection to the database, FPersistentConnection: what lies *)
(* between the app's database calls and their completion blocks.  Writes   *)
(* (puts) and listens survive a lost connection and are sent again on the  *)
(* next one; the answer to a put is held back while a listen is            *)
(* unanswered.                                                             *)
(*                                                                         *)
(* Everything on the client runs on one dispatch queue, so a callback is   *)
(* one action; closing a connection calls onDisconnect at once.  A         *)
(* connection delivers in order until it is lost, and the server may still *)
(* read what a lost connection had carried, until the next one is ready:   *)
(* the client sends the id of its last session along (lastSessionID), by   *)
(* which the server ends that session first.  All puts are writes to one   *)
(* place.  Transactions, onDisconnect operations and purges, which the app *)
(* does not use, are left out.                                             *)
(***************************************************************************)
EXTENDS Integers, SequencesExt

CONSTANTS
  Queries,     \* what can be listened to
  MaxPuts,     \* bound: writes
  MaxFaults,   \* bound: lost connections, refusals, interruptions
  MaxWire,     \* bound: messages under way for the client to send more
  MaxStale     \* bound: token fetches that were overtaken and not answered

ASSUME BoundsAssumption ==
  MaxPuts \in Nat /\ MaxFaults \in Nat /\ MaxWire \in Nat /\ MaxStale \in Nat

VARIABLES
  connectionState,
  interruptReasons,
  scheduledRetry,        \* has the retry helper a task that is not cancelled?
  fetching,              \* is the token fetch of currentFetchTokenAttempt under way?
  stale,                 \* how many earlier token fetches are under way
  authToken,             \* is there a token, or nil?
  listens,               \* queries that are listened to
  outstandingPuts,       \* indices of puts without an answer
  putCounter,
  unackedListensCount,
  putsToAck,             \* answers that are held back
  toServer, toClient,    \* the connection, requests with their answers
  late,                  \* what the last lost connection carried to the server
  applied, refused,      \* server: puts that were carried out, or denied
  value,                 \* server: the put whose value is there, 0 for none
  called,                \* answers that completion blocks were called with, in order
  faults

stateVars  == <<connectionState, interruptReasons, scheduledRetry>>
tokenVars  == <<fetching, stale, authToken>>
putVars    == <<outstandingPuts, putCounter, putsToAck, called>>
wireVars   == <<toServer, toClient, late>>
serverVars == <<applied, refused, value>>
listenVars == <<listens, unackedListensCount>>
vars == <<stateVars, tokenVars, putVars, wireVars, serverVars, listenVars, faults>>

States  == {"Disconnected", "GettingToken", "Connecting", "Authenticating", "Connected"}
Reasons == {"waitingForOpen", "serverKill", "repoInterrupt"}
Puts    == 1 .. MaxPuts

\* Requests; their answers are the same records with a status.  restore: has
\* the state to be restored after this auth?  current: is the listen that made
\* the request still in listens?
Auth(restore) == [kind |-> "auth", status |-> "none", restore |-> restore]
Listen(q)     == [kind |-> "listen", status |-> "none", query |-> q, current |-> TRUE]
Put(i)        == [kind |-> "put", status |-> "none", index |-> i]

connected     == connectionState \in {"Authenticating", "Connected"}
canSendWrites == connectionState = "Connected"
Open          == connectionState \in {"Connecting", "Authenticating", "Connected"}

Init ==
  /\ connectionState = "Disconnected"
  /\ interruptReasons = {"waitingForOpen"}
  /\ scheduledRetry = FALSE
  /\ fetching = FALSE /\ stale = 0
  /\ authToken = FALSE
  /\ listens = {} /\ unackedListensCount = 0
  /\ outstandingPuts = {} /\ putCounter = 1
  /\ putsToAck = <<>>
  /\ toServer = <<>> /\ toClient = <<>> /\ late = <<>>
  /\ applied = {} /\ refused = {} /\ value = 0
  /\ called = <<>>
  /\ faults = 0

--------------------------------------------------------------------------------
(* Calls of the app *)

WireFree == Len(toServer) + Len(toClient) < MaxWire

listen(q) ==
  /\ q \notin listens
  /\ WireFree
  /\ listens' = listens \cup {q}
  /\ \/ /\ connected
        /\ toServer' = Append(toServer, Listen(q))
        /\ unackedListensCount' = unackedListensCount + 1
     \/ /\ ~connected
        /\ UNCHANGED <<toServer, unackedListensCount>>
  /\ UNCHANGED <<stateVars, tokenVars, putVars, toClient, late, serverVars, faults>>

\* The requests of q become those of a listen that is no longer there.
Forget(msgs, q) ==
  [k \in DOMAIN msgs |->
     IF msgs[k].kind = "listen" /\ msgs[k].query = q
     THEN [msgs[k] EXCEPT !.current = FALSE] ELSE msgs[k]]

\* Called by the app, and after the event of a single-event observer.  The
\* request that is sent for it has no callback.
unlisten(q) ==
  /\ q \in listens
  /\ listens' = listens \ {q}
  /\ toServer' = Forget(toServer, q)
  /\ toClient' = Forget(toClient, q)
  /\ UNCHANGED <<stateVars, tokenVars, putVars, late, serverVars, unackedListensCount, faults>>

putInternal ==
  /\ putCounter <= MaxPuts
  /\ WireFree
  /\ outstandingPuts' = outstandingPuts \cup {putCounter}
  /\ putCounter' = putCounter + 1
  /\ toServer' = IF canSendWrites THEN Append(toServer, Put(putCounter)) ELSE toServer
  /\ UNCHANGED <<stateVars, tokenVars, putsToAck, called, toClient, late, serverVars,
                 listenVars, faults>>

\* The user signs in or out.
refreshAuthToken(token) ==
  /\ WireFree
  /\ authToken' = token
  /\ toServer' = IF connected /\ token THEN Append(toServer, Auth(FALSE)) ELSE toServer
  /\ UNCHANGED <<stateVars, fetching, stale, putVars, toClient, late, serverVars,
                 listenVars, faults>>

--------------------------------------------------------------------------------
(* Connecting *)

\* Mutant: a lost connection is not followed by a new one.
dontReconnect(reasons) == FALSE

\* retry replaces the task there was.
tryScheduleReconnect(reasons) == IF reasons = {} THEN TRUE ELSE scheduledRetry

\* Mutant: the count of unanswered listens is kept.
onDisconnectCounting(reasons) ==
  /\ connectionState' = "Disconnected"
  /\ late' = late \o toServer
  /\ toServer' = <<>> /\ toClient' = <<>>
  /\ scheduledRetry' = tryScheduleReconnect(reasons)
  /\ UNCHANGED unackedListensCount

\* Callbacks are forgotten, puts and listens are not, and neither are answers
\* that are held back.
onDisconnect(reasons) ==
  /\ connectionState' = "Disconnected"
  /\ late' = late \o toServer
  /\ toServer' = <<>> /\ toClient' = <<>>
  /\ unackedListensCount' = 0
  /\ scheduledRetry' = tryScheduleReconnect(reasons)

Fault == faults < MaxFaults /\ faults' = faults + 1

\* The connection fails, is lost or is reset by the server.
connectionLost ==
  /\ Open
  /\ Fault
  /\ onDisconnect(interruptReasons)
  /\ UNCHANGED <<interruptReasons, tokenVars, putVars, serverVars, listens>>

\* onAuthRevoked
authRevoked ==
  /\ connected
  /\ Fault
  /\ authToken' = FALSE
  /\ onDisconnect(interruptReasons)
  /\ UNCHANGED <<interruptReasons, fetching, stale, putVars, serverVars, listens>>

\* Mutant: an interruption does not cancel the retry.
interruptOnly(reason) ==
  /\ reason = "serverKill" => Open
  /\ Fault
  /\ interruptReasons' = interruptReasons \cup {reason}
  /\ \/ Open /\ onDisconnect(interruptReasons')
     \/ /\ ~Open
        /\ connectionState' = "Disconnected"
        /\ UNCHANGED <<scheduledRetry, toServer, toClient, late, unackedListensCount>>
  /\ UNCHANGED <<tokenVars, putVars, serverVars, listens>>

\* onKill and FRepo's interrupt
interruptForReason(reason) ==
  /\ reason = "serverKill" => Open
  /\ Fault
  /\ interruptReasons' = interruptReasons \cup {reason}
  /\ \/ /\ Open
        /\ onDisconnect(interruptReasons')
     \/ /\ ~Open
        /\ scheduledRetry' = FALSE
        /\ connectionState' = "Disconnected"
        /\ UNCHANGED <<toServer, toClient, late, unackedListensCount>>
  /\ UNCHANGED <<tokenVars, putVars, serverVars, listens>>

\* open, and FRepo's resume
resumeForReason(reason) ==
  /\ reason \in interruptReasons
  /\ interruptReasons' = interruptReasons \ {reason}
  /\ scheduledRetry' = IF connectionState = "Disconnected"
                       THEN tryScheduleReconnect(interruptReasons') ELSE scheduledRetry
  /\ UNCHANGED <<connectionState, tokenVars, putVars, wireVars, serverVars, listenVars, faults>>

\* reachabilityCallback, enteringForeground
reachable ==
  /\ connectionState = "Disconnected"
  /\ scheduledRetry' = tryScheduleReconnect(interruptReasons)
  /\ UNCHANGED <<connectionState, interruptReasons, tokenVars, putVars, wireVars, serverVars,
                 listenVars, faults>>

\* The block of tryScheduleReconnect; a token fetch that was under way is no
\* longer the latest attempt.
retryFires ==
  /\ scheduledRetry
  /\ fetching => stale < MaxStale
  /\ scheduledRetry' = FALSE
  /\ connectionState' = "GettingToken"
  /\ fetching' = TRUE
  /\ stale' = IF fetching THEN stale + 1 ELSE stale
  /\ UNCHANGED <<interruptReasons, authToken, putVars, wireVars, serverVars, listenVars, faults>>

\* openNetworkConnectionWithToken, unless somebody has interrupted meanwhile.
tokenFetched(token) ==
  /\ fetching
  /\ fetching' = FALSE
  /\ \/ /\ connectionState = "GettingToken"
        /\ authToken' = token
        /\ connectionState' = "Connecting"
     \/ /\ connectionState # "GettingToken"
        /\ UNCHANGED <<authToken, connectionState>>
  /\ UNCHANGED <<interruptReasons, scheduledRetry, stale, putVars, wireVars, serverVars,
                 listenVars, faults>>

tokenFailed ==
  /\ fetching
  /\ Fault
  /\ fetching' = FALSE
  /\ connectionState' = "Disconnected"
  /\ scheduledRetry' = tryScheduleReconnect(interruptReasons)
  /\ UNCHANGED <<interruptReasons, stale, authToken, putVars, wireVars, serverVars, listenVars>>

\* Mutant: the failure of an old attempt is taken for that of the latest.
staleTokenFails ==
  /\ stale > 0
  /\ stale' = stale - 1
  /\ connectionState' = "Disconnected"
  /\ scheduledRetry' = tryScheduleReconnect(interruptReasons)
  /\ UNCHANGED <<interruptReasons, fetching, authToken, putVars, wireVars, serverVars,
                 listenVars, faults>>

\* The callback of an attempt that is not the latest, with or without error.
staleToken ==
  /\ stale > 0
  /\ stale' = stale - 1
  /\ UNCHANGED <<stateVars, fetching, authToken, putVars, wireVars, serverVars,
                 listenVars, faults>>

--------------------------------------------------------------------------------
(* Restoring *)

\* The indices of unanswered puts in ascending order.
SortedPuts ==
  {puts \in SetToSeqs(outstandingPuts) :
     \A j, k \in DOMAIN puts : j < k => puts[j] < puts[k]}

Restored(order, puts) ==
  [k \in DOMAIN order |-> Listen(order[k])] \o [k \in DOMAIN puts |-> Put(puts[k])]

\* Mutant: puts are sent in the order of the dictionary.
restoreUnsorted ==
  \E order \in SetToSeqs(listens), puts \in SetToSeqs(outstandingPuts) :
    /\ toServer' = toServer \o Restored(order, puts)
    /\ unackedListensCount' = unackedListensCount + Cardinality(listens)

\* Mutant: listens that are sent again are not counted.
restoreUncounted ==
  \E order \in SetToSeqs(listens), puts \in SortedPuts :
    /\ toServer' = toServer \o Restored(order, puts)
    /\ UNCHANGED unackedListensCount

\* Listens are sent in the order of the dictionary, puts in their own.
restoreState ==
  \E order \in SetToSeqs(listens), puts \in SortedPuts :
    /\ toServer' = toServer \o Restored(order, puts)
    /\ unackedListensCount' = unackedListensCount + Cardinality(listens)

\* onReady with restoreAuth.  The server has ended the last session, and what
\* it has not read of it is dropped.
onReady ==
  /\ connectionState = "Connecting"
  /\ late' = <<>>
  /\ \/ /\ authToken
        /\ connectionState' = "Authenticating"
        /\ toServer' = Append(toServer, Auth(TRUE))
        /\ UNCHANGED unackedListensCount
     \/ /\ ~authToken
        /\ connectionState' = "Connected"
        /\ restoreState
  /\ UNCHANGED <<interruptReasons, scheduledRetry, tokenVars, putVars, toClient, serverVars,
                 listens, faults>>

--------------------------------------------------------------------------------
(* The server *)

\* A put overwrites what is there, also when it is carried out again.
Apply(i) == applied' = applied \cup {i} /\ value' = i /\ UNCHANGED refused
Deny(i)  == refused' = refused \cup {i} /\ UNCHANGED <<applied, value>>

\* Requests are carried out in the order in which they were sent.
serverAnswers(status) ==
  LET r == Head(toServer)
  IN  /\ toServer # <<>>
      /\ IF r.kind = "auth" /\ status # "ok" THEN Fault ELSE UNCHANGED faults
      /\ toServer' = Tail(toServer)
      /\ toClient' = Append(toClient, [r EXCEPT !.status = status])
      /\ \/ r.kind = "put" /\ status = "ok" /\ Apply(r.index)
         \/ r.kind = "put" /\ status # "ok" /\ Deny(r.index)
         \/ r.kind # "put" /\ UNCHANGED serverVars
      /\ UNCHANGED <<stateVars, tokenVars, putVars, late, listenVars>>

\* The rest of a lost connection; nobody gets the answers.
serverReadsLate ==
  /\ late # <<>>
  /\ late' = Tail(late)
  /\ \/ Head(late).kind = "put" /\ (Apply(Head(late).index) \/ Deny(Head(late).index))
     \/ Head(late).kind # "put" /\ UNCHANGED serverVars
  /\ UNCHANGED <<stateVars, tokenVars, putVars, toServer, toClient, listenVars, faults>>

--------------------------------------------------------------------------------
(* onDataMessage: the callbacks of requests *)

Received(kind) == toClient # <<>> /\ Head(toClient).kind = kind

\* sendAuthAndRestoreState's callback.
authAnswered ==
  LET r == Head(toClient)
  IN  /\ Received("auth")
      /\ \/ /\ r.status = "ok"
            /\ connectionState' = "Connected"
            /\ toClient' = Tail(toClient)
            /\ \/ r.restore /\ restoreState
               \/ ~r.restore /\ UNCHANGED <<toServer, unackedListensCount>>
            /\ UNCHANGED <<scheduledRetry, authToken, late>>
         \/ /\ r.status # "ok"
            /\ authToken' = FALSE
            /\ onDisconnect(interruptReasons)
      /\ UNCHANGED <<interruptReasons, fetching, stale, putVars, serverVars, listens, faults>>

\* An answer calls the completion block, now or when no listen is unanswered.
putAnswered ==
  LET r == Head(toClient)
      i == r.index
  IN  /\ Received("put")
      /\ toClient' = Tail(toClient)
      /\ \/ /\ i \in outstandingPuts
            /\ outstandingPuts' = outstandingPuts \ {i}
            /\ \/ /\ unackedListensCount = 0
                  /\ called' = Append(called, [index |-> i, status |-> r.status])
                  /\ UNCHANGED putsToAck
               \/ /\ unackedListensCount # 0
                  /\ putsToAck' = Append(putsToAck, [index |-> i, status |-> r.status])
                  /\ UNCHANGED called
         \/ /\ i \notin outstandingPuts
            /\ UNCHANGED <<outstandingPuts, putsToAck, called>>
      /\ UNCHANGED <<stateVars, tokenVars, putCounter, toServer, late, serverVars, listenVars, faults>>

\* Mutant: the held answers are not taken off the list.
ackPutsAgain == called' = called \o putsToAck /\ UNCHANGED putsToAck

ackPuts == called' = called \o putsToAck /\ putsToAck' = <<>>

listenAnswered ==
  LET r == Head(toClient)
  IN  /\ Received("listen")
      /\ listens' = IF r.current /\ r.status # "ok" THEN listens \ {r.query} ELSE listens
      /\ toClient' = IF listens' = listens THEN Tail(toClient) ELSE Forget(Tail(toClient), r.query)
      /\ toServer' = IF listens' = listens THEN toServer ELSE Forget(toServer, r.query)
      /\ unackedListensCount' = unackedListensCount - 1
      /\ \/ unackedListensCount' = 0 /\ ackPuts
         \/ unackedListensCount' # 0 /\ UNCHANGED <<putsToAck, called>>
      /\ UNCHANGED <<stateVars, tokenVars, outstandingPuts, putCounter, late, serverVars, faults>>

--------------------------------------------------------------------------------

Status == {"ok", "denied"}

App ==
  \/ \E q \in Queries : listen(q) \/ unlisten(q)
  \/ putInternal
  \/ \E token \in BOOLEAN : refreshAuthToken(token)

Interruption ==
  \/ connectionLost \/ authRevoked \/ tokenFailed
  \/ \E reason \in {"serverKill", "repoInterrupt"} : interruptForReason(reason)
  \/ \E reason \in {"waitingForOpen", "repoInterrupt"} : resumeForReason(reason)
  \/ reachable

Connect == retryFires \/ (\E token \in BOOLEAN : tokenFetched(token)) \/ staleToken \/ onReady

Answer == authAnswered \/ putAnswered \/ listenAnswered

Next ==
  \/ App \/ Interruption \/ Connect \/ Answer
  \/ \E status \in Status : serverAnswers(status)
  \/ serverReadsLate

Spec == Init /\ [][Next]_vars

\* Tasks run, fetches end, and the server answers.
FairSpec ==
  /\ Spec
  /\ WF_vars(Connect) /\ WF_vars(Answer)
  /\ WF_vars(\E status \in Status : serverAnswers(status))
  /\ WF_vars(resumeForReason("waitingForOpen"))

--------------------------------------------------------------------------------
(* Properties *)

Messages(statuses) ==
  [kind : {"auth"}, status : statuses, restore : BOOLEAN]
    \cup [kind : {"listen"}, status : statuses, query : Queries, current : BOOLEAN]
    \cup [kind : {"put"}, status : statuses, index : Puts]

PutAnswers == [index : Puts, status : Status]

\* Every variable stays in its range.
TypeOK ==
  /\ connectionState \in States
  /\ interruptReasons \subseteq Reasons
  /\ scheduledRetry \in BOOLEAN /\ fetching \in BOOLEAN /\ authToken \in BOOLEAN
  /\ stale \in 0 .. MaxStale
  /\ listens \subseteq Queries
  /\ outstandingPuts \subseteq 1 .. putCounter - 1
  /\ putCounter \in 1 .. MaxPuts + 1
  /\ unackedListensCount \in Nat
  /\ putsToAck \in Seq(PutAnswers) /\ called \in Seq(PutAnswers)
  /\ toServer \in Seq(Messages({"none"})) /\ late \in Seq(Messages({"none"}))
  /\ toClient \in Seq(Messages(Status))
  /\ applied \subseteq Puts /\ refused \subseteq Puts /\ value \in 0 .. MaxPuts
  /\ faults \in 0 .. MaxFaults

ListensIn(msgs) == Cardinality({k \in DOMAIN msgs : msgs[k].kind = "listen"})

\* Unless it was interrupted, a connection that is down has a retry scheduled,
\* in whatever order it is interrupted, resumed and lost; and there is a retry
\* only when it is down, as tryScheduleReconnect asserts.
RetryIffDown ==
  scheduledRetry <=> interruptReasons = {} /\ connectionState = "Disconnected"

\* What tryScheduleReconnect, sendAuth and sendPut assert, whichever callbacks
\* of overtaken attempts come late: a token that arrives finds the attempt that
\* asked for it or no attempt, and there are requests only on a connection that
\* the client still knows.
Assertions ==
  /\ fetching => connectionState \in {"GettingToken", "Disconnected"}
  /\ connectionState = "GettingToken" => fetching
  /\ toServer # <<>> \/ toClient # <<>> => connected

\* The count says how many listen requests have no answer, over reconnects and
\* double listens; it is unsigned, and below zero no answer would be given out
\* any more.
UnackedListensCounted == unackedListensCount = ListensIn(toServer) + ListensIn(toClient)

\* A completion block is called once, although puts are sent again; a put whose
\* answer was given out or is held has no answer to come, and a success means
\* that the server has carried out the put.
CalledOnce ==
  LET answers == called \o putsToAck
  IN  \A k \in DOMAIN answers :
        /\ answers[k].index \notin outstandingPuts
        /\ answers[k].status = "ok" => answers[k].index \in applied
        /\ \A j \in DOMAIN answers : answers[j].index = answers[k].index => j = k

\* A put that was reported as carried out is not undone by an older one: what
\* the server holds then is its value or that of a later put, although older
\* puts may be sent again and carried out a second time.
AcknowledgedStays ==
  LET answers == called \o putsToAck
  IN  \A k \in DOMAIN answers : answers[k].status = "ok" => value >= answers[k].index

\* When interruptions have come to an end, every put gets its answer: lost
\* connections, refused tokens and overtaken fetches only delay it.
PutSettles ==
  <>[](interruptReasons = {}) =>
    \A i \in Puts : i \in outstandingPuts ~> i \notin outstandingPuts

\* What the header of FIRDatabaseReference says of a completion block: it is
\* called after the write has been committed.  Here only of an app that makes no
\* more listens in the end.
CompletionCalled ==
  <>[](interruptReasons = {}) /\ <>[][listens' \subseteq listens]_listens =>
    \A i \in Puts : i \in applied ~> \E k \in DOMAIN called : called[k].index = i
================================================================================
