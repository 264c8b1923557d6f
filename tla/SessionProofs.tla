----------------------------- MODULE SessionProofs -----------------------------
(***************************************************************************)
(* Signing in and out, for any number of users, of sign-ins and of other   *)
(* calls in flight: the HUD, who sees Home, what Home knows and that no    *)
(* profile is written twice.                                               *)
(***************************************************************************)
EXTENDS MCSession, SequenceTheorems, TLAPS

--------------------------------------------------------------------------------
(* Lists of calls *)

\* The position, before the k-th call was removed, of what is now the j-th.
Skip(k, j) == IF j < k THEN j ELSE j + 1

LEMMA RemovedAt ==
  ASSUME NEW S, NEW s \in Seq(S), NEW k \in DOMAIN s
  PROVE  /\ RemoveAt(s, k) \in Seq(S)
         /\ Len(RemoveAt(s, k)) = Len(s) - 1
         /\ \A j \in 1 .. Len(s) - 1 : RemoveAt(s, k)[j] = s[Skip(k, j)]
<1> DEFINE a == SubSeq(s, 1, k - 1)
           b == SubSeq(s, k + 1, Len(s))
<1>1. k \in 1 .. Len(s) /\ Len(s) \in Nat
  OBVIOUS
<1>2. a \in Seq(S) /\ Len(a) = k - 1 /\ \A j \in 1 .. k - 1 : a[j] = s[j]
  BY <1>1
<1>3. b \in Seq(S) /\ Len(b) = Len(s) - k /\ \A j \in 1 .. Len(s) - k : b[j] = s[k + j]
  BY <1>1
<1> HIDE DEF a, b
<1>4. /\ a \o b \in Seq(S) /\ Len(a \o b) = Len(a) + Len(b)
      /\ \A j \in 1 .. Len(a) : (a \o b)[j] = a[j]
      /\ \A j \in 1 .. Len(b) : (a \o b)[Len(a) + j] = b[j]
  <2>1. a \in Seq(S) /\ b \in Seq(S)
    BY <1>2, <1>3
  <2> QED
    BY ONLY <2>1
<1>5. ASSUME NEW j \in 1 .. Len(s) - 1 PROVE (a \o b)[j] = s[Skip(k, j)]
  <2>1. CASE j < k
    BY <1>1, <1>2, <1>4, <2>1 DEF Skip
  <2>2. CASE ~(j < k)
    <3>1. /\ j - (k - 1) \in 1 .. Len(s) - k /\ j = Len(a) + (j - (k - 1))
          /\ k + (j - (k - 1)) = j + 1
      BY <1>1, <1>2, <2>2
    <3>2. (a \o b)[j] = b[j - (k - 1)] /\ b[j - (k - 1)] = s[j + 1]
      BY <1>3, <1>4, <3>1
    <3> QED
      BY <2>2, <3>2 DEF Skip
  <2> QED
    BY <2>1, <2>2
<1>6. RemoveAt(s, k) = a \o b
  BY DEF RemoveAt, a, b
<1>7. Len(a \o b) = Len(s) - 1
  BY <1>1, <1>2, <1>3, <1>4
<1> QED
  BY <1>4, <1>5, <1>6, <1>7

\* The calls that are left are in the old order, and all of them are there.
LEMMA Skipping ==
  ASSUME NEW n \in Nat, NEW k \in 1 .. n
  PROVE  /\ \A j \in 1 .. n - 1 : Skip(k, j) \in 1 .. n /\ Skip(k, j) # k
         /\ \A i, j \in 1 .. n - 1 : i < j <=> Skip(k, i) < Skip(k, j)
         /\ \A i, j \in 1 .. n - 1 : Skip(k, i) = Skip(k, j) => i = j
         /\ \A i \in 1 .. n : i # k => \E j \in 1 .. n - 1 : Skip(k, j) = i
<1>1. ASSUME NEW i \in 1 .. n, i # k PROVE \E j \in 1 .. n - 1 : Skip(k, j) = i
  <2>1. CASE i < k
    BY <2>1 DEF Skip
  <2>2. CASE i > k
    <3>1. i - 1 \in 1 .. n - 1 /\ Skip(k, i - 1) = i
      BY <2>2 DEF Skip
    <3> QED
      BY <3>1
  <2> QED
    BY <1>1, <2>1, <2>2
<1> QED
  BY <1>1 DEF Skip

\* Calls that differ at most in whether their page is still there.
Same(c, d) == c.op = d.op /\ c.uid = d.uid /\ c.answer = d.answer

\* What a step does to calls: c is added; the k-th becomes c; the k-th is
\* removed; and it is removed and c added.
Added(c) ==
  /\ DOMAIN calls' = 1 .. Len(calls) + 1
  /\ \A j \in 1 .. Len(calls) : calls'[j] = calls[j]
  /\ calls'[Len(calls) + 1] = c

Changed(k, c) ==
  /\ DOMAIN calls' = DOMAIN calls
  /\ \A j \in DOMAIN calls : calls'[j] = IF j = k THEN c ELSE calls[j]

Removed(k) ==
  /\ DOMAIN calls' = 1 .. Len(calls) - 1
  /\ \A j \in 1 .. Len(calls) - 1 : Same(calls'[j], calls[Skip(k, j)])

Replaced(k, c) ==
  /\ DOMAIN calls' = 1 .. Len(calls)
  /\ \A j \in 1 .. Len(calls) - 1 : Same(calls'[j], calls[Skip(k, j)])
  /\ Same(calls'[Len(calls)], c)

CallTypes == calls \in Seq(Calls)

LEMMA IsAdded ==
  ASSUME CallTypes, NEW c \in Calls, calls' = Append(calls, c)
  PROVE  CallTypes' /\ Added(c)
  BY DEF CallTypes, Added

LEMMA IsChanged ==
  ASSUME CallTypes, NEW k \in DOMAIN calls, NEW c \in Calls, calls' = [calls EXCEPT ![k] = c]
  PROVE  CallTypes' /\ Changed(k, c)
  BY DEF CallTypes, Changed

LEMMA IsRemoved ==
  ASSUME CallTypes, NEW k \in DOMAIN calls, calls' = Done(k)
  PROVE  CallTypes' /\ Removed(k)
<1>1. /\ calls' \in Seq(Calls) /\ Len(calls') = Len(calls) - 1
      /\ \A j \in 1 .. Len(calls) - 1 : calls'[j] = calls[Skip(k, j)]
  BY RemovedAt DEF CallTypes, Done
<1>2. DOMAIN calls' = 1 .. Len(calls')
  BY <1>1
<1> QED
  BY <1>1, <1>2 DEF CallTypes, Removed, Same

LEMMA IsReplaced ==
  ASSUME CallTypes, NEW k \in DOMAIN calls, NEW c \in Calls, calls' = Append(Done(k), c)
  PROVE  CallTypes' /\ Replaced(k, c)
<1> DEFINE d == Done(k)
<1>1. /\ d \in Seq(Calls) /\ Len(d) = Len(calls) - 1
      /\ \A j \in 1 .. Len(calls) - 1 : d[j] = calls[Skip(k, j)]
  BY RemovedAt DEF CallTypes, Done
<1>2. Len(calls) \in Nat
  BY DEF CallTypes
<1> HIDE DEF d
<1>3. calls' = Append(d, c)
  BY DEF d
<1>4. /\ calls' \in Seq(Calls) /\ DOMAIN calls' = 1 .. Len(calls)
      /\ \A j \in 1 .. Len(calls) - 1 : calls'[j] = d[j]
      /\ calls'[Len(calls)] = c
  BY <1>1, <1>2, <1>3
<1> QED
  BY <1>1, <1>4 DEF CallTypes, Replaced, Same

--------------------------------------------------------------------------------
(* Kinds of steps *)

ServerTypes ==
  /\ accounts \in [Users -> Providers]
  /\ profile \in [Users -> Records]
  /\ currentUser \in Users \cup {NoUser}

Answers == {"pending", "ok", "failed"} \cup Records

LEMMA CallFields ==
  ASSUME NEW c \in Calls
  PROVE  /\ c.op \in Ops /\ c.uid \in Users \cup {NoUser} /\ c.answer \in Answers
         /\ c.op \notin {"googleUI", "resetPassword"} => c.uid \in Users
         /\ c.op = "googleUI" /\ c.answer = "ok" => c.uid \in Users
  BY UsersAssumption DEF Calls, Answers

LEMMA NewCall ==
  ASSUME NEW op \in Ops, NEW uid \in Users \cup {NoUser},
         uid = NoUser => op \in {"googleUI", "resetPassword"}
  PROVE  /\ Call(op, uid) \in Calls
         /\ Call(op, uid).op = op /\ Call(op, uid).uid = uid /\ Call(op, uid).answer = "pending"
<1>1. (op \in LoginOps) \in BOOLEAN
  OBVIOUS
<1> QED
  BY <1>1 DEF Call, Calls

\* A call with its answer, and the call that its block makes.
Ans(k, a) == [calls[k] EXCEPT !.answer = a]
Follow(k, op) == [calls[k] EXCEPT !.op = op, !.answer = "pending"]

LEMMA AnsFields ==
  ASSUME CallTypes, NEW k \in DOMAIN calls, NEW a \in Answers,
         calls[k].op = "googleUI" => a = "failed"
  PROVE  /\ Ans(k, a) \in Calls
         /\ Ans(k, a).op = calls[k].op /\ Ans(k, a).uid = calls[k].uid /\ Ans(k, a).answer = a
<1>1. calls[k] \in Calls
  BY DEF CallTypes
<1> QED
  BY <1>1 DEF Calls, Ans, Answers

\* An answer leaves the rest of a call alone.
LEMMA AnsOp ==
  ASSUME CallTypes, NEW k \in DOMAIN calls
  PROVE  \A a : Ans(k, a).op = calls[k].op /\ Ans(k, a).uid = calls[k].uid /\ Ans(k, a).answer = a
<1>1. calls[k] \in Calls
  BY DEF CallTypes
<1> QED
  BY <1>1 DEF Ans, Calls

LEMMA FollowFields ==
  ASSUME CallTypes, NEW k \in DOMAIN calls, NEW op \in Ops,
         calls[k].op \notin {"googleUI", "resetPassword"} \/ calls[k].uid \in Users
  PROVE  /\ Follow(k, op) \in Calls
         /\ Follow(k, op).op = op /\ Follow(k, op).uid = calls[k].uid
         /\ Follow(k, op).answer = "pending"
<1>1. calls[k] \in Calls
  BY DEF CallTypes
<1>2. calls[k].uid \in Users
  BY <1>1, CallFields
<1> QED
  BY <1>1, <1>2, UsersAssumption DEF Calls, Follow

LEMMA IsAnswered ==
  ASSUME CallTypes, NEW k \in DOMAIN calls, NEW a \in Answers, Answer(k, a),
         calls[k].op = "googleUI" => a = "failed"
  PROVE  CallTypes' /\ Changed(k, Ans(k, a))
<1>1. calls' = [calls EXCEPT ![k] = Ans(k, a)]
  BY DEF Answer, Ans
<1> QED
  BY <1>1, AnsFields, IsChanged

\* The user's handlers that concern no call.
Quietly ==
  /\ UNCHANGED <<accounts, profile, homeVars, calls>>
  /\ hud' = "up" => hud = "up"
  /\ \/ /\ UNCHANGED currentUser
        /\ modal' = modal \/ (modal \in {"none", "sheet", "leaving"} /\ modal' \in {"none", "sheet"})
     \/ modal = "sheet" /\ modal' = "login" /\ currentUser' = NoUser

\* A button of the login pages makes the call c.
Submits(c) ==
  /\ c.op \in {"logIn", "createUser", "resetPassword", "googleUI"} /\ c.answer = "pending"
  /\ modal = "login"
  /\ Added(c)
  /\ hud' = "up" => hud = "up" \/ c.op \in PageOps
  /\ UNCHANGED <<accounts, profile, currentUser, homeVars, modal>>

\* The onboarding is closed.
Closes ==
  /\ controllerWantsToDismiss
  /\ modal = "onboarding" /\ modal' = "leaving"
  /\ UNCHANGED <<serverVars, homeVars, hud>>
  /\ \/ currentUser = NoUser /\ UNCHANGED calls
     \/ currentUser # NoUser /\ Added(Call("setSeen", currentUser))

\* A request is refused, or the Google page has ended.
Ends(k) ==
  /\ calls[k].op \in AuthOps /\ calls[k].answer = "pending"
  /\ \E c \in Calls :
       /\ Changed(k, c)
       /\ c.op = calls[k].op
       /\ c.answer = "ok" => c.op = "googleUI"
  /\ UNCHANGED <<serverVars, homeVars, modal, hud>>

Accepts(k) == authAccepts(k) /\ Changed(k, Ans(k, "ok"))
Writes(k)  == databaseWrites(k) /\ \E a \in {"ok", "failed"} : Changed(k, Ans(k, a))

Reads(k) ==
  /\ databaseReads(k)
  /\ \E a \in Records \cup {"failed"} :
       /\ Changed(k, Ans(k, a))
       /\ a = profile[calls[k].uid] \/ (a = "failed" /\ calls[k].uid # currentUser)

\* A block of the login pages makes the next call.
Goes(k) ==
  \E op \in {"register", "credential", "snapshot", "googleProfile"} :
    /\ \/ calls[k].op = "createUser" /\ calls[k].answer = "ok" /\ op = "register"
       \/ calls[k].op = "googleUI" /\ op = "credential"
       \/ calls[k].op = "credential" /\ calls[k].answer = "ok" /\ op = "snapshot"
       \/ calls[k].op = "snapshot" /\ calls[k].answer = "none" /\ op = "googleProfile"
    /\ Replaced(k, Follow(k, op))
    /\ UNCHANGED <<serverVars, homeVars, modal, hud>>

\* A call of somebody who has signed in and whose block leaves the login pages,
\* or makes a call of which the same is true.
Leads(c) ==
  \/ c.op \in {"logIn", "credential", "register"} /\ c.answer = "ok"
  \/ c.op = "snapshot" /\ c.answer \notin {"none", "failed"}
  \/ c.op = "googleProfile"

\* A block of the login pages makes no further call.
Drops(k) ==
  /\ calls[k].op \in LoginOps /\ ~Leads(calls[k])
  /\ Removed(k)
  /\ hud' = "up" => hud = "up" /\ calls[k].op \notin PageOps
  /\ UNCHANGED <<serverVars, homeVars, modal>>

\* A call that means that somebody has signed in.
Accepted(c) ==
  \/ c.op \in {"register", "snapshot", "googleProfile"}
  \/ c.op \in {"logIn", "createUser", "credential"} /\ c.answer = "ok"

\* A block of the login pages leaves them: authenticationComplete.
Leaves(k) ==
  /\ calls[k].op \in LoginOps
  /\ Accepted(calls[k]) \/ (calls[k].op = "credential" /\ calls[k].answer = "failed")
  /\ \/ currentUser = NoUser /\ Removed(k)
     \/ currentUser # NoUser /\ Replaced(k, Call("fetch", currentUser))
  /\ hud' = "up" => hud = "up" /\ calls[k].op \notin PageOps
  /\ modal' = IF modal \in {"login", "onboarding", "sheet"} THEN "leaving" ELSE modal
  /\ UNCHANGED <<serverVars, homeVars>>

Traps ==
  /\ \E k \in DOMAIN calls : calls[k].op = "googleUI"
  /\ modal' = "trapped" /\ calls' = <<>> /\ hud' # "up"
  /\ UNCHANGED <<serverVars, homeVars>>

Fetched(k) == fetchCompleted(k) /\ Removed(k)
WasSeen(k) == setSeenCompleted(k) /\ Removed(k)

LEMMA IsLeft ==
  ASSUME CallTypes, ServerTypes, NEW k \in DOMAIN calls, NEW h, authenticationComplete(Done(k), h)
  PROVE  /\ CallTypes'
         /\ \/ currentUser = NoUser /\ Removed(k)
            \/ currentUser # NoUser /\ Replaced(k, Call("fetch", currentUser))
         /\ modal' = IF modal \in {"login", "onboarding", "sheet"} THEN "leaving" ELSE modal
         /\ hud' = h
<1> DEFINE d == Done(k)
           away == [j \in DOMAIN d |-> [d[j] EXCEPT !.from = FALSE]]
           cs == IF modal = "login" THEN away ELSE d
<1>1. /\ d \in Seq(Calls) /\ Len(d) = Len(calls) - 1
      /\ \A j \in 1 .. Len(calls) - 1 : d[j] = calls[Skip(k, j)]
  BY RemovedAt DEF CallTypes, Done
<1>2. Len(calls) \in Nat
  BY DEF CallTypes
<1>3. calls' = fetchUser(cs) /\ hud' = h
      /\ modal' = IF modal \in {"login", "onboarding", "sheet"} THEN "leaving" ELSE modal
  BY DEF authenticationComplete
<1> HIDE DEF d
<1>4. away \in Seq(Calls) /\ Len(away) = Len(calls) - 1
      /\ \A j \in 1 .. Len(calls) - 1 : Same(away[j], d[j])
  <2>1. \A j \in 1 .. Len(d) : d[j] \in Calls
    BY <1>1
  <2>2. \A j \in 1 .. Len(d) :
          [d[j] EXCEPT !.from = FALSE] \in Calls /\ Same([d[j] EXCEPT !.from = FALSE], d[j])
    BY <2>1 DEF Calls, Same
  <2>3. DOMAIN d = 1 .. Len(d) /\ Len(d) \in Nat
    BY <1>1
  <2>4. away = [j \in 1 .. Len(d) |-> [d[j] EXCEPT !.from = FALSE]]
    BY <2>3
  <2>5. away \in Seq(Calls) /\ Len(away) = Len(d)
    BY <2>2, <2>3, <2>4, IsASeq
  <2>6. \A j \in 1 .. Len(d) : Same(away[j], d[j])
    BY <2>2, <2>4
  <2> HIDE DEF away
  <2> QED
    BY <1>1, <2>5, <2>6
<1> HIDE DEF away
<1>5. cs \in Seq(Calls) /\ Len(cs) = Len(calls) - 1
      /\ \A j \in 1 .. Len(calls) - 1 : Same(cs[j], calls[Skip(k, j)])
  BY <1>1, <1>4 DEF Same
<1> HIDE DEF cs
<1>6. CASE currentUser = NoUser
  <2>1. calls' = cs
    BY <1>3, <1>6 DEF fetchUser
  <2>2. DOMAIN calls' = 1 .. Len(calls) - 1
    BY <1>5, <2>1
  <2> QED
    BY <1>3, <1>5, <1>6, <2>1, <2>2 DEF CallTypes, Removed
<1>7. CASE currentUser # NoUser
  <2> DEFINE c == Call("fetch", currentUser)
  <2>1. calls' = Append(cs, c)
    BY <1>3, <1>7 DEF fetchUser
  <2>2. c \in Calls
    BY <1>7, NewCall DEF ServerTypes, Ops
  <2> HIDE DEF c
  <2>3. /\ calls' \in Seq(Calls) /\ DOMAIN calls' = 1 .. Len(calls)
        /\ \A j \in 1 .. Len(calls) - 1 : calls'[j] = cs[j]
        /\ calls'[Len(calls)] = c
    <3>1. cs \in Seq(Calls) /\ Len(cs) = Len(calls) - 1
      BY <1>5
    <3> QED
      BY ONLY <1>2, <2>1, <2>2, <3>1
  <2>4. Replaced(k, c)
    BY <1>5, <2>3 DEF Replaced, Same
  <2> QED
    BY <1>3, <1>7, <2>3, <2>4 DEF CallTypes, c
<1> QED
  BY <1>6, <1>7

Kind ==
  \/ Quietly \/ launch \/ Closes \/ Traps
  \/ \E c \in Calls : Submits(c)
  \/ \E k \in DOMAIN calls :
       \/ Ends(k) \/ Accepts(k) \/ Writes(k) \/ Reads(k)
       \/ Goes(k) \/ Drops(k) \/ Leaves(k) \/ Fetched(k) \/ WasSeen(k)

LEMMA UserKinds ==
  ASSUME CallTypes, ServerTypes, UserActs \/ reconnect \/ dismissalEnds \/ hudFades \/ UNCHANGED vars
  PROVE  CallTypes' /\ Kind
<1>1. CASE \/ handleLogout \/ cancelLogout \/ logout \/ dismissalEnds \/ hudFades \/ moveBack
           \/ reconnect \/ closeMessage \/ UNCHANGED vars
           \/ \E row : didSelectItemAt(row)
           \/ \E from, to : showPage(from, to)
  <2>1. Quietly
    <3>1. CASE handleLogout \/ cancelLogout \/ dismissalEnds
      BY <3>1 DEF Quietly, handleLogout, cancelLogout, dismissalEnds, AtHome, serverVars,
         homeVars, loginVars, hudVars
    <3>2. CASE logout
      BY <3>2 DEF Quietly, logout, serverVars, homeVars, hudVars
    <3>3. CASE hudFades
      BY <3>3 DEF Quietly, hudFades, L!Faded, serverVars, homeVars
    <3>4. CASE moveBack \/ closeMessage \/ UNCHANGED vars \/ \E row : didSelectItemAt(row)
      BY <3>4 DEF Quietly, moveBack, closeMessage, didSelectItemAt, vars, serverVars, homeVars,
         loginVars, hudVars
    <3>5. CASE \E from, to : showPage(from, to)
      BY <3>5 DEF Quietly, showPage, serverVars, homeVars, hudVars
    <3>6. CASE reconnect
      BY <3>6 DEF Quietly, reconnect, homeVars, loginVars, hudVars
    <3> QED
      BY <1>1, <3>1, <3>2, <3>3, <3>4, <3>5, <3>6
  <2> QED
    BY <2>1 DEF Quietly, CallTypes, Kind
<1>2. ASSUME NEW p, NEW op \in {"logIn", "createUser", "resetPassword", "googleUI"},
             NEW uid \in Users \cup {NoUser},
             uid = NoUser => op \in {"googleUI", "resetPassword"},
             Submit(p, op, uid), (showLoader /\ op \in PageOps) \/ UNCHANGED hudVars
      PROVE  CallTypes' /\ Kind
  <2> DEFINE c == Call(op, uid)
  <2>1. c \in Calls /\ c.op = op /\ c.answer = "pending"
    BY <1>2, NewCall DEF Ops, LoginOps, PageOps
  <2>2. calls' = Append(calls, c)
    BY <1>2 DEF Submit
  <2> HIDE DEF c
  <2>3. CallTypes' /\ Added(c)
    BY <2>1, <2>2, IsAdded
  <2>4. Submits(c)
    BY <1>2, <2>1, <2>3 DEF Submits, Submit, Touchable, hudVars
  <2> QED
    BY <2>1, <2>3, <2>4 DEF Kind
<1>3. CASE \/ \E uid \in Users : handleLogin(uid) \/ handleSignUP(uid)
           \/ handleResetPassword \/ handleGoogleLogin
  BY <1>2, <1>3, UsersAssumption
     DEF handleLogin, handleSignUP, handleResetPassword, handleGoogleLogin, PageOps
<1>4. CASE controllerWantsToDismiss
  <2>1. /\ modal = "onboarding" /\ modal' = "leaving"
        /\ UNCHANGED <<serverVars, homeVars, hud>>
    BY <1>4 DEF controllerWantsToDismiss, loginVars, hudVars
  <2>2. CASE currentUser = NoUser
    BY <1>4, <2>1, <2>2 DEF controllerWantsToDismiss, Closes, Kind, CallTypes
  <2>3. CASE currentUser # NoUser
    <3>1. Call("setSeen", currentUser) \in Calls
      BY <2>3, NewCall DEF ServerTypes, Ops
    <3>2. calls' = Append(calls, Call("setSeen", currentUser))
      BY <1>4, <2>3 DEF controllerWantsToDismiss
    <3>3. CallTypes' /\ Added(Call("setSeen", currentUser))
      BY <3>1, <3>2, IsAdded
    <3> QED
      BY <1>4, <2>1, <2>3, <3>3 DEF Closes, Kind
  <2> QED
    BY <2>2, <2>3
<1>5. ASSUME NEW k \in DOMAIN calls, googleUIEnds(k) PROVE CallTypes' /\ Kind
  <2>1. calls[k].op = "googleUI" /\ calls[k].answer = "pending" /\ calls[k] \in Calls
    <3>1. calls[k] \in Calls
      BY DEF CallTypes
    <3> QED
      BY <1>5, <3>1, Zenon DEF googleUIEnds, Pending
  <2>2. PICK c \in Calls : c.op = "googleUI" /\ calls' = [calls EXCEPT ![k] = c]
    <3>1. CASE \E uid \in Users : calls' = [calls EXCEPT ![k].uid = uid, ![k].answer = "ok"]
      <4>1. PICK uid \in Users : calls' = [calls EXCEPT ![k].uid = uid, ![k].answer = "ok"]
        BY <3>1
      <4>2. calls' = [calls EXCEPT ![k] = [calls[k] EXCEPT !.uid = uid, !.answer = "ok"]]
        BY <4>1 DEF CallTypes
      <4>3. [calls[k] EXCEPT !.uid = uid, !.answer = "ok"] \in Calls
            /\ [calls[k] EXCEPT !.uid = uid, !.answer = "ok"].op = "googleUI"
        BY <2>1, UsersAssumption DEF Calls
      <4> QED
        BY <4>2, <4>3
    <3>2. CASE Answer(k, "failed")
      <4>1. Ans(k, "failed") \in Calls /\ Ans(k, "failed").op = "googleUI"
        BY <2>1, AnsFields DEF Answers
      <4>2. calls' = [calls EXCEPT ![k] = Ans(k, "failed")]
        BY <3>2 DEF Answer, Ans
      <4> QED
        BY <4>1, <4>2
    <3> QED
      BY <1>5, <3>1, <3>2 DEF googleUIEnds
  <2>3. CallTypes' /\ Changed(k, c)
    BY <2>2, IsChanged
  <2>4. UNCHANGED <<serverVars, homeVars, modal, hud>>
    BY <1>5 DEF googleUIEnds, loginVars, hudVars
  <2>5. Ends(k)
    BY <2>1, <2>2, <2>3, <2>4 DEF Ends, AuthOps
  <2> QED
    BY <2>3, <2>5 DEF Kind
<1> QED
  BY <1>1, <1>3, <1>4, <1>5 DEF UserActs

LEMMA AnswerKinds ==
  ASSUME CallTypes, ServerTypes, NEW k \in DOMAIN calls, FirebaseAnswers(k)
  PROVE  CallTypes' /\ (Ends(k) \/ Accepts(k) \/ Writes(k) \/ Reads(k))
<1>0. calls[k] \in Calls
  BY DEF CallTypes
<1>1. CASE authAccepts(k)
  BY <1>1, IsAnswered DEF authAccepts, Accepts, Answers, Pending
<1>2. CASE authRefuses(k)
  <2>1. CallTypes' /\ Changed(k, Ans(k, "failed"))
    BY <1>2, IsAnswered DEF authRefuses, Answers
  <2>2. /\ Ans(k, "failed") \in Calls /\ Ans(k, "failed").op = calls[k].op
        /\ Ans(k, "failed").answer = "failed"
    BY AnsFields DEF Answers
  <2>3. calls[k].op \in AuthOps /\ calls[k].answer = "pending"
    BY <1>2 DEF authRefuses, Pending, AuthOps
  <2>4. UNCHANGED <<serverVars, homeVars, modal, hud>>
    BY <1>2 DEF authRefuses, loginVars, hudVars
  <2>5. Ends(k)
    BY <2>1, <2>2, <2>3, <2>4 DEF Ends
  <2> QED
    BY <2>1, <2>5
<1>3. CASE databaseWrites(k)
  <2>1. PICK a \in {"ok", "failed"} : Answer(k, a) /\ calls[k].op # "googleUI"
    BY <1>3 DEF databaseWrites, Pending
  <2>2. CallTypes' /\ Changed(k, Ans(k, a))
    BY <2>1, IsAnswered DEF Answers
  <2> QED
    BY <1>3, <2>2 DEF Writes
<1>4. CASE databaseReads(k)
  <2>1. calls[k].uid \in Users
    BY <1>0, <1>4, CallFields DEF databaseReads, Pending
  <2>2. PICK a \in Records \cup {"failed"} :
          Answer(k, a) /\ (a = profile[calls[k].uid] \/ (a = "failed" /\ calls[k].uid # currentUser))
    BY <1>4, <2>1 DEF databaseReads, ServerTypes
  <2>3. CallTypes' /\ Changed(k, Ans(k, a))
    BY <1>4, <2>2, IsAnswered DEF Answers, databaseReads, Pending
  <2> QED
    BY <1>4, <2>2, <2>3 DEF Reads
<1> QED
  BY <1>1, <1>2, <1>3, <1>4 DEF FirebaseAnswers

LEMMA BlockKinds ==
  ASSUME CallTypes, ServerTypes, NEW k \in DOMAIN calls, BlockRuns(k)
  PROVE  CallTypes' /\ (Goes(k) \/ Drops(k) \/ Leaves(k) \/ Traps \/ Fetched(k) \/ WasSeen(k))
<1>0. calls[k] \in Calls
  BY DEF CallTypes
<1>1. hideLoader # "up" /\ hideLoader \in {hud, "fading"}
  BY DEF hideLoader, L!Hidden
\* The three ways in which a block of the login pages can go on.
<1>2. ASSUME NEW op \in {"register", "credential", "snapshot", "googleProfile"},
             calls' = Continued(k, op), UNCHANGED <<serverVars, homeVars, modal, hud>>,
             \/ calls[k].op = "createUser" /\ calls[k].answer = "ok" /\ op = "register"
             \/ calls[k].op = "googleUI" /\ calls[k].uid \in Users /\ op = "credential"
             \/ calls[k].op = "credential" /\ calls[k].answer = "ok" /\ op = "snapshot"
             \/ calls[k].op = "snapshot" /\ calls[k].answer = "none" /\ op = "googleProfile"
      PROVE  CallTypes' /\ Goes(k)
  <2>1. op \in Ops /\ (calls[k].op \notin {"googleUI", "resetPassword"} \/ calls[k].uid \in Users)
    BY <1>2 DEF Ops, LoginOps, PageOps
  <2>2. Follow(k, op) \in Calls
    BY <2>1, FollowFields
  <2>3. calls' = Append(Done(k), Follow(k, op))
    BY <1>2 DEF Continued, Follow
  <2>4. CallTypes' /\ Replaced(k, Follow(k, op))
    BY <2>2, <2>3, IsReplaced
  <2> QED
    BY <1>2, <2>4 DEF Goes
<1>3. ASSUME calls' = Done(k), calls[k].op \in LoginOps, ~Leads(calls[k]),
             UNCHANGED <<serverVars, homeVars, modal>>,
             hud' = hideLoader \/ (hud' = hud /\ calls[k].op \notin PageOps)
      PROVE  CallTypes' /\ Drops(k)
  <2>1. CallTypes' /\ Removed(k)
    BY <1>3, IsRemoved
  <2> QED
    BY <1>1, <1>3, <2>1 DEF Drops
<1>4. ASSUME NEW h, authenticationComplete(Done(k), h), UNCHANGED <<serverVars, homeVars>>,
             calls[k].op \in LoginOps,
             Accepted(calls[k]) \/ (calls[k].op = "credential" /\ calls[k].answer = "failed"),
             h = hideLoader \/ (h = hud /\ calls[k].op \notin PageOps)
      PROVE  CallTypes' /\ Leaves(k)
  <2>1. /\ CallTypes'
        /\ \/ currentUser = NoUser /\ Removed(k)
           \/ currentUser # NoUser /\ Replaced(k, Call("fetch", currentUser))
        /\ modal' = IF modal \in {"login", "onboarding", "sheet"} THEN "leaving" ELSE modal
        /\ hud' = h
    BY <1>4, IsLeft
  <2>2. hud' = "up" => hud = "up" /\ calls[k].op \notin PageOps
    BY <1>1, <1>4, <2>1
  <2> QED
    BY <1>4, <2>1, <2>2 DEF Leaves
<1>5. CASE logInCompleted(k)
  <2>1. calls[k].op = "logIn" /\ UNCHANGED <<serverVars, homeVars>>
    BY <1>5 DEF logInCompleted, Completes
  <2>2. calls[k].op \in LoginOps /\ calls[k].op \in PageOps
    BY <2>1 DEF LoginOps, PageOps
  <2>3. CASE calls[k].answer = "ok" /\ authenticationComplete(Done(k), hideLoader)
    BY <1>4, <2>1, <2>2, <2>3 DEF Accepted
  <2>4. CASE calls[k].answer = "failed" /\ hud' = hideLoader /\ calls' = Done(k) /\ UNCHANGED modal
    BY <1>3, <2>1, <2>2, <2>4 DEF Leads
  <2> QED
    BY <1>5, <2>3, <2>4 DEF logInCompleted
<1>6. CASE createUserCompleted(k)
  <2>1. calls[k].op = "createUser" /\ UNCHANGED <<serverVars, homeVars>>
    BY <1>6 DEF createUserCompleted, Completes
  <2>2. calls[k].op \in LoginOps /\ calls[k].op \in PageOps
    BY <2>1 DEF LoginOps, PageOps
  <2>3. CASE calls[k].answer = "ok" /\ calls' = Continued(k, "register") /\ UNCHANGED <<modal, loginVars>>
    BY <1>2, <2>1, <2>3 DEF loginVars, hudVars
  <2>4. CASE calls[k].answer = "failed" /\ Complain(k)
    BY <1>3, <2>1, <2>2, <2>4 DEF Complain, Leads
  <2> QED
    BY <1>6, <2>3, <2>4 DEF createUserCompleted
<1>7. CASE registerCompleted(k)
  <2>1. calls[k].op = "register" /\ UNCHANGED <<serverVars, homeVars>>
    BY <1>7 DEF registerCompleted, Completes
  <2>2. calls[k].op \in LoginOps /\ calls[k].op \in PageOps
    BY <2>1 DEF LoginOps, PageOps
  <2>3. CASE authenticationComplete(Done(k), hideLoader)
    BY <1>4, <2>1, <2>2, <2>3 DEF Accepted
  <2>4. CASE calls[k].answer = "failed" /\ Complain(k)
    BY <1>3, <2>1, <2>2, <2>4 DEF Complain, Leads
  <2> QED
    BY <1>7, <2>3, <2>4 DEF registerCompleted
<1>8. CASE resetPasswordCompleted(k)
  <2>1. calls[k].op = "resetPassword" /\ UNCHANGED <<serverVars, homeVars>>
    BY <1>8 DEF resetPasswordCompleted, Completes
  <2>2. calls[k].op \in LoginOps
    BY <2>1 DEF LoginOps, PageOps
  <2> QED
    BY <1>3, <1>8, <2>1, <2>2 DEF resetPasswordCompleted, Complain, Leads
<1>9. CASE googleUICompleted(k)
  <2>1. calls[k].op = "googleUI" /\ UNCHANGED <<serverVars, homeVars>>
    BY <1>9 DEF googleUICompleted, Completes
  <2>2. CASE calls[k].answer = "ok" /\ calls' = Continued(k, "credential") /\ UNCHANGED <<modal, inGame, hudVars>>
    <3>1. calls[k].uid \in Users
      BY <1>0, <2>1, <2>2, CallFields
    <3> QED
      BY <1>2, <2>1, <2>2, <3>1 DEF hudVars
  <2>3. CASE modal' = "trapped" /\ calls' = <<>> /\ hud' = "off"
    BY <2>1, <2>3 DEF Traps, CallTypes
  <2> QED
    BY <1>9, <2>2, <2>3 DEF googleUICompleted
<1>10. CASE credentialCompleted(k)
  <2>1. calls[k].op = "credential" /\ UNCHANGED <<serverVars, homeVars>>
    BY <1>10 DEF credentialCompleted, Completes
  <2>2. calls[k].op \in LoginOps /\ calls[k].op \notin PageOps
    BY <2>1 DEF LoginOps, PageOps
  <2>3. CASE calls[k].answer = "ok" /\ calls' = Continued(k, "snapshot") /\ UNCHANGED <<modal, message, hudVars>>
    BY <1>2, <2>1, <2>3 DEF hudVars
  <2>4. CASE calls[k].answer = "failed" /\ authenticationComplete(Done(k), hud)
    BY <1>4, <2>1, <2>2, <2>4
  <2> QED
    BY <1>10, <2>3, <2>4 DEF credentialCompleted
<1>11. CASE snapshotCompleted(k)
  <2>1. calls[k].op = "snapshot" /\ UNCHANGED <<serverVars, homeVars>>
    BY <1>11 DEF snapshotCompleted, Completes
  <2>2. calls[k].op \in LoginOps /\ calls[k].op \notin PageOps
    BY <2>1 DEF LoginOps, PageOps
  <2>3. CASE calls[k].answer = "none" /\ calls' = Continued(k, "googleProfile") /\ UNCHANGED <<modal, message, hudVars>>
    BY <1>2, <2>1, <2>3 DEF hudVars
  <2>4. CASE authenticationComplete(Done(k), hud)
    BY <1>4, <2>1, <2>2, <2>4 DEF Accepted
  <2>5. CASE /\ calls[k].answer \in {"none", "failed"}
             /\ calls' = Done(k) /\ UNCHANGED <<modal, message, hudVars>>
    BY <1>3, <2>1, <2>2, <2>5 DEF hudVars, Leads
  <2> QED
    BY <1>11, <2>3, <2>4, <2>5 DEF snapshotCompleted, exists
<1>12. CASE googleProfileCompleted(k)
  <2>1. calls[k].op = "googleProfile" /\ UNCHANGED <<serverVars, homeVars>>
    BY <1>12 DEF googleProfileCompleted, Completes
  <2>2. calls[k].op \in LoginOps /\ calls[k].op \notin PageOps
    BY <2>1 DEF LoginOps, PageOps
  <2> QED
    BY <1>4, <1>12, <2>1, <2>2 DEF googleProfileCompleted, Accepted
<1>13. CASE fetchCompleted(k)
  BY <1>13, IsRemoved DEF fetchCompleted, Fetched
<1>14. CASE setSeenCompleted(k)
  BY <1>14, IsRemoved DEF setSeenCompleted, WasSeen
<1> QED
  BY <1>5, <1>6, <1>7, <1>8, <1>9, <1>10, <1>11, <1>12, <1>13, <1>14 DEF BlockRuns

\* Every step is of one of these kinds.
LEMMA Kinds ==
  ASSUME CallTypes, ServerTypes, [Next]_vars
  PROVE  CallTypes' /\ Kind
<1>1. CASE launch
  <2>1. calls' = fetchUser(<<>>)
    BY <1>1 DEF launch
  <2>2. CASE currentUser = NoUser
    BY <1>1, <2>1, <2>2 DEF fetchUser, CallTypes, Kind
  <2>3. CASE currentUser # NoUser
    <3>1. Call("fetch", currentUser) \in Calls
      BY <2>3, NewCall DEF ServerTypes, Ops
    <3>2. calls' = <<Call("fetch", currentUser)>>
      BY <2>1, <2>3 DEF fetchUser
    <3> QED
      BY <1>1, <3>1, <3>2 DEF CallTypes, Kind
  <2> QED
    BY <2>2, <2>3
<1>2. ASSUME NEW k \in DOMAIN calls, FirebaseAnswers(k) \/ BlockRuns(k) PROVE CallTypes' /\ Kind
  BY <1>2, AnswerKinds, BlockKinds DEF Kind
<1> QED
  BY <1>1, <1>2, UserKinds DEF Next

--------------------------------------------------------------------------------
(* Types *)

HomeTypes ==
  /\ user \in [uid : Users, hasSeenOnboarding : BOOLEAN] \cup {NoUser}
  /\ welcome \in Users \cup {NoUser}

ScreenTypes ==
  /\ modal \in Modals
  /\ page \in {"login", "register", "reset"}
  /\ message \in BOOLEAN
  /\ inGame \in BOOLEAN
  /\ hud \in L!States /\ covered \in BOOLEAN

CounterTypes == submits \in 0 .. MaxSubmits /\ reconnects \in 0 .. MaxReconnects

LEMMA TypeParts ==
  TypeOK <=> ServerTypes /\ CounterTypes /\ HomeTypes /\ ScreenTypes /\ CallTypes
  BY DEF TypeOK, ServerTypes, CounterTypes, HomeTypes, ScreenTypes, CallTypes

\* Only a launch sets the count of reconnects back.
LEMMA CounterStep ==
  ASSUME CounterTypes, [Next]_vars
  PROVE  /\ CounterTypes'
         /\ reconnects' = 0 => reconnects = 0 \/ launch
<1>1. CASE UNCHANGED counters
  BY <1>1 DEF CounterTypes, counters
<1>2. CASE launch
  BY <1>2, BoundsAssumption DEF CounterTypes, launch
<1>3. CASE reconnect
  BY <1>3, BoundsAssumption DEF CounterTypes, reconnect
<1>4. ASSUME NEW p, NEW op, NEW uid, Submit(p, op, uid)
      PROVE  CounterTypes' /\ UNCHANGED reconnects
  BY <1>4, BoundsAssumption DEF CounterTypes, Submit
<1>5. CASE UserActs
  <2>1. CASE \/ \E uid \in Users : handleLogin(uid) \/ handleSignUP(uid)
             \/ handleResetPassword \/ handleGoogleLogin
    BY <1>4, <2>1 DEF handleLogin, handleSignUP, handleResetPassword, handleGoogleLogin
  <2>2. CASE handleLogout \/ cancelLogout \/ logout \/ controllerWantsToDismiss \/ moveBack \/ closeMessage
    BY <1>1, <2>2 DEF handleLogout, cancelLogout, logout, controllerWantsToDismiss, moveBack,
       closeMessage, serverVars
  <2>3. CASE \/ \E row \in 1 .. 3 : didSelectItemAt(row)
             \/ \E k \in DOMAIN calls : googleUIEnds(k)
             \/ \E from, to \in {"login", "register", "reset"} : showPage(from, to)
    BY <1>1, <2>3 DEF didSelectItemAt, googleUIEnds, showPage, serverVars
  <2> QED
    BY <1>5, <2>1, <2>2, <2>3 DEF UserActs
<1>6. CASE dismissalEnds \/ hudFades \/ UNCHANGED vars
  BY <1>1, <1>6 DEF dismissalEnds, hudFades, vars, serverVars
<1>7. ASSUME NEW k \in DOMAIN calls, FirebaseAnswers(k) PROVE UNCHANGED counters
  BY <1>7 DEF FirebaseAnswers, authAccepts, authRefuses, databaseWrites, databaseReads, serverVars
<1>8. ASSUME NEW k \in DOMAIN calls, BlockRuns(k) PROVE UNCHANGED counters
  BY <1>8 DEF BlockRuns, logInCompleted, createUserCompleted, registerCompleted,
     resetPasswordCompleted, googleUICompleted, credentialCompleted, snapshotCompleted,
     googleProfileCompleted, fetchCompleted, setSeenCompleted, serverVars
<1> QED
  BY <1>1, <1>2, <1>3, <1>5, <1>6, <1>7, <1>8 DEF Next

LEMMA ServerTypesStep ==
  ASSUME CallTypes, ServerTypes, Kind
  PROVE  ServerTypes'
<1>1. CASE Quietly \/ launch \/ Closes \/ Traps
  BY <1>1 DEF ServerTypes, Quietly, launch, Closes, Traps, serverVars
<1>2. ASSUME NEW c, Submits(c) PROVE ServerTypes'
  BY <1>2 DEF ServerTypes, Submits, serverVars
<1>3. ASSUME NEW k \in DOMAIN calls, Ends(k) \/ Reads(k) \/ Goes(k) \/ Drops(k) \/ Leaves(k)
      PROVE  ServerTypes'
  BY <1>3 DEF ServerTypes, Ends, Reads, databaseReads, Goes, Drops, Leaves, serverVars
<1>4. ASSUME NEW k \in DOMAIN calls, Fetched(k) \/ WasSeen(k) PROVE ServerTypes'
  BY <1>4 DEF ServerTypes, Fetched, WasSeen, fetchCompleted, setSeenCompleted, serverVars
<1>5. ASSUME NEW k \in DOMAIN calls, Accepts(k) PROVE ServerTypes'
  <2>1. calls[k] \in Calls
    BY DEF CallTypes
  <2>2. calls[k].op # "resetPassword" => calls[k].uid \in Users
    BY <1>5, <2>1, CallFields DEF Accepts, authAccepts, Pending
  <2> QED
    BY <1>5, <2>2 DEF ServerTypes, Accepts, authAccepts, Pending, Providers
<1>6. ASSUME NEW k \in DOMAIN calls, Writes(k) PROVE ServerTypes'
  BY <1>6 DEF ServerTypes, Writes, databaseWrites, Records
<1> QED
  BY <1>1, <1>2, <1>3, <1>4, <1>5, <1>6 DEF Kind

\* The two ways in which Home gets to hold a user.
LEMMA HomeTypesStep ==
  ASSUME CallTypes, HomeTypes, Kind
  PROVE  HomeTypes'
<1>1. CASE Quietly \/ launch \/ Closes \/ Traps
  BY <1>1 DEF HomeTypes, Quietly, launch, Closes, Traps, homeVars
<1>2. ASSUME NEW c, Submits(c) PROVE HomeTypes'
  BY <1>2 DEF HomeTypes, Submits, homeVars
<1>3. ASSUME NEW k \in DOMAIN calls, Ends(k) \/ Accepts(k) \/ Writes(k) \/ Reads(k)
      PROVE  HomeTypes'
  BY <1>3 DEF HomeTypes, Ends, Accepts, authAccepts, Writes, databaseWrites, Reads, databaseReads,
     homeVars
<1>4. ASSUME NEW k \in DOMAIN calls, Goes(k) \/ Drops(k) \/ Leaves(k) PROVE HomeTypes'
  BY <1>4 DEF HomeTypes, Goes, Drops, Leaves, homeVars
<1>5. ASSUME NEW u \in [uid : Users, hasSeenOnboarding : BOOLEAN], setUser(u) PROVE HomeTypes'
  BY <1>5 DEF HomeTypes, setUser, showWelcomeLabel
<1>6. ASSUME NEW k \in DOMAIN calls, Fetched(k) PROVE HomeTypes'
  <2> DEFINE u == [uid |-> calls[k].uid, hasSeenOnboarding |-> calls[k].answer # "new"]
  <2>1. calls[k] \in Calls
    BY DEF CallTypes
  <2>2. calls[k].uid \in Users
    BY <1>6, <2>1, CallFields DEF Fetched, fetchCompleted, Completes
  <2>3. u \in [uid : Users, hasSeenOnboarding : BOOLEAN]
    BY <2>2
  <2>4. UNCHANGED homeVars \/ setUser(u)
    BY <1>6 DEF Fetched, fetchCompleted
  <2> QED
    BY <1>5, <2>3, <2>4 DEF HomeTypes, homeVars
<1>7. ASSUME NEW k \in DOMAIN calls, WasSeen(k) PROVE HomeTypes'
  <2>1. CASE user = NoUser
    BY <1>7, <2>1 DEF HomeTypes, WasSeen, setSeenCompleted, homeVars
  <2>2. CASE user # NoUser
    <3>1. [user EXCEPT !.hasSeenOnboarding = TRUE] \in [uid : Users, hasSeenOnboarding : BOOLEAN]
      BY <2>2 DEF HomeTypes
    <3> QED
      BY <1>5, <1>7, <2>2, <3>1 DEF WasSeen, setSeenCompleted
  <2> QED
    BY <2>1, <2>2
<1> QED
  BY <1>1, <1>2, <1>3, <1>4, <1>6, <1>7 DEF Kind

LEMMA ScreenTypesStep ==
  ASSUME ScreenTypes, [Next]_vars
  PROVE  ScreenTypes'
<1>0. FALSE \in BOOLEAN /\ "off" \in L!States
  BY DEF L!States
<1>1. CASE launch
  <2>1. page' = "login" /\ modal' \in {"login", "none"}
    BY <1>1 DEF launch, authenticateUser
  <2>2. message' = FALSE /\ hud' = "off" /\ covered' = FALSE /\ inGame' = FALSE
    BY <1>1 DEF launch
  <2> QED
    BY <1>0, <2>1, <2>2, Zenon DEF ScreenTypes, Modals
<1> USE DEF ScreenTypes, Modals, L!States
<1>2. CASE handleLogout \/ cancelLogout \/ dismissalEnds \/ controllerWantsToDismiss
  BY <1>2 DEF handleLogout, cancelLogout, dismissalEnds, controllerWantsToDismiss, loginVars, hudVars
<1>3. CASE logout
  BY <1>3 DEF logout, hudVars
<1>4. ASSUME NEW row, didSelectItemAt(row) PROVE ScreenTypes'
  BY <1>4 DEF didSelectItemAt, loginVars, hudVars
<1>5. CASE moveBack
  BY <1>5 DEF moveBack, loginVars, hudVars
<1>6. CASE hudFades
  BY <1>6 DEF hudFades, L!Faded
<1>7. ASSUME NEW p, NEW op, NEW uid, Submit(p, op, uid), showLoader \/ UNCHANGED hudVars
      PROVE  ScreenTypes'
  BY <1>7 DEF Submit, showLoader, L!Shown, hudVars
<1>8. ASSUME NEW from, NEW to \in {"login", "register", "reset"}, showPage(from, to)
      PROVE  ScreenTypes'
  BY <1>8 DEF showPage, hudVars
<1>9. CASE closeMessage
  BY <1>9 DEF closeMessage, hudVars
<1>10. ASSUME NEW k, googleUIEnds(k) \/ FirebaseAnswers(k) PROVE ScreenTypes'
  BY <1>10 DEF googleUIEnds, FirebaseAnswers, authAccepts, authRefuses, databaseWrites,
     databaseReads, loginVars, hudVars
<1>11. ASSUME NEW cs, NEW h \in L!States, authenticationComplete(cs, h), UNCHANGED <<page, inGame>>
       PROVE  ScreenTypes'
  BY <1>11 DEF authenticationComplete
<1>12. hideLoader \in L!States /\ hud \in L!States
  BY DEF hideLoader, L!Hidden
<1>13. ASSUME NEW k, Complain(k), UNCHANGED inGame PROVE ScreenTypes'
  BY <1>12, <1>13 DEF Complain
<1>14. ASSUME NEW k, logInCompleted(k) \/ createUserCompleted(k) \/ registerCompleted(k)
       PROVE  ScreenTypes'
  BY <1>11, <1>12, <1>13, <1>14 DEF logInCompleted, createUserCompleted, registerCompleted,
     loginVars, hudVars
<1>15. ASSUME NEW k, resetPasswordCompleted(k) PROVE ScreenTypes'
  BY <1>12, <1>13, <1>15 DEF resetPasswordCompleted
<1>16. ASSUME NEW k, googleUICompleted(k) PROVE ScreenTypes'
  <2>1. UNCHANGED <<page, message>>
    BY <1>16 DEF googleUICompleted
  <2>2. CASE UNCHANGED <<modal, inGame, hudVars>>
    BY <2>1, <2>2 DEF ScreenTypes, hudVars
  <2>3. CASE modal' = "trapped" /\ inGame' = FALSE /\ hud' = "off" /\ covered' = FALSE
    BY <1>0, <2>1, <2>3, Zenon DEF ScreenTypes, Modals
  <2> QED
    BY <1>16, <2>2, <2>3 DEF googleUICompleted
<1>17. ASSUME NEW k, credentialCompleted(k) \/ snapshotCompleted(k) \/ googleProfileCompleted(k)
       PROVE  ScreenTypes'
  BY <1>11, <1>12, <1>17 DEF credentialCompleted, snapshotCompleted, googleProfileCompleted, hudVars
<1>18. ASSUME NEW k, fetchCompleted(k) \/ setSeenCompleted(k) PROVE ScreenTypes'
  BY <1>18 DEF fetchCompleted, setSeenCompleted, setUser, presentOnboardingIfNeccessary,
     loginVars, hudVars
<1>19. CASE reconnect \/ UNCHANGED vars
  BY <1>19 DEF reconnect, vars, loginVars, hudVars
<1>20. CASE UserActs
  BY <1>2, <1>3, <1>4, <1>5, <1>7, <1>8, <1>9, <1>10, <1>20 DEF UserActs, handleLogin, handleSignUP,
     handleResetPassword, handleGoogleLogin
<1> QED
  BY <1>1, <1>2, <1>6, <1>10, <1>14, <1>15, <1>16, <1>17, <1>18, <1>19, <1>20 DEF Next, BlockRuns

LEMMA InitTypeOK == Init => TypeOK
<1> SUFFICES ASSUME Init PROVE TypeOK
  OBVIOUS
<1>1. ServerTypes /\ HomeTypes /\ CallTypes
  BY DEF Init, ServerTypes, HomeTypes, CallTypes, Providers, Records
<1>2. CounterTypes
  BY BoundsAssumption DEF Init, CounterTypes
<1>3. ScreenTypes
  <2>1. FALSE \in BOOLEAN
    OBVIOUS
  <2> QED
    BY <2>1, Zenon DEF Init, ScreenTypes, Modals, L!States
<1> QED
  BY <1>1, <1>2, <1>3, TypeParts

LEMMA StepTypeOK == TypeOK /\ [Next]_vars => TypeOK'
<1> SUFFICES ASSUME TypeOK, [Next]_vars PROVE TypeOK'
  OBVIOUS
<1>1. ServerTypes /\ CounterTypes /\ HomeTypes /\ ScreenTypes /\ CallTypes
  BY TypeParts
<1>2. CallTypes' /\ Kind
  BY <1>1, Kinds
<1>3. ServerTypes' /\ CounterTypes' /\ HomeTypes' /\ ScreenTypes'
  BY <1>1, <1>2, ServerTypesStep, CounterStep, HomeTypesStep, ScreenTypesStep
<1> QED
  BY <1>2, <1>3 DEF TypeOK, ServerTypes, CounterTypes, HomeTypes, ScreenTypes, CallTypes

\* Every variable of the session stays in its range; in particular no call is
\* made for nobody, whenever users sign out or the app is killed.
THEOREM TypeCorrect == Spec => []TypeOK
  BY InitTypeOK, StepTypeOK, PTL DEF Spec

--------------------------------------------------------------------------------
(* The HUD *)

LEMMA StepHud == TypeOK /\ HudIsAwaited /\ [Next]_vars => HudIsAwaited'
<1> SUFFICES ASSUME TypeOK, HudIsAwaited, [Next]_vars, hud' = "up"
             PROVE  \E j \in DOMAIN calls' : calls'[j].op \in PageOps
  BY DEF HudIsAwaited, InFlight
<1>0. CallTypes /\ ServerTypes /\ Kind
  BY TypeParts, Kinds
<1>1. Len(calls) \in Nat /\ DOMAIN calls = 1 .. Len(calls)
  BY <1>0 DEF CallTypes
<1>2. hud = "up" => \E j \in DOMAIN calls : calls[j].op \in PageOps
  BY DEF HudIsAwaited, InFlight
<1>3. CASE Quietly \/ launch \/ Traps
  BY <1>2, <1>3 DEF Quietly, launch, Traps
<1>4. CASE Closes
  BY <1>1, <1>2, <1>4 DEF Closes, Added
<1>5. ASSUME NEW c, Submits(c) PROVE \E j \in DOMAIN calls' : calls'[j].op \in PageOps
  <2>1. CASE hud = "up"
    BY <1>1, <1>2, <1>5, <2>1 DEF Submits, Added
  <2>2. CASE c.op \in PageOps
    BY <1>1, <1>5, <2>2 DEF Submits, Added
  <2> QED
    BY <1>5, <2>1, <2>2 DEF Submits
<1>6. ASSUME NEW k \in DOMAIN calls, NEW c, Changed(k, c), c.op = calls[k].op, hud = "up"
      PROVE  \E j \in DOMAIN calls' : calls'[j].op \in PageOps
  BY <1>2, <1>6 DEF Changed
<1>7. ASSUME NEW k \in DOMAIN calls, Ends(k) \/ Accepts(k) \/ Writes(k) \/ Reads(k)
      PROVE  \E j \in DOMAIN calls' : calls'[j].op \in PageOps
  <2>1. hud = "up"
    BY <1>7 DEF Ends, Accepts, authAccepts, Writes, databaseWrites, Reads, databaseReads,
       loginVars, hudVars
  <2>2. \E c : Changed(k, c) /\ c.op = calls[k].op
    BY <1>0, <1>7, AnsOp DEF Ends, Accepts, Writes, Reads
  <2> QED
    BY <1>6, <2>1, <2>2
<1>8. ASSUME NEW k \in DOMAIN calls, hud = "up", calls[k].op \notin PageOps,
             Removed(k) \/ \E c : Replaced(k, c)
      PROVE  \E j \in DOMAIN calls' : calls'[j].op \in PageOps
  <2>1. PICK i \in DOMAIN calls : calls[i].op \in PageOps
    BY <1>2, <1>8
  <2>2. PICK j \in 1 .. Len(calls) - 1 : Skip(k, j) = i
    BY <1>1, <1>8, <2>1, Skipping
  <2>3. j \in DOMAIN calls' /\ calls'[j].op = calls[i].op
    BY <1>1, <1>8, <2>2 DEF Removed, Replaced, Same
  <2> QED
    BY <2>1, <2>3
<1>9. ASSUME NEW k \in DOMAIN calls, Drops(k) \/ Leaves(k)
      PROVE  \E j \in DOMAIN calls' : calls'[j].op \in PageOps
  BY <1>8, <1>9 DEF Drops, Leaves
<1>10. ASSUME NEW k \in DOMAIN calls, Goes(k)
       PROVE  \E j \in DOMAIN calls' : calls'[j].op \in PageOps
  <2>1. hud = "up"
    BY <1>10 DEF Goes
  <2>2. CASE calls[k].op \notin PageOps
    BY <1>8, <1>10, <2>1, <2>2 DEF Goes
  <2>3. CASE calls[k].op \in PageOps
    <3>1. calls[k].op = "createUser" /\ Replaced(k, Follow(k, "register"))
      BY <1>10, <2>3 DEF Goes, PageOps
    <3>2. Follow(k, "register").op = "register"
      BY <1>0, <3>1, FollowFields DEF Ops, LoginOps, PageOps
    <3>3. Len(calls) \in DOMAIN calls' /\ calls'[Len(calls)].op = "register"
      BY <1>1, <3>1, <3>2 DEF Replaced, Same
    <3> QED
      BY <3>3 DEF PageOps
  <2> QED
    BY <2>2, <2>3
<1>11. ASSUME NEW k \in DOMAIN calls, Fetched(k) \/ WasSeen(k)
       PROVE  \E j \in DOMAIN calls' : calls'[j].op \in PageOps
  <2>1. /\ hud' = hud /\ calls[k].op \in {"fetch", "setSeen"} /\ Removed(k)
    BY <1>11 DEF Fetched, WasSeen, fetchCompleted, setSeenCompleted, Completes, loginVars, hudVars
  <2> QED
    BY <1>8, <2>1 DEF PageOps
<1> QED
  BY <1>0, <1>3, <1>4, <1>5, <1>7, <1>9, <1>10, <1>11 DEF Kind

\* A HUD that is up has a call in flight whose block will take it down, for any
\* number of sign-ins at once and calls that overtake each other.
THEOREM LoaderIsAwaited == Spec => []HudIsAwaited
<1>1. Init => HudIsAwaited
  BY DEF Init, HudIsAwaited
<1> QED
  BY <1>1, InitTypeOK, StepTypeOK, StepHud, PTL DEF Spec

--------------------------------------------------------------------------------
(* The lists of calls after a step *)

\* modal changes with the assignments to user only from "none".
LEMMA HomeBlocks ==
  ASSUME NEW k, Fetched(k) \/ WasSeen(k)
  PROVE  modal' = modal \/ (modal = "none" /\ modal' = "onboarding")
  BY DEF Fetched, WasSeen, fetchCompleted, setSeenCompleted, setUser, presentOnboardingIfNeccessary

\* A launch leaves at most a fetch in flight.
LEMMA Launched ==
  ASSUME launch
  PROVE  /\ \A j \in DOMAIN calls' :
              j = 1 /\ calls'[j].op = "fetch" /\ calls'[j].uid = currentUser /\ calls'[j].answer = "pending"
         /\ currentUser # NoUser => 1 \in DOMAIN calls'
<1>1. CASE currentUser = NoUser
  <2>1. calls' = <<>>
    BY <1>1 DEF launch, fetchUser
  <2> QED
    BY <1>1, <2>1
<1>2. CASE currentUser # NoUser
  <2>1. calls' = <<Call("fetch", currentUser)>>
    BY <1>2 DEF launch, fetchUser
  <2>2. DOMAIN calls' = {1} /\ calls'[1] = Call("fetch", currentUser)
    BY <2>1
  <2> QED
    BY <2>2 DEF Call
<1> QED
  BY <1>1, <1>2

\* Where the calls come from after one of them has been removed, and after
\* one of them has been removed and c added.
LEMMA AfterRemoved ==
  ASSUME CallTypes, NEW k \in DOMAIN calls, Removed(k)
  PROVE  \A j \in DOMAIN calls' :
           Skip(k, j) \in DOMAIN calls /\ Skip(k, j) # k /\ Same(calls'[j], calls[Skip(k, j)])
<1>1. Len(calls) \in Nat /\ DOMAIN calls = 1 .. Len(calls)
  BY DEF CallTypes
<1>2. \A j \in 1 .. Len(calls) - 1 : Skip(k, j) \in 1 .. Len(calls) /\ Skip(k, j) # k
  BY <1>1, Skipping
<1> QED
  BY <1>1, <1>2 DEF Removed

LEMMA AfterReplaced ==
  ASSUME CallTypes, NEW k \in DOMAIN calls, NEW c, Replaced(k, c)
  PROVE  \A j \in DOMAIN calls' :
           \/ Same(calls'[j], c)
           \/ Skip(k, j) \in DOMAIN calls /\ Skip(k, j) # k /\ Same(calls'[j], calls[Skip(k, j)])
<1>1. Len(calls) \in Nat /\ DOMAIN calls = 1 .. Len(calls)
  BY DEF CallTypes
<1>2. \A j \in 1 .. Len(calls) - 1 : Skip(k, j) \in 1 .. Len(calls) /\ Skip(k, j) # k
  BY <1>1, Skipping
<1>3. \A j \in DOMAIN calls' : j \in 1 .. Len(calls) - 1 \/ j = Len(calls)
  BY <1>1 DEF Replaced
<1> QED
  BY <1>1, <1>2, <1>3 DEF Replaced

--------------------------------------------------------------------------------
(* Who sees Home *)

SomeAccepted == \E k \in DOMAIN calls : Accepted(calls[k])

\* A sign-in is accepted, which makes somebody the current user, or one was
\* accepted before.
LEMMA AcceptedBefore ==
  ASSUME CallTypes, Kind
  PROVE  SomeAccepted' => currentUser' # NoUser \/ (SomeAccepted /\ ~launch)
<1> DEFINE Goal == SomeAccepted' => SomeAccepted
<1>1. Len(calls) \in Nat /\ DOMAIN calls = 1 .. Len(calls)
  BY DEF CallTypes
<1>2. ASSUME Quietly PROVE Goal
  BY <1>2 DEF Quietly, SomeAccepted
<1>3. ASSUME launch PROVE ~SomeAccepted'
  BY <1>3, Launched DEF SomeAccepted, Accepted
<1>4. ASSUME Closes PROVE Goal
  <2>1. ~Accepted(Call("setSeen", currentUser))
    BY DEF Call, Accepted
  <2> QED
    BY <1>1, <1>4, <2>1 DEF Closes, Added, SomeAccepted
<1>5. ASSUME Traps PROVE Goal
  BY <1>5 DEF Traps, SomeAccepted
<1>6. ASSUME NEW c, Submits(c) PROVE Goal
  <2>1. ~Accepted(c)
    BY <1>6 DEF Submits, Accepted
  <2> QED
    BY <1>1, <1>6, <2>1 DEF Submits, Added, SomeAccepted
<1>7. ASSUME NEW k \in DOMAIN calls, NEW c, Changed(k, c), Accepted(c) => Accepted(calls[k])
      PROVE  Goal
  BY <1>7 DEF Changed, SomeAccepted
<1>8. ASSUME NEW k \in DOMAIN calls, Ends(k) PROVE Goal
  <2>1. \A c : c.op = calls[k].op /\ (c.answer = "ok" => c.op = "googleUI") => ~Accepted(c)
    BY <1>8 DEF Ends, Accepted, AuthOps
  <2> QED
    BY <1>7, <1>8, <2>1 DEF Ends
<1>9. ASSUME NEW k \in DOMAIN calls, Writes(k) \/ Reads(k) PROVE Goal
  <2>1. calls[k].op \in {"register", "googleProfile", "setSeen", "snapshot", "fetch"}
    BY <1>9 DEF Writes, databaseWrites, Reads, databaseReads, Pending
  <2>2. \A a : Accepted(Ans(k, a)) => Accepted(calls[k])
    BY <2>1, AnsOp DEF Accepted
  <2> QED
    BY <1>7, <1>9, <2>2 DEF Writes, Reads
<1>10. ASSUME NEW k \in DOMAIN calls, Accepts(k) PROVE currentUser' # NoUser \/ Goal
  <2>1. calls[k] \in Calls
    BY DEF CallTypes
  <2>2. CASE calls[k].op = "resetPassword"
    <3>1. ~Accepted(Ans(k, "ok"))
      BY <2>2, AnsOp DEF Accepted
    <3> QED
      BY <1>7, <1>10, <3>1 DEF Accepts
  <2>3. CASE calls[k].op # "resetPassword"
    <3>1. currentUser' = calls[k].uid /\ calls[k].uid \in Users
      BY <1>10, <2>1, <2>3, CallFields DEF Accepts, authAccepts, Pending
    <3> QED
      BY <3>1, UsersAssumption
  <2> QED
    BY <2>2, <2>3
<1>11. ASSUME NEW k \in DOMAIN calls, NEW c, Removed(k) \/ Replaced(k, c),
              Accepted(c) => Accepted(calls[k])
       PROVE  Goal
  BY <1>11, AfterRemoved, AfterReplaced DEF SomeAccepted, Accepted, Same
<1>12. ASSUME NEW k \in DOMAIN calls, Goes(k) PROVE Goal
  <2>1. calls[k] \in Calls
    BY DEF CallTypes
  <2>2. PICK op \in {"register", "credential", "snapshot", "googleProfile"} :
          /\ op = "credential" \/ Accepted(calls[k])
          /\ Replaced(k, Follow(k, op))
    BY <1>12 DEF Goes, Accepted
  <2>3. Follow(k, op).op = op /\ Follow(k, op).answer = "pending"
    BY <2>1 DEF Follow, Calls
  <2>4. Accepted(Follow(k, op)) => Accepted(calls[k])
    BY <2>2, <2>3 DEF Accepted
  <2> QED
    BY <1>11, <2>2, <2>4
<1>13. ASSUME NEW k \in DOMAIN calls, Drops(k) \/ Leaves(k) \/ Fetched(k) \/ WasSeen(k) PROVE Goal
  <2>1. ~Accepted(Call("fetch", currentUser))
    BY DEF Call, Accepted
  <2> QED
    BY <1>11, <1>13, <2>1 DEF Drops, Leaves, Fetched, WasSeen
<1> QED
  BY <1>2, <1>3, <1>4, <1>5, <1>6, <1>8, <1>9, <1>10, <1>12, <1>13 DEF Kind

\* Once Firebase has accepted a sign-in, somebody is signed in until the login
\* pages are left, unless he signed out in the meantime.
AcceptedKnown == SomeAccepted => currentUser # NoUser \/ overtaken

\* A refused credential is on record until somebody signs in.
Refusal ==
  currentUser = NoUser /\ (\E k \in DOMAIN calls : calls[k].op = "credential" /\ calls[k].answer = "failed")
    => refused

LEMMA StepKnown ==
  ASSUME CallTypes, AcceptedKnown, Kind, MCNext
  PROVE  AcceptedKnown'
<1> SUFFICES ASSUME SomeAccepted', currentUser' = NoUser PROVE overtaken'
  BY DEF AcceptedKnown
<1>1. SomeAccepted /\ ~launch
  BY AcceptedBefore
<1>2. SignIns # {}
  BY <1>1 DEF SomeAccepted, Accepted, SignIns, InFlight, LoginOps, PageOps
<1> QED
  BY <1>1, <1>2 DEF AcceptedKnown, MCNext

LEMMA StepRefused ==
  ASSUME CallTypes, ServerTypes, AcceptedKnown, Refusal, LoginUnlessRefused, Kind, MCNext
  PROVE  Refusal' /\ LoginUnlessRefused'
<1>1. Refusal'
  <2>1. CASE launch
    BY <2>1, Launched DEF Refusal
  <2>2. CASE ~launch
    BY <2>2 DEF MCNext, Refusal
  <2> QED
    BY <2>1, <2>2
<1>2. SUFFICES ASSUME currentUser' = NoUser, modal' \notin {"login", "trapped"}
               PROVE  refused' \/ overtaken'
  BY <1>1 DEF LoginUnlessRefused, SignedOutSeesLogin
<1>3. ~launch
  BY <1>2 DEF launch, authenticateUser
<1>4. (refused => refused') /\ (overtaken => overtaken')
  BY <1>2, <1>3 DEF MCNext
<1>5. CASE currentUser = NoUser /\ modal \in {"login", "trapped"}
  <2>1. PICK k \in DOMAIN calls : Leaves(k)
    <3>1. ~(Quietly \/ Closes \/ Traps)
      BY <1>2, <1>5 DEF Quietly, Closes, Traps
    <3>2. \A c : ~Submits(c)
      BY <1>2, <1>5 DEF Submits
    <3>3. \A k \in DOMAIN calls : ~(Ends(k) \/ Accepts(k) \/ Writes(k) \/ Reads(k) \/ Goes(k) \/ Drops(k))
      BY <1>2, <1>5 DEF Ends, Accepts, authAccepts, Writes, databaseWrites, Reads, databaseReads,
         Goes, Drops
    <3>4. \A k \in DOMAIN calls : ~(Fetched(k) \/ WasSeen(k))
      BY <1>2, <1>5, HomeBlocks
    <3> QED
      BY <1>3, <3>1, <3>2, <3>3, <3>4 DEF Kind
  <2>2. overtaken \/ ~Accepted(calls[k])
    BY <1>5 DEF AcceptedKnown, SomeAccepted
  <2>3. overtaken \/ refused
    BY <1>5, <2>1, <2>2 DEF Leaves, Refusal
  <2> QED
    BY <1>4, <2>3
<1>6. CASE currentUser # NoUser
  <2>1. Quietly \/ \E k \in DOMAIN calls : Accepts(k)
    <3>1. ~(Closes \/ Traps)
      BY <1>2, <1>6 DEF Closes, Traps, serverVars
    <3>2. \A c : ~Submits(c)
      BY <1>2, <1>6 DEF Submits
    <3>3. \A k \in DOMAIN calls : ~(Ends(k) \/ Writes(k) \/ Reads(k) \/ Goes(k) \/ Drops(k) \/ Leaves(k))
      BY <1>2, <1>6 DEF Ends, Writes, databaseWrites, Reads, databaseReads, Goes, Drops, Leaves,
         serverVars
    <3>4. \A k \in DOMAIN calls : ~(Fetched(k) \/ WasSeen(k))
      BY <1>2, <1>6 DEF Fetched, WasSeen, fetchCompleted, setSeenCompleted, serverVars
    <3> QED
      BY <1>3, <3>1, <3>2, <3>3, <3>4 DEF Kind
  <2>2. ASSUME NEW k \in DOMAIN calls, Accepts(k) PROVE FALSE
    <3>1. calls[k] \in Calls
      BY DEF CallTypes
    <3>2. calls[k].op # "resetPassword" => calls[k].uid \in Users
      BY <2>2, <3>1, CallFields DEF Accepts, authAccepts, Pending
    <3> QED
      BY <1>2, <1>6, <2>2, <3>2, UsersAssumption DEF Accepts, authAccepts, Pending
  <2> QED
    BY <1>2, <1>6, <2>1, <2>2 DEF Quietly
<1>7. CASE currentUser = NoUser /\ modal \notin {"login", "trapped"}
  BY <1>4, <1>7 DEF LoginUnlessRefused, SignedOutSeesLogin
<1> QED
  BY <1>5, <1>6, <1>7

\* The history changes nothing about the session.
LEMMA HistoryOnly == [MCNext]_mcVars => [Next]_vars
  BY DEF MCNext, mcVars

\* Nobody who is not signed in gets past the login pages, for any number of
\* sign-ins in flight and in any order of signing in and out, of late blocks,
\* crashes and restarts; unless Firebase has refused his Google credential, or
\* he signed out while a sign-in was in flight.
THEOREM LoginGuardsHome == MCSpec => []LoginUnlessRefused
<1> DEFINE LoginInv == TypeOK /\ AcceptedKnown /\ Refusal /\ LoginUnlessRefused
<1>1. MCInit => LoginInv
  <2> SUFFICES ASSUME MCInit PROVE LoginInv
    OBVIOUS
  <2>1. TypeOK /\ calls = <<>> /\ modal = "login"
    BY InitTypeOK DEF MCInit, Init
  <2> QED
    BY <2>1 DEF AcceptedKnown, SomeAccepted, Refusal, LoginUnlessRefused, SignedOutSeesLogin
<1>2. LoginInv /\ [MCNext]_mcVars => LoginInv'
  <2> SUFFICES ASSUME LoginInv, [MCNext]_mcVars PROVE LoginInv'
    OBVIOUS
  <2>1. TypeOK' /\ CallTypes /\ ServerTypes /\ Kind
    BY HistoryOnly, StepTypeOK, TypeParts, Kinds
  <2>2. CASE MCNext
    BY <2>1, <2>2, StepKnown, StepRefused
  <2>3. CASE UNCHANGED mcVars
    BY <2>1, <2>3 DEF mcVars, vars, serverVars, AcceptedKnown, SomeAccepted, Refusal,
       LoginUnlessRefused, SignedOutSeesLogin
  <2> QED
    BY <2>2, <2>3
<1> QED
  BY <1>1, <1>2, PTL DEF MCSpec

--------------------------------------------------------------------------------
(* No profile is written twice *)

\* Whoever is signed in, has a record, or has a call in flight that only a
\* signed-in user makes, has an account.
CallersKnown ==
  \A k \in DOMAIN calls :
    Accepted(calls[k]) \/ calls[k].op = "setSeen" => accounts[calls[k].uid] # "none"

HasAccount ==
  /\ CallersKnown
  /\ currentUser # NoUser => accounts[currentUser] # "none"
  /\ \A u \in Users : profile[u] # "none" => accounts[u] # "none"

\* A sign-in that writes, or will write, a whole profile.
Fresh(c) ==
  \/ c.op = "createUser" /\ c.answer = "ok"
  \/ c.op \in {"register", "googleProfile"} /\ c.answer = "pending"
  \/ c.op = "snapshot" /\ c.answer = "none"

\* It does so for a user who has at most the flag, if no second sign-in of this
\* user was in flight.
FreshWrite ==
  \A k \in DOMAIN calls :
    Fresh(calls[k]) /\ calls[k].uid \notin twice => profile[calls[k].uid] \in {"none", "flagOnly"}

Once == \A u \in Users \ twice : ~SignedInTwice(u)

LEMMA FreshOps == \A c : Fresh(c) => c.op \in LoginOps /\ Accepted(c)
  BY DEF Fresh, Accepted, LoginOps, PageOps

\* Accounts are never deleted.
LEMMA AccountsStay ==
  ASSUME CallTypes, ServerTypes, Kind
  PROVE  /\ \A u \in Users : accounts[u] # "none" => accounts'[u] # "none"
         /\ accounts' = accounts \/ \E k \in DOMAIN calls : Accepts(k)
<1>1. CASE Quietly \/ launch \/ Closes \/ Traps
  BY <1>1 DEF Quietly, launch, Closes, Traps, serverVars
<1>2. ASSUME NEW c, Submits(c) PROVE UNCHANGED accounts
  BY <1>2 DEF Submits
<1>3. ASSUME NEW k \in DOMAIN calls,
             Ends(k) \/ Writes(k) \/ Reads(k) \/ Goes(k) \/ Drops(k) \/ Leaves(k)
      PROVE  UNCHANGED accounts
  BY <1>3 DEF Ends, Writes, databaseWrites, Reads, databaseReads, Goes, Drops, Leaves, serverVars
<1>4. ASSUME NEW k \in DOMAIN calls, Fetched(k) \/ WasSeen(k) PROVE UNCHANGED accounts
  BY <1>4 DEF Fetched, WasSeen, fetchCompleted, setSeenCompleted, serverVars
<1>5. ASSUME NEW k \in DOMAIN calls, Accepts(k)
      PROVE  \A u \in Users : accounts[u] # "none" => accounts'[u] # "none"
  BY <1>5 DEF Accepts, authAccepts, ServerTypes
<1> QED
  BY <1>1, <1>2, <1>3, <1>4, <1>5 DEF Kind

\* What an accepted request changes.
LEMMA Acceptance ==
  ASSUME CallTypes, ServerTypes, NEW k \in DOMAIN calls, Accepts(k)
  PROVE  /\ calls[k].op \in AuthOps /\ calls[k].op # "googleUI" /\ calls[k].answer = "pending"
         /\ UNCHANGED <<profile, modal>> /\ Changed(k, Ans(k, "ok"))
         /\ calls[k].op = "resetPassword" => UNCHANGED currentUser
         /\ calls[k].op # "resetPassword" =>
              /\ calls[k].uid \in Users
              /\ currentUser' = calls[k].uid
              /\ accounts'[calls[k].uid] # "none"
         /\ calls[k].op = "createUser" => accounts[calls[k].uid] = "none"
<1>1. calls[k] \in Calls
  BY DEF CallTypes
<1>2. calls[k].op \in {"logIn", "createUser", "resetPassword", "credential"}
  BY DEF Accepts, authAccepts, Pending
<1>3. calls[k].op # "resetPassword" => calls[k].uid \in Users
  BY <1>1, <1>2, CallFields
<1> QED
  BY <1>2, <1>3 DEF Accepts, authAccepts, Pending, ServerTypes, AuthOps

LEMMA StepCallers ==
  ASSUME CallTypes, ServerTypes, HasAccount, Kind
  PROVE  CallersKnown'
<1> DEFINE Needs(c) == Accepted(c) \/ c.op = "setSeen"
<1>0. \A u \in Users : accounts[u] # "none" => accounts'[u] # "none"
  BY AccountsStay
<1>1. Len(calls) \in Nat /\ DOMAIN calls = 1 .. Len(calls)
  BY DEF CallTypes
<1>2. \A k \in DOMAIN calls : Needs(calls[k]) => calls[k].uid \in Users /\ accounts'[calls[k].uid] # "none"
  <2> SUFFICES ASSUME NEW k \in DOMAIN calls, Needs(calls[k])
               PROVE  calls[k].uid \in Users /\ accounts'[calls[k].uid] # "none"
    OBVIOUS
  <2>1. calls[k] \in Calls
    BY DEF CallTypes
  <2>2. calls[k].uid \in Users
    BY <2>1, CallFields DEF Accepted
  <2> QED
    BY <1>0, <2>2 DEF HasAccount, CallersKnown
<1>3. SUFFICES \A k \in DOMAIN calls' : Needs(calls'[k]) => accounts'[calls'[k].uid] # "none"
  BY DEF CallersKnown
<1>4. currentUser # NoUser => accounts'[currentUser] # "none"
  BY <1>0 DEF HasAccount, ServerTypes
<1>5. \A c, d : Same(c, d) => (Needs(c) <=> Needs(d)) /\ c.uid = d.uid
  BY DEF Same, Accepted
<1>6. ~Needs(Call("fetch", currentUser)) /\ Call("setSeen", currentUser).uid = currentUser
  BY DEF Call, Accepted
<1>7. CASE Quietly
  BY <1>2, <1>7 DEF Quietly
<1>8. CASE launch
  BY <1>8, Launched DEF Accepted
<1> HIDE DEF Needs
<1>9. CASE Closes
  BY <1>1, <1>2, <1>4, <1>6, <1>9 DEF Closes, Added
<1>10. CASE Traps
  BY <1>10 DEF Traps
<1>11. ASSUME NEW c, Submits(c) PROVE \A k \in DOMAIN calls' : Needs(calls'[k]) => accounts'[calls'[k].uid] # "none"
  <2>1. ~Needs(c)
    BY <1>11 DEF Submits, Accepted, Needs
  <2> QED
    BY <1>1, <1>2, <1>11, <2>1 DEF Submits, Added
<1>12. ASSUME NEW k \in DOMAIN calls, NEW c, Changed(k, c), Needs(c) => accounts'[c.uid] # "none"
       PROVE  \A j \in DOMAIN calls' : Needs(calls'[j]) => accounts'[calls'[j].uid] # "none"
  BY <1>2, <1>12 DEF Changed
<1>13. ASSUME NEW k \in DOMAIN calls, Ends(k)
       PROVE  \A j \in DOMAIN calls' : Needs(calls'[j]) => accounts'[calls'[j].uid] # "none"
  <2>1. \A c : c.op = calls[k].op /\ (c.answer = "ok" => c.op = "googleUI") => ~Needs(c)
    BY <1>13 DEF Ends, Accepted, AuthOps, Needs
  <2> QED
    BY <1>12, <1>13, <2>1 DEF Ends
<1>14. ASSUME NEW k \in DOMAIN calls, Writes(k) \/ Reads(k)
       PROVE  \A j \in DOMAIN calls' : Needs(calls'[j]) => accounts'[calls'[j].uid] # "none"
  <2>1. calls[k].op \in {"register", "googleProfile", "setSeen", "snapshot", "fetch"}
    BY <1>14 DEF Writes, databaseWrites, Reads, databaseReads, Pending
  <2>2. \A a : Ans(k, a).uid = calls[k].uid /\ (Needs(Ans(k, a)) => Needs(calls[k]))
    BY <2>1, AnsOp DEF Accepted, Needs
  <2> QED
    BY <1>2, <1>12, <1>14, <2>2 DEF Writes, Reads
<1>15. ASSUME NEW k \in DOMAIN calls, Accepts(k)
       PROVE  \A j \in DOMAIN calls' : Needs(calls'[j]) => accounts'[calls'[j].uid] # "none"
  <2>1. Changed(k, Ans(k, "ok")) /\ (calls[k].op # "resetPassword" => accounts'[calls[k].uid] # "none")
    BY <1>15, Acceptance
  <2>2. Ans(k, "ok").uid = calls[k].uid /\ (Needs(Ans(k, "ok")) => calls[k].op # "resetPassword")
    BY AnsOp DEF Accepted, Needs
  <2> QED
    BY <1>12, <2>1, <2>2
<1>16. ASSUME NEW k \in DOMAIN calls, NEW c, Removed(k) \/ Replaced(k, c),
              Needs(c) => accounts'[c.uid] # "none"
       PROVE  \A j \in DOMAIN calls' : Needs(calls'[j]) => accounts'[calls'[j].uid] # "none"
  BY <1>2, <1>5, <1>16, AfterRemoved, AfterReplaced
<1>17. ASSUME NEW k \in DOMAIN calls, Goes(k)
       PROVE  \A j \in DOMAIN calls' : Needs(calls'[j]) => accounts'[calls'[j].uid] # "none"
  <2>1. calls[k] \in Calls
    BY DEF CallTypes
  <2>2. PICK op \in {"register", "credential", "snapshot", "googleProfile"} :
          /\ op = "credential" \/ Accepted(calls[k])
          /\ Replaced(k, Follow(k, op))
    BY <1>17 DEF Goes, Accepted
  <2>3. Follow(k, op).op = op /\ Follow(k, op).answer = "pending" /\ Follow(k, op).uid = calls[k].uid
    BY <2>1 DEF Follow, Calls
  <2>4. Needs(Follow(k, op)) => Needs(calls[k])
    BY <2>2, <2>3 DEF Accepted, Needs
  <2> QED
    BY <1>2, <1>16, <2>2, <2>3, <2>4
<1>18. ASSUME NEW k \in DOMAIN calls, Drops(k) \/ Leaves(k) \/ Fetched(k) \/ WasSeen(k)
       PROVE  \A j \in DOMAIN calls' : Needs(calls'[j]) => accounts'[calls'[j].uid] # "none"
  BY <1>6, <1>16, <1>18 DEF Drops, Leaves, Fetched, WasSeen
<1> QED
  BY <1>7, <1>8, <1>9, <1>10, <1>11, <1>13, <1>14, <1>15, <1>17, <1>18 DEF Kind

\* The two other things that change on the server.
LEMMA ServerStays ==
  ASSUME Kind
  PROVE  /\ profile' = profile \/ \E k \in DOMAIN calls : Writes(k)
         /\ currentUser' \in {currentUser, NoUser} \/ \E k \in DOMAIN calls : Accepts(k)
<1>1. CASE Quietly \/ launch \/ Closes \/ Traps
  BY <1>1 DEF Quietly, launch, Closes, Traps, serverVars
<1>2. ASSUME NEW c, Submits(c) PROVE UNCHANGED <<profile, currentUser>>
  BY <1>2 DEF Submits
<1>3. ASSUME NEW k \in DOMAIN calls, Ends(k) \/ Reads(k) \/ Goes(k) \/ Drops(k) \/ Leaves(k)
      PROVE  UNCHANGED <<profile, currentUser>>
  BY <1>3 DEF Ends, Reads, databaseReads, Goes, Drops, Leaves, serverVars
<1>4. ASSUME NEW k \in DOMAIN calls, Fetched(k) \/ WasSeen(k)
      PROVE  UNCHANGED <<profile, currentUser>>
  BY <1>4 DEF Fetched, WasSeen, fetchCompleted, setSeenCompleted, serverVars
<1>5. \A k \in DOMAIN calls : Accepts(k) => profile' = profile
  BY DEF Accepts, authAccepts
<1>6. \A k \in DOMAIN calls : Writes(k) => currentUser' = currentUser
  BY DEF Writes, databaseWrites
<1> QED
  BY <1>1, <1>2, <1>3, <1>4, <1>5, <1>6 DEF Kind

\* What a write changes: a whole profile is new, a flag keeps what was there.
LEMMA Writing ==
  ASSUME CallTypes, ServerTypes, NEW k \in DOMAIN calls, Writes(k)
  PROVE  /\ calls[k].op \in {"register", "googleProfile", "setSeen"} /\ calls[k].answer = "pending"
         /\ calls[k].uid \in Users
         /\ UNCHANGED <<accounts, currentUser, homeVars, modal>>
         /\ \A u \in Users : u # calls[k].uid => profile'[u] = profile[u]
         /\ calls[k].op # "setSeen" => profile'[calls[k].uid] \in {profile[calls[k].uid], "new"}
         /\ calls[k].op = "setSeen" => \/ profile' = profile
                                       \/ /\ profile[calls[k].uid] \in {"new", "seen"}
                                          /\ profile'[calls[k].uid] = "seen"
                                       \/ /\ profile[calls[k].uid] \in {"none", "flagOnly"}
                                          /\ profile'[calls[k].uid] = "flagOnly"
<1>1. calls[k] \in Calls
  BY DEF CallTypes
<1>2. calls[k].op \in {"register", "googleProfile", "setSeen"} /\ calls[k].answer = "pending"
  BY DEF Writes, databaseWrites, Pending
<1>3. calls[k].uid \in Users
  BY <1>1, <1>2, CallFields
<1>4. profile[calls[k].uid] \in Records
  BY <1>3 DEF ServerTypes
<1>5. UNCHANGED <<accounts, currentUser, homeVars, modal>>
  BY DEF Writes, databaseWrites
<1> QED
  BY <1>2, <1>3, <1>4, <1>5 DEF Writes, databaseWrites, Pending, ServerTypes, Records

LEMMA StepAccount ==
  ASSUME CallTypes, ServerTypes, HasAccount, Kind
  PROVE  HasAccount'
<1>1. CallersKnown'
  BY StepCallers
<1>2. \A u \in Users : accounts[u] # "none" => accounts'[u] # "none"
  BY AccountsStay
<1>3. currentUser' # NoUser => accounts'[currentUser'] # "none"
  <2>1. CASE currentUser' \in {currentUser, NoUser}
    BY <1>2, <2>1 DEF HasAccount, ServerTypes
  <2>2. ASSUME NEW k \in DOMAIN calls, Accepts(k)
        PROVE  currentUser' # NoUser => accounts'[currentUser'] # "none"
    <3>1. CASE calls[k].op = "resetPassword"
      BY <2>1, <2>2, <3>1, Acceptance
    <3>2. CASE calls[k].op # "resetPassword"
      BY <2>2, <3>2, Acceptance
    <3> QED
      BY <3>1, <3>2
  <2> QED
    BY <2>1, <2>2, ServerStays
<1>4. \A u \in Users : profile'[u] # "none" => accounts'[u] # "none"
  <2>1. CASE profile' = profile
    BY <1>2, <2>1 DEF HasAccount
  <2>2. ASSUME NEW k \in DOMAIN calls, Writes(k)
        PROVE  \A u \in Users : profile'[u] # "none" => accounts'[u] # "none"
    <3>1. accounts[calls[k].uid] # "none"
      BY <2>2, Writing DEF HasAccount, CallersKnown, Accepted
    <3>2. \A u \in Users : u # calls[k].uid => profile'[u] = profile[u]
      BY <2>2, Writing
    <3> QED
      BY <1>2, <3>1, <3>2 DEF HasAccount
  <2> QED
    BY <2>1, <2>2, ServerStays
<1> QED
  BY <1>1, <1>3, <1>4 DEF HasAccount

LEMMA StepFresh ==
  ASSUME CallTypes, ServerTypes, HasAccount, Once, FreshWrite, Kind, ~launch, twice \subseteq twice'
  PROVE  FreshWrite'
<1> DEFINE Bare(c, p) == c.uid \notin twice => p[c.uid] \in {"none", "flagOnly"}
           Goal == \A k \in DOMAIN calls' : Fresh(calls'[k]) => Bare(calls'[k], profile')
<1>1. Len(calls) \in Nat /\ DOMAIN calls = 1 .. Len(calls)
  BY DEF CallTypes
<1>2. \A k \in DOMAIN calls : Fresh(calls[k]) => Bare(calls[k], profile)
  BY DEF FreshWrite
<1>3. \A c, d, p : Same(c, d) => (Fresh(c) <=> Fresh(d)) /\ (Bare(c, p) <=> Bare(d, p))
  BY DEF Same, Fresh
<1>4. SUFFICES Goal
  BY <1>4 DEF FreshWrite
<1>5. ~Fresh(Call("fetch", currentUser)) /\ ~Fresh(Call("setSeen", currentUser))
  BY DEF Call, Fresh
<1>6. CASE Quietly
  BY <1>2, <1>6 DEF Quietly
<1>7. CASE Traps
  BY <1>7 DEF Traps
<1> HIDE DEF Bare
<1>8. CASE Closes
  BY <1>1, <1>2, <1>5, <1>8 DEF Closes, Added, serverVars
<1>9. ASSUME NEW c, Submits(c) PROVE Goal
  <2>1. ~Fresh(c) /\ UNCHANGED profile
    BY <1>9 DEF Submits, Fresh
  <2> QED
    BY <1>1, <1>2, <1>9, <2>1 DEF Submits, Added
<1>10. ASSUME NEW k \in DOMAIN calls, NEW c, Changed(k, c), Fresh(c) => Bare(c, profile),
              UNCHANGED profile
       PROVE  Goal
  BY <1>2, <1>10 DEF Changed
<1>11. ASSUME NEW k \in DOMAIN calls, Ends(k) PROVE Goal
  <2>1. PICK c : Changed(k, c) /\ c.op = calls[k].op /\ (c.answer = "ok" => c.op = "googleUI")
    BY <1>11 DEF Ends
  <2>2. calls[k].op \in AuthOps /\ UNCHANGED profile
    BY <1>11 DEF Ends, serverVars
  <2>3. ~Fresh(c)
    BY <2>1, <2>2 DEF Fresh, AuthOps
  <2> QED
    BY <1>10, <2>1, <2>2, <2>3
<1>12. ASSUME NEW k \in DOMAIN calls, Accepts(k) PROVE Goal
  <2> DEFINE c == Ans(k, "ok")
  <2>1. Changed(k, c) /\ UNCHANGED profile
    BY <1>12, Acceptance
  <2>2. c.op = calls[k].op /\ c.uid = calls[k].uid /\ c.answer = "ok"
    BY AnsOp
  <2> HIDE DEF c
  <2>3. ASSUME Fresh(c) PROVE Bare(c, profile)
    <3>1. calls[k].op = "createUser"
      BY <2>2, <2>3 DEF Fresh
    <3>2. accounts[c.uid] = "none" /\ c.uid \in Users
      BY <1>12, <2>2, <3>1, Acceptance
    <3> QED
      BY <3>2 DEF HasAccount, Bare
  <2> QED
    BY <1>10, <2>1, <2>3
<1>13. ASSUME NEW k \in DOMAIN calls, Reads(k) PROVE Goal
  <2>1. PICK a \in Records \cup {"failed"} :
          /\ Changed(k, Ans(k, a))
          /\ a = profile[calls[k].uid] \/ (a = "failed" /\ calls[k].uid # currentUser)
    BY <1>13 DEF Reads
  <2> DEFINE c == Ans(k, a)
  <2>2. c.op = calls[k].op /\ c.uid = calls[k].uid /\ c.answer = a
    BY AnsOp
  <2>3. UNCHANGED profile /\ calls[k].op \in {"snapshot", "fetch"}
    BY <1>13 DEF Reads, databaseReads, Pending, serverVars
  <2>4. Changed(k, c)
    BY <2>1
  <2> HIDE DEF c
  <2>5. Fresh(c) => Bare(c, profile)
    BY <2>1, <2>2, <2>3 DEF Fresh, Bare
  <2> QED
    BY <1>10, <2>3, <2>4, <2>5
<1>14. ASSUME NEW k \in DOMAIN calls, Writes(k) PROVE Goal
  <2>1. PICK a \in {"ok", "failed"} : Changed(k, Ans(k, a))
    BY <1>14 DEF Writes
  <2>2. /\ calls[k].op \in {"register", "googleProfile", "setSeen"} /\ calls[k].answer = "pending"
        /\ calls[k].uid \in Users
        /\ \A u \in Users : u # calls[k].uid => profile'[u] = profile[u]
    BY <1>14, Writing
  <2> DEFINE c == Ans(k, a)
  <2>3. c.op = calls[k].op /\ c.answer # "pending" /\ Changed(k, c)
    BY <2>1, AnsOp
  <2> HIDE DEF c
  <2>4. ~Fresh(c)
    BY <2>2, <2>3 DEF Fresh
  <2>5. ASSUME NEW j \in DOMAIN calls, j # k, Fresh(calls[j]) PROVE Bare(calls[j], profile')
    <3>1. calls[j] \in Calls
      BY DEF CallTypes
    <3>2. calls[j].uid \in Users
      BY <2>5, <3>1, CallFields DEF Fresh
    <3>3. CASE calls[j].uid # calls[k].uid
      BY <1>2, <2>2, <2>5, <3>2, <3>3 DEF Bare
    <3>4. CASE calls[j].uid = calls[k].uid /\ calls[k].op = "setSeen"
      BY <1>2, <1>14, <2>2, <2>5, <3>2, <3>4, Writing DEF Bare
    <3>5. CASE calls[j].uid = calls[k].uid /\ calls[k].op # "setSeen"
      <4>1. j \in SignIns /\ k \in SignIns
        BY <2>2, <2>5, <3>5, FreshOps DEF SignIns, InFlight, LoginOps, PageOps
      <4>2. SignedInTwice(calls[j].uid)
        BY <2>5, <3>5, <4>1 DEF SignedInTwice
      <4> QED
        BY <3>2, <4>2 DEF Once, Bare
    <3> QED
      BY <3>3, <3>4, <3>5
  <2> QED
    BY <2>3, <2>4, <2>5 DEF Changed
<1>15. ASSUME NEW k \in DOMAIN calls, NEW c, Removed(k) \/ Replaced(k, c),
              Fresh(c) => Bare(c, profile), UNCHANGED profile
       PROVE  Goal
  BY <1>2, <1>3, <1>15, AfterRemoved, AfterReplaced
<1>16. ASSUME NEW k \in DOMAIN calls, Goes(k) PROVE Goal
  <2>1. calls[k] \in Calls
    BY DEF CallTypes
  <2>2. PICK op \in {"register", "credential", "snapshot", "googleProfile"} :
          /\ op \in {"register", "googleProfile"} => Fresh(calls[k])
          /\ Replaced(k, Follow(k, op))
    BY <1>16 DEF Goes, Fresh
  <2> DEFINE c == Follow(k, op)
  <2>3. c.op = op /\ c.answer = "pending" /\ c.uid = calls[k].uid /\ Replaced(k, c)
    BY <2>1, <2>2 DEF Follow, Calls
  <2> HIDE DEF c
  <2>4. Fresh(c) => Bare(c, profile)
    BY <1>2, <2>2, <2>3 DEF Fresh, Bare
  <2>5. UNCHANGED profile
    BY <1>16 DEF Goes, serverVars
  <2> QED
    BY <1>15, <2>3, <2>4, <2>5
<1>17. ASSUME NEW k \in DOMAIN calls, Drops(k) \/ Leaves(k) \/ Fetched(k) \/ WasSeen(k) PROVE Goal
  <2>1. UNCHANGED profile /\ (Removed(k) \/ Replaced(k, Call("fetch", currentUser)))
    BY <1>17 DEF Drops, Leaves, Fetched, WasSeen, fetchCompleted, setSeenCompleted, serverVars
  <2> QED
    BY <1>5, <1>15, <2>1
<1> QED
  BY <1>6, <1>7, <1>8, <1>9, <1>11, <1>12, <1>13, <1>14, <1>16, <1>17 DEF Kind

AccountInv == TypeOK /\ HasAccount

LEMMA InitAccount == Init => AccountInv
<1>1. Init => HasAccount
  BY DEF Init, HasAccount, CallersKnown
<1> QED
  BY <1>1, InitTypeOK DEF AccountInv

LEMMA StepAccountInv ==
  ASSUME AccountInv, [Next]_vars
  PROVE  AccountInv' /\ Kind
<1>1. TypeOK' /\ CallTypes /\ ServerTypes /\ Kind
  BY StepTypeOK, TypeParts, Kinds DEF AccountInv
<1> QED
  BY <1>1, StepAccount DEF AccountInv

ProfileInv == AccountInv /\ Once /\ FreshWrite

LEMMA StepProfile ==
  ASSUME ProfileInv, [MCNext]_mcVars
  PROVE  ProfileInv'
<1>1. AccountInv' /\ Kind
  BY HistoryOnly, StepAccountInv DEF ProfileInv
<1>2. CASE UNCHANGED mcVars
  BY <1>1, <1>2 DEF ProfileInv, mcVars, vars, serverVars, Once, SignedInTwice, SignIns, InFlight,
     FreshWrite
<1>3. CASE MCNext
  <2>1. Once'
    BY <1>3 DEF MCNext, Once
  <2>2. FreshWrite'
    <3>1. CASE launch
      BY <3>1, Launched DEF FreshWrite, Fresh
    <3>2. CASE ~launch
      <4>1. twice \subseteq twice'
        BY <1>3, <3>2 DEF MCNext
      <4>2. CallTypes /\ ServerTypes
        BY TypeParts DEF ProfileInv, AccountInv
      <4> QED
        BY <1>1, <3>2, <4>1, <4>2, StepFresh DEF ProfileInv, AccountInv
    <3> QED
      BY <3>1, <3>2
  <2> QED
    BY <1>1, <2>1, <2>2 DEF ProfileInv
<1> QED
  BY <1>2, <1>3

\* A user who has seen the onboarding is never made new again, in any order of
\* calls, answers, reconnects and crashes: whoever writes a whole profile has
\* found no record, or made the account, and nothing else writes one meanwhile,
\* unless a second sign-in of this user was in flight.
THEOREM NoProfileTwice == MCSpec => SeenStaysSeen
<1> DEFINE Kept == \A u \in Users \ twice' : profile[u] = "seen" => profile'[u] = "seen"
<1>1. MCInit => ProfileInv
  <2>1. MCInit => Once /\ FreshWrite
    BY DEF MCInit, Init, Once, SignedInTwice, SignIns, InFlight, FreshWrite
  <2> QED
    BY <2>1, InitAccount DEF MCInit, ProfileInv
<1>2. ProfileInv /\ [MCNext]_mcVars => [Kept]_mcVars
  <2> SUFFICES ASSUME ProfileInv, MCNext PROVE Kept
    OBVIOUS
  <2>1. Kind /\ CallTypes /\ ServerTypes
    BY StepAccountInv, TypeParts DEF ProfileInv, AccountInv, MCNext
  <2>2. CASE profile' = profile
    BY <2>2
  <2>3. ASSUME NEW k \in DOMAIN calls, Writes(k), ~launch PROVE Kept
    <3>1. /\ calls[k].op \in {"register", "googleProfile", "setSeen"} /\ calls[k].answer = "pending"
          /\ \A u \in Users : u # calls[k].uid => profile'[u] = profile[u]
      BY <2>1, <2>3, Writing
    <3>2. CASE calls[k].op = "setSeen"
      BY <2>1, <2>3, <3>1, <3>2, Writing
    <3>3. CASE calls[k].op # "setSeen"
      <4>1. twice \subseteq twice'
        BY <2>3 DEF MCNext
      <4>2. calls[k].uid \notin twice => profile[calls[k].uid] # "seen"
        BY <3>1, <3>3 DEF ProfileInv, FreshWrite, Fresh
      <4> QED
        BY <3>1, <4>1, <4>2
    <3> QED
      BY <3>2, <3>3
  <2>4. launch => profile' = profile
    BY DEF launch
  <2> QED
    BY <2>1, <2>2, <2>3, <2>4, ServerStays
<1>3. ProfileInv /\ [MCNext]_mcVars => ProfileInv'
  BY StepProfile
<1> QED
  BY <1>1, <1>2, <1>3, PTL DEF MCSpec, SeenStaysSeen

--------------------------------------------------------------------------------
(* What Home knows *)

\* Home greets the user it holds, once he has seen the onboarding.
Greets == user # NoUser /\ user.hasSeenOnboarding => welcome = user.uid

\* The youngest fetch that is in flight.
LastFetch(f) ==
  /\ f \in DOMAIN calls /\ calls[f].op = "fetch"
  /\ \A j \in DOMAIN calls : j > f => calls[j].op # "fetch"

Holds(u) == user # NoUser /\ user.uid = u /\ \A j \in DOMAIN calls : calls[j].op # "fetch"

Awaits(u) ==
  \E f \in DOMAIN calls :
    LastFetch(f) /\ calls[f].uid = u /\ calls[f].answer \notin {"none", "failed"}

\* A sign-in of u has been accepted and will make Home fetch the user.
Arrives(u) == \E k \in DOMAIN calls : calls[k].uid = u /\ Leads(calls[k])

\* As long as the connection lasts, Home holds the user who is signed in or is
\* going to get his record, and no other after it.
Known ==
  reconnects = 0 /\ modal # "trapped" /\ currentUser # NoUser /\ Complete(currentUser)
    => Holds(currentUser) \/ Awaits(currentUser) \/ Arrives(currentUser)

LEMMA StepGreets ==
  ASSUME HomeTypes, Greets, Kind
  PROVE  Greets'
<1>1. CASE UNCHANGED homeVars
  BY <1>1 DEF homeVars, Greets
<1>2. ASSUME NEW u, setUser(u) PROVE Greets'
  BY <1>2 DEF setUser, showWelcomeLabel, Greets
<1>3. CASE launch
  BY <1>3 DEF launch, Greets
<1>4. CASE Quietly \/ Closes \/ Traps
  BY <1>1, <1>4 DEF Quietly, Closes, Traps
<1>5. ASSUME NEW c, Submits(c) PROVE Greets'
  BY <1>1, <1>5 DEF Submits
<1>6. ASSUME NEW k \in DOMAIN calls,
             Ends(k) \/ Accepts(k) \/ Writes(k) \/ Reads(k) \/ Goes(k) \/ Drops(k) \/ Leaves(k)
      PROVE  Greets'
  BY <1>1, <1>6 DEF Ends, Accepts, authAccepts, Writes, databaseWrites, Reads, databaseReads,
     Goes, Drops, Leaves
<1>7. ASSUME NEW k \in DOMAIN calls, Fetched(k) \/ WasSeen(k) PROVE Greets'
  <2>1. UNCHANGED homeVars \/ \E u : setUser(u)
    BY <1>7 DEF Fetched, WasSeen, fetchCompleted, setSeenCompleted
  <2> QED
    BY <1>1, <1>2, <2>1
<1> QED
  BY <1>3, <1>4, <1>5, <1>6, <1>7 DEF Kind

\* A fetch that is not removed stays the youngest one.
LEMMA LaterStays ==
  ASSUME CallTypes, NEW k \in DOMAIN calls, NEW c, Removed(k) \/ (Replaced(k, c) /\ c.op # "fetch"),
         NEW f \in DOMAIN calls, f # k, LastFetch(f)
  PROVE  \E g \in DOMAIN calls' : LastFetch(g)' /\ Same(calls'[g], calls[f])
<1>1. Len(calls) \in Nat /\ DOMAIN calls = 1 .. Len(calls)
  BY DEF CallTypes
<1>2. PICK g \in 1 .. Len(calls) - 1 : Skip(k, g) = f
  BY <1>1, Skipping
<1>3. g \in DOMAIN calls' /\ Same(calls'[g], calls[f])
  BY <1>1, <1>2 DEF Removed, Replaced
<1>4. \A i, j \in 1 .. Len(calls) - 1 : i < j <=> Skip(k, i) < Skip(k, j)
  BY <1>1, Skipping
<1>5. \A j \in 1 .. Len(calls) - 1 : Skip(k, j) \in DOMAIN calls
  BY <1>1, Skipping
<1>6. ASSUME NEW j \in DOMAIN calls', j > g PROVE calls'[j].op # "fetch"
  <2>1. CASE j \in 1 .. Len(calls) - 1
    <3>1. Skip(k, j) \in DOMAIN calls /\ Same(calls'[j], calls[Skip(k, j)])
      BY <1>5, <2>1 DEF Removed, Replaced
    <3>2. f < Skip(k, j)
      BY <1>2, <1>4, <1>6, <2>1
    <3> QED
      BY <1>1, <3>1, <3>2 DEF LastFetch, Same
  <2>2. CASE j \notin 1 .. Len(calls) - 1
    BY <1>1, <2>2 DEF Removed, Replaced, Same
  <2> QED
    BY <2>1, <2>2
<1> QED
  BY <1>3, <1>6 DEF LastFetch, Same

\* What Home holds or awaits, if the step is not about a fetch.
LEMMA SameFetches ==
  ASSUME CallTypes, UNCHANGED user, NEW c, c.op # "fetch",
         \/ Added(c)
         \/ \E k \in DOMAIN calls :
              calls[k].op # "fetch" /\ (Removed(k) \/ Changed(k, c) \/ Replaced(k, c))
  PROVE  \A u : (Awaits(u) => Awaits(u)') /\ (Holds(u) => Holds(u)')
<1>1. Len(calls) \in Nat /\ DOMAIN calls = 1 .. Len(calls)
  BY DEF CallTypes
<1>2. CASE Added(c)
  <2>1. \A j \in DOMAIN calls' : calls'[j].op = "fetch" => j \in DOMAIN calls /\ calls'[j] = calls[j]
    BY <1>1, <1>2 DEF Added
  <2>2. \A j \in DOMAIN calls : j \in DOMAIN calls' /\ calls'[j] = calls[j]
    BY <1>1, <1>2 DEF Added
  <2> QED
    BY <2>1, <2>2 DEF Holds, Awaits, LastFetch
<1>3. ASSUME NEW k \in DOMAIN calls, calls[k].op # "fetch", Changed(k, c)
      PROVE  \A u : (Awaits(u) => Awaits(u)') /\ (Holds(u) => Holds(u)')
  BY <1>3 DEF Changed, Holds, Awaits, LastFetch
<1>4. ASSUME NEW k \in DOMAIN calls, calls[k].op # "fetch", Removed(k) \/ Replaced(k, c)
      PROVE  \A u : (Awaits(u) => Awaits(u)') /\ (Holds(u) => Holds(u)')
  <2>1. ASSUME NEW u, Awaits(u) PROVE Awaits(u)'
    <3>1. PICK f \in DOMAIN calls :
            LastFetch(f) /\ calls[f].uid = u /\ calls[f].answer \notin {"none", "failed"}
      BY <2>1 DEF Awaits
    <3>2. PICK g \in DOMAIN calls' : LastFetch(g)' /\ Same(calls'[g], calls[f])
      BY <1>4, <3>1, LaterStays DEF LastFetch
    <3> QED
      BY <3>1, <3>2 DEF Awaits, Same
  <2>2. (\A j \in DOMAIN calls : calls[j].op # "fetch") => \A j \in DOMAIN calls' : calls'[j].op # "fetch"
    BY <1>4, AfterRemoved, AfterReplaced DEF Same
  <2> QED
    BY <2>1, <2>2 DEF Holds
<1> QED
  BY <1>2, <1>3, <1>4

\* Who arrives, if a call that leads on becomes another one that does.
LEMMA StillArrives ==
  ASSUME CallTypes, NEW c, NEW k \in DOMAIN calls,
         \/ Removed(k) /\ ~Leads(calls[k])
         \/ Changed(k, c) \/ Replaced(k, c),
         Leads(calls[k]) => Leads(c) /\ c.uid = calls[k].uid
  PROVE  \A u : Arrives(u) => Arrives(u)'
<1>1. Len(calls) \in Nat /\ DOMAIN calls = 1 .. Len(calls)
  BY DEF CallTypes
<1>2. \A d, e : Same(d, e) => (Leads(d) <=> Leads(e)) /\ d.uid = e.uid
  BY DEF Same, Leads
<1>3. CASE Changed(k, c)
  BY <1>3 DEF Changed, Arrives
<1>4. ASSUME NEW u, Arrives(u), (Removed(k) /\ ~Leads(calls[k])) \/ Replaced(k, c)
      PROVE  Arrives(u)'
  <2>1. PICK i \in DOMAIN calls : calls[i].uid = u /\ Leads(calls[i])
    BY <1>4 DEF Arrives
  <2>2. CASE i # k
    <3>1. PICK j \in 1 .. Len(calls) - 1 : Skip(k, j) = i
      BY <1>1, <2>2, Skipping
    <3>2. j \in DOMAIN calls' /\ Same(calls'[j], calls[i])
      BY <1>1, <1>4, <3>1 DEF Removed, Replaced
    <3> QED
      BY <1>2, <2>1, <3>2 DEF Arrives
  <2>3. CASE i = k
    <3>1. Replaced(k, c) /\ Leads(c) /\ c.uid = u
      BY <1>4, <2>1, <2>3
    <3>2. Len(calls) \in DOMAIN calls' /\ Same(calls'[Len(calls)], c)
      BY <1>1, <3>1 DEF Replaced
    <3> QED
      BY <1>2, <3>1, <3>2 DEF Arrives
  <2> QED
    BY <2>2, <2>3
<1> QED
  BY <1>3, <1>4

LEMMA StepHome ==
  ASSUME CallTypes, ServerTypes, HomeTypes, HasAccount, Known, Kind,
         reconnects' = 0 => reconnects = 0 \/ launch
  PROVE  Known'
<1> DEFINE At(u) == Holds(u) \/ Awaits(u) \/ Arrives(u)
           Goal == Holds(currentUser)' \/ Awaits(currentUser)' \/ Arrives(currentUser)'
<1>1. Len(calls) \in Nat /\ DOMAIN calls = 1 .. Len(calls)
  BY DEF CallTypes
<1>2. SUFFICES ASSUME reconnects' = 0, modal' # "trapped", currentUser' # NoUser, Complete(currentUser)'
               PROVE  Goal
  BY DEF Known
<1>3. CASE launch
  <2>1. currentUser' = currentUser
    BY <1>3 DEF launch
  <2>2. /\ 1 \in DOMAIN calls' /\ calls'[1].op = "fetch" /\ calls'[1].uid = currentUser'
        /\ calls'[1].answer = "pending"
        /\ \A j \in DOMAIN calls' : j = 1
    BY <1>2, <1>3, <2>1, Launched
  <2> QED
    BY <2>2 DEF Awaits, LastFetch
<1>4. SUFFICES ASSUME ~launch PROVE Goal
  BY <1>3
<1>5. ASSUME UNCHANGED currentUser, modal # "trapped", Complete(currentUser) PROVE At(currentUser)
  BY <1>2, <1>4, <1>5 DEF Known
<1>6. CASE Quietly
  <2>1. UNCHANGED <<currentUser, profile, user, calls>> /\ modal # "trapped"
    BY <1>2, <1>6 DEF Quietly, homeVars
  <2>2. At(currentUser)
    BY <1>2, <1>5, <2>1 DEF Complete
  <2> QED
    BY <2>1, <2>2 DEF Holds, Awaits, Arrives, LastFetch
<1>7. ASSUME NEW c, c.op # "fetch", Added(c), UNCHANGED <<currentUser, profile, user>>, modal # "trapped"
      PROVE  Goal
  <2>1. At(currentUser)
    BY <1>2, <1>5, <1>7 DEF Complete
  <2>2. \A u : (Awaits(u) => Awaits(u)') /\ (Holds(u) => Holds(u)')
    BY <1>7, SameFetches
  <2>3. \A u : Arrives(u) => Arrives(u)'
    BY <1>1, <1>7 DEF Added, Arrives
  <2> QED
    BY <1>7, <2>1, <2>2, <2>3 DEF Holds, Awaits, Arrives, LastFetch
<1>8. CASE Closes
  <2>1. UNCHANGED <<currentUser, profile, user>> /\ modal # "trapped"
    BY <1>8 DEF Closes, serverVars, homeVars
  <2>2. Added(Call("setSeen", currentUser)) /\ Call("setSeen", currentUser).op # "fetch"
    BY <1>2, <1>8, <2>1 DEF Closes, Call
  <2> QED
    BY <1>7, <2>1, <2>2
<1>9. CASE Traps
  BY <1>2, <1>9 DEF Traps
<1>10. ASSUME NEW c, Submits(c) PROVE Goal
  <2>1. UNCHANGED <<currentUser, profile, user>> /\ modal # "trapped" /\ Added(c) /\ c.op # "fetch"
    BY <1>10 DEF Submits, homeVars
  <2> QED
    BY <1>7, <2>1
\* The steps of a call that is no fetch and stays what it was for those who
\* arrive.
<1>11. ASSUME NEW k \in DOMAIN calls, NEW c, calls[k].op # "fetch", c.op # "fetch",
              \/ Removed(k) /\ ~Leads(calls[k])
              \/ Changed(k, c) \/ Replaced(k, c),
              Leads(calls[k]) => Leads(c) /\ c.uid = calls[k].uid,
              UNCHANGED <<currentUser, user>>, Complete(currentUser), modal # "trapped"
       PROVE  Goal
  <2>1. At(currentUser)
    BY <1>5, <1>11
  <2>2. \A u : (Awaits(u) => Awaits(u)') /\ (Holds(u) => Holds(u)')
    BY <1>11, SameFetches
  <2>3. \A u : Arrives(u) => Arrives(u)'
    BY <1>11, StillArrives
  <2> QED
    BY <1>11, <2>1, <2>2, <2>3 DEF Holds, Awaits, Arrives, LastFetch
<1>12. ASSUME NEW k \in DOMAIN calls, Ends(k) PROVE Goal
  <2>1. /\ calls[k].op \in AuthOps /\ calls[k].answer = "pending"
        /\ UNCHANGED <<currentUser, profile, user, modal>>
    BY <1>12 DEF Ends, serverVars, homeVars
  <2>2. PICK c : Changed(k, c) /\ c.op = calls[k].op
    BY <1>12 DEF Ends
  <2>3. calls[k].op # "fetch" /\ ~Leads(calls[k])
    BY <2>1 DEF AuthOps, Leads
  <2>4. Complete(currentUser)
    BY <1>2, <2>1 DEF Complete
  <2> QED
    BY <1>2, <1>11, <2>1, <2>2, <2>3, <2>4
<1>13. ASSUME NEW k \in DOMAIN calls, Accepts(k) PROVE Goal
  <2>1. /\ calls[k].op \in AuthOps /\ calls[k].op # "googleUI" /\ calls[k].answer = "pending"
        /\ UNCHANGED <<profile, modal>> /\ Changed(k, Ans(k, "ok"))
    BY <1>13, Acceptance
  <2>2. Ans(k, "ok").op = calls[k].op /\ Ans(k, "ok").uid = calls[k].uid /\ Ans(k, "ok").answer = "ok"
    BY AnsOp
  <2>3. CASE calls[k].op = "resetPassword"
    <3>1. UNCHANGED <<currentUser, user>>
      BY <1>13, <2>3 DEF Accepts, authAccepts, Pending, homeVars
    <3>2. ~Leads(calls[k]) /\ Complete(currentUser)
      BY <1>2, <2>1, <2>3, <3>1 DEF Leads, Complete
    <3> QED
      BY <1>2, <1>11, <2>1, <2>2, <2>3, <3>1, <3>2
  <2>4. CASE calls[k].op = "createUser"
    <3>1. calls[k].uid \in Users /\ currentUser' = calls[k].uid /\ accounts[calls[k].uid] = "none"
      BY <1>13, <2>4, Acceptance
    <3>2. profile'[currentUser'] = "none"
      BY <2>1, <3>1 DEF HasAccount
    <3> QED
      BY <1>2, <3>2 DEF Complete
  <2>5. CASE calls[k].op \in {"logIn", "credential"}
    <3>1. currentUser' = calls[k].uid
      BY <1>13, <2>5, Acceptance
    <3>2. Leads(Ans(k, "ok"))
      BY <2>2, <2>5 DEF Leads
    <3>3. k \in DOMAIN calls' /\ calls'[k] = Ans(k, "ok")
      BY <2>1 DEF Changed
    <3> QED
      BY <2>2, <3>1, <3>2, <3>3 DEF Arrives
  <2> QED
    BY <2>1, <2>3, <2>4, <2>5 DEF AuthOps
<1>14. ASSUME NEW k \in DOMAIN calls, Writes(k) PROVE Goal
  <2>1. /\ calls[k].op \in {"register", "googleProfile", "setSeen"} /\ calls[k].answer = "pending"
        /\ calls[k].uid \in Users
        /\ UNCHANGED <<currentUser, user, modal>>
        /\ \A u \in Users : u # calls[k].uid => profile'[u] = profile[u]
    BY <1>14, Writing DEF homeVars
  <2>2. PICK a \in {"ok", "failed"} : Changed(k, Ans(k, a))
    BY <1>14 DEF Writes
  <2>3. Ans(k, a).op = calls[k].op /\ Ans(k, a).uid = calls[k].uid /\ Ans(k, a).answer = a
    BY AnsOp
  <2>4. CASE Complete(currentUser)
    <3>1. calls[k].op # "fetch" /\ Ans(k, a).op # "fetch" /\ (Leads(calls[k]) => Leads(Ans(k, a)))
      BY <2>1, <2>3 DEF Leads
    <3> QED
      BY <1>2, <1>11, <2>1, <2>2, <2>3, <2>4, <3>1
  <2>5. CASE ~Complete(currentUser)
    <3>1. currentUser = calls[k].uid
      BY <1>2, <2>1, <2>5 DEF Complete, ServerTypes
    <3>2. calls[k].op # "setSeen" /\ profile' # profile
      BY <1>2, <1>14, <2>1, <2>5, <3>1, Writing DEF Complete
    <3>3. Answer(k, "ok")
      BY <1>14, <2>1, <3>2 DEF Writes, databaseWrites, Pending
    <3>4. Changed(k, Ans(k, "ok"))
      BY <3>3, <2>1, IsAnswered DEF Answers
    <3>5. k \in DOMAIN calls' /\ calls'[k] = Ans(k, "ok")
      BY <3>4 DEF Changed
    <3>6. Ans(k, "ok").uid = currentUser /\ Leads(Ans(k, "ok"))
      BY <2>1, <3>1, <3>2, AnsOp DEF Leads
    <3> QED
      BY <2>1, <3>5, <3>6 DEF Arrives
  <2> QED
    BY <2>4, <2>5
<1>15. ASSUME NEW k \in DOMAIN calls, Reads(k) PROVE Goal
  <2>1. /\ calls[k].op \in {"snapshot", "fetch"} /\ calls[k].answer = "pending"
        /\ UNCHANGED <<currentUser, profile, user, modal>>
    BY <1>15 DEF Reads, databaseReads, Pending, serverVars, homeVars
  <2>2. PICK a \in Records \cup {"failed"} :
          /\ Changed(k, Ans(k, a))
          /\ a = profile[calls[k].uid] \/ (a = "failed" /\ calls[k].uid # currentUser)
    BY <1>15 DEF Reads
  <2>3. Ans(k, a).op = calls[k].op /\ Ans(k, a).uid = calls[k].uid /\ Ans(k, a).answer = a
    BY AnsOp
  <2>4. Complete(currentUser) /\ At(currentUser)
    BY <1>2, <1>5, <2>1 DEF Complete
  <2>5. calls[k].uid = currentUser => a \notin {"none", "failed"}
    BY <2>2, <2>4 DEF Complete
  <2>6. /\ DOMAIN calls' = DOMAIN calls /\ calls'[k] = Ans(k, a)
        /\ \A j \in DOMAIN calls : j # k => calls'[j] = calls[j]
        /\ \A j \in DOMAIN calls : calls'[j].op = calls[j].op /\ calls'[j].uid = calls[j].uid
    BY <2>2, <2>3 DEF Changed
  <2>7. CASE Holds(currentUser)
    BY <2>1, <2>6, <2>7 DEF Holds
  <2>8. CASE Awaits(currentUser)
    <3>1. PICK f \in DOMAIN calls :
            LastFetch(f) /\ calls[f].uid = currentUser /\ calls[f].answer \notin {"none", "failed"}
      BY <2>8 DEF Awaits
    <3>2. calls'[f].answer \notin {"none", "failed"}
      BY <2>3, <2>5, <2>6, <3>1
    <3> QED
      BY <2>1, <2>6, <3>1, <3>2 DEF Awaits, LastFetch
  <2>9. CASE Arrives(currentUser)
    <3>1. PICK j \in DOMAIN calls : calls[j].uid = currentUser /\ Leads(calls[j])
      BY <2>9 DEF Arrives
    <3>2. Leads(calls'[j])
      BY <2>1, <2>3, <2>5, <2>6, <3>1 DEF Leads
    <3> QED
      BY <2>1, <2>6, <3>1, <3>2 DEF Arrives
  <2> QED
    BY <2>4, <2>7, <2>8, <2>9
<1>16. ASSUME NEW k \in DOMAIN calls, Goes(k) PROVE Goal
  <2>1. calls[k] \in Calls
    BY DEF CallTypes
  <2>2. PICK op \in {"register", "credential", "snapshot", "googleProfile"} :
          /\ \/ calls[k].op = "createUser" /\ calls[k].answer = "ok" /\ op = "register"
             \/ calls[k].op = "googleUI" /\ op = "credential"
             \/ calls[k].op = "credential" /\ calls[k].answer = "ok" /\ op = "snapshot"
             \/ calls[k].op = "snapshot" /\ calls[k].answer = "none" /\ op = "googleProfile"
          /\ Replaced(k, Follow(k, op))
    BY <1>16 DEF Goes
  <2>3. /\ Follow(k, op).op = op /\ Follow(k, op).answer = "pending"
        /\ Follow(k, op).uid = calls[k].uid
    BY <2>1 DEF Follow, Calls
  <2>4. calls[k].op # "fetch" /\ op # "fetch" /\ (Leads(calls[k]) => Leads(Follow(k, op)))
    BY <2>2, <2>3 DEF Leads
  <2>5. UNCHANGED <<currentUser, profile, user, modal>>
    BY <1>16 DEF Goes, serverVars, homeVars
  <2>6. Complete(currentUser)
    BY <1>2, <2>5 DEF Complete
  <2> QED
    BY <1>2, <1>11, <2>2, <2>3, <2>4, <2>5, <2>6
<1>17. ASSUME NEW k \in DOMAIN calls, Drops(k) PROVE Goal
  <2>1. /\ calls[k].op # "fetch" /\ Removed(k) /\ ~Leads(calls[k])
        /\ UNCHANGED <<currentUser, profile, user, modal>>
    BY <1>17 DEF Drops, serverVars, homeVars, LoginOps, PageOps
  <2>2. Complete(currentUser)
    BY <1>2, <2>1 DEF Complete
  <2> QED
    BY <1>2, <1>11, <2>1, <2>2
<1>18. ASSUME NEW k \in DOMAIN calls, Leaves(k) PROVE Goal
  <2>1. currentUser' = currentUser
    BY <1>18 DEF Leaves, serverVars
  <2>2. Replaced(k, Call("fetch", currentUser))
    BY <1>2, <1>18, <2>1 DEF Leaves
  <2>3. DOMAIN calls' = 1 .. Len(calls) /\ Same(calls'[Len(calls)], Call("fetch", currentUser))
    BY <2>2 DEF Replaced
  <2>4. /\ calls'[Len(calls)].op = "fetch" /\ calls'[Len(calls)].uid = currentUser'
        /\ calls'[Len(calls)].answer = "pending"
    BY <2>1, <2>3 DEF Same, Call
  <2>5. Len(calls) \in DOMAIN calls' /\ \A j \in DOMAIN calls' : ~(j > Len(calls))
    BY <1>1, <2>3
  <2> QED
    BY <2>4, <2>5 DEF Awaits, LastFetch
<1>19. ASSUME NEW k \in DOMAIN calls, Fetched(k) \/ WasSeen(k)
       PROVE  /\ Removed(k) /\ UNCHANGED currentUser /\ At(currentUser)
              /\ Arrives(currentUser) => Arrives(currentUser)'
  <2>1. Removed(k) /\ UNCHANGED <<currentUser, profile>> /\ calls[k].op \in {"fetch", "setSeen"}
    BY <1>19 DEF Fetched, WasSeen, fetchCompleted, setSeenCompleted, serverVars, Completes
  <2>2. modal # "trapped"
    BY <1>2, <1>19, HomeBlocks
  <2>3. At(currentUser)
    BY <1>2, <1>5, <2>1, <2>2 DEF Complete
  <2>4. ~Leads(calls[k])
    BY <2>1 DEF Leads
  <2>5. \A u : Arrives(u) => Arrives(u)'
    BY <2>1, <2>4, StillArrives
  <2> QED
    BY <2>1, <2>3, <2>5 DEF Arrives
<1>20. ASSUME NEW k \in DOMAIN calls, Fetched(k) PROVE Goal
  <2>1. calls[k].op = "fetch" /\ InOrder(k, {}) /\ reconnects = 0
    BY <1>2, <1>4, <1>20 DEF Fetched, fetchCompleted, Completes
  <2>2. \A j \in 1 .. k - 1 : calls[j].op \in AuthOps
    BY <2>1 DEF InOrder, AuthOps
  <2>3. ~Holds(currentUser)
    BY <2>1 DEF Holds
  <2>4. CASE Arrives(currentUser)
    BY <1>19, <1>20, <2>4
  <2>5. ASSUME NEW f \in DOMAIN calls, LastFetch(f), calls[f].uid = currentUser,
               calls[f].answer \notin {"none", "failed"}
        PROVE  Goal
    <3>1. CASE f = k
      <4>1. \A i \in DOMAIN calls : i # k => calls[i].op # "fetch"
        BY <1>1, <2>2, <2>5, <3>1 DEF LastFetch, AuthOps
      <4>2. \A j \in DOMAIN calls' : calls'[j].op # "fetch"
        BY <1>19, <1>20, <4>1, AfterRemoved DEF Same
      <4>3. user' = [uid |-> currentUser, hasSeenOnboarding |-> calls[k].answer # "new"]
        BY <1>20, <2>5, <3>1 DEF Fetched, fetchCompleted, setUser
      <4>4. user' \in [uid : Users, hasSeenOnboarding : BOOLEAN] /\ user'.uid = currentUser'
        BY <1>2, <1>19, <1>20, <4>3 DEF ServerTypes
      <4> QED
        BY <4>2, <4>4, UsersAssumption DEF Holds
    <3>2. CASE f # k
      <4>1. PICK g \in DOMAIN calls' : LastFetch(g)' /\ Same(calls'[g], calls[f])
        BY <1>19, <1>20, <2>5, <3>2, LaterStays
      <4> QED
        BY <1>19, <1>20, <2>5, <4>1 DEF Awaits, Same
    <3> QED
      BY <3>1, <3>2
  <2> QED
    BY <1>19, <1>20, <2>3, <2>4, <2>5 DEF Awaits
<1>21. ASSUME NEW k \in DOMAIN calls, WasSeen(k) PROVE Goal
  <2>1. calls[k].op # "fetch" /\ Removed(k) /\ UNCHANGED currentUser
    BY <1>19, <1>21 DEF WasSeen, setSeenCompleted, Completes
  <2>2. CASE Arrives(currentUser)
    BY <1>19, <1>21, <2>2
  <2>3. CASE Awaits(currentUser)
    <3>1. PICK f \in DOMAIN calls :
            LastFetch(f) /\ calls[f].uid = currentUser /\ calls[f].answer \notin {"none", "failed"}
      BY <2>3 DEF Awaits
    <3>2. PICK g \in DOMAIN calls' : LastFetch(g)' /\ Same(calls'[g], calls[f])
      BY <2>1, <3>1, LaterStays DEF LastFetch
    <3> QED
      BY <2>1, <3>1, <3>2 DEF Awaits, Same
  <2>4. CASE Holds(currentUser)
    <3>1. user # NoUser /\ user' = [user EXCEPT !.hasSeenOnboarding = TRUE]
      BY <1>21, <2>4 DEF Holds, WasSeen, setSeenCompleted, setUser
    <3>2. user' \in [uid : Users, hasSeenOnboarding : BOOLEAN] /\ user'.uid = user.uid
      BY <3>1 DEF HomeTypes
    <3>3. \A j \in DOMAIN calls' : calls'[j].op # "fetch"
      BY <2>1, <2>4, AfterRemoved DEF Holds, Same
    <3> QED
      BY <2>1, <2>4, <3>2, <3>3, UsersAssumption DEF Holds
  <2> QED
    BY <1>19, <1>21, <2>2, <2>3, <2>4
<1> QED
  BY <1>4, <1>6, <1>8, <1>9, <1>10, <1>12, <1>13, <1>14, <1>15, <1>16, <1>17, <1>18, <1>20, <1>21 DEF Kind

HomeInv == AccountInv /\ Greets /\ Known

\* As long as the connection lasts, Home has the user who is signed in, and
\* greets nobody else, as soon as nothing is in flight, for any number of
\* sign-ins at once: the block of an older fetch never has the last word, and
\* every accepted sign-in whose user has a profile makes Home fetch him.
THEOREM HomeKnowsLast == Spec => []HomeKnowsUser
<1>1. Init => HomeInv
  <2>1. Init => Greets /\ Known
    BY DEF Init, Greets, Known
  <2> QED
    BY <2>1, InitAccount DEF HomeInv
<1>2. HomeInv /\ [Next]_vars => HomeInv'
  <2> SUFFICES ASSUME HomeInv, [Next]_vars PROVE HomeInv'
    OBVIOUS
  <2>1. CallTypes /\ ServerTypes /\ CounterTypes /\ HomeTypes /\ HasAccount
    BY TypeParts DEF HomeInv, AccountInv
  <2>2. AccountInv' /\ Kind
    BY StepAccountInv DEF HomeInv
  <2>3. reconnects' = 0 => reconnects = 0 \/ launch
    BY <2>1, CounterStep
  <2> QED
    BY <2>1, <2>2, <2>3, StepGreets, StepHome DEF HomeInv
<1>3. HomeInv => HomeKnowsUser
  <2> SUFFICES ASSUME HomeInv, calls = <<>>, modal \in {"none", "onboarding", "sheet"}, reconnects = 0,
                      currentUser # NoUser, Complete(currentUser)
               PROVE  /\ user # NoUser /\ user.uid = currentUser
                      /\ user.hasSeenOnboarding => welcome = currentUser
    BY DEF HomeKnowsUser
  <2>1. Holds(currentUser)
    BY DEF HomeInv, Known, Awaits, Arrives
  <2> QED
    BY <2>1 DEF HomeInv, Holds, Greets
<1> QED
  BY <1>1, <1>2, <1>3, PTL DEF Spec
================================================================================
