------------------------------- MODULE MCSession -------------------------------
(* Session for TLC, with a history of what users and Firebase did. *)
EXTENDS Session

VARIABLES
  refused,    \* has Firebase refused a credential since the last sign-in?
  overtaken,  \* did the last user sign out while a sign-in was in flight?
  twice       \* users of whom two sign-ins were in flight at once since the launch

mcVars == <<vars, refused, overtaken, twice>>

\* Users are interchangeable.
Symmetry == Permutations(Users)

MCInit == Init /\ refused = FALSE /\ overtaken = FALSE /\ twice = {}

SignedInTwice(uid) == \E j, k \in SignIns : j # k /\ calls[j].uid = uid /\ calls[k].uid = uid

MCNext ==
  /\ Next
  /\ refused' = /\ currentUser' = NoUser /\ ~launch
                /\ \/ refused
                   \/ \E k \in DOMAIN calls' :
                        calls'[k].op = "credential" /\ calls'[k].answer = "failed"
  /\ overtaken' = /\ currentUser' = NoUser /\ ~launch
                  /\ overtaken \/ (currentUser # NoUser /\ SignIns # {})
  /\ twice' = (IF launch THEN {} ELSE twice) \cup {u \in Users : SignedInTwice(u)'}

MCSpec == MCInit /\ [][MCNext]_mcVars

\* Whoever is not signed in has the login pages before him, in any order of
\* signing in and out, of answers, late blocks and restarts, and for any number
\* of sign-ins in flight; with two exceptions, which runs of their own show:
\* Firebase has refused his Google credential, or he signed out while another
\* sign-in was in flight.
LoginUnlessRefused == SignedOutSeesLogin \/ refused \/ overtaken

\* Who has a profile and has seen the onboarding is never made new again: no
\* later sign-in, with either provider and also after a crash or a reconnect,
\* writes the profile a second time; unless two sign-ins of this very user were
\* in flight at once, when the older may write what the younger has read.
SeenStaysSeen ==
  [][\A u \in Users \ twice' : profile[u] = "seen" => profile'[u] = "seen"]_mcVars
================================================================================
