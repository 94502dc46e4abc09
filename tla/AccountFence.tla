----------------------------- MODULE AccountFence -----------------------------
(***************************************************************************)
(* What the bookkeeping about accounts promises, whatever evidence it      *)
(* weighs to get there: once an account has refused a request, no request  *)
(* is sent to it of the session's own accord before the announced delay    *)
(* has passed, unless the account has answered or been replaced; and none  *)
(* to an account whose login is condemned.  The user may insist.           *)
(***************************************************************************)
EXTENDS Naturals

CONSTANTS
  Slot,     \* the places of the credential store
  Accounts, \* how many real accounts there are
  Longest   \* the longest delay

VARIABLES
  account,  \* the real account each slot is logged into
  delay,    \* what is left of the delay after a refusal
  barred,   \* the login is condemned
  sent      \* the request under way at each slot: whose it is, or none

vars == <<account, delay, barred, sent>>

Init ==
  /\ account \in [Slot -> 1 .. Accounts]
  /\ delay = [p \in Slot |-> 0]
  /\ barred = [p \in Slot |-> FALSE]
  /\ sent = [p \in Slot |-> "none"]

Elapse ==
  /\ delay' = [p \in Slot |-> IF delay[p] > 0 THEN delay[p] - 1 ELSE 0]
  /\ UNCHANGED <<account, barred, sent>>

Try(p) ==
  /\ delay[p] = 0 /\ ~barred[p]
  /\ sent' = [sent EXCEPT ![p] = "session"]
  /\ UNCHANGED <<account, delay, barred>>

Insist(p) ==
  /\ sent' = [sent EXCEPT ![p] = "user"]
  /\ UNCHANGED <<account, delay, barred>>

\* A refusal holds for every slot of the account.
Refuse(p) ==
  /\ sent[p] # "none" /\ sent' = [sent EXCEPT ![p] = "none"]
  /\ \E d \in 1 .. Longest :
       delay' = [q \in Slot |-> IF account[q] = account[p] THEN d ELSE delay[q]]
  /\ UNCHANGED <<account, barred>>

\* The account answers: nothing is held against the slot.
Answer(p) ==
  /\ sent[p] # "none" /\ sent' = [sent EXCEPT ![p] = "none"]
  /\ delay' = [delay EXCEPT ![p] = 0]
  /\ barred' = [barred EXCEPT ![p] = FALSE]
  /\ UNCHANGED account

\* The request fails in another way, which may condemn the login.
Fail(p) ==
  /\ sent[p] # "none" /\ sent' = [sent EXCEPT ![p] = "none"]
  /\ \E b \in BOOLEAN : barred' = [barred EXCEPT ![p] = b]
  /\ UNCHANGED <<account, delay>>

\* The slot gets a new token; or another account, of which nothing is known.
Replace(p) ==
  /\ \/ UNCHANGED <<account, delay>>
     \/ /\ \E a \in 1 .. Accounts : account' = [account EXCEPT ![p] = a]
        /\ delay' = [delay EXCEPT ![p] = 0]
  /\ barred' = [barred EXCEPT ![p] = FALSE]
  /\ UNCHANGED sent

Next ==
  \/ Elapse
  \/ \E p \in Slot : Try(p) \/ Insist(p) \/ Refuse(p) \/ Answer(p) \/ Fail(p) \/ Replace(p)

Spec == Init /\ [][Next]_vars
=============================================================================
