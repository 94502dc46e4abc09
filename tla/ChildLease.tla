------------------------------ MODULE ChildLease ------------------------------
(***************************************************************************)
(* What the parent-owned proxy promises about the files it shares with the *)
(* other processes of the machine: the canonical loopback port is a lease  *)
(* on them.  Only the process that holds the port publishes accounts in    *)
(* them or takes a publication back, and it gives the port up only when    *)
(* nothing it published is left, unless it died or could not write.        *)
(***************************************************************************)
CONSTANTS
  Proc,    \* the Pi processes of the machine
  Nobody   \* not a process

VARIABLES
  holder,  \* the process listening on the canonical port
  hidden,  \* auth.json shows a placeholder in place of the OAuth credential
  routed,  \* models.json sends the account to the loopback
  left     \* a publication has outlived the process that wrote it

vars == <<holder, hidden, routed, left>>

Init == holder = Nobody /\ ~hidden /\ ~routed /\ ~left

Claim(p) == holder = Nobody /\ holder' = p /\ UNCHANGED <<hidden, routed, left>>

Hide(p) == holder = p /\ hidden' = TRUE /\ UNCHANGED <<holder, routed, left>>

Route(p) == holder = p /\ routed' = TRUE /\ UNCHANGED <<holder, hidden, left>>

Unroute(p) == holder = p /\ routed' = FALSE /\ UNCHANGED <<holder, hidden, left>>

\* Taking the placeholder back also settles what an earlier process left.
Reveal(p) == holder = p /\ ~hidden' /\ ~left' /\ UNCHANGED <<holder, routed>>

Release(p) ==
  /\ holder = p /\ holder' = Nobody
  /\ hidden \/ routed => left
  /\ UNCHANGED <<hidden, routed, left>>

\* The holder could not write auth.json: the placeholder stays for now.
Defer(p) == holder = p /\ left' = TRUE /\ UNCHANGED <<holder, hidden, routed>>

Die(p) ==
  /\ holder = p /\ holder' = Nobody
  /\ left' = (left \/ hidden \/ routed)
  /\ UNCHANGED <<hidden, routed>>

Next ==
  \E p \in Proc :
    \/ Claim(p) \/ Hide(p) \/ Route(p) \/ Unroute(p) \/ Reveal(p)
    \/ Release(p) \/ Defer(p) \/ Die(p)

Spec == Init /\ [][Next]_vars
===============================================================================
