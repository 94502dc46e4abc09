------------------------------ MODULE CursorTurn ------------------------------
(***************************************************************************)
(* What the Cursor proxy promises to a Pi session: one Cursor Run looks    *)
(* like one provider turn.  At most one Run is live; every response ends   *)
(* exactly once; a Run answers several responses only by pausing for tool  *)
(* results, and after anything else than a pause the Run is gone.          *)
(***************************************************************************)
EXTENDS Naturals

CONSTANT MaxReq  \* how many requests the session makes

CursorTurnAssumption == MaxReq \in Nat

VARIABLES
  run,     \* the live Run, named by the request that started it; 0 if none
  answer   \* what each response came to

tvars == <<run, answer>>

Request == 1..MaxReq
Open == {w \in Request : answer[w] = "open"}

Init == run = 0 /\ answer = [w \in Request |-> "none"]

\* The response w gets a Run of its own; an earlier one is cut short.
Start(w) ==
  /\ answer[w] = "none"
  /\ run' = w
  /\ answer' = [u \in Request |->
                  IF u = w THEN "open" ELSE IF u \in Open THEN "error" ELSE answer[u]]

\* The paused Run goes on, for the response w.
Resume(w) ==
  /\ answer[w] = "none" /\ run # 0 /\ Open = {}
  /\ answer' = [answer EXCEPT ![w] = "open"]
  /\ UNCHANGED run

\* Some tool results are still missing: the Run stays paused.
Wait(w) ==
  /\ answer[w] = "none" /\ run # 0 /\ Open = {}
  /\ answer' = [answer EXCEPT ![w] = "tool_calls"]
  /\ UNCHANGED run

Pause(w) ==
  /\ w \in Open /\ run # 0
  /\ answer' = [answer EXCEPT ![w] = "tool_calls"]
  /\ UNCHANGED run

Finish(w) ==
  /\ w \in Open
  /\ answer' = [answer EXCEPT ![w] = "stop"]
  /\ run' = 0

\* The Run ends in any other way, paused or not.
Lose ==
  /\ run # 0 /\ run' = 0
  /\ answer' = [w \in Request |-> IF w \in Open THEN "error" ELSE answer[w]]

Next ==
  \/ \E w \in Request : Start(w) \/ Resume(w) \/ Wait(w) \/ Pause(w) \/ Finish(w)
  \/ Lose

Spec == Init /\ [][Next]_tvars
===============================================================================
