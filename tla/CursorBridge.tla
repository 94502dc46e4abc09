----------------------------- MODULE CursorBridge -----------------------------
(***************************************************************************)
(* The pipe to Cursor: a child process (cursor/h2-bridge.mjs) that holds   *)
(* the HTTP/2 stream, the handle on it in the host (bridge-handle.ts) and  *)
(* its client, one call with a time bound (callCursorUnaryRpc) or a stream *)
(* that is ended or destroyed.  Bytes travel in both pipes and arrive in   *)
(* pieces of any size; frames carry their length.  Abstractions: a header  *)
(* is two bytes, a payload a few; a message is its number.                 *)
(***************************************************************************)
EXTENDS Naturals, Sequences, SequencesExt

CONSTANTS
  unary,      \* one request and its answer, or a stream
  Requests,   \* lengths of the messages the client writes
  Answers,    \* lengths of the pieces of Cursor's answer
  MaxPiece    \* bytes that arrive at once

BridgeAssumption ==
  /\ unary \in BOOLEAN /\ Requests \in Seq(Nat) /\ Answers \in Seq(Nat \ {0}) /\ MaxPiece \in Nat \ {0}
  /\ unary => Len(Requests) = 1

VARIABLES
  stdin,     \* bytes on their way to the child
  stdout,    \* bytes on their way to the host
  child,     \* what it does, its buffer, and what it put on the HTTP/2 stream
  h2,        \* the HTTP/2 stream: pieces that came, and its state
  handle,    \* exited, ended, closed, exitCode of the bridge handle; "close" came; ends told
  pending,   \* bytes of stdout that make no frame yet
  client,    \* messages written, and how the client's call stands
  got        \* payloads the client received

vars == <<stdin, stdout, child, h2, handle, pending, client, got>>

\* Frames: [4 bytes length][payload].
Header == 2
Byte(t, n, l) == [t |-> t, n |-> n, len |-> l]
lpEncode(n, len) ==
  <<Byte("len", n, len)>> \o [i \in 1..(Header - 1) |-> Byte("hdr", n, len)] \o [i \in 1..len |-> Byte("data", n, len)]

\* A frame at the head of a buffer is whole.  A length read off anything but a
\* header would be garbage; it is no frame here.
Whole(b) == Len(b) >= Header /\ b[1].t = "len" /\ Len(b) >= Header + b[1].len
Tail2(b) == SubSeq(b, Header + b[1].len + 1, Len(b))

Init ==
  /\ stdin = <<>> /\ stdout = <<>> /\ pending = <<>> /\ got = <<>>
  /\ child = [st |-> "read", buf |-> <<>>, sent |-> <<>>]
  /\ h2 = [came |-> 0, st |-> "open"]
  /\ handle = [exited |-> FALSE, ended |-> FALSE, closed |-> FALSE, code |-> 1, told |-> 0, gone |-> FALSE]
  /\ client = [written |-> 0, st |-> "open", code |-> 0, timedOut |-> FALSE]

(***************************************************************************)
(* The handle.                                                             *)
(***************************************************************************)
Dead == child.st = "dead"
Alive == ~handle.closed /\ ~handle.exited /\ ~handle.ended

\* Mutant of closeOnce: every end is told.
closeEvery(c, h) == [h EXCEPT !.closed = TRUE, !.code = c, !.told = @ + 1]

closeOnce(c, h) == IF h.closed THEN h ELSE [h EXCEPT !.closed = TRUE, !.code = c, !.told = @ + 1]

\* Mutant of Settled: the last end that is told counts.
SettledLast(c) == [client EXCEPT !.st = "settled", !.code = c]

\* The client hears of the end: a call that is settled does not change.
Settled(c) == IF client.st = "settled" THEN client ELSE [client EXCEPT !.st = "settled", !.code = c]
Hears(h) == client' = IF unary THEN Settled(h.code) ELSE client

\* write(): nothing reaches a pipe that was ended.
Write ==
  /\ client.written < Len(Requests) /\ client.st = "open"
  /\ client' = [client EXCEPT !.written = @ + 1]
  /\ stdin' = IF Alive /\ ~Dead THEN stdin \o lpEncode(client'.written, Requests[client'.written]) ELSE stdin
  /\ UNCHANGED <<stdout, child, h2, handle, pending, got>>

\* end(): an empty frame says that no more will come.
End ==
  /\ client.written = Len(Requests) /\ ~handle.ended
  /\ handle' = [handle EXCEPT !.ended = TRUE]
  /\ stdin' = IF Alive /\ ~Dead THEN stdin \o lpEncode(0, 0) ELSE stdin
  /\ UNCHANGED <<stdout, child, h2, pending, client, got>>

\* Mutant of destroy: the pipe is ended and Cursor is trusted to close.
destroyTrusting ==
  /\ handle' = closeOnce(1, [handle EXCEPT !.ended = TRUE])
  /\ stdin' = IF Alive /\ ~Dead THEN stdin \o lpEncode(0, 0) ELSE stdin
  /\ UNCHANGED child

\* destroy(): end, kill, and be closed whatever becomes of the child.
destroy ==
  /\ handle' = IF handle.exited THEN [handle EXCEPT !.ended = TRUE] ELSE closeOnce(1, [handle EXCEPT !.ended = TRUE])
  /\ stdin' = IF Alive /\ ~Dead THEN stdin \o lpEncode(0, 0) ELSE stdin
  /\ child' = IF handle.exited THEN child ELSE [child EXCEPT !.st = "dead"]

\* Mutant of GiveUp: the time counts from the first piece of the answer.
GiveUpAnswered ==
  /\ unary /\ client.st = "open" /\ handle.ended /\ h2.came > 0
  /\ \E late \in BOOLEAN : client' = [client EXCEPT !.st = "settled", !.code = 1, !.timedOut = late]
  /\ destroy /\ UNCHANGED <<stdout, h2, pending, got>>

\* The time of a call is up, or a status said that it failed.
GiveUp ==
  /\ unary /\ client.st = "open" /\ handle.ended
  /\ \E late \in BOOLEAN : client' = [client EXCEPT !.st = "settled", !.code = 1, !.timedOut = late]
  /\ destroy /\ UNCHANGED <<stdout, h2, pending, got>>

\* A stream is abandoned.
Abandon ==
  /\ ~unary /\ client.st = "open" /\ client' = [client EXCEPT !.st = "abandoned"]
  /\ destroy /\ UNCHANGED <<stdout, h2, pending, got>>

\* Mutant of Data: a frame is taken when its header is there.
DataEager ==
  /\ stdout # <<>>
  /\ \E k \in 1..MaxPiece :
       /\ k <= Len(stdout) /\ stdout' = SubSeq(stdout, k + 1, Len(stdout))
       /\ LET b == pending \o SubSeq(stdout, 1, k)
          IN IF Len(b) >= Header /\ b[1].t = "len"
             THEN got' = Append(got, b[1].n) /\ pending' = SubSeq(b, Header + b[1].len + 1, Len(b))
             ELSE pending' = b /\ UNCHANGED got
  /\ UNCHANGED <<stdin, child, h2, handle, client>>

\* Bytes of the child arrive.
Data ==
  /\ stdout # <<>>
  /\ \E k \in 1..MaxPiece :
       /\ k <= Len(stdout) /\ stdout' = SubSeq(stdout, k + 1, Len(stdout))
       /\ pending' = pending \o SubSeq(stdout, 1, k)
  /\ UNCHANGED <<stdin, child, h2, handle, client, got>>

\* The frames that are whole are passed on; a settled call takes none.
Parse ==
  /\ Whole(pending) /\ pending' = Tail2(pending)
  /\ got' = IF unary /\ client.st = "settled" THEN got ELSE Append(got, pending[1].n)
  /\ UNCHANGED <<stdin, stdout, child, h2, handle, client>>

\* Mutant of Exit: the end of the process is taken for the end of its output.
ExitCloses ==
  /\ Dead /\ ~handle.exited
  /\ handle' = closeOnce(IF h2.st = "ended" THEN 0 ELSE 1, [handle EXCEPT !.exited = TRUE])
  /\ Hears(handle') /\ UNCHANGED <<stdin, stdout, child, h2, pending, got>>

\* The process is gone ("exit"); its output may still be read.
Exit ==
  /\ Dead /\ ~handle.exited
  /\ handle' = [handle EXCEPT !.exited = TRUE, !.code = IF handle.closed THEN @ ELSE IF h2.st = "ended" THEN 0 ELSE 1]
  /\ UNCHANGED <<stdin, stdout, child, h2, pending, client, got>>

\* The process and its pipes are gone ("close").
Close ==
  /\ handle.exited /\ ~handle.gone /\ stdout = <<>> /\ ~Whole(pending)
  /\ handle' = closeOnce(handle.code, [handle EXCEPT !.gone = TRUE])
  /\ Hears(handle') /\ UNCHANGED <<stdin, stdout, child, h2, pending, got>>

(***************************************************************************)
(* The child.                                                              *)
(***************************************************************************)
\* Bytes of the host arrive.
ChildData ==
  /\ stdin # <<>> /\ child.st \in {"read", "ended"}
  /\ \E k \in 1..MaxPiece :
       /\ k <= Len(stdin) /\ stdin' = SubSeq(stdin, k + 1, Len(stdin))
       /\ child' = [child EXCEPT !.buf = @ \o SubSeq(stdin, 1, k)]
  /\ UNCHANGED <<stdout, h2, handle, pending, client, got>>

\* Mutant of ChildReads: what is there of a message is taken for the message.
ChildReadsEager ==
  /\ child.st = "read" /\ Len(child.buf) >= Header
  /\ child' = [st   |-> IF unary \/ child.buf[1].len = 0 THEN "ended" ELSE "read",
               buf  |-> SubSeq(child.buf, Header + child.buf[1].len + 1, Len(child.buf)),
               sent |-> IF child.buf[1].len = 0 THEN child.sent ELSE Append(child.sent, child.buf[1].n)]
  /\ UNCHANGED <<stdin, stdout, h2, handle, pending, client, got>>

\* readMessage: a message goes to Cursor; an empty one, or that of a call, is
\* the last.
ChildReads ==
  /\ child.st = "read" /\ Whole(child.buf)
  /\ child' = [st   |-> IF unary \/ child.buf[1].len = 0 THEN "ended" ELSE "read",
               buf  |-> Tail2(child.buf),
               sent |-> IF child.buf[1].len = 0 THEN child.sent ELSE Append(child.sent, child.buf[1].n)]
  /\ UNCHANGED <<stdin, stdout, h2, handle, pending, client, got>>

\* Cursor answers; a piece is framed for the host.
Answer ==
  /\ ~Dead /\ h2.st = "open" /\ h2.came < Len(Answers)
  /\ (unary => child.st = "ended")
  /\ h2' = [h2 EXCEPT !.came = @ + 1]
  /\ stdout' = stdout \o lpEncode(h2'.came, Answers[h2'.came])
  /\ UNCHANGED <<stdin, child, handle, pending, client, got>>

\* Cursor ended its side, or the connection failed; the child exits.
H2Ends ==
  /\ ~Dead /\ h2.st = "open"
  /\ \/ h2.came = Len(Answers) /\ child.st = "ended" /\ h2' = [h2 EXCEPT !.st = "ended"]
     \/ h2' = [h2 EXCEPT !.st = "error"]
  /\ child' = [child EXCEPT !.st = "dead"]
  /\ UNCHANGED <<stdin, stdout, handle, pending, client, got>>

\* killBridge: nothing moved on the HTTP/2 stream for too long.
killBridge ==
  /\ ~Dead /\ child' = [child EXCEPT !.st = "dead"]
  /\ UNCHANGED <<stdin, stdout, h2, handle, pending, client, got>>

Next ==
  \/ Write \/ End \/ GiveUp \/ Abandon \/ Data \/ Parse \/ Exit \/ Close
  \/ ChildData \/ ChildReads \/ Answer \/ H2Ends \/ killBridge

\* The time of a call runs; nothing is assumed of Cursor or the child.
Fairness == WF_vars(GiveUp)
Spec == Init /\ [][Next]_vars
FairSpec == Spec /\ Fairness

-------------------------------------------------------------------------------
(***************************************************************************)
(* Properties.                                                             *)
(***************************************************************************)
Upto(n) == [i \in 1..n |-> i]

\* Buffers hold bytes, states are known, and an end is told at most once.
TypeOK ==
  /\ child.st \in {"read", "ended", "dead"} /\ h2.came \in 0..Len(Answers) /\ h2.st \in {"open", "ended", "error"}
  /\ handle.told \in 0..1 /\ handle.code \in 0..1 /\ client.written \in 0..Len(Requests)

\* What the client receives is what Cursor answered, in its order and without
\* a gap, however the bytes were cut; buffers stay aligned to frames.
InOrder ==
  /\ got = Upto(Len(got)) /\ Len(got) <= h2.came
  /\ pending # <<>> => pending[1].t = "len"

\* What reaches Cursor is what the client wrote, in its order.
SentInOrder == child.sent = Upto(Len(child.sent)) /\ Len(child.sent) <= client.written

\* A call that ends well has the whole answer.
WholeAnswer == (client.st = "settled" /\ client.code = 0) => got = Upto(Len(Answers)) /\ h2.st = "ended"

\* A settled call stays as it was told.
SettledOnce == [][client.st = "settled" => client' = client]_vars

\* A call always ends, whatever Cursor and the child do.
CallEnds == (unary /\ handle.ended) ~> client.st = "settled"

\* A bridge that is closed, given up or abandoned leaves no process behind.
NoOrphan == handle.closed => Dead
===============================================================================
