---------------------------- MODULE GoogleStream ----------------------------
(***************************************************************************)
(* One request of an Antigravity slot: the steps before it is sent, the     *)
(* framing of the event stream it is answered with, and the events that Pi   *)
(* gets for it.  The server may send any lines, stop anywhere, or go silent; *)
(* hooks of the host may be slow; the user or the deadline may abort.        *)
(*                                                                         *)
(* A line of the stream carries one part of an event: a frame, the           *)
(* terminator, or a field that is passed over.  Texts, signatures and token  *)
(* counts are left out; a part of a frame is a piece of text or of           *)
(* reasoning, a call, a call that is not valid, or something unknown.        *)
(***************************************************************************)
EXTENDS Naturals, Sequences, FiniteSets, SequencesExt

CONSTANTS
  Call,      \* identities of tool calls
  Part,      \* the parts the server uses: a subset of Parts
  Finish,    \* the finish reasons the server uses: a subset of Finishes
  Noise,     \* lines other than frames: a subset of Noises
  PerFrame,  \* bound on the parts of a frame
  MaxEvent,  \* maxEventBytes, counted in lines
  MaxTotal   \* maxStreamBytes, counted in lines

Parts == {<<"text", 0>>, <<"thinking", 0>>, <<"badcall", 0>>, <<"junk", 0>>} \cup {<<"call", c>> : c \in Call}
Finishes == {"STOP", "MAX_TOKENS", "OTHER"}
\* "broken" is a frame that is not JSON, or of the wrong shape, or that reports an error.
Noises == {"field", "unknown", "broken", "done"}

StreamAssumption ==
  /\ Call \subseteq Nat \ {0} /\ Part \subseteq Parts /\ Finish \subseteq Finishes /\ Noise \subseteq Noises
  /\ PerFrame \in Nat /\ MaxEvent \in Nat \ {0} /\ MaxTotal \in Nat

VARIABLES
  phase,     \* what the request waits for
  aborted,   \* the signal of the operation
  data,      \* events: the data lines of the event being read
  size,      \* events: its length so far
  total,     \* events: the length of the stream so far
  ended,     \* events: the terminator was read
  frame,     \* the frame that a hook of the host looks at
  frames,    \* the frames taken, all of them
  current,   \* the block being written: its kind and its place, or <<"none", 0>>
  content,   \* message.content: pairs of a kind and the pieces it holds, or the call
  calls,     \* pendingTools
  terminal,  \* the finish reason, "none" before it
  out        \* the events pushed to Pi

vars == <<phase, aborted, data, size, total, ended, frame, frames, current, content, calls, terminal, out>>
framing == <<data, size, total, ended>>
message == <<frames, current, content, calls, terminal>>

Waits == {"before", "payload", "response", "headers", "read", "hook"}
Usage == [cand |-> FALSE, parts |-> <<>>, finish |-> "none"]
Frames == {Usage} \cup [cand : {TRUE}, parts : UNION {[1..n -> Part] : n \in 0..PerFrame}, finish : Finish \cup {"none"}]
Data(f) == [is |-> "frame", f |-> f]
Done == [is |-> "done", f |-> Usage]
Lines == {[is |-> k, f |-> Usage] : k \in Noise \cup {"blank"}} \cup {Data(f) : f \in Frames}

Init ==
  /\ phase = "before" /\ aborted = FALSE
  /\ data = <<>> /\ size = 0 /\ total = 0 /\ ended = FALSE /\ frame = Usage
  /\ frames = <<>> /\ current = <<"none", 0>> /\ content = <<>> /\ calls = <<>> /\ terminal = "none"
  /\ out = <<>>

\* The catch at the end of the request.
Fails(pushed) ==
  /\ phase' = "over"
  /\ out' = pushed \o <<<<IF aborted THEN "aborted" ELSE "error", 0>>>>

----------------------------------------------------------------------------
(* Before the stream: beforeRequest, the hook for the payload, the request,  *)
(* the hook for the response.                                               *)

Answered(p, good) ==
  /\ phase = p /\ ~aborted
  /\ IF ~good THEN Fails(out)
     ELSE /\ phase' = CASE p = "before" -> "payload" [] p = "payload" -> "response"
                        [] p = "response" -> "headers" [] OTHER -> "read"
          /\ out' = IF p = "headers" THEN <<<<"start", 0>>>> ELSE out
  /\ UNCHANGED <<aborted, frame, framing, message>>

Abort ==
  /\ phase # "over" /\ ~aborted
  /\ aborted' = TRUE
  /\ UNCHANGED <<phase, frame, out, framing, message>>

\* cancellable: whatever the request waits for, the signal ends the wait.
\* Mutant of Raises: the hook that looks at a frame is waited for.
RaisesButHook ==
  /\ aborted /\ phase \in Waits \ {"hook"}
  /\ Fails(out)
  /\ UNCHANGED <<aborted, frame, framing, message>>
Raises ==
  /\ aborted /\ phase \in Waits
  /\ Fails(out)
  /\ UNCHANGED <<aborted, frame, framing, message>>

----------------------------------------------------------------------------
(* The frames of the stream: events, one line at a time.                    *)

EventEnds(d) ==
  /\ size' = 0 /\ data' = <<>>
  /\ \/ d = <<>> /\ UNCHANGED <<phase, out, ended, frame>>
     \/ d = <<Done>> /\ ended /\ Fails(out) /\ UNCHANGED <<ended, frame>>
     \/ d = <<Done>> /\ ~ended /\ ended' = TRUE /\ UNCHANGED <<phase, out, frame>>
     \/ /\ Len(d) = 1 /\ d[1].is = "frame" /\ ~ended
        /\ phase' = "hook" /\ frame' = d[1].f
        /\ UNCHANGED <<out, ended>>
     \/ /\ d \notin {<<>>, <<Done>>}
        /\ Len(d) > 1 \/ d[1].is = "broken" \/ ended
        /\ Fails(out) /\ UNCHANGED <<ended, frame>>

\* Mutant of Line: frames are taken after the terminator.
LineAfterDone(l) ==
  /\ phase = "read" /\ ~aborted
  /\ total' = total + 1
  /\ IF total + 1 > MaxTotal \/ size + 1 > MaxEvent \/ l.is = "unknown"
     THEN Fails(out) /\ UNCHANGED <<data, size, ended, frame>>
     ELSE \/ l.is = "blank" /\ data # <<>> /\ data[1].is = "frame" /\ size' = 0 /\ data' = <<>>
               /\ phase' = "hook" /\ frame' = data[1].f /\ UNCHANGED <<out, ended>>
          \/ l.is = "blank" /\ ~(data # <<>> /\ data[1].is = "frame") /\ EventEnds(data)
          \/ l.is = "field" /\ size' = size + 1 /\ UNCHANGED <<phase, data, ended, out, frame>>
          \/ /\ l.is \in {"frame", "broken", "done"}
             /\ size' = size + 1 /\ data' = Append(data, l)
             /\ UNCHANGED <<phase, ended, out, frame>>
  /\ UNCHANGED <<aborted, message>>
\* Mutant of Line: the length of an event is not limited.
LineUnlimited(l) ==
  /\ phase = "read" /\ ~aborted
  /\ total' = total + 1
  /\ IF total + 1 > MaxTotal \/ l.is = "unknown"
     THEN Fails(out) /\ UNCHANGED <<data, size, ended, frame>>
     ELSE \/ l.is = "blank" /\ EventEnds(data)
          \/ l.is = "field" /\ size' = size + 1 /\ UNCHANGED <<phase, data, ended, out, frame>>
          \/ /\ l.is \in {"frame", "broken", "done"}
             /\ size' = size + 1 /\ data' = Append(data, l)
             /\ UNCHANGED <<phase, ended, out, frame>>
  /\ UNCHANGED <<aborted, message>>
Line(l) ==
  /\ phase = "read" /\ ~aborted
  /\ total' = total + 1
  /\ IF total + 1 > MaxTotal \/ size + 1 > MaxEvent \/ l.is = "unknown"
     THEN Fails(out) /\ UNCHANGED <<data, size, ended, frame>>
     ELSE \/ l.is = "blank" /\ EventEnds(data)
          \/ l.is = "field" /\ size' = size + 1 /\ UNCHANGED <<phase, data, ended, out, frame>>
          \/ /\ l.is \in {"frame", "broken", "done"}
             /\ size' = size + 1 /\ data' = Append(data, l)
             /\ UNCHANGED <<phase, ended, out, frame>>
  /\ UNCHANGED <<aborted, message>>

----------------------------------------------------------------------------
(* The message: each frame adds to it, and its events go to Pi.             *)

Close(s) ==
  IF s.current[1] = "none" THEN s
  ELSE [s EXCEPT !.current = <<"none", 0>>, !.out = Append(@, <<"end", s.current[2]>>)]
Open(s, kind) ==
  [s EXCEPT !.current = <<kind, Len(s.content) + 1>>, !.content = Append(@, <<kind, 0>>),
            !.out = Append(@, <<"begin", Len(s.content) + 1>>)]
Write(s) ==
  [s EXCEPT !.content[s.current[2]][2] = @ + 1, !.out = Append(@, <<"delta", s.current[2]>>)]

\* Mutant of TakePart: a call does not end the block before it.
TakePartOpen(s, p) ==
  IF s.bad THEN s ELSE
  CASE p[1] \in {"text", "thinking"} -> Write(IF s.current[1] = p[1] THEN s ELSE Open(Close(s), p[1]))
    [] p[1] = "call" -> IF \E i \in DOMAIN s.calls : s.calls[i] = p[2] THEN [s EXCEPT !.bad = TRUE]
                        ELSE [s EXCEPT !.calls = Append(@, p[2])]
    [] OTHER -> [s EXCEPT !.bad = TRUE]
\* Mutant of TakePart: a new kind of text does not end the block before it.
TakePartNested(s, p) ==
  IF s.bad THEN s ELSE
  CASE p[1] \in {"text", "thinking"} -> Write(IF s.current[1] = p[1] THEN s ELSE Open(s, p[1]))
    [] p[1] = "call" -> IF \E i \in DOMAIN s.calls : s.calls[i] = p[2] THEN [Close(s) EXCEPT !.bad = TRUE]
                        ELSE [Close(s) EXCEPT !.calls = Append(@, p[2])]
    [] p[1] = "badcall" -> [Close(s) EXCEPT !.bad = TRUE]
    [] OTHER -> [s EXCEPT !.bad = TRUE]
TakePart(s, p) ==
  IF s.bad THEN s ELSE
  CASE p[1] \in {"text", "thinking"} -> Write(IF s.current[1] = p[1] THEN s ELSE Open(Close(s), p[1]))
    [] p[1] = "call" -> IF \E i \in DOMAIN s.calls : s.calls[i] = p[2] THEN [Close(s) EXCEPT !.bad = TRUE]
                        ELSE [Close(s) EXCEPT !.calls = Append(@, p[2])]
    [] p[1] = "badcall" -> [Close(s) EXCEPT !.bad = TRUE]
    [] OTHER -> [s EXCEPT !.bad = TRUE]

State == [current |-> current, content |-> content, calls |-> calls, out |-> out, bad |-> FALSE]

Frame ==
  /\ phase = "hook" /\ ~aborted
  /\ IF frame.cand /\ terminal # "none"
     THEN Fails(out) /\ UNCHANGED message
     ELSE \E s \in {FoldLeft(TakePart, State, frame.parts)} :
            /\ frames' = Append(frames, frame)
            /\ current' = s.current /\ content' = s.content /\ calls' = s.calls
            /\ IF s.bad \/ frame.finish = "OTHER"
               THEN Fails(s.out) /\ UNCHANGED terminal
               ELSE /\ terminal' = IF frame.finish = "none" THEN terminal ELSE frame.finish
                    /\ phase' = "read" /\ out' = s.out
  /\ UNCHANGED <<aborted, frame, framing>>

ToolEvents(from, n) == [i \in 1..n |-> <<"tool", from + i>>]

\* The stream ends, "cut" when within a line.
\* Mutant of EndOfStream: the calls of a turn that ran out of tokens are passed on.
EndOfStreamCutTools(cut) ==
  /\ phase = "read" /\ ~aborted
  /\ LET s == Close(State)
         whole == content \o [i \in DOMAIN calls |-> <<"call", calls[i]>>]
     IN IF cut \/ data # <<>> \/ terminal = "none"
        THEN Fails(out) /\ UNCHANGED <<current, content>>
        ELSE /\ current' = s.current /\ content' = whole
             /\ IF whole = <<>> THEN Fails(s.out)
                ELSE /\ phase' = "over"
                     /\ out' = s.out \o ToolEvents(Len(content), Len(calls)) \o <<<<"done", 0>>>>
  /\ UNCHANGED <<aborted, frame, frames, calls, terminal, framing>>
\* Mutant of EndOfStream: an answer without a finish reason counts as whole.
EndOfStreamUnfinished(cut) ==
  /\ phase = "read" /\ ~aborted
  /\ LET s == Close(State)
         whole == content \o [i \in DOMAIN calls |-> <<"call", calls[i]>>]
     IN IF cut \/ data # <<>> \/ (calls # <<>> /\ terminal # "STOP")
        THEN Fails(out) /\ UNCHANGED <<current, content>>
        ELSE /\ current' = s.current /\ content' = whole
             /\ IF whole = <<>> THEN Fails(s.out)
                ELSE /\ phase' = "over"
                     /\ out' = s.out \o ToolEvents(Len(content), Len(calls)) \o <<<<"done", 0>>>>
  /\ UNCHANGED <<aborted, frame, frames, calls, terminal, framing>>
EndOfStream(cut) ==
  /\ phase = "read" /\ ~aborted
  /\ LET s == Close(State)
         whole == content \o [i \in DOMAIN calls |-> <<"call", calls[i]>>]
     IN IF cut \/ data # <<>> \/ terminal = "none" \/ (calls # <<>> /\ terminal # "STOP")
        THEN Fails(out) /\ UNCHANGED <<current, content>>
        ELSE /\ current' = s.current /\ content' = whole
             /\ IF whole = <<>> THEN Fails(s.out)
                ELSE /\ phase' = "over"
                     /\ out' = s.out \o ToolEvents(Len(content), Len(calls)) \o <<<<"done", 0>>>>
  /\ UNCHANGED <<aborted, frame, frames, calls, terminal, framing>>

Next ==
  \/ Abort \/ Raises \/ Frame
  \/ \E p \in Waits \ {"read", "hook"}, good \in BOOLEAN : Answered(p, good)
  \/ \E l \in Lines : Line(l)
  \/ \E cut \in BOOLEAN : EndOfStream(cut)

Spec == Init /\ [][Next]_vars
\* Only the deadline and the steps that an abort enables are sure to come.
Fairness == WF_vars(Abort) /\ WF_vars(Raises)
FairSpec == Spec /\ Fairness

----------------------------------------------------------------------------
Ends == {"done", "error", "aborted"}
IsDone == out # <<>> /\ Last(out)[1] = "done"

TypeOK ==
  /\ phase \in Waits \cup {"over"} /\ aborted \in BOOLEAN /\ ended \in BOOLEAN
  /\ size \in 0..MaxEvent /\ total \in 0..(MaxTotal + 1) /\ Len(data) <= size
  /\ frame \in Frames /\ terminal \in Finish \cup {"none"}
  /\ current[1] # "none" => current[2] \in DOMAIN content /\ content[current[2]][1] = current[1]
  /\ Len(calls) = Cardinality(ToSet(calls))

\* What Pi is told of blocks nests: one at a time, in order, pieces only between its beginning
\* and its end, and a turn is done only with every block ended, once, and last.
Nests ==
  \A i \in DOMAIN out :
    /\ out[i][1] = "begin" =>
         out[i][2] = 1 + Cardinality({j \in 1..(i - 1) : out[j][1] = "begin"})
    /\ out[i][1] \in {"delta", "end"} => out[i - 1] \in {<<"begin", out[i][2]>>, <<"delta", out[i][2]>>}
    /\ out[i][1] \in {"begin", "tool", "done"} => out[i - 1][1] \notin {"begin", "delta"}
    /\ out[i][1] \in Ends => i = Len(out) /\ phase = "over"

\* Where the parts of the answer stand: a block is a run of parts of one kind.
Received == FlattenSeq([i \in DOMAIN frames |-> frames[i].parts])
TextParts(got) == {i \in DOMAIN got : got[i][1] \in {"text", "thinking"}}
Starts(got) == {i \in TextParts(got) : i = 1 \/ got[i - 1][1] # got[i][1]}
Place(got, i) == Cardinality({j \in Starts(got) : j <= i})
\* The message of a turn that is done holds every part of the answer, in its place, and then
\* every call.
Whole ==
  IsDone =>
    \E got \in {Received} :
      LET texts == Cardinality(Starts(got)) IN
      /\ Len(content) = texts + Len(calls)
      /\ \A i \in TextParts(got) : content[Place(got, i)] =
           <<got[i][1], Cardinality({j \in TextParts(got) : Place(got, j) = Place(got, i)})>>
      /\ \A k \in DOMAIN calls : content[texts + k] = <<"call", calls[k]>>
      /\ ToSet(calls) = {got[i][2] : i \in {j \in DOMAIN got : got[j][1] = "call"}}

\* "Signed tool calls are withheld until stream framing and terminal completion validate": Pi
\* learns of a call only in a turn that is done, whose one finish reason is STOP, with no
\* content after it and no call left out.
CallsWithheld ==
  (\E i \in DOMAIN out : out[i][1] = "tool") =>
    /\ IsDone /\ data = <<>>
    /\ Cardinality({i \in DOMAIN out : out[i][1] = "tool"}) = Len(calls)
    /\ \E i \in DOMAIN frames : /\ frames[i].finish = "STOP"
                                /\ \A j \in DOMAIN frames : j > i => ~frames[j].cand

\* A turn counts as done only when the server said that it ended, and before its terminator.
DoneIsFinished ==
  IsDone => Cardinality({i \in DOMAIN frames : frames[i].finish # "none"}) = 1

\* After the terminator no frame is looked at.
TerminatorLastStep ==
  ended /\ ended' => frames' = frames
TerminatorLast == [][TerminatorLastStep]_vars

\* Every request ends, whatever the server and the hooks do.
Settles == <>(phase = "over")
=============================================================================
