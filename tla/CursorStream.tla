----------------------------- MODULE CursorStream -----------------------------
(***************************************************************************)
(* The Cursor proxy for one Pi session: requests in the OpenAI form, Runs  *)
(* over a bridge process, the pause of a Run for Pi's tool results, and    *)
(* the conversation kept between requests (a checkpoint of what Cursor     *)
(* holds, with proof of which transcript it covers).                       *)
(*                                                                         *)
(* The proxy is one event loop: every action is a callback run to its end, *)
(* with the callbacks it calls in turn (destroying a bridge calls its      *)
(* close callback at once).  A callback is an operator on the state of the *)
(* proxy, p.  A Run and its bridge are named by the request that started   *)
(* them, a conversation object by the request that made it.                *)
(* Abstractions: texts are left out, a message is its kind and its author; *)
(* heartbeats and housekeeping change nothing; a watchdog may expire       *)
(* whenever its response is open; the session has an id (requests without  *)
(* one never share state).                                                 *)
(* External: Cursor, which sends a checkpoint before it ends a turn and    *)
(* ends it only when every exec has its result; Pi, which sends one        *)
(* request at a time.                                                      *)
(***************************************************************************)
EXTENDS Naturals, Sequences, SequencesExt, FiniteSets

CONSTANTS
  MaxReq,     \* requests
  MaxExec,    \* tool execs per Run
  Partial,    \* Pi may return the results one by one
  Moves,      \* whether the workspace of a request may differ: subset of BOOLEAN
  ExitWindow, \* the exit of a bridge is seen some time before its close
  LateFrames, \* frames may still be read from a process that was killed
  StatusPiped,\* the handle gets the stderr of the bridge, where it reports its status
  Faults,     \* which of "abort", "error", "status" and "death" (of the bridge) may happen
  MaxCompact, \* compactions
  MaxEnds,    \* session_shutdown, switch, fork or tree
  MaxForeign  \* turns another provider answers

CursorStreamAssumption ==
  /\ MaxReq \in Nat /\ MaxExec \in Nat /\ Partial \in BOOLEAN /\ ExitWindow \in BOOLEAN
  /\ LateFrames \in BOOLEAN /\ StatusPiped \in BOOLEAN
  /\ Faults \subseteq {"abort", "error", "status", "death"}
  /\ Moves \subseteq BOOLEAN /\ MaxCompact \in Nat /\ MaxEnds \in Nat /\ MaxForeign \in Nat

VARIABLES
  pi,   \* the session: its transcript and the request it waits for
  p,    \* the proxy: writers, bridges, activeBridges, conversation registry
  sv,   \* Cursor: what it knows and waits for, for each Run
  left  \* history: the conversation ids a reset left behind

vars == <<pi, p, sv, left>>

Request == 1..MaxReq
Exec == {<<b, k>> : b \in Request, k \in 1..MaxExec}
NoCheckpoint == <<>>  \* or <<the history it holds, with the Run it is of>>
Msg(kind, n, ids) == [kind |-> kind, n |-> n, ids |-> ids]
NoMsg == Msg("none", 0, {})
NoActive == [run |-> 0, owner |-> 0, paused |-> FALSE, dispose |-> 0, stored |-> 0, rgen |-> 0]

Init ==
  /\ pi = [log |-> <<>>, cur |-> 0, n |-> 0, gone |-> {}, compacted |-> 0, ends |-> 0, foreign |-> 0]
  /\ p = [wr |-> [w \in Request |->
                    [phase |-> "none", out |-> "none", run |-> 0, stored |-> 0, rgen |-> 0,
                     cancelled |-> FALSE, flushed |-> FALSE, mcp |-> FALSE, ended |-> FALSE,
                     pend |-> {}, told |-> {}, timer |-> FALSE, saw |-> NoCheckpoint]],
          br |-> [b \in Request |->
                    [proc |-> "none", ended |-> FALSE, heart |-> FALSE, cb |-> 0, got |-> {},
                     report |-> FALSE]],
          act |-> NoActive,
          stored |-> 0, gen |-> 0,
          obj |-> [o \in Request |->
                     [id |-> 0, cp |-> NoCheckpoint, covered |-> <<>>, expected |-> NoMsg, rgen |-> 0]]]
  /\ sv = [b \in Request |-> [hist |-> <<>>, waiting |-> {}, used |-> 0, said |-> FALSE,
                              fresh |-> FALSE, over |-> FALSE]]
  /\ left = {}

(***************************************************************************)
(* The conversation registry.                                              *)
(***************************************************************************)
\* Mutant of owns: the receipt of an earlier request still counts.
OwnsObject(s, stored, rgen) == stored # 0 /\ s.stored = stored

owns(s, stored, rgen) == stored # 0 /\ s.stored = stored /\ s.obj[stored].rgen = rgen
ownsConversation(s, w) == owns(s, s.wr[w].stored, s.wr[w].rgen)

\* Mutant of forgetConversation: the next conversation gets the same id.
ForgetKeepsId(s) == [s EXCEPT !.stored = 0]

forgetConversation(s) == [s EXCEPT !.stored = 0, !.gen = @ + 1]
dropConversation(s) == [s EXCEPT !.stored = 0, !.gen = 0]
forgetIfOwned(s, w) == IF ownsConversation(s, w) THEN forgetConversation(s) ELSE s

coverTranscript(s, o, body) ==
  [s EXCEPT !.obj[o].covered = body, !.obj[o].expected = NoMsg]

recordAssistantResponse(s, o, m) == [s EXCEPT !.obj[o].expected = m]

\* Mutant of isStaleForTranscript: the coarse test, which only compares lengths.
StaleByLength(c, body) == c.cp # NoCheckpoint /\ Len(body) > Len(c.covered) + 2

\* The transcript did not grow by exactly the answer the proxy gave and one
\* user message, or results of the tools that answer called.
isStaleForTranscript(c, body) ==
  LET k == Len(c.covered)
      suffix == SubSeq(body, k + 2, Len(body))
  IN IF c.cp = NoCheckpoint /\ c.expected = NoMsg THEN FALSE
     ELSE \/ c.expected = NoMsg
          \/ ~ IsPrefix(Append(c.covered, c.expected), body)
          \/ IF c.expected.ids = {}
             THEN Len(suffix) # 1 \/ Head(suffix).kind # "user"
             ELSE \/ suffix = <<>>
                  \/ \E i \in 1..Len(suffix) :
                       suffix[i].kind # "tools" \/ ~ suffix[i].ids \subseteq c.expected.ids

(***************************************************************************)
(* Closing: a response, a Run, a bridge.                                   *)
(***************************************************************************)
Alive(s, b) == s.br[b].proc = "running" /\ ~s.br[b].ended


closeResponse(s, w, how) ==
  IF s.wr[w].phase = "closed" THEN s
  ELSE [s EXCEPT !.wr[w].phase = "closed", !.wr[w].timer = FALSE, !.wr[w].out = how]

dispose(s, w) ==
  IF s.wr[w].phase = "closed" THEN s
  ELSE closeResponse([s EXCEPT !.wr[w].cancelled = TRUE], w, "error")

dropActive(s, b) == IF s.act.run = b THEN [s EXCEPT !.act = NoActive] ELSE s

\* failRun up to its call of cleanupBridge.
Failed(s, w) ==
  IF s.wr[w].phase = "closed" THEN s
  ELSE closeResponse(forgetIfOwned([s EXCEPT !.wr[w].cancelled = TRUE], w), w, "error")

\* Mutant of bridgeOnClose: the end of the stream counts as the end of the turn.
CloseIsStop(s, b) ==
  LET w == s.br[b].cb
      s1 == dropActive([s EXCEPT !.wr[w].timer = FALSE, !.br[b].heart = FALSE], b)
  IN IF s1.wr[w].cancelled THEN s1 ELSE closeResponse(s1, w, "stop")

\* The close callback of the bridge.  The bridge is dead, so the cleanup at
\* the end of failRun has nothing left to do.
bridgeOnClose(s, b) ==
  LET w == s.br[b].cb
      me == s.wr[w]
      s1 == dropActive([s EXCEPT !.wr[w].timer = FALSE, !.br[b].heart = FALSE], b)
      mine == ownsConversation(s1, w)
      s2 == IF mine /\ ~me.cancelled /\ me.ended /\ me.saw # NoCheckpoint
            THEN [s1 EXCEPT !.obj[me.stored].cp = me.saw] ELSE s1
  IN IF me.cancelled THEN s2
     ELSE IF me.phase = "closed"
          THEN IF me.flushed /\ ~me.ended /\ mine THEN forgetConversation(s2) ELSE s2
          ELSE Failed(s2, w)

\* Mutant of destroy: stdin is closed and the process is left to end by itself.
EndOnly(s, b) == [s EXCEPT !.br[b].ended = TRUE]

\* BridgeHandle.destroy: the pipe is ended, the process killed, and the close
\* callback called, unless the exit was seen: then close follows by itself.
destroy(s, b) ==
  LET s1 == [s EXCEPT !.br[b].ended = TRUE]
  IN IF s.br[b].proc # "running" THEN s1
     ELSE bridgeOnClose([s1 EXCEPT !.br[b].proc = "closed"], b)

cleanupBridge(s, b) ==
  LET s1 == IF s.act.run = b /\ s.act.dispose # 0 THEN dispose(s, s.act.dispose) ELSE s
  IN dropActive(destroy([s1 EXCEPT !.br[b].heart = FALSE], b), b)

failRun(s, w) ==
  IF s.wr[w].phase = "closed" THEN s ELSE cleanupBridge(Failed(s, w), s.wr[w].run)

(***************************************************************************)
(* Opening: a request reaches the proxy.                                   *)
(***************************************************************************)
\* A response is opened on the Run b: it takes the newest receipt of the
\* conversation, is what a cleanup disposes of, and gets the callbacks.
writeSSEStream(s, w, b) ==
  LET rgen == IF s.stored = 0 THEN 0 ELSE s.obj[s.stored].rgen + 1
      s1 == IF s.stored = 0 THEN s ELSE [s EXCEPT !.obj[s.stored].rgen = rgen]
  IN [s1 EXCEPT
       !.wr[w] = [@ EXCEPT !.phase = "open", !.run = b, !.stored = s.stored, !.rgen = rgen],
       !.act = [run |-> b, owner |-> w, paused |-> FALSE, dispose |-> w,
                stored |-> s.stored, rgen |-> rgen],
       !.br[b].cb = w]

\* A new Run.  o is the conversation found for the request, 0 if there is none.
StartRun(s, w, body, o) ==
  LET s1 == IF o # 0 THEN s
            ELSE [s EXCEPT !.stored = w, !.obj[w].id = s.gen, !.obj[w].cp = NoCheckpoint]
      s2 == coverTranscript(s1, IF o # 0 THEN o ELSE w, body)
  IN writeSSEStream([s2 EXCEPT !.br[w] = [@ EXCEPT !.proc = "running", !.heart = TRUE]], w, w)

\* What Cursor knows when the Run starts: the transcript, or its checkpoint
\* and the new user message, or the checkpoint and the results just returned.
SentHistory(body, cp) ==
  IF cp = NoCheckpoint THEN body ELSE Append(Head(cp).hist, Last(body))

\* The results that the turn in progress already has.
toolResults(body) ==
  LET turn == {i \in 1..Len(body) :
                 \A j \in i..Len(body) : body[j].kind \notin {"user", "summary"}}
  IN UNION {body[i].ids : i \in {j \in turn : body[j].kind = "tools" /\ Last(body).kind = "tools"}}

\* Mutant of handleToolResultResume: the results are written while the paused
\* response, already closed, still has the callbacks.
ResumeWithoutWriter(s, w, a, results) ==
  LET got == s.br[a.run].got \cup results
      s1 == [s EXCEPT !.br[a.run].got = got, !.act = [a EXCEPT !.dispose = 0]]
  IN closeResponse([s1 EXCEPT !.wr[w].run = a.run], w, "error")

\* The Run goes on when every exec has its result; the new writer is installed
\* before the results are written.
handleToolResultResume(s, w, a, results) ==
  LET got == s.br[a.run].got \cup (results \cap s.wr[a.owner].pend)
      unresolved == s.wr[a.owner].pend \ got
      s1 == [s EXCEPT !.br[a.run].got = got]
      s2 == [s1 EXCEPT !.act = [a EXCEPT !.paused = TRUE, !.dispose = 0],
                       !.wr[w].run = a.run, !.wr[w].told = unresolved]
  IN IF unresolved = {} THEN writeSSEStream(s1, w, a.run)
     ELSE closeResponse(IF s.stored = 0 THEN s2
                        ELSE recordAssistantResponse(s2, s.stored, Msg("again", w, unresolved)),
                        w, "tool_calls")

\* Cursor once the results reached it.
Told(b, owner, execs) ==
  [sv EXCEPT ![b].waiting = @ \ execs, ![b].said = FALSE, ![b].fresh = FALSE,
             ![b].hist = @ \o <<Msg("asst", owner, execs), Msg("tools", 0, execs)>>]

handleChatCompletion(w, body, moved) ==
  LET stale == \/ p.stored # 0 /\ (moved \/ isStaleForTranscript(p.obj[p.stored], body))
               \/ p.act.run # 0 /\ p.act.stored # 0 /\ ~owns(p, p.act.stored, p.act.rgen)
      s1 == IF ~stale THEN p
            ELSE IF p.act.run # 0 THEN cleanupBridge(forgetConversation(p), p.act.run)
                 ELSE forgetConversation(p)
      a == IF stale THEN NoActive ELSE p.act
      o == IF stale THEN 0 ELSE p.stored
      results == toolResults(body)
      resuming == a.run # 0 /\ a.paused /\ results # {}
      s2 == IF resuming
            THEN [IF o = 0 THEN s1 ELSE coverTranscript(s1, o, body) EXCEPT !.act = NoActive]
            ELSE s1
      s3 == IF a.run # 0 THEN cleanupBridge(s2, a.run) ELSE s2
  IN IF resuming /\ Alive(p, a.run)
     THEN LET s4 == handleToolResultResume(s2, w, a, results) IN
          /\ p' = s4
          /\ sv' = IF s4.wr[w].phase = "open" THEN Told(a.run, a.owner, s4.wr[a.owner].pend) ELSE sv
     ELSE /\ p' = StartRun(s3, w, body, o)
          /\ sv' = [sv EXCEPT ![w].hist =
                      SentHistory(body, IF o = 0 THEN NoCheckpoint ELSE s3.obj[o].cp)]

(***************************************************************************)
(* The writer: tool calls, the end of the turn, what goes wrong.           *)
(***************************************************************************)
flushPiToolCalls(s, w) ==
  LET me == s.wr[w]
      s1 == [s EXCEPT !.wr[w] = [@ EXCEPT !.flushed = TRUE, !.mcp = TRUE, !.timer = FALSE,
                                                !.told = me.pend],
                      !.act = [run |-> me.run, owner |-> w, paused |-> TRUE, dispose |-> w,
                               stored |-> me.stored, rgen |-> me.rgen]]
      s2 == IF ownsConversation(s1, w)
            THEN recordAssistantResponse(s1, me.stored, Msg("asst", w, me.pend)) ELSE s1
  IN IF me.phase = "closed" \/ me.cancelled \/ me.flushed \/ me.pend = {}
     THEN [s EXCEPT !.wr[w].timer = FALSE]
     ELSE closeResponse(s2, w, "tool_calls")

\* Mutant of Late: an exec that comes during the pause joins the others.
NeverLate(s, w) == FALSE

\* The response can carry no more tool calls.
Late(s, w) == s.wr[w].phase = "closed" \/ s.wr[w].cancelled \/ s.wr[w].flushed

\* A tool call of Cursor: it waits for its siblings, or is refused at once.
queuePiTool(s, w, e) ==
  IF Late(s, w) THEN s
  ELSE [s EXCEPT !.wr[w] = [@ EXCEPT !.pend = s.wr[w].pend \cup {e}, !.mcp = TRUE, !.timer = TRUE]]

finishOpenAITurn(s, w) ==
  LET s1 == IF ownsConversation(s, w)
            THEN recordAssistantResponse(s, s.wr[w].stored, Msg("asst", w, {})) ELSE s
  IN IF s.wr[w].phase = "closed" \/ s.wr[w].mcp THEN s
     ELSE cleanupBridge(closeResponse(s1, w, "stop"), s.wr[w].run)

(***************************************************************************)
(* Pi.                                                                     *)
(***************************************************************************)
log == pi.log
LastIds == IF log = <<>> THEN {} ELSE Last(log).ids
Calls == log # <<>> /\ Last(log).kind \in {"asst", "again"} /\ LastIds # {}
Due == log # <<>> /\ Last(log).kind \in {"user", "tools", "summary"}

Send(body, moved) ==
  LET w == pi.n + 1 IN
  /\ pi.cur = 0 /\ w \in Request
  /\ handleChatCompletion(w, body, moved)
  /\ pi' = [pi EXCEPT !.log = body, !.cur = w, !.n = w]
  /\ UNCHANGED left

Ask ==
  \E moved \in Moves :
    Send((IF Calls THEN Append(log, Msg("tools", 0, LastIds)) ELSE log)
           \o <<Msg("user", pi.n + 1, {})>>, moved)

Again == Due /\ \E moved \in Moves : Send(log, moved)

ReturnResults ==
  /\ Calls
  /\ \E ids \in SUBSET LastIds \ {{}} :
       /\ Partial \/ ids = LastIds
       /\ Send(Append(log, Msg("tools", 0, ids)), FALSE)

\* Pi reads the end of the response it waits for.
Receive ==
  LET w == pi.cur IN
  /\ w # 0 /\ p.wr[w].phase = "closed"
  /\ pi' = [pi EXCEPT !.cur = 0,
             !.log = CASE p.wr[w].out = "stop" -> Append(@, Msg("asst", w, {}))
                       [] p.wr[w].out = "tool_calls" ->
                            Append(@, Msg(IF p.wr[w].flushed THEN "asst" ELSE "again", w, p.wr[w].told))
                       [] OTHER -> @]
  /\ UNCHANGED <<p, sv, left>>

\* The user presses Escape: the connection goes, which the proxy hears later.
Abort ==
  /\ "abort" \in Faults /\ pi.cur # 0
  /\ pi' = [pi EXCEPT !.cur = 0, !.gone = @ \cup {pi.cur}]
  /\ UNCHANGED <<p, sv, left>>

\* Another provider answers the last message.
ForeignTurn ==
  /\ pi.cur = 0 /\ Due /\ pi.foreign < MaxForeign
  /\ pi' = [pi EXCEPT !.log = Append(@, Msg("other", pi.n, {})), !.foreign = @ + 1]
  /\ UNCHANGED <<p, sv, left>>

resetConversationForSession(s) ==
  IF s.act.run = 0 THEN forgetConversation(s)
  ELSE cleanupBridge(forgetConversation(s), s.act.run)

\* session_compact: a summary replaces all but the newest messages.
Compact ==
  /\ pi.cur = 0 /\ log # <<>> /\ pi.compacted < MaxCompact
  /\ \E k \in 0..(Len(log) - 1) :
       /\ k < 3
       /\ LET rest == SubSeq(log, Len(log) - k + 1, Len(log)) IN
          /\ k > 0 => rest[1].kind # "tools"
          /\ pi' = [pi EXCEPT !.log = <<Msg("summary", pi.compacted, {})>> \o rest, !.compacted = @ + 1]
  /\ p' = resetConversationForSession(p)
  /\ left' = left \cup {p.gen}
  /\ UNCHANGED sv

cleanupSessionState(s) ==
  dropConversation(IF s.act.run = 0 THEN s ELSE cleanupBridge(s, s.act.run))

\* session_before_tree, _fork, _switch, session_shutdown; the session goes on
\* (a tree), or is resumed, from some point of its transcript.
EndSession ==
  /\ pi.ends < MaxEnds
  /\ \E k \in 1..Len(log) : pi' = [pi EXCEPT !.log = SubSeq(@, 1, k), !.ends = @ + 1, !.cur = 0,
                                             !.gone = @ \cup ({pi.cur} \ {0})]
  /\ p' = cleanupSessionState(p)
  /\ UNCHANGED <<sv, left>>

(***************************************************************************)
(* Events of a bridge and of a response.                                   *)
(***************************************************************************)
\* A frame reaches writer w; when its conversation has moved on the Run is cut.
Frame(b) ==
  \/ p.br[b].proc \in {"running", "exited"}
  \/ LateFrames /\ p.br[b].proc = "closed"
Fenced(b) == LET w == p.br[b].cb IN p.wr[w].stored # 0 /\ ~ownsConversation(p, w)
Cut(b) ==
  LET w == p.br[b].cb IN
  closeResponse(cleanupBridge([p EXCEPT !.wr[w].cancelled = TRUE], b), w, "error")

Text(b) ==
  /\ Frame(b) /\ ~sv[b].over /\ sv[b].waiting = {}
  /\ sv' = [sv EXCEPT ![b].said = TRUE, ![b].fresh = FALSE]
  /\ p' = IF Fenced(b) THEN Cut(b) ELSE p
  /\ UNCHANGED <<pi, left>>

ToolExec(b) ==
  LET e == <<b, sv[b].used + 1>>
      w == p.br[b].cb
      refused == Alive(p, b) /\ Late(p, w)
  IN /\ Frame(b) /\ ~sv[b].over /\ sv[b].used < MaxExec
     /\ sv' = [sv EXCEPT ![b].said = TRUE, ![b].fresh = FALSE, ![b].used = @ + 1,
                         ![b].waiting = IF ~Fenced(b) /\ refused THEN @ ELSE @ \cup {e}]
     /\ p' = IF Fenced(b) THEN Cut(b) ELSE queuePiTool(p, w, e)
     /\ UNCHANGED <<pi, left>>

Store(s, w, cp) ==
  LET s1 == [s EXCEPT !.wr[w].saw = cp]
  IN IF ownsConversation(s, w) THEN [s1 EXCEPT !.obj[s.wr[w].stored].cp = cp] ELSE s1

Checkpoint(b) ==
  LET w == p.br[b].cb
      hist == sv[b].hist \o (IF sv[b].said THEN <<Msg("asst", w, p.wr[w].pend)>> ELSE <<>>)
  IN /\ Frame(b) /\ ~sv[b].over /\ ~sv[b].fresh
     /\ sv' = [sv EXCEPT ![b].fresh = TRUE]
     /\ p' = IF Fenced(b) THEN Cut(b) ELSE Store(p, w, <<[hist |-> hist, run |-> b]>>)
     /\ UNCHANGED <<pi, left>>

TurnEnded(b) ==
  LET w == p.br[b].cb IN
  /\ Frame(b) /\ ~sv[b].over /\ sv[b].said /\ sv[b].fresh /\ sv[b].waiting = {}
  /\ sv' = [sv EXCEPT ![b].over = TRUE]
  /\ p' = IF Fenced(b) THEN Cut(b) ELSE finishOpenAITurn([p EXCEPT !.wr[w].ended = TRUE], w)
  /\ UNCHANGED <<pi, left>>

\* The stream ends with an error.
EndStreamError(b) ==
  /\ "error" \in Faults /\ p.br[b].proc \in {"running", "exited"}
  /\ p' = IF Fenced(b) THEN Cut(b) ELSE failRun(p, p.br[b].cb)
  /\ UNCHANGED <<pi, sv, left>>

\* Mutant of StatusError: an error of a Run already answered is let be, and
\* that of an open response too.
StatusIgnored(b) ==
  /\ "status" \in Faults /\ p.br[b].proc \in {"running", "exited"}
  /\ p' = [p EXCEPT !.br[b].report = TRUE]
  /\ UNCHANGED <<pi, sv, left>>

\* The bridge process reports a transport error on its stderr, if that is read.
StatusError(b) ==
  LET w == p.br[b].cb
      s1 == [p EXCEPT !.br[b].report = TRUE]
  IN /\ "status" \in Faults /\ p.br[b].proc \in {"running", "exited"}
     /\ p' = IF ~StatusPiped THEN s1
             ELSE IF p.wr[w].phase = "closed" THEN cleanupBridge(forgetIfOwned(s1, w), b)
             ELSE failRun(s1, w)
     /\ UNCHANGED <<pi, sv, left>>

ProcessExit(b) ==
  /\ ExitWindow /\ p.br[b].proc = "running"
  /\ p' = [p EXCEPT !.br[b].proc = "exited"]
  /\ UNCHANGED <<pi, sv, left>>

\* The process and its pipes are closed, or it could not be spawned.
ProcessClose(b) ==
  /\ p.br[b].proc \in (IF "death" \in Faults THEN {"running", "exited"} ELSE {"exited"})
  /\ p' = bridgeOnClose([p EXCEPT !.br[b].proc = "closed"], b)
  /\ UNCHANGED <<pi, sv, left>>

\* 75 ms after the last tool call.
Coalesced(w) ==
  /\ p.wr[w].timer
  /\ p' = flushPiToolCalls(p, w)
  /\ UNCHANGED <<pi, sv, left>>

\* Mutant of StallTimeout: the expired watchdog only reports.
StallReports(w) ==
  /\ p.wr[w].phase = "open" /\ ~p.wr[w].cancelled
  /\ p' = [p EXCEPT !.wr[w].cancelled = TRUE] /\ UNCHANGED <<pi, sv, left>>

\* A watchdog expires: failStalledRun.  The execs get an error, then the pipe is closed.
StallTimeout(w) ==
  LET s1 == forgetIfOwned([p EXCEPT !.wr[w].cancelled = TRUE], w) IN
  /\ p.wr[w].phase = "open"
  /\ sv' = [sv EXCEPT ![p.wr[w].run].waiting =
              IF p.wr[w].flushed \/ ~Alive(p, p.wr[w].run) THEN @ ELSE @ \ p.wr[w].pend]
  /\ p' = cleanupBridge(closeResponse(s1, w, "error"), p.wr[w].run)
  /\ UNCHANGED <<pi, left>>

\* onClientClose.
ClientClose(w) ==
  /\ w \in pi.gone /\ p.wr[w].phase = "open" /\ ~p.wr[w].cancelled
  /\ p' = closeResponse(cleanupBridge([p EXCEPT !.wr[w].cancelled = TRUE], p.wr[w].run), w, "error")
  /\ UNCHANGED <<pi, sv, left>>

Next ==
  \/ Ask \/ Again \/ ReturnResults \/ Receive \/ Abort
  \/ ForeignTurn \/ Compact \/ EndSession
  \/ \E b \in Request : \/ Text(b) \/ ToolExec(b) \/ Checkpoint(b) \/ TurnEnded(b)
                        \/ EndStreamError(b) \/ StatusError(b)
                        \/ ProcessExit(b) \/ ProcessClose(b)
  \/ \E w \in Request : Coalesced(w) \/ StallTimeout(w) \/ ClientClose(w)

Spec == Init /\ [][Next]_vars

\* The two watchdogs of an open response do not stop before it closes: frames
\* only put them off, and Cursor's useful frames are bounded here.
Fairness == \A w \in Request : WF_vars(StallTimeout(w))
FairSpec == Spec /\ Fairness

-------------------------------------------------------------------------------
(***************************************************************************)
(* Properties.                                                             *)
(***************************************************************************)
Flag == [phase : {"none", "open", "closed"}, out : {"none", "stop", "tool_calls", "error"}]

\* Every part of the state keeps its kind; a response that is closed has an
\* outcome and one that is not has none.
TypeOK ==
  /\ pi.cur \in 0..MaxReq /\ pi.n \in 0..MaxReq /\ pi.gone \subseteq Request
  /\ \A w \in Request :
       /\ [phase |-> p.wr[w].phase, out |-> p.wr[w].out] \in Flag
       /\ p.wr[w].phase = "closed" <=> p.wr[w].out # "none"
       /\ p.wr[w].pend \subseteq Exec
  /\ \A b \in Request :
       /\ p.br[b].proc \in {"none", "running", "exited", "closed"}
       /\ sv[b].waiting \subseteq Exec
  /\ p.stored \in 0..MaxReq /\ p.act.run \in 0..MaxReq

\* A cancelled, stalled, compacted or replaced Run leaves no process behind: a
\* bridge that runs is the one registered, which the next cleanup will kill.
NoOrphanBridge == \A b \in Request : p.br[b].proc = "running" => p.act.run = b /\ p.br[b].heart

\* While a Run is live, either Cursor works and an open response hears it, or
\* Cursor waits for tool calls that the response gathers or Pi was given.
RunNeverStranded ==
  \A b \in Request :
    LET w == p.br[b].cb IN
    p.br[b].proc = "running" /\ ~sv[b].over =>
      \/ p.wr[w].phase = "open" /\ sv[b].waiting \subseteq p.wr[w].pend
           /\ (sv[b].waiting # {} => p.wr[w].timer)
      \/ p.act.paused /\ p.act.owner = w /\ sv[b].waiting # {} /\ sv[b].waiting \subseteq p.wr[w].told

\* A transport failure the bridge reports ends the response with that evidence:
\* the response does not go on to fail later for the closed stream.
ReportHeard == \A b \in Request : p.br[b].report => p.wr[p.br[b].cb].phase # "open"

\* A Run that starts knows the transcript exactly as Pi has it, whether it was
\* sent the transcript or goes on from a checkpoint.
RunSeesTranscriptStep ==
  \A b \in Request :
    p.br[b].proc = "none" /\ p'.br[b].proc # "none" => sv'[b].hist = pi'.log
RunSeesTranscript == [][RunSeesTranscriptStep]_vars

\* "stop" is said only of a turn that Cursor ended.
StopMeansEndedStep ==
  \A w \in Request :
    p.wr[w].out # "stop" /\ p'.wr[w].out = "stop" => sv'[p.wr[w].run].over
StopMeansEnded == [][StopMeansEndedStep]_vars

\* Only the Run of the newest request changes the checkpoint kept between
\* requests; a callback of an older one, or of one before a compaction, does not.
CheckpointFencedStep ==
  \A o \in Request :
    p'.obj[o].cp # p.obj[o].cp /\ p'.obj[o].cp # NoCheckpoint =>
      LET w == p.br[p'.obj[o].cp[1].run].cb IN
      p.stored = o /\ p.wr[w].stored = o /\ p.wr[w].rgen = p.obj[o].rgen
CheckpointFenced == [][CheckpointFencedStep]_vars

\* A conversation a compaction left behind is not entered again: no later Run
\* uses its id.
LeftBehindStep ==
  \A b \in Request :
    p.br[b].proc = "none" /\ p'.br[b].proc # "none" => p'.obj[p'.stored].id \notin left
LeftBehind == [][LeftBehindStep]_vars

\* A response that was opened is ended.
Answered == \A w \in Request : (p.wr[w].phase = "open") ~> (p.wr[w].phase = "closed")

\* The proxy keeps the promise of CursorTurn.
Turn == INSTANCE CursorTurn WITH
  run <- p.act.run,
  answer <- [w \in Request |-> IF p.wr[w].phase = "open" THEN "open" ELSE p.wr[w].out]
OneTurnStep == [Turn!Next]_(Turn!tvars)
OneTurn == Turn!Spec
===============================================================================
