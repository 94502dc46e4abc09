--------------------------- MODULE HandoffRecord ---------------------------
(***************************************************************************)
(* What a request carries after a turn was interrupted.  Pi drops an       *)
(* assistant message whose stop reason is error or aborted; the context    *)
(* hook rewrites each into a record with the role of the user, and folds    *)
(* the results of its tool calls into it.  For a Claude subscription a      *)
(* second hook then splits messages whose text follows a tool call.  Both   *)
(* are computed anew for every request from a transcript that grows.        *)
(*                                                                         *)
(* A block of a message is "text" (also reasoning that can be read),        *)
(* "sealed" (redacted reasoning) or the number of a tool call; what is      *)
(* written in them, and how it is clipped, is left out.                     *)
(***************************************************************************)
EXTENDS Naturals, Sequences, FiniteSets, SequencesExt

CONSTANTS
  Call,       \* identities of tool calls
  MaxShown,   \* HANDOFF_MAX_TOOL_CALLS
  MaxBlocks,  \* bound on the blocks of a message
  MaxLog,     \* bound on the messages of the transcript
  Reuse       \* whether a model may give a call the identity of an earlier one

HandoffAssumption ==
  /\ Call \subseteq Nat /\ 0 \notin Call /\ MaxShown \in Nat \ {0}
  /\ MaxBlocks \in Nat /\ MaxLog \in Nat /\ Reuse \in BOOLEAN

VARIABLES
  log,       \* the transcript
  sent,      \* the messages of the last request
  upto       \* how much of the transcript it was made from

vars == <<log, sent, upto>>

Interruption == {"error", "aborted"}
Reason == Interruption \cup {"stop", "toolUse"}
\* Blocks are pairs of a kind and the number of a call, 0 for none.
Text == <<"text", 0>>
Sealed == <<"sealed", 0>>
Block == {Text, Sealed} \cup {<<"call", c>> : c \in Call}

Message(role, at, stop, blocks, of) ==
  [role |-> role, at |-> at, stop |-> stop, blocks |-> blocks, of |-> of, shows |-> <<>>, omits |-> 0]
CallsOf(m) == SelectSeq(m.blocks, LAMBDA b : b[1] = "call")
Calls(m) == {b[2] : b \in ToSet(CallsOf(m))}
Interrupted(m) == m.role = "assistant" /\ m.stop \in Interruption

----------------------------------------------------------------------------
\* renderHandoffRecord: undefined for a turn that carries nothing.
WorthKeeping(m) == \E b \in ToSet(m.blocks) : b # Sealed

\* The result of a call in this transcript: the last one with its identity, 0 for none.
ResultOf(t, c) ==
  LET at == {i \in DOMAIN t : t[i].role = "result" /\ t[i].of = c}
  IN IF at = {} THEN 0 ELSE t[CHOOSE i \in at : \A j \in at : j <= i].at

\* Mutant of Record: what follows the last call shown is not mentioned.
RecordSilent(t, m) ==
  LET shown == SubSeq(CallsOf(m), 1, IF Len(CallsOf(m)) < MaxShown THEN Len(CallsOf(m)) ELSE MaxShown)
  IN [Message("record", m.at, m.stop, <<>>, 0) EXCEPT
        !.shows = [i \in DOMAIN shown |-> <<shown[i][2], ResultOf(t, shown[i][2])>>]]
\* Mutant of Record: it carries the moment it was made.
RecordStamped(t, m) ==
  LET shown == SubSeq(CallsOf(m), 1, IF Len(CallsOf(m)) < MaxShown THEN Len(CallsOf(m)) ELSE MaxShown)
  IN [Message("record", m.at, m.stop, <<>>, Len(t)) EXCEPT
        !.shows = [i \in DOMAIN shown |-> <<shown[i][2], ResultOf(t, shown[i][2])>>],
        !.omits = Len(CallsOf(m)) - Len(shown)]
Record(t, m) ==
  LET shown == SubSeq(CallsOf(m), 1, IF Len(CallsOf(m)) < MaxShown THEN Len(CallsOf(m)) ELSE MaxShown)
  IN [Message("record", m.at, m.stop, <<>>, 0) EXCEPT
        !.shows = [i \in DOMAIN shown |-> <<shown[i][2], ResultOf(t, shown[i][2])>>],
        !.omits = Len(CallsOf(m)) - Len(shown)]

\* preserveInterruptedTurns
Rescued(t) == {i \in DOMAIN t : Interrupted(t[i]) /\ WorthKeeping(t[i])}
\* Mutant of FoldedIds: only the calls that the record shows.
FoldedIdsShown(t) ==
  UNION {{r[1] : r \in ToSet(Record(t, t[i]).shows)} : i \in Rescued(t)}
FoldedIds(t) == UNION {Calls(t[i]) : i \in Rescued(t)}

PreserveInterruptedTurns(t) ==
  LET kept == SelectSeq(t, LAMBDA m : ~(m.role = "result" /\ m.of \in FoldedIds(t)))
  IN [i \in DOMAIN kept |->
        IF Interrupted(kept[i]) /\ WorthKeeping(kept[i]) THEN Record(t, kept[i]) ELSE kept[i]]

\* splitAssistantToolUseTrailingContent: the calls in a message of their own when something
\* else follows the first of them.
IsCall(b) == b[1] = "call"
TrailingContent(m) ==
  \E i, j \in DOMAIN m.blocks : i < j /\ IsCall(m.blocks[i]) /\ ~IsCall(m.blocks[j])
\* Mutant of Split: the calls go before the rest.
SplitSwapped(m) ==
  IF m.role = "assistant" /\ TrailingContent(m)
  THEN <<[m EXCEPT !.blocks = SelectSeq(m.blocks, IsCall)],
         [m EXCEPT !.blocks = SelectSeq(m.blocks, LAMBDA b : ~IsCall(b))]>>
  ELSE <<m>>
Split(m) ==
  IF m.role = "assistant" /\ TrailingContent(m)
  THEN <<[m EXCEPT !.blocks = SelectSeq(m.blocks, LAMBDA b : ~IsCall(b))],
         [m EXCEPT !.blocks = SelectSeq(m.blocks, IsCall)]>>
  ELSE <<m>>

\* Pi, between the two hooks, drops what is still interrupted (transform-messages).
Transform(t) == SelectSeq(t, LAMBDA m : ~Interrupted(m))
Shaped(t) == FlattenSeq([i \in DOMAIN t |-> Split(t[i])])
Payload(t) == Shaped(Transform(PreserveInterruptedTurns(t)))

----------------------------------------------------------------------------
Contents == UNION {[1..n -> Block] : n \in 0..MaxBlocks}
Used == UNION {Calls(log[i]) : i \in DOMAIN log}
\* Calls that still wait: those of the last assistant message without a result.
Answered(i) == {log[j].of : j \in {j \in i..Len(log) : log[j].role = "result"}}
Open(i) == Calls(log[i]) \ Answered(i)
LastAssistant == {i \in DOMAIN log : log[i].role = "assistant" /\ \A j \in DOMAIN log : log[j].role = "assistant" => j <= i}

Init == log = <<Message("user", 1, "stop", <<Text>>, 0)>> /\ sent = <<>> /\ upto = 0

\* The user writes, or a continuation is injected, when no call waits in a turn that goes on.
UserSpeaks ==
  /\ Len(log) < MaxLog
  /\ \A i \in LastAssistant : log[i].stop = "toolUse" => Open(i) = {}
  /\ log' = Append(log, Message("user", Len(log) + 1, "stop", <<Text>>, 0))
  /\ UNCHANGED <<sent, upto>>

\* A model ends its turn, with calls, or is interrupted at any point of it.
AssistantEnds(stop, blocks) ==
  /\ Len(log) < MaxLog /\ upto = Len(log)
  /\ LET m == Message("assistant", Len(log) + 1, stop, blocks, 0)
     IN /\ Len(CallsOf(m)) = Cardinality(Calls(m))
        /\ (stop = "toolUse") => (Calls(m) # {})
        /\ (stop = "stop") => (Calls(m) = {} /\ blocks # <<>>)
        /\ ~Reuse => Calls(m) \cap Used = {}
        /\ log' = Append(log, m)
  /\ UNCHANGED <<sent, upto>>

\* A tool returns; after an interruption Pi may still store it, or never.
ToolReturns(c) ==
  /\ Len(log) < MaxLog
  /\ \E i \in LastAssistant : c \in Open(i)
  /\ log' = Append(log, Message("result", Len(log) + 1, "stop", <<>>, c))
  /\ UNCHANGED <<sent, upto>>

\* A request: after the user, or after the last result of a turn that goes on.
Request ==
  /\ upto # Len(log)
  /\ log[Len(log)].role # "assistant"
  /\ \A i \in LastAssistant : log[i].stop = "toolUse" => Open(i) = {}
  /\ sent' = Payload(log) /\ upto' = Len(log)
  /\ UNCHANGED log

Next ==
  \/ UserSpeaks \/ Request
  \/ \E stop \in Reason, blocks \in Contents : AssistantEnds(stop, blocks)
  \/ \E c \in Call : ToolReturns(c)

Spec == Init /\ [][Next]_vars

----------------------------------------------------------------------------
TypeOK ==
  /\ log \in Seq([role : {"user", "assistant", "result"}, at : 1..MaxLog, stop : Reason,
                  blocks : Seq(Block), of : Call \cup {0}, shows : {<<>>}, omits : {0}])
  /\ \A i \in DOMAIN log : log[i].at = i
  /\ upto \in 0..Len(log)
  /\ \A i \in DOMAIN sent : sent[i].role \in {"user", "assistant", "result", "record"} /\ sent[i].of \in Call \cup {0}

\* "Orphan-free": a request has no result without its call before it, and no call of an
\* answered turn without its result.
Paired ==
  \A i \in DOMAIN sent :
    /\ sent[i].role = "result" =>
         \E j \in 1..(i - 1) : sent[j].role = "assistant" /\ sent[i].of \in Calls(sent[j])
    /\ sent[i].role = "assistant" =>
         \A c \in Calls(sent[i]) : \E j \in (i + 1)..Len(sent) : sent[j].role = "result" /\ sent[j].of = c

\* Every turn that was begun is in the request, every result as itself or in a record that
\* shows it or says that it leaves some out.
NothingLost ==
  \A i \in 1..upto :
    \/ log[i].role = "user"
    \/ Interrupted(log[i]) /\ ~WorthKeeping(log[i])
    \/ \E m \in ToSet(sent) :
         \/ m.at = i
         \/ /\ log[i].role = "result" /\ m.role = "record"
            /\ (m.omits > 0 \/ \E r \in ToSet(m.shows) : r[2] = i)

\* "Identical input produces byte-identical output": a request begins with the whole of the
\* one before it, unless a result of an interrupted turn has come since.
PrefixStable ==
  [][(upto' # upto /\ ~\E j \in (upto + 1)..upto' : log[j].role = "result" /\ log[j].of \in FoldedIds(log))
       => IsPrefix(sent, sent')]_vars

\* "The Anthropic API rejects assistant turns where non-tool_use blocks follow a tool_use",
\* and, splitting them, the results still come right after their calls.
CallsLast ==
  \A i \in DOMAIN sent :
    sent[i].role = "assistant" =>
      /\ ~TrailingContent(sent[i])
      /\ Calls(sent[i]) # {} => i < Len(sent) /\ sent[i + 1].role = "result"
=============================================================================
