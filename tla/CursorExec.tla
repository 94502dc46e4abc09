------------------------------ MODULE CursorExec ------------------------------
(***************************************************************************)
(* The calls Cursor makes in the middle of a Run: its own tools, the tools *)
(* Pi exposes, questions and blobs (processServerMessage and the handlers  *)
(* it calls in cursor/proxy.ts, the mapping in cursor/stream-lifecycle.ts).*)
(* When Pi is paused for them is the subject of CursorStream; here it is   *)
(* what each call is answered with.  Abstractions: of arguments only what  *)
(* decides about the answer; a frame is its kind; a blob is its id.        *)
(***************************************************************************)
EXTENDS Naturals, Sequences, FiniteSets

CONSTANTS
  Rpc,        \* calls of the server
  Cases,      \* subset of ExecCase: the calls that are made
  Questions,  \* subset of QuestionCase: the questions that are asked
  Toolset,    \* sets of tools Pi may expose
  Blob        \* blobs of the conversation

\* One of each group that is handled alike, and one the proxy does not know.
ExecCase == {"mcpArgs", "requestContextArgs", "readArgs", "lsArgs", "grepArgs", "writeArgs", "deleteArgs",
             "shellArgs", "shellStreamArgs", "fetchArgs", "diagnosticsArgs", "recordScreenArgs", "unknown"}
QuestionCase == {"askQuestionInteractionQuery", "createPlanRequestQuery", "setupVmEnvironmentArgs", "unknown"}

ExecAssumption == Cases \subseteq ExecCase /\ Questions \subseteq QuestionCase

VARIABLES
  tools,    \* the tools Pi exposes in this turn
  asked,    \* the call, or "none"
  sent,     \* the frames sent for a call
  pending,  \* calls that wait for a tool of Pi: the tool and the kind of result
  tool,     \* what the tool gave for an answered call
  quest,    \* the question that was asked, and its answer
  blobs,    \* the blob store
  given,    \* what Cursor stored, and what it was told when it asked
  touched   \* the last frame kept the watchdog of useful output quiet

vars == <<tools, asked, sent, pending, tool, quest, blobs, given, touched>>

NotPending == [name |-> "none", result |-> "none"]

Init ==
  /\ tools \in Toolset
  /\ asked = [r \in Rpc |-> "none"] /\ sent = [r \in Rpc |-> <<>>]
  /\ pending = [r \in Rpc |-> NotPending] /\ tool = [r \in Rpc |-> "none"]
  /\ quest = [case |-> "none", answer |-> "none"]
  /\ blobs = {} /\ given = [stored |-> {}, lost |-> {}] /\ touched = FALSE

(***************************************************************************)
(* The tables.                                                             *)
(***************************************************************************)
\* mapNativeExecToPiTool: the tool of Pi that stands in for one of Cursor's.
NativeTool ==
  [readArgs |-> "read", lsArgs |-> "ls", grepArgs |-> "grep", writeArgs |-> "write", deleteArgs |-> "bash",
   shellArgs |-> "bash", shellStreamArgs |-> "bash"]
Fallback == {"readArgs", "lsArgs", "grepArgs"}   \* bash can do it too

ResultCase ==
  [mcpArgs |-> "mcpResult", requestContextArgs |-> "requestContextResult", readArgs |-> "readResult",
   lsArgs |-> "lsResult", grepArgs |-> "grepResult", writeArgs |-> "writeResult", deleteArgs |-> "deleteResult",
   shellArgs |-> "shellResult", shellStreamArgs |-> "shellStream", fetchArgs |-> "fetchResult",
   diagnosticsArgs |-> "diagnosticsResult", recordScreenArgs |-> "recordScreenResult"]

\* Mutant of mapNative: bash is used where Pi exposes none.
mapNativeBlind(c) ==
  IF c \notin DOMAIN NativeTool THEN NotPending
  ELSE [name |-> NativeTool[c], result |-> ResultCase[c]]

mapNative(c) ==
  IF c \notin DOMAIN NativeTool THEN NotPending
  ELSE IF NativeTool[c] \in tools THEN [name |-> NativeTool[c], result |-> ResultCase[c]]
  ELSE IF c \in Fallback /\ "bash" \in tools THEN [name |-> "bash", result |-> ResultCase[c]]
  ELSE NotPending

\* Mutant of sendExecResult: a streaming call is not closed.
sendExecUnclosed(kind, event) == <<[kind |-> kind, event |-> event]>>

\* sendExecResult: the last event of a streaming call also closes it.
sendExecResult(kind, event) ==
  <<[kind |-> kind, event |-> event]>> \o
  (IF kind = "shellStream" /\ event \in {"exit", "rejected"} THEN <<[kind |-> "streamClose", event |-> "none"]>> ELSE <<>>)

throwUnhandledExec == <<[kind |-> "throw", event |-> "none"]>>

(***************************************************************************)
(* Calls.                                                                  *)
(***************************************************************************)
\* classifyCursorFrame and its correction: a call counts as useful output only
\* when a tool of Pi is asked.
Bound(c) == IF c = "mcpArgs" THEN [name |-> "exposed", result |-> "mcpResult"] ELSE mapNative(c)

\* Mutant of Refusal: a call the proxy does not know is ignored.
RefusalKnown(c) ==
  IF c \in DOMAIN ResultCase THEN sendExecResult(ResultCase[c], "rejected") ELSE <<>>

\* handleExecMessage, for a call no tool of Pi is asked for.
Refusal(c) ==
  IF c = "requestContextArgs" THEN sendExecResult(ResultCase[c], "success")
  ELSE IF c \in {"diagnosticsArgs", "recordScreenArgs"} THEN sendExecResult(ResultCase[c], "empty")
  ELSE IF c \in DOMAIN ResultCase THEN sendExecResult(ResultCase[c], "rejected")
  ELSE throwUnhandledExec

\* Mutant of ExecMessage: every call counts as useful output.
ExecTouching(r, c) ==
  /\ asked[r] = "none" /\ asked' = [asked EXCEPT ![r] = c]
  /\ IF Bound(c) # NotPending
     THEN pending' = [pending EXCEPT ![r] = Bound(c)] /\ UNCHANGED sent
     ELSE sent' = [sent EXCEPT ![r] = Refusal(c)] /\ UNCHANGED pending
  /\ touched' = TRUE
  /\ UNCHANGED <<tools, tool, quest, blobs, given>>

ExecMessage(r, c) ==
  /\ asked[r] = "none" /\ asked' = [asked EXCEPT ![r] = c]
  /\ IF Bound(c) # NotPending
     THEN pending' = [pending EXCEPT ![r] = Bound(c)] /\ UNCHANGED sent /\ touched' = TRUE
     ELSE sent' = [sent EXCEPT ![r] = Refusal(c)] /\ UNCHANGED pending /\ touched' = FALSE
  /\ UNCHANGED <<tools, tool, quest, blobs, given>>

\* Mutant of Encoded: a page of a file is passed as the file.
EncodedRaw(result, o) ==
  IF o = "unencodable" THEN throwUnhandledExec
  ELSE IF result = "shellStream" THEN sendExecResult(result, "stdout") \o sendExecResult(result, "exit")
  ELSE sendExecResult(result, IF o = "error" THEN "error" ELSE "success")

\* resumePendingExecWithToolResult: what the tool gave, in the form the call
\* wants; a native read must not take a page, or a note, for the file.
Encoded(result, o) ==
  IF o = "unencodable" THEN throwUnhandledExec
  ELSE IF result = "shellStream" THEN sendExecResult(result, "stdout") \o sendExecResult(result, "exit")
  ELSE sendExecResult(result,
         IF result \notin {"mcpResult", "shellResult"} /\ (o = "error" \/ (result = "readResult" /\ o \in {"page", "oversized"}))
         THEN "error" ELSE "success")

Outcomes == {"whole", "page", "oversized", "error", "unencodable"}

\* Mutant of ToolResult: the call that was answered stays pending.
ToolResultAgain(r, o) ==
  /\ pending[r] # NotPending /\ Len(sent[r]) < 4
  /\ sent' = [sent EXCEPT ![r] = @ \o Encoded(pending[r].result, o)]
  /\ tool' = [tool EXCEPT ![r] = o]
  /\ UNCHANGED <<tools, asked, pending, quest, blobs, given, touched>>

\* The tool's result comes back from Pi (an error in its place when the result
\* is missing, late or the call no longer fits the pause).
ToolResult(r, o) ==
  /\ pending[r] # NotPending
  /\ sent' = [sent EXCEPT ![r] = @ \o Encoded(pending[r].result, o)]
  /\ pending' = [pending EXCEPT ![r] = NotPending] /\ tool' = [tool EXCEPT ![r] = o]
  /\ UNCHANGED <<tools, asked, quest, blobs, given, touched>>

\* handleInteractionQuery: nothing is asked of the user; a question the proxy
\* does not know is left alone.
InteractionQuery(q) ==
  /\ quest.case = "none" /\ touched' = FALSE
  /\ quest' = [case |-> q, answer |-> IF q = "unknown" THEN "none"
                                      ELSE IF q = "setupVmEnvironmentArgs" THEN "success" ELSE "rejected"]
  /\ UNCHANGED <<tools, asked, sent, pending, tool, blobs, given>>

\* Mutant of KvSet: the blob is confirmed and not kept.
KvSetOnly(b) ==
  /\ given' = [given EXCEPT !.stored = @ \cup {b}] /\ touched' = FALSE
  /\ UNCHANGED <<tools, asked, sent, pending, tool, quest, blobs>>

\* handleKvMessage.
KvSet(b) ==
  /\ blobs' = blobs \cup {b} /\ given' = [given EXCEPT !.stored = @ \cup {b}] /\ touched' = FALSE
  /\ UNCHANGED <<tools, asked, sent, pending, tool, quest>>

\* A blob that is not held is answered with nothing.
KvGet(b) ==
  /\ given' = IF b \in blobs THEN given ELSE [given EXCEPT !.lost = @ \cup {b}]
  /\ touched' = FALSE
  /\ UNCHANGED <<tools, asked, sent, pending, tool, quest, blobs>>

\* Text, thinking or tokens reach Pi.
Visible == touched' = TRUE /\ UNCHANGED <<tools, asked, sent, pending, tool, quest, blobs, given>>

Next ==
  \/ \E r \in Rpc, c \in Cases : ExecMessage(r, c)
  \/ \E r \in Rpc, o \in Outcomes : ToolResult(r, o)
  \/ \E q \in Questions : InteractionQuery(q)
  \/ \E b \in Blob : KvSet(b) \/ KvGet(b)
  \/ Visible

Spec == Init /\ [][Next]_vars

-------------------------------------------------------------------------------
(***************************************************************************)
(* Properties.                                                             *)
(***************************************************************************)
Frame == [kind : {ResultCase[c] : c \in DOMAIN ResultCase} \cup {"streamClose", "throw"},
          event : {"success", "rejected", "error", "stdout", "exit", "empty", "none"}]

\* Calls, frames and results are of known kinds.
TypeOK ==
  /\ tools \in Toolset /\ touched \in BOOLEAN
  /\ \A r \in Rpc : asked[r] \in Cases \cup {"none"} /\ \A i \in DOMAIN sent[r] : sent[r][i] \in Frame
  /\ \A r \in Rpc : Len(sent[r]) <= IF asked[r] = "shellStreamArgs" THEN 3 ELSE 1

Final(f) == f.event \in {"success", "rejected", "error", "exit", "empty"} \/ f.kind = "throw"

\* A call that is not waiting for a tool of Pi has been answered, once, so that
\* Cursor never waits for an answer nobody owes.
AnsweredOnce ==
  \A r \in Rpc :
    LET finals == {i \in DOMAIN sent[r] : Final(sent[r][i])}
    IN IF asked[r] = "none" \/ pending[r] # NotPending THEN finals = {} ELSE Cardinality(finals) = 1

\* A streaming call that came to its end is closed, exactly once and last.
StreamsClosed ==
  \A r \in Rpc :
    \A i \in DOMAIN sent[r] :
      (sent[r][i].kind = "shellStream" /\ Final(sent[r][i]))
      <=> (i + 1 \in DOMAIN sent[r] /\ i + 1 = Len(sent[r]) /\ sent[r][i + 1].kind = "streamClose")

\* An answer has the form of its call, whichever tool of Pi stood in for it,
\* and only tools that Pi exposes are asked.
RightForm ==
  \A r \in Rpc :
    /\ (pending[r] # NotPending /\ asked[r] # "mcpArgs") => pending[r].name \in tools
    /\ \A i \in DOMAIN sent[r] :
         sent[r][i].kind \notin {"streamClose", "throw"} => asked[r] \in DOMAIN ResultCase /\ sent[r][i].kind = ResultCase[asked[r]]

\* A native read is never told that a part of a file is the file.
WholeFiles ==
  \A r \in Rpc : \A i \in DOMAIN sent[r] :
    (sent[r][i].kind = "readResult" /\ sent[r][i].event = "success") => tool[r] = "whole"

\* Calls that are refused, questions and blobs do not keep a Run alive that
\* gives nothing to the user.
OnlyUseful ==
  [][\A r \in Rpc : (asked[r] = "none" /\ asked'[r] # "none") => (touched' <=> pending'[r] # NotPending)]_vars

\* What Cursor stored in the conversation is never missing from it later.
NoHole == [][\A b \in given.stored : b \in given'.lost => b \in given.lost]_vars

===============================================================================
