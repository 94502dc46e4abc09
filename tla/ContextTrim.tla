------------------------------ MODULE ContextTrim ------------------------------
(***************************************************************************)
(* The context guard's view of one request: how big it is, which old tool  *)
(* results are left out of it, whether a summary is wanted, and what the   *)
(* guard learns from the size the provider reports.                        *)
(*                                                                         *)
(* Abstractions: a message is its size and whether it may be elided (a     *)
(* tool result or a bash execution); its place in the transcript is its    *)
(* key, and keys of a compacted transcript are not used again.  Sizes are  *)
(* in hundredths of the largest window, the safety slope of 11/10 is kept, *)
(* fractions are rounded as the code does.  The system prompt is part of   *)
(* the first message.                                                      *)
(***************************************************************************)
EXTENDS Integers, Sequences, SequencesExt, FiniteSets, FiniteSetsExt

CONSTANTS
  Model,         \* models
  Window(_),     \* the window each declares; 0 if Pi does not know it
  Sizes,         \* sizes of messages
  RawSoft,       \* softPercent as configured, several values
  RawTarget,     \* targetPercent as configured
  CompactPercent, KeepVerbatim, MinElide, StubSize, MaxOverhead, InitialOverhead,
  Hidden,        \* what the provider counts that the guard cannot see
  MaxLen         \* messages in the transcript

ContextTrimAssumption ==
  /\ \A m \in Model : Window(m) \in Nat
  /\ Sizes \subseteq Nat /\ RawSoft \subseteq 1..100 /\ RawTarget \subseteq 1..100
  /\ {CompactPercent, KeepVerbatim, MinElide, StubSize, MaxOverhead, InitialOverhead, Hidden, MaxLen}
       \subseteq Nat

VARIABLES
  cfg,   \* the settings in use
  log,   \* the transcript
  model, \* the model in use
  g,     \* the guard: elided keys, overheads, the last request
  req    \* the request under way, as it was sent

vars == <<cfg, log, model, g, req>>

NoRequest == [on |-> FALSE, model |-> model, sent |-> 0, raw |-> 0, stubs |-> {}, len |-> 0]

\* Mutant of normalizeContextGuard: the order of the two lines is not looked at.
NormalizeEach(soft, target) == [soft |-> soft, target |-> target]

\* A target at or above the soft line is moved below it.
normalizeContextGuard(soft, target) ==
  [soft |-> soft,
   target |-> IF target >= soft THEN Max({10, soft - 15}) ELSE target]

Init ==
  /\ \E soft \in RawSoft, target \in RawTarget : cfg = normalizeContextGuard(soft, target)
  /\ log = <<>>
  /\ model \in Model
  /\ g = [elided |-> {}, overhead |-> [m \in Model |-> InitialOverhead],
          lastRaw |-> 0, trimmed |-> FALSE, wants |-> FALSE]
  /\ req = NoRequest

(***************************************************************************)
(* context-guard.ts                                                        *)
(***************************************************************************)
SizeOf(S) == MapThenSumSet(LAMBDA i : log[i].size, S)
estimateRawTokens == SizeOf(DOMAIN log)
Saved(i) == Max({0, log[i].size - StubSize})
After(stubs) == estimateRawTokens - MapThenSumSet(Saved, stubs)

CeilDiv(a, b) == (a + b - 1) \div b
adjust(raw) == CeilDiv(raw * 11, 10) + g.overhead[model]

\* What overhead a report teaches: nothing if it is far from the estimate.
observe(old, raw, reported) ==
  IF raw <= 0 \/ reported <= 0 \/ 2 * reported < raw \/ reported > 4 * raw THEN old
  ELSE (7 * old * 10 + 3 * Max({0, Min({10 * reported - 11 * raw, 10 * MaxOverhead})})) \div 100

Over(tokens, percent) == 100 * tokens > percent * Window(model)

\* The newest messages worth KeepVerbatim, and the one that reaches it.
firstProtected ==
  LET enough == {i \in DOMAIN log : SizeOf(i..Len(log)) >= KeepVerbatim}
  IN IF enough = {} THEN 1 ELSE Max(enough)

\* Mutant of Kept: nothing is kept stubbed for its own sake.
KeptOnlyIfNeeded == {}

\* Pass 1: what was given up stays given up.
Kept == {i \in g.elided : i < firstProtected}

\* Mutant of Batch: the whole of the old part is given up at once, protected or not.
BatchAll(target) == {i \in DOMAIN log : log[i].elidable /\ log[i].size >= MinElide} \ g.elided

\* Mutant of Batch: the result that would reach the target is left in.
BatchShort(target) ==
  LET may == {i \in 1..(firstProtected - 1) :
                log[i].elidable /\ i \notin g.elided /\ log[i].size >= MinElide}
  IN {i \in may : After(Kept \cup {j \in may : j <= i}) > target}

\* Pass 2: the oldest results, as few as reach the target.
Batch(target) ==
  LET may == {i \in 1..(firstProtected - 1) :
                log[i].elidable /\ i \notin g.elided /\ log[i].size >= MinElide}
  IN {i \in may : After(Kept \cup {j \in may : j < i}) > target}

(***************************************************************************)
(* The handlers.                                                           *)
(***************************************************************************)
\* Mutant of Context: a new batch is taken whenever the transcript is above the line.
ContextRawTrim ==
  /\ ~req.on /\ log # <<>> /\ Len(log) <= MaxLen
  /\ LET raw == estimateRawTokens
         stubs == IF Over(adjust(raw), cfg.soft)
                  THEN Kept \cup Batch(Max({0, (Window(model) * cfg.target) \div 100 - g.overhead[model]}))
                  ELSE Kept
     IN /\ g' = [g EXCEPT !.lastRaw = raw, !.trimmed = (stubs # {}), !.elided = @ \cup stubs,
                          !.wants = Over(adjust(raw), CompactPercent)]
        /\ req' = [on |-> TRUE, model |-> model, sent |-> After(stubs), raw |-> raw,
                   stubs |-> stubs, len |-> Len(log)]
  /\ UNCHANGED <<cfg, log, model>>

\* Mutant of Context: the guard believes the size of the trimmed request.
ContextTrimmedDemand ==
  /\ ~req.on /\ log # <<>> /\ Len(log) <= MaxLen
  /\ LET raw == estimateRawTokens
         stubs == IF Over(adjust(After(Kept)), cfg.soft)
                  THEN Kept \cup Batch(Max({0, (Window(model) * cfg.target) \div 100 - g.overhead[model]}))
                  ELSE Kept
     IN /\ g' = [g EXCEPT !.lastRaw = raw, !.trimmed = (stubs # {}), !.elided = @ \cup stubs,
                          !.wants = Over(adjust(After(stubs)), CompactPercent)]
        /\ req' = [on |-> TRUE, model |-> model, sent |-> After(stubs), raw |-> raw,
                   stubs |-> stubs, len |-> Len(log)]
  /\ UNCHANGED <<cfg, log, model>>

\* The context hook: demand is measured on the whole transcript, trimming on
\* the request as it would go out with the stubs there already are.
Context ==
  /\ ~req.on /\ log # <<>> /\ Len(log) <= MaxLen
  /\ LET raw == estimateRawTokens
         known == Window(model) > 0
         stubs == IF ~known THEN {}
                  ELSE IF Over(adjust(After(Kept)), cfg.soft)
                  THEN Kept \cup Batch(Max({0, (Window(model) * cfg.target) \div 100 - g.overhead[model]}))
                  ELSE Kept
     IN /\ g' = [g EXCEPT !.lastRaw = raw, !.trimmed = (stubs # {}), !.elided = @ \cup stubs,
                          !.wants = IF known THEN Over(adjust(raw), CompactPercent) ELSE @]
        /\ req' = [on |-> TRUE, model |-> model, sent |-> After(stubs), raw |-> raw,
                   stubs |-> stubs, len |-> Len(log)]
  /\ UNCHANGED <<cfg, log, model>>

\* Mutant of MessageEnd: it learns from every request.
MessageEndAlways ==
  /\ req.on
  /\ \E reported \in {req.sent + Hidden, 5 * req.raw} :
       g' = [g EXCEPT !.overhead[model] = observe(@, g.lastRaw, reported)]
  /\ \E size \in Sizes : log' = Append(log, [size |-> size, elidable |-> FALSE])
  /\ req' = [req EXCEPT !.on = FALSE]
  /\ UNCHANGED <<cfg, model>>

\* message_end: the provider reports the prompt it got, or its own copy of the
\* conversation; only a request sent whole teaches anything.
MessageEnd ==
  /\ req.on
  /\ \E reported \in {req.sent + Hidden, 5 * req.raw} :
       g' = IF g.trimmed \/ g.lastRaw <= 0 THEN g
            ELSE [g EXCEPT !.overhead[model] = observe(@, g.lastRaw, reported)]
  /\ \E size \in Sizes : log' = Append(log, [size |-> size, elidable |-> FALSE])
  /\ req' = [req EXCEPT !.on = FALSE]
  /\ UNCHANGED <<cfg, model>>

\* A tool result, a message of the user.
Grow ==
  /\ ~req.on /\ Len(log) < MaxLen
  /\ \E size \in Sizes, elidable \in BOOLEAN : log' = Append(log, [size |-> size, elidable |-> elidable])
  /\ UNCHANGED <<cfg, model, g, req>>

\* The user, or the failover, changes the model, also during a request.
SwitchModel ==
  /\ model' \in Model \ {model}
  /\ UNCHANGED <<cfg, log, g, req>>

\* Mutant of Compact: the keys of the old transcript stay.
CompactKeepsKeys ==
  /\ ~req.on /\ log # <<>>
  /\ \E size \in Sizes : log' = <<[size |-> size, elidable |-> FALSE]>>
  /\ g' = [g EXCEPT !.wants = FALSE, !.lastRaw = 0, !.trimmed = FALSE]
  /\ req' = [req EXCEPT !.stubs = {}, !.len = 0]
  /\ UNCHANGED <<cfg, model>>

\* session_compact: another transcript, and the guard starts clean.
Compact ==
  /\ ~req.on /\ log # <<>>
  /\ \E size \in Sizes : log' = <<[size |-> size, elidable |-> FALSE]>>
  /\ g' = [g EXCEPT !.elided = {}, !.wants = FALSE, !.lastRaw = 0, !.trimmed = FALSE]
  /\ req' = [req EXCEPT !.stubs = {}, !.len = 0]
  /\ UNCHANGED <<cfg, model>>

Next ==
  \/ Context
  \/ MessageEnd
  \/ Grow
  \/ SwitchModel
  \/ Compact

Spec == Init /\ [][Next]_vars

-------------------------------------------------------------------------------
(***************************************************************************)
(* Properties.                                                             *)
(***************************************************************************)
\* Sizes and overheads stay in range; only messages of this transcript are elided.
TypeOK ==
  /\ cfg.soft \in 1..100 /\ cfg.target \in 1..100
  /\ model \in Model /\ Len(log) <= MaxLen + 1
  /\ \A m \in Model : g.overhead[m] \in 0..MaxOverhead
  /\ g.elided \subseteq {i \in DOMAIN log : log[i].elidable}

\* Trimming starts above where it ends, or it would start again at once.
LinesOrdered == cfg.target < cfg.soft

Known == Window(model) > 0

\* A result once left out of a request is left out of the next ones, whatever
\* model they go to: the prefix the provider caches does not flip back.
PrefixStable ==
  [][~req.on /\ req'.on /\ Known => req.stubs \subseteq req'.stubs \/ Window(req.model) = 0]_vars

\* While the request fits with the stubs it has, no more are added.
NoChurn ==
  [][~req.on /\ req'.on /\ Known /\ ~Over(adjust(After(Kept)), cfg.soft)
       => req'.stubs = Kept]_vars

\* A request goes out below the soft line, or everything old that may be
\* left out has been.
FitsOrExhausted ==
  [][~req.on /\ req'.on /\ Known =>
       \/ ~Over(adjust(req'.sent), cfg.soft)
       \/ \A i \in 1..(firstProtected - 1) :
            log[i].elidable /\ log[i].size >= MinElide => i \in req'.stubs]_vars

\* The newest part of the conversation is always sent as it is.
RecentVerbatim ==
  req.on => \/ req.stubs = {}
            \/ SizeOf((Max(req.stubs) + 1)..Len(log)) >= KeepVerbatim

\* Trimming does not hide the growth: a transcript above the compaction line
\* is known to want a summary even if the request is small.
SelfHonest ==
  req.on /\ Window(req.model) > 0 /\ model = req.model /\ Over(CeilDiv(req.raw * 11, 10) + g.overhead[model], CompactPercent)
    => g.wants

\* The overhead is learned from requests that were sent whole.
LearnsFromWhole == [][g'.overhead # g.overhead => req.sent = req.raw]_vars
===============================================================================
