---------------------------- MODULE UsageReading ----------------------------
(***************************************************************************)
(* Reading the quota of the account in one slot.  Each provider is asked in  *)
(* its own way, with one request or several, and answers in a shape that is  *)
(* not a contract: any part may be missing, or new.  While a reading is on   *)
(* its way the account is used, its windows reset, and the user may sign in  *)
(* with another account; a turn of Codex brings windows in its headers.      *)
(*                                                                         *)
(* Used quota is 0, 1 (some) or 2 (all of it).  A body is the set of the     *)
(* parts it has; their values are those of the account when the server made  *)
(* it.  A snapshot also keeps, for the properties only, of whom and when     *)
(* the server spoke and what was true then.                                 *)
(***************************************************************************)
EXTENDS Integers, FiniteSets

CONSTANTS
  Families,  \* the families of this run
  Sent,      \* the parts that bodies may have
  MaxTime,   \* bound on the clock
  MaxAsks,   \* bound on the readings
  Logins,    \* whether the account in the slot may be replaced
  Turns      \* whether turns of Codex bring windows

AllFamilies == {"codex", "anthropic", "ollama", "cursor", "xai", "zai-coding-cn", "qwen"}
UsageAssumption ==
  Families \subseteq AllFamilies /\ MaxTime \in Nat /\ MaxAsks \in Nat /\ Logins \in BOOLEAN /\ Turns \in BOOLEAN

VARIABLES
  family, now,
  account,   \* the account in the slot
  used,      \* of each account, the primary and the secondary window
  allowed,   \* of each account, whether its provider would serve it
  phase,     \* "idle" or "asking"
  asker,     \* fetchFreshUsage: the credential the requests carry
  retried,   \* fetchFreshUsage: after a refresh of the token
  reply,     \* of each request: what became of it
  result,    \* of the last reading
  snap,      \* usageByProvider
  asks,      \* readings so far
  turn       \* the account a turn of Codex runs on, 0 for none

vars == <<family, now, account, used, allowed, phase, asker, retried, reply, result, snap, asks, turn>>
world == <<asks, family, now, account, used, allowed>>

Account == {1, 2}
Request == {"me", "local", "usage", "period", "sand", "only"}
Full == 2
PrimaryLength == 2
SecondaryLength == 4
NextBoundary(t, length) == ((t \div length) + 1) * length

\* What a request was answered, and what was true of whom at that time.
Reply(st) == [st |-> st, has |-> {}, of |-> 0, at |-> 0, p |-> 0, s |-> 0, may |-> FALSE]
NoSnapshot ==
  [is |-> FALSE, of |-> 0, at |-> 0, p |-> -1, pr |-> 0, s |-> -1, sr |-> 0, verdict |-> "unknown",
   plan |-> FALSE, who |-> 0, src |-> {}, read |-> {}, tp |-> {}, ts |-> {}, may |-> FALSE]

\* Both windows are about to end.
Init ==
  /\ family \in Families /\ now = SecondaryLength - 1 /\ account = 1
  /\ \E p \in {0, Full}, s \in {0, 1}, may \in BOOLEAN :
       /\ used = <<[p |-> p, s |-> s], [p |-> Full - p, s |-> 1 - s]>>
       /\ allowed = <<may, ~may>>
  /\ phase = "idle" /\ asker = 0 /\ retried = FALSE /\ result = "none"
  /\ reply = [r \in Request |-> Reply("none")]
  /\ snap = NoSnapshot /\ asks = 0 /\ turn = 0

----------------------------------------------------------------------------
(* The parts of each body.                                                  *)

Parts(r) ==
  CASE family = "codex" -> {"p", "s", "allowed", "denied", "reached", "unreached", "email"}
    [] family = "xai" -> {"config", "credit", "product", "period", "legacy"}
    [] family = "zai-coding-cn" -> {"good", "p", "s", "less"}
    [] r = "usage" -> {"p", "s", "percent"}
    [] r = "period" -> {"p", "s", "end"}
    [] r = "sand" -> {"name"}
    [] r \in {"me", "local"} -> {"plan"}
    [] OTHER -> {"p", "s"}

\* A snapshot of a reply: its windows, "" where the body has none.
Snapshot(b, p, s, pr, sr) ==
  [NoSnapshot EXCEPT !.is = TRUE, !.of = asker, !.at = now, !.p = IF p THEN b.p ELSE -1, !.s = IF s THEN b.s ELSE -1,
     !.pr = pr, !.sr = sr, !.src = {b.of}, !.read = {b.at}, !.tp = {b.p}, !.ts = {b.s}, !.may = b.may]
Timed(b, p, s) ==
  Snapshot(b, p, s, NextBoundary(b.at, PrimaryLength), NextBoundary(b.at, SecondaryLength))

\* parseCodexUsageBody: an explicit negative wins; no flag is no permission.
\* Mutant of CodexVerdict: a flag that permits wins.
CodexVerdictGenerous(has) ==
  IF {"allowed", "unreached"} \cap has # {} THEN "yes"
  ELSE IF {"denied", "reached"} \cap has # {} THEN "no" ELSE "unknown"
CodexVerdict(has) ==
  IF {"denied", "reached"} \cap has # {} THEN "no"
  ELSE IF {"allowed", "unreached"} \cap has # {} THEN "yes" ELSE "unknown"
Codex(b) ==
  IF b.has \cap {"p", "s", "allowed", "denied", "reached", "unreached"} = {} THEN NoSnapshot
  ELSE [Timed(b, "p" \in b.has, "s" \in b.has) EXCEPT
          !.verdict = CodexVerdict(b.has), !.plan = TRUE, !.who = IF "email" \in b.has THEN b.of ELSE 0]
Anthropic(b) == IF b.has = {} THEN NoSnapshot ELSE Timed(b, "p" \in b.has, "s" \in b.has)

\* parseOllamaUsageBody: fractions up to one, and resets by the clock of this machine.
OllamaUsage(b) ==
  LET fits(u) == "percent" \notin b.has \/ u = 0
      p == "p" \in b.has /\ fits(b.p)
      s == "s" \in b.has /\ fits(b.s)
  IN IF ~p /\ ~s THEN NoSnapshot
     ELSE Snapshot(b, p, s, NextBoundary(now, PrimaryLength), NextBoundary(now, SecondaryLength))
PlanOnly(b) == [Timed(b, FALSE, FALSE) EXCEPT !.plan = TRUE]

\* parseXaiUsageBody: a period alone says nothing, and the reading must lie within it.
\* Mutant of Xai: a period without a percentage is an account that was not used.
XaiInvented(b) ==
  LET current == now < NextBoundary(b.at, PrimaryLength)
      modern == {"credit", "product"} \cap b.has # {}
  IN IF "config" \notin b.has \/ ~current THEN NoSnapshot
     ELSE IF modern THEN IF "period" \in b.has THEN Timed(b, TRUE, FALSE) ELSE NoSnapshot
     ELSE IF "period" \in b.has THEN [Timed(b, TRUE, FALSE) EXCEPT !.p = 0]
     ELSE IF "legacy" \in b.has THEN Timed(b, TRUE, FALSE) ELSE NoSnapshot
Xai(b) ==
  LET current == now < NextBoundary(b.at, PrimaryLength)
      modern == {"credit", "product"} \cap b.has # {}
  IN IF "config" \notin b.has \/ ~current THEN NoSnapshot
     ELSE IF modern THEN IF "period" \in b.has THEN Timed(b, TRUE, FALSE) ELSE NoSnapshot
     ELSE IF "period" \notin b.has /\ "legacy" \in b.has THEN Timed(b, TRUE, FALSE)
     ELSE NoSnapshot

\* parseZaiCodingCnUsageBody: of two windows of a length the worse counts ("less" is a second
\* primary window that shows less), and one that has ended does not.
\* Mutant of Zai: the end of a window is not looked at.
ZaiStale(b) ==
  LET p == "p" \in b.has
      s == "s" \in b.has
  IN IF "good" \notin b.has \/ (~p /\ ~s) THEN NoSnapshot ELSE Timed(b, p, s)
Zai(b) ==
  LET p == "p" \in b.has /\ now < NextBoundary(b.at, PrimaryLength)
      s == "s" \in b.has /\ now < NextBoundary(b.at, SecondaryLength)
      seen == {b.p} \cup {u \in {b.p - 1} : "less" \in b.has /\ u >= 0}
      worst == CHOOSE u \in seen : \A v \in seen : v <= u
  IN IF "good" \notin b.has \/ (~p /\ ~s) THEN NoSnapshot
     ELSE [Timed([b EXCEPT !.p = worst], p, s) EXCEPT !.tp = {b.p}]

\* fetchCursorUsageSnapshot: the pools of the period and the bucket beside them.
Cursor ==
  LET period == reply["period"]
      has == IF period.st = "ok" THEN period.has ELSE {}
      pools == "end" \in has /\ {"p", "s"} \cap has # {}
  IN IF pools THEN [Timed(period, "p" \in has, "s" \in has) EXCEPT !.plan = TRUE] ELSE PlanOnly(period)

----------------------------------------------------------------------------
(* storeUsage: the snapshot is dropped when another account is in the slot,  *)
(* and keeps who it is about from the one before of the same credential.     *)

Merge(old, new) ==
  IF old.is /\ old.of = new.of
  THEN [new EXCEPT !.plan = @ \/ old.plan, !.who = IF @ = 0 THEN old.who ELSE @]
  ELSE new
\* Mutant of StoreUsage: the credential is not compared.
StoreUsageBlind(new) == snap' = Merge(snap, [new EXCEPT !.of = account])
StoreUsage(new) == snap' = IF new.of = account THEN Merge(snap, new) ELSE snap

Finish(new) ==
  /\ phase' = "idle" /\ asker' = 0 /\ retried' = FALSE /\ result' = "ok"
  /\ reply' = [r \in Request |-> Reply("none")]
  /\ StoreUsage(new)
Error ==
  /\ phase' = "idle" /\ asker' = 0 /\ retried' = FALSE /\ result' = "error"
  /\ reply' = [r \in Request |-> Reply("none")]
  /\ UNCHANGED snap
GoOn(r) == reply' = [reply EXCEPT ![r] = Reply("out")] /\ UNCHANGED <<phase, asker, retried, result, snap>>
First ==
  CASE family = "ollama" -> {"me"} [] family = "cursor" -> {"period", "sand"} [] OTHER -> {"only"}

\* refreshUsage and fetchUsageSnapshot; Qwen and Kimi have nothing to ask.
Ask ==
  /\ phase = "idle" /\ asks < MaxAsks
  /\ asks' = asks + 1
  /\ IF family = "qwen" THEN StoreUsage([NoSnapshot EXCEPT !.is = TRUE, !.of = account, !.at = now, !.plan = TRUE,
                                           !.src = {account}]) /\ result' = "ok" /\ UNCHANGED <<phase, asker, reply>>
     ELSE /\ phase' = "asking" /\ asker' = account
          /\ reply' = [r \in Request |-> Reply(IF r \in First THEN "out" ELSE "none")]
          /\ UNCHANGED <<snap, result>>
  /\ UNCHANGED <<family, now, account, used, allowed, retried, turn>>

\* A server answers a request: with a body, a status, or something that is no body.
\* A flag of Codex that permits is not sent without its opposite by one that refuses.
Serve(r, st, has) ==
  /\ phase = "asking" /\ reply[r].st = "out"
  /\ st # "ok" => has = {}
  /\ family = "codex" => (/\ {"denied", "reached"} \cap has # {} => ~allowed[asker]
                          /\ {"allowed", "unreached"} \cap has # {} /\ ~allowed[asker] => {"denied", "reached"} \cap has # {})
  /\ reply' = [reply EXCEPT ![r] = [st |-> st, has |-> has, of |-> asker, at |-> now, p |-> used[asker].p,
                                    s |-> used[asker].s, may |-> allowed[asker]]]
  /\ UNCHANGED <<world, phase, asker, retried, result, snap, turn>>

\* The network fails a request, or the timer of the reading aborts all of them.
Lost(rs) ==
  /\ phase = "asking" /\ rs # {} /\ \A r \in rs : reply[r].st = "out"
  /\ reply' = [r \in Request |-> IF r \in rs THEN Reply("lost") ELSE reply[r]]
  /\ UNCHANGED <<world, phase, asker, retried, result, snap, turn>>
TimesOut == \E rs \in {{r \in Request : reply[r].st = "out"}} : Lost(rs)

\* fetchFreshUsage: a rejected token is refreshed, and the reading made once more.
Rejected(refreshed) ==
  IF refreshed /\ ~retried
  THEN /\ reply' = [r \in Request |-> Reply(IF r \in First THEN "out" ELSE "none")]
       /\ retried' = TRUE /\ asker' = account /\ UNCHANGED <<phase, result, snap>>
  ELSE Error

ReadOne(b) ==
  CASE family = "codex" -> Codex(b) [] family = "anthropic" -> Anthropic(b)
    [] family = "xai" -> Xai(b) [] OTHER -> Zai(b)

\* The reading of the providers with a single request, with a refresh after a rejection.
HandleOne(refreshed) ==
  /\ phase = "asking" /\ reply["only"].st \notin {"none", "out"}
  /\ \E new \in {ReadOne(reply["only"])} :
       IF reply["only"].st = "ok" THEN (IF new.is THEN Finish(new) ELSE Error)
       ELSE IF reply["only"].st = "401" THEN Rejected(refreshed) ELSE Error
  /\ UNCHANGED <<world, turn>>

\* fetchOllamaUsageSnapshot: the account, of the cloud or of this machine, then its usage.
\* Mutant of HandleOllama: no usage is no reading.
HandleOllamaAll ==
  LET me == IF reply["local"].st # "none" THEN reply["local"] ELSE reply["me"]
      usage == reply["usage"]
  IN /\ phase = "asking" /\ family = "ollama" /\ \A r \in Request : reply[r].st # "out"
     /\ IF usage.st # "none"
        THEN IF usage.st = "ok" /\ OllamaUsage(usage).is
             THEN Finish([OllamaUsage(usage) EXCEPT !.plan = TRUE]) ELSE Error
        ELSE IF me.st = "ok" THEN GoOn("usage")
        ELSE IF me.st \in {"401", "500"} /\ reply["local"].st = "none" THEN GoOn("local") ELSE Error
     /\ UNCHANGED <<world, turn>>
HandleOllama ==
  LET me == IF reply["local"].st # "none" THEN reply["local"] ELSE reply["me"]
      usage == reply["usage"]
  IN /\ phase = "asking" /\ family = "ollama" /\ \A r \in Request : reply[r].st # "out"
     /\ IF usage.st # "none"
        THEN Finish(IF usage.st = "ok" /\ OllamaUsage(usage).is
                    THEN [OllamaUsage(usage) EXCEPT !.plan = TRUE] ELSE PlanOnly(me))
        ELSE IF me.st = "ok" THEN GoOn("usage")
        ELSE IF me.st \in {"401", "500"} /\ reply["local"].st = "none" THEN GoOn("local") ELSE Error
     /\ UNCHANGED <<world, turn>>

\* fetchCursorUsageSnapshot, when both requests are settled.
\* Mutant of HandleCursor: it waits for bodies.
HandleCursorStuck(refreshed) ==
  /\ phase = "asking" /\ family = "cursor" /\ \A r \in First : reply[r].st \notin {"none", "out", "lost"}
  /\ IF \E r \in First : reply[r].st = "401"
     THEN Rejected(refreshed)
     ELSE Finish(Cursor)
  /\ UNCHANGED <<world, turn>>
HandleCursor(refreshed) ==
  /\ phase = "asking" /\ family = "cursor" /\ \A r \in First : reply[r].st \notin {"none", "out"}
  /\ IF \E r \in First : reply[r].st = "401"
     THEN Rejected(refreshed)
     ELSE Finish(Cursor)
  /\ UNCHANGED <<world, turn>>

----------------------------------------------------------------------------
(* The world.                                                               *)

Tick ==
  /\ now < MaxTime
  /\ now' = now + 1
  /\ used' = [a \in Account |-> [p |-> IF (now + 1) % PrimaryLength = 0 THEN 0 ELSE used[a].p,
                                 s |-> IF (now + 1) % SecondaryLength = 0 THEN 0 ELSE used[a].s]]
  /\ UNCHANGED <<asks, family, account, allowed, phase, asker, retried, reply, result, snap, turn>>
Use ==
  /\ used[account].p < Full /\ used[account].s < Full
  /\ used' = [used EXCEPT ![account] = [p |-> @.p + 1, s |-> @.s + 1]]
  /\ UNCHANGED <<asks, family, now, account, allowed, phase, asker, retried, reply, result, snap, turn>>
Login ==
  /\ Logins /\ account' = 3 - account
  /\ UNCHANGED <<asks, family, now, used, allowed, phase, asker, retried, reply, result, snap, turn>>

\* after_provider_response: windows in the headers of a turn, stored for the credential that
\* is in the slot by then.
TurnStarts ==
  /\ Turns /\ family = "codex" /\ turn = 0 /\ turn' = account
  /\ UNCHANGED <<world, phase, asker, retried, reply, result, snap>>
TurnAnswers(has) ==
  /\ turn # 0 /\ has # {}
  /\ LET b == [Reply("ok") EXCEPT !.of = turn, !.at = now, !.p = used[turn].p, !.s = used[turn].s, !.may = allowed[turn]]
     IN StoreUsage([Timed(b, "p" \in has, "s" \in has) EXCEPT !.of = account])
  /\ turn' = 0
  /\ UNCHANGED <<world, phase, asker, retried, reply, result>>

Handle == HandleOllama \/ \E refreshed \in BOOLEAN : HandleOne(refreshed) \/ HandleCursor(refreshed)
Next ==
  \/ Ask \/ TimesOut \/ Handle \/ Tick \/ Use \/ Login \/ TurnStarts
  \/ \E r \in Request, st \in {"ok", "401", "500", "junk"} : \E has \in SUBSET (Parts(r) \cap Sent) : Serve(r, st, has)
  \/ \E r \in Request : Lost({r})
  \/ \E has \in SUBSET {"p", "s"} : TurnAnswers(has)

Spec == Init /\ [][Next]_vars
\* The timer of a reading fires, and what is answered is handled.
Fairness == WF_vars(TimesOut) /\ WF_vars(Handle)
FairSpec == Spec /\ Fairness

----------------------------------------------------------------------------
TypeOK ==
  /\ phase \in {"idle", "asking"} /\ result \in {"none", "ok", "error"}
  /\ asker \in Account \cup {0} /\ (phase = "asking" <=> asker # 0)
  /\ snap.p \in -1..Full /\ snap.s \in -1..Full /\ turn \in Account \cup {0}
  /\ \A r \in Request : reply[r].st # "none" => phase = "asking"

\* "Private endpoint schema drift must never manufacture headroom": what a snapshot says of a
\* window was true of the account when the server spoke, whatever parts the body lacked.
HonestWindows ==
  snap.is => (snap.p = -1 \/ snap.p \in snap.tp) /\ (snap.s = -1 \/ snap.s \in snap.ts)

\* A window ends when the account's window ends; only for Ollama, which does not say it, it may
\* be taken for the next one when it ends while the answer is on its way.
HonestResets ==
  snap.is /\ snap.read # {} =>
    \E t \in snap.read :
      /\ snap.p = -1 \/ snap.pr = NextBoundary(t, PrimaryLength) \/ (family = "ollama" /\ snap.pr = NextBoundary(snap.at, PrimaryLength))
      /\ family \in {"xai", "zai-coding-cn"} /\ snap.p # -1 => snap.at < snap.pr

\* "Missing flags must never be invented as permission": an account is said to be served only
\* if its provider said so in the reading whose time the snapshot carries.
NoFalseYes == snap.verdict = "yes" => snap.may

\* "A quota response for an old credential cannot bench its replacement login": what is stored
\* for an account was read of it, and so is the name it is shown with.
OwnReading == snap.is => snap.src \subseteq {snap.of} /\ snap.who \in {0, snap.of}

\* A part that fails does not cost the rest: a reading of Cursor fails for a rejected token
\* only, one of Ollama only without an answer about the account.
PartialFailureStep ==
  (phase = "asking" /\ phase' = "idle" /\ result' = "error") =>
    /\ family = "cursor" => \E r \in First : reply[r].st = "401"
    /\ family = "ollama" => reply["usage"].st = "none"
PartialFailure == [][PartialFailureStep]_vars

\* Every reading ends, also when a server never answers.
Settles == (phase = "asking") ~> (phase = "idle")
=============================================================================
