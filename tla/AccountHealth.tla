---------------------------- MODULE AccountHealth ----------------------------
(***************************************************************************)
(* What a session holds for or against each account: the cooldown, the     *)
(* fence of an actual refusal, the usage reading and the distrust of it;   *)
(* how refusals, answers and readings change them, and when an account is  *)
(* asked again.                                                            *)
(*                                                                         *)
(* A refusal is handled in two steps of code around the await of a usage   *)
(* fetch, and one fetch serves all who wait for it; timers, other requests *)
(* and new logins come in between.  Times are kept relative: what is left  *)
(* of a delay, and the age of a reading, in ticks.  A fetch is aborted     *)
(* after ten seconds, so it spans at most one tick.                        *)
(***************************************************************************)
EXTENDS Naturals

CONSTANTS
  Slot,        \* places of the credential store
  Metered,     \* those whose usage can be fetched (usageFamily, showUsage)
  Cheap,       \* those that can be asked without a user's turn (hasCheapAvailabilityProbe)
  Accounts,    \* bound: real accounts a slot may be logged into
  Live,        \* MAX_LIVE_COOLDOWN_MS
  Recheck,     \* maxRecheckIntervalMs
  Default,     \* cooldownMs
  Transient,   \* transientCooldownMs, TRANSIENT_AUTH_COOLDOWN_MS
  Floor,       \* SESSION_LIMIT_FLOOR_MS
  Ttl,         \* usageCacheTtl
  Streak,      \* LIMIT_STREAK_WINDOW_MS
  Distrust,    \* USAGE_UNTRUSTED_MS
  Reading      \* the readings the endpoint may give, a subset of Readings

NoMeter == Live + 1
\* serviceable, and what is left until the full windows reset: 0 when none is
\* full, NoMeter when the reading names no window.
Readings == [says : {"yes", "no", "unsaid"}, full : 0 .. NoMeter]

HealthAssumption ==
  /\ Cheap \subseteq Slot /\ Metered \subseteq Slot /\ Reading \subseteq Readings
  /\ Accounts \in Nat \ {0}
  /\ \A d \in {Recheck, Transient, Floor, Ttl, Streak, Distrust} : d \in Nat \ {0}
  /\ Live \in Nat /\ Recheck <= Live /\ Floor <= Live
  /\ Default \in 1 .. Live /\ Transient <= Recheck

Least(a, b) == IF a < b THEN a ELSE b
Most(a, b) == IF a > b THEN a ELSE b

Old == Most(Ttl, Most(Recheck, Streak)) + 1   \* ages beyond it are all alike
NoUsage == [says |-> "unsaid", full |-> NoMeter, age |-> Old]

VARIABLES
  account,    \* the real account each slot is logged into
  cooldown,   \* exhaustedUntilByProvider
  refused,    \* limitRefusalByProvider has an entry ...
  retry,      \* ... and what is left of its retryAt
  streak,     \* limitStreakByProvider: count, age of lastAt
  untrusted,  \* usageUntrustedUntilByProvider
  invalid,    \* invalidatedByProvider
  usage,      \* usageByProvider
  fetching,   \* usageFetches: none, asked, late (a tick passed), void (login changed)
  handler,    \* resolveLimitCooldownMs awaits the fetch: the horizon stated, or none
  sent,       \* the request under way at each slot: whose it is, or none
  owed,       \* history: what is left of the bench of the last refusal of the slot
              \* itself, until the account answers or its endpoint says it is usable
  heard       \* the reading was taken after the last limit error (fetchedAt, lastAt)

records == <<cooldown, refused, retry, streak, untrusted, invalid, usage>>
history == <<owed, heard>>
vars == <<account, records, fetching, handler, sent, history>>

Idle == Live + 1   \* of handler: no refusal is being handled

TypeOK ==
  /\ account \in [Slot -> 1 .. Accounts]
  /\ cooldown \in [Slot -> 0 .. Live] /\ retry \in [Slot -> 0 .. Live]
  /\ refused \in [Slot -> BOOLEAN] /\ \A p \in Slot : retry[p] > 0 => refused[p]
  /\ streak \in [Slot -> [count : 0 .. 2, age : 0 .. Old]]
  /\ untrusted \in [Slot -> 0 .. Distrust] /\ invalid \in [Slot -> BOOLEAN]
  /\ usage \in [Slot -> [says : {"yes", "no", "unsaid"}, full : 0 .. NoMeter, age : 0 .. Old]]
  /\ fetching \in [Slot -> {"none", "asked", "late", "void"}]
  /\ handler \in [Slot -> 0 .. Idle]
  /\ sent \in [Slot -> {"none", "session", "user"}]
  /\ owed \in [Slot -> 0 .. Live] /\ heard \in [Slot -> BOOLEAN]

NoStreak == [count |-> 0, age |-> Old]

Init ==
  /\ account \in [Slot -> 1 .. Accounts]
  /\ cooldown = [p \in Slot |-> 0] /\ retry = [p \in Slot |-> 0]
  /\ refused = [p \in Slot |-> FALSE] /\ streak = [p \in Slot |-> NoStreak]
  /\ untrusted = [p \in Slot |-> 0] /\ invalid = [p \in Slot |-> FALSE]
  /\ usage = [p \in Slot |-> NoUsage] /\ fetching = [p \in Slot |-> "none"]
  /\ handler = [p \in Slot |-> Idle] /\ sent = [p \in Slot |-> "none"]
  /\ owed = [p \in Slot |-> 0] /\ heard = [p \in Slot |-> FALSE]

-----------------------------------------------------------------------------
(* Readings. *)

providersSharingAccount(p) == {q \in Slot : account[q] = account[p]}

Fresh(u) == u.age < Ttl

\* NoMeter stands for undefined: the caller keeps its own estimate.
cooldownMsFromUsage(u) == IF u.says = "yes" THEN 0 ELSE u.full

\* A forecast is believed for Recheck after the reading was taken, not from now.
capped(at, u) == IF u.age >= Recheck THEN 0 ELSE Least(at, Recheck - u.age)

\* Mutant of providerRecoveryAt: the ceiling of a blocked verdict counts from now.
recoveryFromNow(p) ==
  LET u == usage[p] IN
  IF retry[p] > 0 THEN Most(cooldown[p], retry[p])
  ELSE IF u.says = "no" THEN Recheck ELSE cooldown[p]

\* Mutant of providerRecoveryAt: the reading is consulted before the refusal.
recoveryUsageFirst(p) ==
  IF Fresh(usage[p]) /\ usage[p].says = "yes" THEN 0 ELSE Most(cooldown[p], retry[p])

\* Mutant of providerRecoveryAt: headroom is believed in spite of the distrust.
recoveryBelieves(p) ==
  IF retry[p] > 0 THEN Most(cooldown[p], retry[p])
  ELSE IF Fresh(usage[p]) /\ cooldownMsFromUsage(usage[p]) = 0 THEN 0 ELSE cooldown[p]

\* How long until the account may be asked: the refusal first, then a fresh
\* verdict, then a full window of any age, then fresh headroom unless the
\* meter is distrusted, then the cooldown recorded.
providerRecoveryAt(p) ==
  LET u  == usage[p]
      ms == cooldownMsFromUsage(u)
  IN CASE retry[p] > 0 -> Most(cooldown[p], retry[p])
       [] retry[p] = 0 /\ Fresh(u) /\ u.says = "yes" -> 0
       [] retry[p] = 0 /\ Fresh(u) /\ u.says = "no" -> capped(Most(cooldown[p], Recheck), u)
       [] retry[p] = 0 /\ ~(Fresh(u) /\ u.says # "unsaid") ->
            IF ms \in 1 .. Live THEN capped(ms, u)
            ELSE IF Fresh(u) /\ ms = 0 /\ untrusted[p] = 0 THEN 0
            ELSE cooldown[p]

\* isInvalidated, and the time findFallbackModels asks for.
Selectable(p) == ~invalid[p] /\ providerRecoveryAt(p) = 0

\* Mutant of markExhausted: a new bench comes on top of the one recorded.
exhaustAdds(b, p, d) ==
  [b EXCEPT !.cooldown = [q \in Slot |->
     IF q \in providersSharingAccount(p) THEN @[q] + Most(d, 1) ELSE @[q]]]

\* Mutant of markExhausted: the ceiling of the accounts that can be polled is gone.
exhaustUncapped(b, p, d) ==
  [b EXCEPT !.cooldown = [q \in Slot |->
     IF q \in providersSharingAccount(p) THEN Most(@[q], Least(Most(d, 1), Live)) ELSE @[q]]]

\* b: cooldowns and distrust as they are when the code gets here.
markExhausted(b, p, d) ==
  LET until == Least(Most(d, 1), IF p \in Cheap THEN Recheck ELSE Live)
  IN [b EXCEPT !.cooldown = [q \in Slot |->
        IF q \in providersSharingAccount(p) THEN Most(@[q], until) ELSE @[q]]]

\* Mutant of applyUsageToCooldown: headroom clears whatever is recorded.
applyTrusting(b, p, u, after) ==
  IF cooldownMsFromUsage(u) = 0 THEN [b EXCEPT !.cooldown[p] = 0] ELSE b

\* A reading only ever shortens a cooldown, and not while the refusal is fresh;
\* a verdict older than the last limit error is none; headroom counts for
\* nothing while the meter is distrusted.  after: it was taken after that error.
applyUsageToCooldown(b, p, u, after) ==
  LET ms == cooldownMsFromUsage(u) IN
  CASE retry[p] > 0 -> b
    [] retry[p] = 0 /\ u.says = "yes" ->
         IF streak[p].count > 0 /\ ~after THEN b
         ELSE [b EXCEPT !.cooldown[p] = 0, !.untrusted[p] = 0]
    [] retry[p] = 0 /\ u.says = "unsaid" /\ ms = 0 ->
         IF b.untrusted[p] > 0 THEN b ELSE [b EXCEPT !.cooldown[p] = 0]
    [] retry[p] = 0 /\ u.says = "unsaid" /\ ms \in 1 .. Live ->
         [b EXCEPT !.cooldown[p] = Least(@, ms)]
    [] OTHER -> b

bench == [cooldown |-> cooldown, untrusted |-> untrusted]
SetBench(b) == cooldown' = b.cooldown /\ untrusted' = b.untrusted

markUsageUntrusted(b, p) == [b EXCEPT !.untrusted[p] = Distrust]

-----------------------------------------------------------------------------
(* Requests and what comes back. *)

\* A fallback is selected of the session's own accord.
Try(p) ==
  /\ Selectable(p) /\ sent[p] = "none"
  /\ sent' = [sent EXCEPT ![p] = "session"]
  /\ UNCHANGED <<account, records, fetching, handler, history>>

\* The user picks the account whatever its bookkeeping says.
Insist(p) ==
  /\ sent[p] = "none"
  /\ sent' = [sent EXCEPT ![p] = "user"]
  /\ UNCHANGED <<account, records, fetching, handler, history>>

\* resolveLimitCooldownMs after its await: what is known by then is combined,
\* and the caller benches the account unless its chain was stopped meanwhile.
settled(b, p, stated, u, news) ==
  LET ms    == cooldownMsFromUsage(u)
      b1    == applyUsageToCooldown(b, p, u, news \/ heard[p])
      read  == IF ms = 0 THEN Floor ELSE IF ms \in 1 .. Live THEN ms ELSE 0
      hint  == Most(stated, read)
  IN [b |-> IF ms = 0 THEN markUsageUntrusted(b1, p) ELSE b1,
      d |-> IF hint = 0 THEN Default ELSE hint]

\* news: the reading is a new one, not the one held before.
afterReading(p, u, news, left) ==
  [owed EXCEPT ![p] = IF u.says = "yes" /\ news THEN 0 ELSE left]

\* owed is what the bench amounts to for the slot that was asked.
Settle(p, b, stated, u, news) ==
  LET s == settled(b, p, stated, u, news)
      marked == markExhausted(s.b, p, s.d)
  IN \/ SetBench(marked) /\ owed' = afterReading(p, u, news,
                            IF refused[p] THEN Most(owed[p], marked.cooldown[p]) ELSE owed[p])
     \/ SetBench(s.b) /\ owed' = afterReading(p, u, news, owed[p])

\* The delay of the fence: what the provider stated, or the configured one.
retryDelay(p, stated) ==
  Least(IF stated = 0 THEN Default ELSE stated, IF p \in Cheap THEN Recheck ELSE Live)

\* noteLimitError: a second one within the window makes the meter a liar.
noteLimitError(p) ==
  IF streak[p].count > 0 /\ streak[p].age < Streak THEN 2 ELSE 1

\* Mutant of fencedSlots: only the slot that was asked is fenced.
fencedAlone(p) == {p}
\* The slots a refusal is recorded for.
fencedSlots(p) == providersSharingAccount(p)

\* message_end, kind "limit", and resolveLimitCooldownMs up to its await: the
\* fence is set first.  A slot without a meter has nothing to wait for.
Refuse(p) ==
  /\ sent[p] # "none" /\ handler[p] = Idle
  /\ sent' = [sent EXCEPT ![p] = "none"]
  /\ \E stated \in 0 .. Live :
     LET d == retryDelay(p, stated)
         count == noteLimitError(p)
         known == usage[p]
         lies == \/ count = 2
                 \/ stated > Floor /\ cooldownMsFromUsage(known) = 0
         b == IF lies THEN markUsageUntrusted(bench, p) ELSE bench
     IN /\ refused' = [q \in Slot |-> refused[q] \/ q \in fencedSlots(p)]
        /\ retry' = [q \in Slot |-> IF q \in fencedSlots(p) THEN d ELSE retry[q]]
        /\ streak' = [streak EXCEPT ![p] = [count |-> count, age |-> 0]]
        /\ heard' = [heard EXCEPT ![p] = FALSE]
        /\ IF p \in Metered
           THEN /\ handler' = [handler EXCEPT ![p] = stated]
                /\ fetching' = [fetching EXCEPT ![p] = IF @ = "none" THEN "asked" ELSE @]
                /\ SetBench(b) /\ owed' = [owed EXCEPT ![p] = d]
           ELSE /\ LET marked == markExhausted(b, p, IF stated = 0 THEN Default ELSE stated) IN
                   SetBench(marked) /\ owed' = [owed EXCEPT ![p] = Most(d, marked.cooldown[p])]
                /\ UNCHANGED <<handler, fetching>>
  /\ UNCHANGED <<account, invalid, usage>>

\* noteAuthSuccess of a completed inference: nothing is held against the slot.
Answer(p) ==
  /\ sent[p] # "none" /\ sent' = [sent EXCEPT ![p] = "none"]
  /\ cooldown' = [cooldown EXCEPT ![p] = 0]
  /\ refused' = [refused EXCEPT ![p] = FALSE] /\ retry' = [retry EXCEPT ![p] = 0]
  /\ streak' = [streak EXCEPT ![p] = NoStreak]
  /\ untrusted' = [untrusted EXCEPT ![p] = 0] /\ invalid' = [invalid EXCEPT ![p] = FALSE]
  /\ owed' = [owed EXCEPT ![p] = 0]
  /\ UNCHANGED <<account, usage, fetching, handler, heard>>

\* noteAuthSuccess of a response that has only begun: an account out of service
\* for its login alone comes back, a quota refusal stands.
Accept(p) ==
  /\ sent[p] # "none" /\ invalid[p]
  /\ invalid' = [invalid EXCEPT ![p] = FALSE]
  /\ cooldown' = [cooldown EXCEPT ![p] = IF refused[p] THEN @ ELSE 0]
  /\ UNCHANGED <<account, refused, retry, streak, untrusted, usage, fetching, handler, sent, history>>

\* A failure that is no refusal: a rejected login or a transient error benches
\* the account for a moment, or the login is condemned.
Fail(p) ==
  /\ sent[p] # "none" /\ sent' = [sent EXCEPT ![p] = "none"]
  /\ \/ SetBench(markExhausted(bench, p, Transient)) /\ UNCHANGED invalid
     \/ invalid' = [invalid EXCEPT ![p] = TRUE] /\ UNCHANGED <<cooldown, untrusted>>
  /\ UNCHANGED <<account, refused, retry, streak, usage, fetching, handler, history>>

-----------------------------------------------------------------------------
(* Usage. *)

\* refreshUsage by the status timer or a reconciliation; one fetch at a time.
Poll(p) ==
  /\ p \in Metered /\ fetching[p] = "none"
  /\ fetching' = [fetching EXCEPT ![p] = "asked"]
  /\ UNCHANGED <<account, records, handler, sent, history>>

\* storeUsage: a full window benches at once, headroom may shorten.
stored(b, p, u) ==
  LET ms == cooldownMsFromUsage(u) IN
  IF ms \in 1 .. Live THEN markExhausted(b, p, ms)
  ELSE IF ms = 0 THEN applyUsageToCooldown(b, p, u, TRUE) ELSE b

UsageAnswers(p) ==
  /\ fetching[p] \in {"asked", "late"}
  /\ fetching' = [fetching EXCEPT ![p] = "none"]
  /\ \E r \in Reading :
     LET u == [says |-> r.says, full |-> r.full, age |-> 0]
         b == stored(bench, p, u)
     IN /\ usage' = [usage EXCEPT ![p] = u]
        /\ heard' = [heard EXCEPT ![p] = TRUE]
        /\ IF handler[p] = Idle THEN SetBench(b) /\ owed' = afterReading(p, r, TRUE, owed[p])
           ELSE Settle(p, b, handler[p], u, TRUE)
  /\ handler' = [handler EXCEPT ![p] = Idle]
  /\ UNCHANGED <<account, refused, retry, streak, invalid, sent>>

\* The fetch fails: the reading held before is taken instead.  An answer about
\* a login that was replaced is dropped (usageSnapshotIsCurrent).
UsageFails(p) ==
  /\ fetching[p] # "none"
  /\ fetching' = [fetching EXCEPT ![p] = "none"]
  /\ IF handler[p] = Idle THEN UNCHANGED <<cooldown, untrusted, owed>>
     ELSE Settle(p, bench, handler[p], IF fetching[p] = "void" THEN NoUsage ELSE usage[p],
                 FALSE)
  /\ handler' = [handler EXCEPT ![p] = Idle]
  /\ UNCHANGED <<account, refused, retry, streak, invalid, usage, sent, heard>>

\* reconcileCooldownsFromUsage: the cached reading of a benched account counts
\* while it is fresh; the fetch it starts is Poll.
Reconcile(p) ==
  /\ cooldown[p] > 0 /\ ~invalid[p] /\ Fresh(usage[p])
  /\ SetBench(applyUsageToCooldown(bench, p, usage[p], heard[p]))
  /\ UNCHANGED <<account, refused, retry, streak, invalid, usage, fetching, handler, sent, history>>

-----------------------------------------------------------------------------
(* Logins, and time. *)

Void(p) == [fetching EXCEPT ![p] = IF @ = "none" THEN "none" ELSE "void"]

\* refreshDiscovery and clearReauthedInvalidations: a new token of the same
\* account drops the reading and the condemnation with its bench, and keeps
\* what the account itself has said.
Rotate(p) ==
  /\ usage[p] # NoUsage \/ invalid[p] \/ fetching[p] \in {"asked", "late"}
  /\ usage' = [usage EXCEPT ![p] = NoUsage]
  /\ invalid' = [invalid EXCEPT ![p] = FALSE]
  /\ cooldown' = [cooldown EXCEPT ![p] = IF invalid[p] THEN 0 ELSE @]
  /\ owed' = [owed EXCEPT ![p] = IF invalid[p] THEN 0 ELSE @]
  /\ fetching' = Void(p)
  /\ UNCHANGED <<account, refused, retry, streak, untrusted, handler, sent, heard>>

\* The slot is logged into another account.
Relogin(p) ==
  /\ \E a \in 1 .. Accounts : a # account[p] /\ account' = [account EXCEPT ![p] = a]
  /\ cooldown' = [cooldown EXCEPT ![p] = 0] /\ retry' = [retry EXCEPT ![p] = 0]
  /\ refused' = [refused EXCEPT ![p] = FALSE] /\ streak' = [streak EXCEPT ![p] = NoStreak]
  /\ untrusted' = [untrusted EXCEPT ![p] = 0] /\ usage' = [usage EXCEPT ![p] = NoUsage]
  /\ invalid' = [invalid EXCEPT ![p] = FALSE] /\ owed' = [owed EXCEPT ![p] = 0]
  /\ fetching' = Void(p)
  /\ UNCHANGED <<handler, sent, heard>>

Older(a) == IF a = Old THEN Old ELSE a + 1
Less(d) == IF d = 0 THEN 0 ELSE d - 1

\* A fetch under way has answered or failed before a second tick.
Tick ==
  /\ \A p \in Slot : fetching[p] # "late"
  /\ fetching' = [p \in Slot |-> IF fetching[p] = "asked" THEN "late" ELSE fetching[p]]
  /\ cooldown' = [p \in Slot |-> Less(cooldown[p])]
  /\ retry' = [p \in Slot |-> Less(retry[p])]
  /\ untrusted' = [p \in Slot |-> Less(untrusted[p])]
  /\ streak' = [p \in Slot |-> [streak[p] EXCEPT !.age = Older(@)]]
  /\ usage' = [p \in Slot |-> [usage[p] EXCEPT !.age = Older(@),
                                   !.full = IF @ \in 1 .. Live THEN @ - 1 ELSE @]]
  /\ owed' = [p \in Slot |-> Less(owed[p])]
  /\ UNCHANGED <<account, refused, invalid, handler, sent, heard>>

Next ==
  \/ Tick
  \/ \E p \in Slot :
       \/ Try(p) \/ Insist(p) \/ Refuse(p) \/ Answer(p) \/ Accept(p) \/ Fail(p)
       \/ Poll(p) \/ UsageAnswers(p) \/ UsageFails(p) \/ Reconcile(p)
       \/ Rotate(p) \/ Relogin(p)

Spec == Init /\ [][Next]_vars

\* Time goes on, and a fetch ends in time for it.
Fairness == WF_vars(Tick) /\ \A p \in Slot : WF_vars(UsageFails(p))
FairSpec == Spec /\ Fairness

-----------------------------------------------------------------------------
(* Properties. *)

\* No request goes to an account of the session's own accord within the delay
\* after its refusal, whichever of its slots was asked, whatever readings
\* arrive, are reconciled or were awaited meanwhile (limitRefusalByProvider).
Fence == INSTANCE AccountFence WITH delay <- retry, barred <- invalid, Longest <- Live
FenceRespectedStep == [Fence!Next]_(Fence!vars)
FenceRespected == Fence!Spec

\* A percentage read before the account refused does not end the bench of that
\* refusal early, not even when the fetch made because of it fails and the old
\* reading is all there is (resolveLimitCooldownMs, applyUsageToCooldown).
OldHeadroomErasesNothing ==
  \A p \in Slot :
    (owed[p] > 0 /\ ~heard[p] /\ usage[p].says = "unsaid" /\ usage[p].full = 0 /\ ~invalid[p])
      => providerRecoveryAt(p) > 0

\* An account that can be polled for nothing is asked again within Recheck,
\* whatever its windows and refusals predict (MAX_RECHECK_INTERVAL_MS).
AskedWithinRecheck ==
  \A p \in Slot : (providersSharingAccount(p) \subseteq Cheap /\ ~invalid[p])
      => providerRecoveryAt(p) <= Recheck

\* A second refusal in a row is not followed by another attempt before the
\* bench of it has passed because of a percentage, new or old: the loop of a
\* retry every second (noteLimitError, usageUntrusted).
NoHotRetry ==
  \A p \in Slot :
    (owed[p] > 0 /\ streak[p].count = 2 /\ streak[p].age < Distrust /\ ~invalid[p]
       /\ usage[p].says = "unsaid" /\ usage[p].full = 0)
      => providerRecoveryAt(p) > 0

Report(p) == Refuse(p) \/ Fail(p) \/ UsageAnswers(p) \/ UsageFails(p)

\* "A provider's snapshot never parks an account forever" (GUARANTEES.md 26): an
\* account nothing new is heard of is asked again in the end, or was condemned.
NeverParkedForever ==
  \A p \in Slot : \/ []<>(Selectable(p) \/ invalid[p])
                   \/ []<><<\E q \in Slot : Report(q)>>_vars
=============================================================================
