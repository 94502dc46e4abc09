------------------------ MODULE AccountHealthProofs ------------------------
(* Theorems about AccountHealth, for every set of slots and accounts, every *)
(* reading of usage and every length of the delays.                         *)
EXTENDS AccountHealth, TLAPS

-----------------------------------------------------------------------------
(* The inductive invariant.                                                 *)

\* How far ahead an account is benched at most when a slot of it is refused.
Ceiling(p) == IF p \in Cheap THEN Recheck ELSE Live

\* No bench and no fence is longer than c; the other variables have their types.
Within(c) ==
  /\ account \in [Slot -> 1 .. Accounts]
  /\ cooldown \in [Slot -> 0 .. c] /\ retry \in [Slot -> 0 .. c]
  /\ refused \in [Slot -> BOOLEAN] /\ \A p \in Slot : retry[p] > 0 => refused[p]
  /\ streak \in [Slot -> [count : 0 .. 2, age : 0 .. Old]]
  /\ untrusted \in [Slot -> 0 .. Distrust] /\ invalid \in [Slot -> BOOLEAN]
  /\ usage \in [Slot -> [says : {"yes", "no", "unsaid"}, full : 0 .. NoMeter, age : 0 .. Old]]
  /\ fetching \in [Slot -> {"none", "asked", "late", "void"}]
  /\ handler \in [Slot -> 0 .. Idle]
  /\ sent \in [Slot -> {"none", "session", "user"}]
  /\ owed \in [Slot -> 0 .. Live] /\ heard \in [Slot -> BOOLEAN]

\* A length that bounds every bench.
Bounds(c) == c \in 1 .. Live /\ \A p \in Slot : Ceiling(p) <= c

Benches(c) == [cooldown : [Slot -> 0 .. c], untrusted : [Slot -> 0 .. Distrust]]
Usages == [says : {"yes", "no", "unsaid"}, full : 0 .. NoMeter, age : 0 .. Old]

-----------------------------------------------------------------------------
(* The helpers.                                                             *)

LEMMA Sizes ==
  ASSUME HealthAssumption
  PROVE  /\ Live \in Nat \ {0} /\ Old \in Nat \ {0} /\ NoMeter \in Nat /\ Live < NoMeter
         /\ Recheck \in 1 .. Live /\ Floor \in 1 .. Live /\ Default \in 1 .. Live
         /\ Distrust \in Nat \ {0} /\ Transient \in 1 .. Live /\ Idle = Live + 1
         /\ NoUsage \in Usages /\ NoStreak \in [count : 0 .. 2, age : 0 .. Old]
<1>1. Ttl \in Nat /\ Recheck \in Nat /\ Streak \in Nat
  BY DEF HealthAssumption
<1>2. Old \in Nat \ {0}
  BY <1>1 DEF Old, Most
<1>3. Live \in Nat \ {0} /\ NoMeter \in Nat /\ Live < NoMeter
  BY DEF HealthAssumption, NoMeter
<1>4. NoUsage \in Usages
  <2>1. NoUsage.says \in {"yes", "no", "unsaid"}
    BY DEF NoUsage
  <2> QED
    BY <1>2, <1>3, <2>1 DEF NoUsage, Usages, NoMeter
<1>5. /\ Recheck \in Nat \ {0} /\ Transient \in Nat \ {0} /\ Floor \in Nat \ {0}
      /\ Distrust \in Nat \ {0}
  BY DEF HealthAssumption
<1>6. Recheck \in 1 .. Live /\ Floor \in 1 .. Live /\ Default \in 1 .. Live /\ Transient \in 1 .. Live
  BY <1>3, <1>5 DEF HealthAssumption
<1>7. NoStreak \in [count : 0 .. 2, age : 0 .. Old]
  BY <1>2 DEF NoStreak
<1> QED
  BY <1>2, <1>3, <1>4, <1>5, <1>6, <1>7 DEF Idle

LEMMA ExhaustTyped ==
  ASSUME HealthAssumption, NEW c, Bounds(c), NEW b \in Benches(c), NEW p \in Slot, NEW d \in Nat
  PROVE  markExhausted(b, p, d) \in Benches(c)
<1> DEFINE until == Least(Most(d, 1), IF p \in Cheap THEN Recheck ELSE Live)
<1>1. until \in 1 .. c
  <2>1. Ceiling(p) <= c /\ Ceiling(p) \in Nat \ {0} /\ c \in Nat
    BY Sizes DEF Bounds, Ceiling
  <2>2. until = Least(Most(d, 1), Ceiling(p))
    BY DEF Ceiling
  <2> QED
    BY <2>1, <2>2 DEF Least, Most
<1>2. \A q \in Slot : b.cooldown[q] \in 0 .. c
  BY DEF Benches
<1> HIDE DEF until
<1>3. ASSUME NEW q \in Slot PROVE Most(b.cooldown[q], until) \in 0 .. c
  <2>1. c \in Nat /\ b.cooldown[q] \in 0 .. c
    BY <1>2, Sizes DEF Bounds
  <2> QED
    BY <1>1, <2>1 DEF Most
<1>4. [q \in Slot |-> IF q \in providersSharingAccount(p) THEN Most(b.cooldown[q], until)
                      ELSE b.cooldown[q]] \in [Slot -> 0 .. c]
  BY <1>2, <1>3
<1>5. markExhausted(b, p, d) =
        [b EXCEPT !.cooldown = [q \in Slot |->
           IF q \in providersSharingAccount(p) THEN Most(b.cooldown[q], until) ELSE b.cooldown[q]]]
  BY DEF markExhausted, until
<1> QED
  BY <1>4, <1>5 DEF Benches

LEMMA UntrustedTyped ==
  ASSUME HealthAssumption, NEW c, NEW b \in Benches(c), NEW p \in Slot
  PROVE  markUsageUntrusted(b, p) \in Benches(c)
  BY Sizes DEF markUsageUntrusted, Benches

LEMMA MeterTyped ==
  ASSUME HealthAssumption, NEW u \in Usages
  PROVE  cooldownMsFromUsage(u) \in 0 .. NoMeter
  BY Sizes DEF cooldownMsFromUsage, Usages

LEMMA ApplyTyped ==
  ASSUME HealthAssumption, NEW c, Bounds(c), Within(c),
         NEW b \in Benches(c), NEW p \in Slot, NEW u \in Usages, NEW after
  PROVE  applyUsageToCooldown(b, p, u, after) \in Benches(c)
<1> DEFINE ms == cooldownMsFromUsage(u)
<1>1. ms \in 0 .. NoMeter /\ c \in Nat /\ retry[p] \in Nat
  BY MeterTyped, Sizes DEF Bounds, Within
<1> HIDE DEF ms
<1>2. b.cooldown[p] \in 0 .. c
  BY DEF Benches
<1>3. [b EXCEPT !.cooldown[p] = 0, !.untrusted[p] = 0] \in Benches(c)
  <2>1. ASSUME NEW b2 \in Benches(c) PROVE [b2 EXCEPT !.untrusted[p] = 0] \in Benches(c)
    BY Sizes DEF Benches
  <2>2. [b EXCEPT !.cooldown[p] = 0] \in Benches(c)
    BY <1>1 DEF Benches
  <2>3. [b EXCEPT !.cooldown[p] = 0, !.untrusted[p] = 0] =
          [[b EXCEPT !.cooldown[p] = 0] EXCEPT !.untrusted[p] = 0]
    OBVIOUS
  <2> QED
    BY <2>1, <2>2, <2>3
<1>4. [b EXCEPT !.cooldown[p] = 0] \in Benches(c)
  BY <1>1 DEF Benches
<1>5. ASSUME ms \in 1 .. Live PROVE [b EXCEPT !.cooldown[p] = Least(@, ms)] \in Benches(c)
  <2>1. Least(b.cooldown[p], ms) \in 0 .. c
    BY <1>1, <1>2, <1>5 DEF Least
  <2> QED
    BY <2>1 DEF Benches
<1>6. CASE retry[p] > 0
  BY <1>6 DEF applyUsageToCooldown
<1>7. CASE retry[p] = 0 /\ u.says = "yes"
  BY <1>3, <1>7 DEF applyUsageToCooldown
<1>8. CASE retry[p] = 0 /\ u.says = "unsaid" /\ ms = 0
  BY <1>4, <1>8 DEF applyUsageToCooldown, ms
<1>9. CASE retry[p] = 0 /\ u.says = "unsaid" /\ ms \in 1 .. Live
  BY <1>1, <1>5, <1>9, Sizes DEF applyUsageToCooldown, ms
<1>10. CASE retry[p] = 0 /\ u.says # "yes" /\ ~(u.says = "unsaid" /\ (ms = 0 \/ ms \in 1 .. Live))
  BY <1>10 DEF applyUsageToCooldown, ms
<1> QED
  BY <1>1, <1>6, <1>7, <1>8, <1>9, <1>10

\* What a refused account is benched for, once the usage fetch is over.
LEMMA SettledTyped ==
  ASSUME HealthAssumption, NEW c, Bounds(c), Within(c), NEW b \in Benches(c),
         NEW p \in Slot, NEW stated \in 0 .. Live, NEW u \in Usages, NEW news
  PROVE  settled(b, p, stated, u, news).b \in Benches(c) /\ settled(b, p, stated, u, news).d \in Nat
<1> DEFINE ms == cooldownMsFromUsage(u)
           b1 == applyUsageToCooldown(b, p, u, news \/ heard[p])
           read == IF ms = 0 THEN Floor ELSE IF ms \in 1 .. Live THEN ms ELSE 0
           hint == Most(stated, read)
<1>1. b1 \in Benches(c)
  BY ApplyTyped
<1>2. ms \in Nat
  BY MeterTyped, Sizes
<1> HIDE DEF ms, b1
<1>3. hint \in Nat
  BY <1>2, Sizes DEF Most
<1> HIDE DEF hint
<1>4. (IF ms = 0 THEN markUsageUntrusted(b1, p) ELSE b1) \in Benches(c)
  BY <1>1, UntrustedTyped
<1>5. (IF hint = 0 THEN Default ELSE hint) \in Nat
  BY <1>3, Sizes
<1>6. settled(b, p, stated, u, news) =
        [b |-> IF ms = 0 THEN markUsageUntrusted(b1, p) ELSE b1,
         d |-> IF hint = 0 THEN Default ELSE hint]
  BY DEF settled, ms, b1, hint
<1> QED
  BY <1>4, <1>5, <1>6

LEMMA BenchTyped ==
  ASSUME NEW c, Within(c)
  PROVE  bench \in Benches(c)
  BY DEF Within, bench, Benches

LEMMA SetTyped ==
  ASSUME NEW c, NEW b \in Benches(c), SetBench(b)
  PROVE  cooldown' \in [Slot -> 0 .. c] /\ untrusted' \in [Slot -> 0 .. Distrust]
  BY DEF SetBench, Benches

\* No account owes more than its longest bench.
LEMMA SettleTyped ==
  ASSUME HealthAssumption, NEW c, Bounds(c), Within(c), NEW b \in Benches(c),
         NEW p \in Slot, NEW stated \in 0 .. Live, NEW u \in Usages, NEW news,
         Settle(p, b, stated, u, news)
  PROVE  /\ cooldown' \in [Slot -> 0 .. c] /\ untrusted' \in [Slot -> 0 .. Distrust]
         /\ owed' \in [Slot -> 0 .. Live]
<1> DEFINE s == settled(b, p, stated, u, news)
           marked == markExhausted(s.b, p, s.d)
<1>1. s.b \in Benches(c) /\ s.d \in Nat
  BY SettledTyped
<1> HIDE DEF s
<1>2. marked \in Benches(c)
  BY <1>1, ExhaustTyped
<1> HIDE DEF marked
<1>3. owed[p] \in 0 .. Live /\ owed \in [Slot -> 0 .. Live]
  BY DEF Within
<1>4. marked.cooldown[p] \in 0 .. Live
  BY <1>2, Sizes DEF Benches, Bounds
<1>5. Most(owed[p], marked.cooldown[p]) \in 0 .. Live
  BY <1>3, <1>4 DEF Most
<1>6. ASSUME NEW left \in 0 .. Live PROVE afterReading(p, u, news, left) \in [Slot -> 0 .. Live]
  <2>1. (IF u.says = "yes" /\ news THEN 0 ELSE left) \in 0 .. Live
    BY <1>6, Sizes
  <2> QED
    BY <1>3, <2>1, Zenon DEF afterReading
<1>7. \/ SetBench(marked) /\ owed' = afterReading(p, u, news,
                            IF refused[p] THEN Most(owed[p], marked.cooldown[p]) ELSE owed[p])
      \/ SetBench(s.b) /\ owed' = afterReading(p, u, news, owed[p])
  BY DEF Settle, s, marked
<1>8. CASE SetBench(marked) /\ owed' = afterReading(p, u, news,
                            IF refused[p] THEN Most(owed[p], marked.cooldown[p]) ELSE owed[p])
  <2>1. (IF refused[p] THEN Most(owed[p], marked.cooldown[p]) ELSE owed[p]) \in 0 .. Live
    BY <1>3, <1>5
  <2> QED
    BY <1>2, <1>6, <1>8, <2>1, SetTyped
<1>9. CASE SetBench(s.b) /\ owed' = afterReading(p, u, news, owed[p])
  BY <1>1, <1>3, <1>6, <1>9, SetTyped
<1> QED
  BY <1>7, <1>8, <1>9

-----------------------------------------------------------------------------
(* Types, and the longest bench.                                            *)

\* The parts of Within: times, and what is no time.
Times(c) ==
  /\ cooldown \in [Slot -> 0 .. c] /\ retry \in [Slot -> 0 .. c]
  /\ untrusted \in [Slot -> 0 .. Distrust] /\ owed \in [Slot -> 0 .. Live]

Marks ==
  /\ account \in [Slot -> 1 .. Accounts] /\ refused \in [Slot -> BOOLEAN]
  /\ invalid \in [Slot -> BOOLEAN] /\ heard \in [Slot -> BOOLEAN]
  /\ fetching \in [Slot -> {"none", "asked", "late", "void"}]
  /\ sent \in [Slot -> {"none", "session", "user"}]

Counts ==
  /\ streak \in [Slot -> [count : 0 .. 2, age : 0 .. Old]] /\ usage \in [Slot -> Usages]
  /\ handler \in [Slot -> 0 .. Idle]

Fenced == \A p \in Slot : retry[p] > 0 => refused[p]

LEMMA Parts ==
  ASSUME NEW c
  PROVE  Within(c) <=> Times(c) /\ Marks /\ Counts /\ Fenced
  BY DEF Within, Times, Marks, Counts, Fenced, Usages

LEMMA InitWithin ==
  ASSUME HealthAssumption, NEW c, Bounds(c), Init
  PROVE  Within(c)
<1>1. Times(c)
  BY Sizes DEF Init, Times, Bounds
<1>2. Marks
  BY DEF Init, Marks
<1>3. Counts
  BY Sizes DEF Init, Counts
<1>4. Fenced
  BY DEF Init, Fenced
<1> QED
  BY <1>1, <1>2, <1>3, <1>4, Parts

\* The records of an account, and the bench of a failure or of an answer.
LEMMA NextTimes ==
  ASSUME HealthAssumption, NEW c, Bounds(c), Within(c), Next
  PROVE  Times(c)'
<1> USE DEF records, history
<1>1. Times(c) /\ Marks /\ Counts /\ c \in 1 .. Live
  BY Parts DEF Bounds
<1>2. 0 \in 0 .. c /\ 0 \in 0 .. Live /\ 0 \in 0 .. Distrust
  BY Sizes, <1>1
<1>3. CASE Tick
  <2>1. \A n \in Nat : \A d \in 0 .. n : Less(d) \in 0 .. n
    BY DEF Less
  <2>2. c \in Nat /\ Live \in Nat /\ Distrust \in Nat
    BY <1>1, Sizes
  <2>3. /\ \A p \in Slot : Less(cooldown[p]) \in 0 .. c
        /\ \A p \in Slot : Less(retry[p]) \in 0 .. c
        /\ \A p \in Slot : Less(untrusted[p]) \in 0 .. Distrust
        /\ \A p \in Slot : Less(owed[p]) \in 0 .. Live
    BY <1>1, <2>1, <2>2 DEF Times
  <2> QED
    BY <1>3, <2>3 DEF Tick, Times
<1>4. ASSUME NEW p \in Slot, Try(p) \/ Insist(p) \/ Poll(p)
      PROVE  Times(c)'
  BY <1>1, <1>4 DEF Try, Insist, Poll, Times
<1>5. ASSUME NEW p \in Slot, Answer(p) \/ Relogin(p)
      PROVE  Times(c)'
  <2>1. /\ cooldown' = [cooldown EXCEPT ![p] = 0] /\ retry' = [retry EXCEPT ![p] = 0]
        /\ untrusted' = [untrusted EXCEPT ![p] = 0] /\ owed' = [owed EXCEPT ![p] = 0]
    BY <1>5 DEF Answer, Relogin
  <2> QED
    BY <1>1, <1>2, <2>1, Zenon DEF Times
<1>6. ASSUME NEW p \in Slot, Accept(p)
      PROVE  Times(c)'
  <2>1. (IF refused[p] THEN cooldown[p] ELSE 0) \in 0 .. c
    BY <1>1, <1>2 DEF Times
  <2> QED
    BY <1>1, <1>6, <2>1, Zenon DEF Accept, Times
<1>7. ASSUME NEW p \in Slot, Rotate(p)
      PROVE  Times(c)'
  <2>1. (IF invalid[p] THEN 0 ELSE cooldown[p]) \in 0 .. c /\ (IF invalid[p] THEN 0 ELSE owed[p]) \in 0 .. Live
    BY <1>1, <1>2 DEF Times
  <2> QED
    BY <1>1, <1>7, <2>1, Zenon DEF Rotate, Times
<1>8. ASSUME NEW p \in Slot, Fail(p)
      PROVE  Times(c)'
  <2>1. markExhausted(bench, p, Transient) \in Benches(c)
    BY BenchTyped, ExhaustTyped, Sizes
  <2>2. CASE SetBench(markExhausted(bench, p, Transient))
    BY <1>1, <1>8, <2>1, <2>2, SetTyped DEF Fail, Times
  <2> QED
    BY <1>1, <1>8, <2>2 DEF Fail, Times
<1>9. ASSUME NEW p \in Slot, Reconcile(p)
      PROVE  Times(c)'
  <2>1. usage[p] \in Usages
    BY <1>1 DEF Counts
  <2>2. applyUsageToCooldown(bench, p, usage[p], heard[p]) \in Benches(c)
    BY <2>1, BenchTyped, ApplyTyped
  <2> QED
    BY <1>1, <1>9, <2>2, SetTyped DEF Reconcile, Times
<1>10. ASSUME NEW p \in Slot, UsageFails(p)
       PROVE  Times(c)'
  <2>1. CASE handler[p] = Idle
    BY <1>1, <1>10, <2>1 DEF UsageFails, Times
  <2>2. CASE handler[p] # Idle
    <3>1. handler[p] \in 0 .. Live
      <4>1. handler[p] \in 0 .. Idle
        BY <1>1 DEF Counts
      <4> QED
        BY <2>2, <4>1, Sizes
    <3>2. (IF fetching[p] = "void" THEN NoUsage ELSE usage[p]) \in Usages
      BY <1>1, Sizes DEF Counts
    <3> QED
      BY <1>1, <1>10, <2>2, <3>1, <3>2, BenchTyped, SettleTyped DEF UsageFails, Times
  <2> QED
    BY <2>1, <2>2
<1>11. ASSUME NEW p \in Slot, UsageAnswers(p)
       PROVE  Times(c)'
  <2>1. PICK r \in Reading :
          LET u == [says |-> r.says, full |-> r.full, age |-> 0]
              b == stored(bench, p, u)
          IN IF handler[p] = Idle THEN SetBench(b) /\ owed' = afterReading(p, r, TRUE, owed[p])
             ELSE Settle(p, b, handler[p], u, TRUE)
    BY <1>11 DEF UsageAnswers
  <2> DEFINE u == [says |-> r.says, full |-> r.full, age |-> 0]
             b == stored(bench, p, u)
  <2>2. u \in Usages
    <3>1. r \in Readings /\ 0 \in 0 .. Old
      BY Sizes DEF HealthAssumption
    <3> QED
      BY <3>1 DEF Readings, Usages
  <2>3. b \in Benches(c)
    <3> HIDE DEF u
    <3>1. cooldownMsFromUsage(u) \in Nat
      BY <2>2, MeterTyped, Sizes
    <3> QED
      BY <2>2, <3>1, BenchTyped, ExhaustTyped, ApplyTyped DEF stored
  <2>4. retry' = retry
    BY <1>11 DEF UsageAnswers
  <2> HIDE DEF u, b
  <2>5. CASE handler[p] = Idle
    <3>1. SetBench(b) /\ owed' = afterReading(p, r, TRUE, owed[p])
      BY <2>1, <2>5 DEF u, b
    <3>2. afterReading(p, r, TRUE, owed[p]) \in [Slot -> 0 .. Live]
      BY <1>1, <1>2, Zenon DEF afterReading, Times
    <3> QED
      BY <1>1, <2>3, <2>4, <3>1, <3>2, SetTyped DEF Times
  <2>6. CASE handler[p] # Idle
    <3>1. Settle(p, b, handler[p], u, TRUE)
      BY <2>1, <2>6 DEF u, b
    <3>2. handler[p] \in 0 .. Live
      <4>1. handler[p] \in 0 .. Idle
        BY <1>1 DEF Counts
      <4> QED
        BY <2>6, <4>1, Sizes
    <3> QED
      BY <1>1, <2>2, <2>3, <2>4, <3>1, <3>2, SettleTyped DEF Times
  <2> QED
    BY <2>5, <2>6
<1>12. ASSUME NEW p \in Slot, Refuse(p)
       PROVE  Times(c)'
  <2>1. PICK stated \in 0 .. Live :
     LET d == retryDelay(p, stated)
         count == noteLimitError(p)
         known == usage[p]
         lies == \/ count = 2
                 \/ stated > Floor /\ cooldownMsFromUsage(known) = 0
         b == IF lies THEN markUsageUntrusted(bench, p) ELSE bench
     IN /\ retry' = [q \in Slot |-> IF q \in fencedSlots(p) THEN d ELSE retry[q]]
        /\ IF p \in Metered
           THEN SetBench(b) /\ owed' = [owed EXCEPT ![p] = d]
           ELSE LET marked == markExhausted(b, p, IF stated = 0 THEN Default ELSE stated) IN
                   SetBench(marked) /\ owed' = [owed EXCEPT ![p] = Most(d, marked.cooldown[p])]
    BY <1>12 DEF Refuse
  <2> DEFINE d == retryDelay(p, stated)
             lies == \/ noteLimitError(p) = 2
                     \/ stated > Floor /\ cooldownMsFromUsage(usage[p]) = 0
             b == IF lies THEN markUsageUntrusted(bench, p) ELSE bench
             marked == markExhausted(b, p, IF stated = 0 THEN Default ELSE stated)
  <2>2. d \in 1 .. c
    <3>1. Ceiling(p) <= c /\ Ceiling(p) \in Nat \ {0} /\ c \in Nat
      BY <1>1, Sizes DEF Bounds, Ceiling
    <3>2. d = Least(IF stated = 0 THEN Default ELSE stated, Ceiling(p))
      BY DEF retryDelay, Ceiling
    <3> QED
      BY <3>1, <3>2, Sizes DEF Least
  <2>3. b \in Benches(c)
    BY BenchTyped, UntrustedTyped
  <2>4. (IF stated = 0 THEN Default ELSE stated) \in Nat
    BY Sizes
  <2> HIDE DEF b, d
  <2>5. marked \in Benches(c)
    BY <2>3, <2>4, ExhaustTyped
  <2> HIDE DEF marked
  <2>6. d \in 0 .. c /\ d \in 0 .. Live
    BY <1>1, <2>2, Sizes
  <2>7. retry' \in [Slot -> 0 .. c]
    <3>1. retry' = [q \in Slot |-> IF q \in fencedSlots(p) THEN d ELSE retry[q]]
      BY <2>1 DEF d
    <3> QED
      BY <1>1, <2>6, <3>1 DEF Times
  <2>8. CASE p \in Metered
    <3>1. SetBench(b) /\ owed' = [owed EXCEPT ![p] = d]
      BY <2>1, <2>8 DEF b, d
    <3>2. [owed EXCEPT ![p] = d] \in [Slot -> 0 .. Live]
      BY <1>1, <2>6, Zenon DEF Times
    <3> QED
      BY <2>3, <2>7, <3>1, <3>2, SetTyped DEF Times
  <2>9. CASE p \notin Metered
    <3>1. SetBench(marked) /\ owed' = [owed EXCEPT ![p] = Most(d, marked.cooldown[p])]
      BY <2>1, <2>9 DEF b, d, marked
    <3>2. Most(d, marked.cooldown[p]) \in 0 .. Live
      <4>1. marked.cooldown[p] \in 0 .. Live
        BY <2>5, <1>1, Sizes DEF Benches
      <4> QED
        BY <4>1, <2>6 DEF Most
    <3>3. [owed EXCEPT ![p] = Most(d, marked.cooldown[p])] \in [Slot -> 0 .. Live]
      BY <1>1, <3>2, Zenon DEF Times
    <3> QED
      BY <2>5, <2>7, <3>1, <3>3, SetTyped DEF Times
  <2> QED
    BY <2>8, <2>9
<1> QED
  BY <1>3, <1>4, <1>5, <1>6, <1>7, <1>8, <1>9, <1>10, <1>11, <1>12 DEF Next

LEMMA NextMarks ==
  ASSUME HealthAssumption, NEW c, Within(c), Next
  PROVE  Marks'
<1> USE DEF records, history
<1>1. Marks
  BY Parts
<1>2. CASE Tick
  BY <1>1, <1>2 DEF Tick, Marks
<1>3. ASSUME NEW p \in Slot, Try(p) \/ Insist(p)
      PROVE  Marks'
  BY <1>1, <1>3 DEF Try, Insist, Marks
<1>4. ASSUME NEW p \in Slot, Refuse(p)
      PROVE  Marks'
  <2>1. refused' \in [Slot -> BOOLEAN]
    <3>1. refused' = [q \in Slot |-> refused[q] \/ q \in fencedSlots(p)]
      BY <1>4 DEF Refuse
    <3>2. \A q \in Slot : (refused[q] \/ q \in fencedSlots(p)) \in BOOLEAN
      OBVIOUS
    <3> QED
      BY <3>1, <3>2
  <2>2. fetching' \in [Slot -> {"none", "asked", "late", "void"}]
    <3>1. fetching' = fetching \/ fetching' = [fetching EXCEPT ![p] = IF @ = "none" THEN "asked" ELSE @]
      BY <1>4 DEF Refuse
    <3> QED
      BY <1>1, <3>1 DEF Marks
  <2>3. heard' \in [Slot -> BOOLEAN] /\ sent' \in [Slot -> {"none", "session", "user"}]
    <3>1. heard' = [heard EXCEPT ![p] = FALSE] /\ sent' = [sent EXCEPT ![p] = "none"]
      BY <1>4 DEF Refuse
    <3> QED
      BY <1>1, <3>1 DEF Marks
  <2>4. account' = account /\ invalid' = invalid
    BY <1>4 DEF Refuse
  <2> QED
    BY <1>1, <2>1, <2>2, <2>3, <2>4 DEF Marks
<1>5. ASSUME NEW p \in Slot, Answer(p) \/ Accept(p) \/ Fail(p)
      PROVE  Marks'
  BY <1>1, <1>5 DEF Answer, Accept, Fail, Marks
<1>6. ASSUME NEW p \in Slot, Poll(p) \/ Reconcile(p) \/ UsageFails(p)
      PROVE  Marks'
  BY <1>1, <1>6 DEF Poll, Reconcile, UsageFails, Marks
<1>7. ASSUME NEW p \in Slot, UsageAnswers(p)
      PROVE  Marks'
  <2>1. /\ fetching' = [fetching EXCEPT ![p] = "none"] /\ heard' = [heard EXCEPT ![p] = TRUE]
        /\ account' = account /\ refused' = refused /\ invalid' = invalid /\ sent' = sent
    BY <1>7 DEF UsageAnswers
  <2> QED
    BY <1>1, <2>1 DEF Marks
<1>8. ASSUME NEW p \in Slot, Rotate(p) \/ Relogin(p)
      PROVE  Marks'
  <2>1. Void(p) \in [Slot -> {"none", "asked", "late", "void"}]
    BY <1>1 DEF Void, Marks
  <2>2. fetching' = Void(p) /\ refused' \in {refused, [refused EXCEPT ![p] = FALSE]}
        /\ invalid' = [invalid EXCEPT ![p] = FALSE] /\ heard' = heard /\ sent' = sent
    BY <1>8 DEF Rotate, Relogin
  <2>3. account' \in [Slot -> 1 .. Accounts]
    <3>1. account' = account \/ \E a \in 1 .. Accounts : account' = [account EXCEPT ![p] = a]
      BY <1>8 DEF Rotate, Relogin
    <3> QED
      BY <1>1, <3>1, Zenon DEF Marks
  <2> QED
    BY <1>1, <2>1, <2>2, <2>3 DEF Marks
<1> QED
  BY <1>2, <1>3, <1>4, <1>5, <1>6, <1>7, <1>8 DEF Next

LEMMA NextCounts ==
  ASSUME HealthAssumption, NEW c, Within(c), Next
  PROVE  Counts'
<1> USE DEF records, history
<1>1. Counts /\ Old \in Nat \ {0} /\ Live \in Nat \ {0} /\ Live < NoMeter /\ NoMeter \in Nat
      /\ Idle \in 0 .. Idle /\ Idle = Live + 1 /\ NoUsage \in Usages
      /\ NoStreak \in [count : 0 .. 2, age : 0 .. Old]
  BY Parts, Sizes
<1>2. CASE Tick
  <2>1. \A a \in 0 .. Old : Older(a) \in 0 .. Old
    BY <1>1 DEF Older
  <2>2. streak' \in [Slot -> [count : 0 .. 2, age : 0 .. Old]]
    <3>1. \A p \in Slot : [streak[p] EXCEPT !.age = Older(@)] \in [count : 0 .. 2, age : 0 .. Old]
      BY <1>1, <2>1 DEF Counts
    <3> QED
      BY <1>2, <3>1 DEF Tick
  <2>3. usage' \in [Slot -> Usages]
    <3>1. ASSUME NEW p \in Slot
          PROVE  [usage[p] EXCEPT !.age = Older(@), !.full = IF @ \in 1 .. Live THEN @ - 1 ELSE @] \in Usages
      <4>1. usage[p] \in Usages
        BY <1>1 DEF Counts
      <4>2. (IF usage[p].full \in 1 .. Live THEN usage[p].full - 1 ELSE usage[p].full) \in 0 .. NoMeter
        BY <1>1, <4>1 DEF Usages
      <4>3. Older(usage[p].age) \in 0 .. Old
        BY <2>1, <4>1 DEF Usages
      <4> QED
        BY <4>1, <4>2, <4>3 DEF Usages
    <3> QED
      BY <1>2, <3>1 DEF Tick
  <2>4. handler' = handler
    BY <1>2 DEF Tick
  <2> QED
    BY <1>1, <2>2, <2>3, <2>4 DEF Counts
<1>3. ASSUME NEW p \in Slot, Try(p) \/ Insist(p) \/ Accept(p) \/ Fail(p) \/ Poll(p) \/ Reconcile(p)
      PROVE  Counts'
  BY <1>1, <1>3 DEF Try, Insist, Accept, Fail, Poll, Reconcile, Counts
<1>4. ASSUME NEW p \in Slot, Refuse(p)
      PROVE  Counts'
  <2>1. streak' = [streak EXCEPT ![p] = [count |-> noteLimitError(p), age |-> 0]] /\ usage' = usage
    BY <1>4 DEF Refuse
  <2>2. [count |-> noteLimitError(p), age |-> 0] \in [count : 0 .. 2, age : 0 .. Old]
    BY <1>1 DEF noteLimitError
  <2>3. \E stated \in 0 .. Live : handler' \in {handler, [handler EXCEPT ![p] = stated]}
    BY <1>4 DEF Refuse
  <2>4. handler' \in [Slot -> 0 .. Idle]
    <3>1. \A stated \in 0 .. Live : stated \in 0 .. Idle
      BY <1>1
    <3> QED
      BY <1>1, <2>3, <3>1, Zenon DEF Counts
  <2>5. streak' \in [Slot -> [count : 0 .. 2, age : 0 .. Old]]
    BY <1>1, <2>1, <2>2, Zenon DEF Counts
  <2> QED
    BY <1>1, <2>1, <2>4, <2>5 DEF Counts
<1>5. ASSUME NEW p \in Slot, Answer(p)
      PROVE  Counts'
  BY <1>1, <1>5 DEF Answer, Counts
<1>6. ASSUME NEW p \in Slot, UsageAnswers(p)
      PROVE  Counts'
  <2>1. PICK r \in Reading : usage' = [usage EXCEPT ![p] = [says |-> r.says, full |-> r.full, age |-> 0]]
    BY <1>6 DEF UsageAnswers
  <2>2. [says |-> r.says, full |-> r.full, age |-> 0] \in Usages
    <3>1. r \in Readings /\ 0 \in 0 .. Old
      BY <1>1 DEF HealthAssumption
    <3> QED
      BY <3>1 DEF Readings, Usages
  <2>3. handler' = [handler EXCEPT ![p] = Idle] /\ streak' = streak
    BY <1>6 DEF UsageAnswers
  <2>4. handler' \in [Slot -> 0 .. Idle]
    BY <1>1, <2>3, Zenon DEF Counts
  <2>5. usage' \in [Slot -> Usages]
    BY <1>1, <2>1, <2>2, Zenon DEF Counts
  <2> QED
    BY <1>1, <2>3, <2>4, <2>5 DEF Counts
<1>7. ASSUME NEW p \in Slot, UsageFails(p)
      PROVE  Counts'
  <2>1. handler' = [handler EXCEPT ![p] = Idle] /\ streak' = streak /\ usage' = usage
    BY <1>7 DEF UsageFails
  <2>2. handler' \in [Slot -> 0 .. Idle]
    BY <1>1, <2>1, Zenon DEF Counts
  <2> QED
    BY <1>1, <2>1, <2>2 DEF Counts
<1>8. ASSUME NEW p \in Slot, Rotate(p) \/ Relogin(p)
      PROVE  Counts'
  <2>1. /\ usage' = [usage EXCEPT ![p] = NoUsage] /\ handler' = handler
        /\ streak' \in {streak, [streak EXCEPT ![p] = NoStreak]}
    BY <1>8 DEF Rotate, Relogin
  <2>2. usage' \in [Slot -> Usages]
    BY <1>1, <2>1, Zenon DEF Counts
  <2>3. streak' \in [Slot -> [count : 0 .. 2, age : 0 .. Old]]
    BY <1>1, <2>1, Zenon DEF Counts
  <2> QED
    BY <1>1, <2>1, <2>2, <2>3 DEF Counts
<1> QED
  BY <1>2, <1>3, <1>4, <1>5, <1>6, <1>7, <1>8 DEF Next

LEMMA NextFenced ==
  ASSUME HealthAssumption, NEW c, Bounds(c), Within(c), Next
  PROVE  Fenced'
<1> USE DEF records, history
<1>1. Fenced /\ \A q \in Slot : retry[q] \in Nat
  BY Parts, Sizes DEF Times, Bounds
<1>2. ASSUME NEW q \in Slot, retry'[q] > 0 PROVE refused'[q]
  <2>1. CASE Tick
    <3>1. retry'[q] = Less(retry[q]) /\ refused' = refused
      BY <2>1 DEF Tick
    <3>2. retry[q] > 0
      BY <1>1, <1>2, <3>1 DEF Less
    <3> QED
      BY <1>1, <3>1, <3>2 DEF Fenced
  <2>2. ASSUME NEW p \in Slot, Refuse(p) PROVE refused'[q]
    <3>1. refused'[q] = (refused[q] \/ q \in fencedSlots(p))
      BY <2>2 DEF Refuse
    <3>2. q \notin fencedSlots(p) => retry'[q] = retry[q]
      BY <2>2 DEF Refuse
    <3> QED
      BY <1>1, <1>2, <3>1, <3>2 DEF Fenced
  <2>3. ASSUME NEW p \in Slot, Answer(p) \/ Relogin(p) PROVE refused'[q]
    <3>1. retry' = [retry EXCEPT ![p] = 0] /\ refused' = [refused EXCEPT ![p] = FALSE]
      BY <2>3 DEF Answer, Relogin
    <3>2. retry \in [Slot -> 0 .. c] /\ refused \in [Slot -> BOOLEAN]
      BY DEF Within
    <3>3. q # p
      BY <1>2, <3>1, <3>2
    <3> QED
      BY <1>1, <1>2, <3>1, <3>2, <3>3 DEF Fenced
  <2>4. ASSUME NEW p \in Slot,
               \/ Try(p) \/ Insist(p) \/ Accept(p) \/ Fail(p) \/ Poll(p)
               \/ UsageAnswers(p) \/ UsageFails(p) \/ Reconcile(p) \/ Rotate(p)
        PROVE refused'[q]
    <3>1. retry' = retry /\ refused' = refused
      BY <2>4 DEF Try, Insist, Accept, Fail, Poll, UsageAnswers, UsageFails, Reconcile, Rotate
    <3> QED
      BY <1>1, <1>2, <3>1 DEF Fenced
  <2> QED
    BY <2>1, <2>2, <2>3, <2>4 DEF Next
<1> QED
  BY <1>2 DEF Fenced

LEMMA StepWithin ==
  ASSUME HealthAssumption, NEW c, Bounds(c), Within(c), [Next]_vars
  PROVE  Within(c)'
<1>1. CASE Next
  BY <1>1, NextTimes, NextMarks, NextCounts, NextFenced DEF Within, Times, Marks, Counts, Fenced, Usages
<1>2. CASE UNCHANGED vars
  BY <1>2 DEF vars, records, history, Within
<1> QED
  BY <1>1, <1>2

LEMMA LiveBounds == ASSUME HealthAssumption PROVE Bounds(Live)
<1>1. \A p \in Slot : Ceiling(p) <= Live
  BY Sizes DEF Ceiling
<1> QED
  BY <1>1, Sizes DEF Bounds

\* No bench, fence or streak leaves its type whatever is refused, read and logged
\* in: markExhausted never benches beyond MAX_LIVE_COOLDOWN_MS.
THEOREM TypeCorrect == ASSUME HealthAssumption PROVE Spec => []TypeOK
<1>1. Init => Within(Live)
  BY LiveBounds, InitWithin
<1>2. Within(Live) /\ [Next]_vars => Within(Live)'
  BY LiveBounds, StepWithin
<1>3. Within(Live) => TypeOK
  BY DEF Within, TypeOK
<1> QED
  BY <1>1, <1>2, <1>3, PTL DEF Spec

-----------------------------------------------------------------------------
(* An account that can be polled is asked again.                            *)

\* AskedWithinRecheck, for a family whose slots can all be polled: however the
\* refusals, windows and forecasts of several slots of one account add up, none
\* keeps it from being asked for longer than MAX_RECHECK_INTERVAL_MS.
THEOREM AskedInTime ==
  ASSUME HealthAssumption, Slot \subseteq Cheap
  PROVE  Spec => []AskedWithinRecheck
<1>1. Bounds(Recheck)
  BY Sizes DEF Bounds, Ceiling
<1>2. Init => Within(Recheck)
  BY <1>1, InitWithin
<1>3. Within(Recheck) /\ [Next]_vars => Within(Recheck)'
  BY <1>1, StepWithin
<1>4. ASSUME Within(Recheck), NEW p \in Slot PROVE providerRecoveryAt(p) <= Recheck
  <2> DEFINE u == usage[p]
             ms == cooldownMsFromUsage(u)
  <2>1. /\ cooldown[p] \in 0 .. Recheck /\ retry[p] \in 0 .. Recheck
        /\ Recheck \in Nat \ {0}
    BY <1>4, Sizes DEF Within
  <2>2. u \in Usages
    BY <1>4 DEF Within, Usages
  <2>3. u.age \in Nat /\ u.says \in {"yes", "no", "unsaid"}
    BY <2>2, Sizes DEF Usages
  <2>4. ms \in Nat
    BY <2>2, MeterTyped, Sizes
  <2> HIDE DEF u, ms
  <2>5. ASSUME NEW at \in Nat PROVE capped(at, u) <= Recheck
    BY <2>1, <2>3, <2>5 DEF capped, Least
  <2>6. CASE retry[p] > 0
    BY <2>1, <2>6 DEF providerRecoveryAt, Most
  <2>7. CASE retry[p] = 0 /\ Fresh(u) /\ u.says = "yes"
    <3>1. providerRecoveryAt(p) = 0
      BY <2>7 DEF providerRecoveryAt, u
    <3> QED
      BY <2>1, <3>1
  <2>8. CASE retry[p] = 0 /\ Fresh(u) /\ u.says = "no"
    <3>1. providerRecoveryAt(p) = capped(Most(cooldown[p], Recheck), u)
      BY <2>8 DEF providerRecoveryAt, u
    <3>2. Most(cooldown[p], Recheck) \in Nat
      BY <2>1 DEF Most
    <3> QED
      BY <2>5, <3>1, <3>2
  <2>9. CASE retry[p] = 0 /\ ~(Fresh(u) /\ u.says # "unsaid")
    <3>1. providerRecoveryAt(p) =
            IF ms \in 1 .. Live THEN capped(ms, u)
            ELSE IF Fresh(u) /\ ms = 0 /\ untrusted[p] = 0 THEN 0
            ELSE cooldown[p]
      BY <2>9 DEF providerRecoveryAt, u, ms
    <3> QED
      BY <2>1, <2>4, <2>5, <3>1
  <2> QED
    BY <2>1, <2>3, <2>6, <2>7, <2>8, <2>9
<1>5. Within(Recheck) => AskedWithinRecheck
  BY <1>4 DEF AskedWithinRecheck
<1> QED
  BY <1>2, <1>3, <1>5, PTL DEF Spec

-----------------------------------------------------------------------------
(* The fence.                                                               *)

\* While the delay of a refusal runs no evidence makes the account ready.
LEMMA FenceHolds ==
  ASSUME HealthAssumption, Within(Live), NEW p \in Slot, Selectable(p)
  PROVE  retry[p] = 0 /\ ~invalid[p]
<1>1. retry[p] \in Nat /\ cooldown[p] \in Nat /\ Selectable(p)
  BY Sizes DEF Within
<1>2. CASE retry[p] > 0
  <2>1. providerRecoveryAt(p) = Most(cooldown[p], retry[p])
    BY <1>2 DEF providerRecoveryAt
  <2> QED
    BY <1>1, <1>2, <2>1 DEF Selectable, Most
<1> QED
  BY <1>1, <1>2 DEF Selectable

\* Each step of the bookkeeping is a step of the fence or none of its business.
LEMMA FenceStep ==
  ASSUME HealthAssumption, Within(Live), [Next]_vars
  PROVE  [Fence!Next]_(Fence!vars)
<1> USE DEF records, history
<1>1. /\ retry \in [Slot -> 0 .. Live] /\ invalid \in [Slot -> BOOLEAN]
      /\ account \in [Slot -> 1 .. Accounts] /\ Live \in Nat \ {0}
  BY Sizes DEF Within
<1>2. CASE UNCHANGED vars
  BY <1>2 DEF vars, Fence!vars
<1>3. CASE Tick
  <2>1. retry' = [p \in Slot |-> IF retry[p] > 0 THEN retry[p] - 1 ELSE 0]
    <3>1. \A p \in Slot : Less(retry[p]) = IF retry[p] > 0 THEN retry[p] - 1 ELSE 0
      BY <1>1 DEF Less
    <3>2. retry' = [p \in Slot |-> Less(retry[p])]
      BY <1>3 DEF Tick
    <3> QED
      BY <3>1, <3>2, Zenon
  <2>2. UNCHANGED <<account, invalid, sent>>
    BY <1>3 DEF Tick
  <2> QED
    BY <2>1, <2>2 DEF Fence!Next, Fence!Elapse
<1>4. ASSUME NEW p \in Slot, Try(p)
      PROVE  Fence!Try(p)
  BY <1>4, FenceHolds DEF Try, Fence!Try
<1>5. ASSUME NEW p \in Slot, Insist(p)
      PROVE  Fence!Insist(p)
  BY <1>5 DEF Insist, Fence!Insist
<1>6. ASSUME NEW p \in Slot, Refuse(p)
      PROVE  Fence!Refuse(p)
  <2>1. PICK stated \in 0 .. Live :
          retry' = [q \in Slot |-> IF q \in fencedSlots(p) THEN retryDelay(p, stated) ELSE retry[q]]
    BY <1>6 DEF Refuse
  <2>2. retryDelay(p, stated) \in 1 .. Live
    <3>1. Ceiling(p) \in 1 .. Live
      BY Sizes DEF Ceiling
    <3>2. retryDelay(p, stated) = Least(IF stated = 0 THEN Default ELSE stated, Ceiling(p))
      BY DEF retryDelay, Ceiling
    <3> QED
      BY <1>1, <3>1, <3>2, Sizes DEF Least
  <2>3. retry' = [q \in Slot |-> IF account[q] = account[p] THEN retryDelay(p, stated) ELSE retry[q]]
    BY <2>1 DEF fencedSlots, providersSharingAccount
  <2>4. sent[p] # "none" /\ sent' = [sent EXCEPT ![p] = "none"] /\ UNCHANGED <<account, invalid>>
    BY <1>6 DEF Refuse
  <2> QED
    BY <2>2, <2>3, <2>4 DEF Fence!Refuse
<1>7. ASSUME NEW p \in Slot, Answer(p)
      PROVE  Fence!Answer(p)
  BY <1>7 DEF Answer, Fence!Answer
<1>8. ASSUME NEW p \in Slot, Accept(p) \/ Rotate(p) \/ Relogin(p)
      PROVE  Fence!Replace(p)
  BY <1>8 DEF Accept, Rotate, Relogin, Fence!Replace
<1>9. ASSUME NEW p \in Slot, Fail(p)
      PROVE  Fence!Fail(p)
  <2>1. /\ sent[p] # "none" /\ sent' = [sent EXCEPT ![p] = "none"] /\ UNCHANGED <<account, retry>>
        /\ invalid' = invalid \/ invalid' = [invalid EXCEPT ![p] = TRUE]
    BY <1>9 DEF Fail
  <2>2. invalid = [invalid EXCEPT ![p] = invalid[p]] /\ invalid[p] \in BOOLEAN
    BY <1>1
  <2>3. \E b \in BOOLEAN : invalid' = [invalid EXCEPT ![p] = b]
    BY <2>1, <2>2, Zenon
  <2> QED
    BY <2>1, <2>3 DEF Fence!Fail
<1>10. ASSUME NEW p \in Slot, Poll(p) \/ UsageAnswers(p) \/ UsageFails(p) \/ Reconcile(p)
       PROVE  UNCHANGED Fence!vars
  BY <1>10 DEF Poll, UsageAnswers, UsageFails, Reconcile, Fence!vars
<1> QED
  BY <1>2, <1>3, <1>4, <1>5, <1>6, <1>7, <1>8, <1>9, <1>10 DEF Next, Fence!Next

\* FenceRespected: the bookkeeping implements AccountFence.  Whatever slot was
\* refused, whatever readings were awaited, answered, dropped or reconciled since,
\* no request of the session's own accord leaves within the announced delay.
THEOREM RespectsFence == ASSUME HealthAssumption PROVE Spec => FenceRespected
<1>1. Init => Within(Live) /\ Fence!Init
  BY LiveBounds, InitWithin DEF Init, Fence!Init
<1>2. Within(Live) /\ [Next]_vars => Within(Live)'
  BY LiveBounds, StepWithin
<1>3. Within(Live) /\ [Next]_vars => [Fence!Next]_(Fence!vars)
  BY FenceStep
<1> QED
  BY <1>1, <1>2, <1>3, PTL DEF Spec, FenceRespected, Fence!Spec
=============================================================================
