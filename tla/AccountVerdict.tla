---------------------------- MODULE AccountVerdict ----------------------------
(***************************************************************************)
(* When a login is condemned: the accounting of rejected requests (401) of *)
(* one slot, and the way back when its credential is replaced.             *)
(*                                                                         *)
(* A token is the fingerprint of what the credential store holds; tokens   *)
(* are numbered in the order they are stored and none returns.  Requests   *)
(* carry the token that was current when they were sent, and their         *)
(* rejections come at any later time; the code reads the store anew when a *)
(* rejection comes.  A forced refresh of the token takes its time, and the *)
(* credential may be replaced by another process or the user meanwhile.    *)
(***************************************************************************)
EXTENDS Naturals, FiniteSets

CONSTANTS
  Request,      \* requests that may be under way at once
  Refreshable,  \* an OAuth login that can be refreshed, or an API key
  MaxDistinct,  \* MAX_CONSECUTIVE_AUTH_FAILURES
  MaxSameKey,   \* MAX_SAME_KEY_AUTH_FAILURES
  MaxToken      \* bound: credentials stored one after another

VerdictAssumption ==
  /\ Refreshable \in BOOLEAN
  /\ MaxDistinct \in Nat \ {0} /\ MaxSameKey \in Nat \ {0} /\ MaxToken \in Nat \ {0}

Token == 1 .. MaxToken
None == 0

VARIABLES
  token,      \* what the store holds
  known,      \* credentialHashes: what refreshDiscovery has seen there
  carries,    \* the token each request under way was sent with
  refreshing, \* the request whose rejection awaits a forced refresh, if any
  failures,   \* authFailures: the token that last failed, and a count
  invalid,    \* invalidatedByProvider: the token condemned
  rejected,   \* history: tokens requests were really rejected with, since a success
  current,    \* history: tokens that were stored when a rejection came, since a success
  strikes     \* history: rejections since a success or a new key, up to the thresholds

history == <<rejected, current, strikes>>
vars == <<token, known, carries, refreshing, failures, invalid, history>>

NoFailure == [hash |-> None, distinct |-> 0]
Most(a, b) == IF a > b THEN a ELSE b
Enough == Most(MaxDistinct, MaxSameKey)

TypeOK ==
  /\ token \in Token /\ known \in Token
  /\ carries \in [Request -> {None} \cup Token]
  /\ refreshing \in {None} \cup Request
  /\ failures \in [hash : {None} \cup Token, distinct : 0 .. Most(MaxDistinct, MaxSameKey) - 1]
  /\ invalid \in {None} \cup Token
  /\ rejected \subseteq Token /\ current \subseteq Token /\ strikes \in 0 .. Enough

Init ==
  /\ token = 1 /\ known = 1
  /\ carries = [r \in Request |-> None] /\ refreshing = None
  /\ failures = NoFailure /\ invalid = None
  /\ rejected = {} /\ current = {} /\ strikes = 0

-----------------------------------------------------------------------------
Send(r) ==
  /\ carries[r] = None
  /\ carries' = [carries EXCEPT ![r] = token]
  /\ UNCHANGED <<token, known, refreshing, failures, invalid, history>>

\* Mutant of noteAuthSuccess: the failures counted stay.
successKeepsFailures == invalid' = None /\ UNCHANGED failures

\* An accepted request or a refresh that worked.
noteAuthSuccess == invalid' = None /\ failures' = NoFailure

Succeed(r) ==
  /\ carries[r] # None /\ refreshing # r
  /\ carries' = [carries EXCEPT ![r] = None]
  /\ noteAuthSuccess
  /\ rejected' = {} /\ current' = {} /\ strikes' = 0
  /\ UNCHANGED <<token, known, refreshing>>

\* The fingerprint condemned is the one the store holds by now.
markInvalid == invalid' = token

\* Mutant of counted: every failure counts, that of an unchanged token too.
countsAll == failures.distinct + 1

\* The count after this rejection: the same token failing again says nothing of
\* a login that can be refreshed, and counts against a key.
counted ==
  IF failures.hash # token THEN failures.distinct + 1
  ELSE IF Refreshable THEN failures.distinct
  ELSE failures.distinct + 1

\* Mutant of condemns: one more failure than the threshold.
condemnsLate ==
  IF failures.hash = token THEN ~Refreshable /\ counted > MaxSameKey
  ELSE counted > MaxDistinct

\* The key is given up after MaxSameKey failures of its own, a login when that
\* many tokens in a row have failed.
condemns ==
  IF failures.hash = token THEN ~Refreshable /\ counted >= MaxSameKey
  ELSE counted >= MaxDistinct

\* markAuthFailure: a verdict the provider states itself is terminal at once.
markAuthFailure(terminal) ==
  IF terminal \/ condemns
  THEN markInvalid /\ failures' = NoFailure
  ELSE failures' = [hash |-> token, distinct |-> counted] /\ UNCHANGED invalid

\* A rejection is about to be counted.
Struck ==
  /\ current' = current \cup {token}
  /\ strikes' = IF strikes = Enough THEN Enough ELSE strikes + 1

\* message_end, kind "auth": rejected in plain words, or with a terminal verdict.
Reject(r, terminal) ==
  /\ carries[r] # None /\ refreshing # r
  /\ carries' = [carries EXCEPT ![r] = None]
  /\ rejected' = rejected \cup {carries[r]} /\ Struck
  /\ markAuthFailure(terminal)
  /\ UNCHANGED <<token, known, refreshing>>

\* message_end, kind "auth", for a token that has expired: one forced refresh
\* first.  Another request meanwhile waits for the same one (forcedRefreshes).
RejectExpired(r) ==
  /\ Refreshable /\ carries[r] # None /\ refreshing = None
  /\ refreshing' = r
  /\ rejected' = rejected \cup {carries[r]}
  /\ UNCHANGED <<token, known, carries, failures, invalid, current, strikes>>

\* performForcedRefresh: a token was stored, or one stored by another is adopted.
Refreshed ==
  /\ refreshing # None
  /\ token' = IF carries[refreshing] = token /\ token < MaxToken THEN token + 1 ELSE token
  /\ known' = token'
  /\ noteAuthSuccess
  /\ carries' = [carries EXCEPT ![refreshing] = None] /\ refreshing' = None
  /\ rejected' = {} /\ current' = {} /\ strikes' = 0

\* The refresh endpoint refuses: for good, for now, or it cannot be asked.
RefreshFails(how) ==
  /\ refreshing # None
  /\ CASE how = "terminal"  -> markInvalid /\ UNCHANGED <<failures, current, strikes>>
       [] how = "transient" -> UNCHANGED <<invalid, failures, current, strikes>>
       [] how = "unsupported" -> markAuthFailure(FALSE) /\ Struck
  /\ carries' = [carries EXCEPT ![refreshing] = None] /\ refreshing' = None
  /\ UNCHANGED <<token, known, rejected>>

\* The host refreshes the token, another process does, or the user logs in anew.
Replace ==
  /\ token < MaxToken /\ token' = token + 1
  /\ UNCHANGED <<known, carries, refreshing, failures, invalid, history>>

\* Mutant of clearReauthedInvalidations: only a removed entry lifts it.
clearRemovedOnly == UNCHANGED invalid

clearReauthedInvalidations == invalid' = IF invalid # token THEN None ELSE invalid

\* Mutant of Discover: the failures of the old key count against the new one.
DiscoverKeeps ==
  /\ known # token /\ known' = token
  /\ strikes' = IF Refreshable THEN strikes ELSE 0
  /\ clearReauthedInvalidations
  /\ UNCHANGED <<token, carries, refreshing, failures, rejected, current>>

\* refreshDiscovery: a new key starts afresh, a refreshed token does not, unless
\* the login was condemned.
Discover ==
  /\ known # token /\ known' = token
  /\ clearReauthedInvalidations
  /\ failures' = IF ~Refreshable \/ (invalid # None /\ invalid # token) THEN NoFailure ELSE failures
  /\ strikes' = IF failures' = NoFailure THEN 0 ELSE strikes
  /\ IF failures' = NoFailure THEN rejected' = {} /\ current' = {} ELSE UNCHANGED <<rejected, current>>
  /\ UNCHANGED <<token, carries, refreshing>>

Next ==
  \/ \E r \in Request : Send(r) \/ Succeed(r) \/ RejectExpired(r) \/ \E t \in BOOLEAN : Reject(r, t)
  \/ Refreshed \/ \E how \in {"terminal", "transient", "unsupported"} : RefreshFails(how)
  \/ Replace \/ Discover

Spec == Init /\ [][Next]_vars
\* The credential store is polled while the session lives.
Fairness == WF_vars(Discover)
FairSpec == Spec /\ Fairness

-----------------------------------------------------------------------------
(* Properties. *)

Counted == invalid' # invalid /\ invalid' # None
             /\ (RefreshFails("unsupported") \/ \E r \in Request : Reject(r, FALSE))

\* A login is given up by counting only after enough rejections in a row: a
\* success, a refresh or a new key in between starts the count again, whatever
\* other requests were doing (markAuthFailure, refreshDiscovery).
CountsInARowStep ==
  Counted => strikes' >= IF Refreshable THEN MaxDistinct
                         ELSE IF MaxDistinct < MaxSameKey THEN MaxDistinct ELSE MaxSameKey
CountsInARow == [][CountsInARowStep]_vars

\* "Repeated 401s on the SAME token ... is NEVER proof the account is revoked"
\* (src/index.ts:5797): a login is given up by counting only after the store has
\* held enough different tokens, each while a rejection came.
RefreshFaultNeverKillsStep ==
  (Counted /\ Refreshable) => Cardinality(current') >= MaxDistinct
RefreshFaultNeverKills == [][RefreshFaultNeverKillsStep]_vars

\* A condemned login comes back once its credential is replaced, without the
\* user clearing anything, unless the new one is condemned too.
ReplacedComesBack ==
  (invalid # None /\ invalid # token) ~> (invalid = None \/ invalid = token)
=============================================================================
