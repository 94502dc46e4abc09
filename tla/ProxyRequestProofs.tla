------------------------- MODULE ProxyRequestProofs -------------------------
(* Theorems about a request to the shared proxy, for every set of slots,   *)
(* any families, and every number of credentials and requests; and, in the *)
(* second half, about the proxy itself and the port it shares.             *)
EXTENDS ProxyRequest, Sequences, TLAPS

-----------------------------------------------------------------------------
(* The inductive invariant.                                                *)

Secret == {Placeholder, Stranger, Nothing} \cup {Token(p, v) : p \in Slot, v \in 0 .. MaxVersion}
Credential == UNION {Entries(p, v) : p \in Slot, v \in 0 .. MaxVersion}
Upstream ==
  {NoUpstream} \cup
  [state : {"sent", "streaming", "done", "failed", "aborted"},
   rest : Endpoints \cup {"codex/images"},
   secret : {Token(p, v) : p \in Slot, v \in 0 .. MaxVersion}]

\* TypeOK, with the whole of the request and of what went upstream.
Typed ==
  /\ store \in [Slot -> Credential] /\ routes \subseteq Slot
  /\ phase \in {"idle", "arrived", "refreshing", "shaping", "reading", "waiting", "streaming"}
  /\ req \in [path : Paths, secret : Secret, upgrade : BOOLEAN]
  /\ entry \in Credential /\ refreshed \in {"no", "ok", "failed", "vanished"}
  /\ upstream \in Upstream
  /\ answer \in {0, 200, 400, 401, 404, 501, 502} /\ caller \in {"open", "gone"}
  /\ newest \in 0 .. MaxVersion /\ versions \in 0 .. MaxVersion /\ requests \in 0 .. MaxRequests

\* Credentials are replaced by newer ones only.
Numbered ==
  /\ \A p \in Slot : store[p].version <= versions
  /\ newest <= versions
  /\ phase = "refreshing" =>
       store[req.path.slot].type = "none" \/ store[req.path.slot].version >= newest

\* The request has passed the gates, with a credential as new as at the gates.
Admitted ==
  /\ req.secret.kind \in {"placeholder", "token"}
  /\ entry.version >= newest

\* A token about to expire is at hand only when a refresh could not help.
Fresh == entry.expiring /\ entry.access => refreshed \in {"failed", "vanished"}

\* Its credential lets the request out.
Credited == entry.access /\ Fresh

\* What is known at each stage of the handler.
Staged ==
  /\ phase \in {"refreshing", "shaping", "reading", "waiting", "streaming"} => Admitted
  /\ phase = "shaping" => Fresh
  /\ phase = "reading" => Credited
  /\ phase \in {"arrived", "refreshing", "shaping", "reading"} => upstream = NoUpstream

\* What is upstream was sent by the handler, for a caller that was there.
Upheld ==
  upstream # NoUpstream =>
    /\ Admitted /\ Credited
    /\ upstream.secret = Token(req.path.slot, entry.version)
    /\ upstream.state \in {"sent", "streaming"} =>
         caller = "open" /\ phase \in {"waiting", "streaming"}

IInv == Typed /\ Numbered /\ Staged /\ Upheld

-----------------------------------------------------------------------------
(* Credentials and secrets.                                                *)

\* The fields of a credential, and the fields the kinds of it do not use.
LEMMA CredentialFields ==
  ASSUME NEW e \in Credential
  PROVE  /\ e \in [type : {"oauth", "api_key", "none"}, version : 0 .. MaxVersion,
                   expiring : BOOLEAN, access : BOOLEAN, direct : BOOLEAN] \/ e = NoEntry
         /\ e.type \in {"oauth", "api_key", "none"}
         /\ e.version \in 0 .. MaxVersion \/ e = NoEntry
         /\ e.expiring \in BOOLEAN /\ e.access \in BOOLEAN /\ e.direct \in BOOLEAN
         /\ e.type = "none" => ~e.access /\ ~e.expiring /\ e.version = 0
         /\ e.expiring => e.type = "oauth"
<1>1. PICK p \in Slot, v \in 0 .. MaxVersion : e \in Entries(p, v)
  BY DEF Credential
<1>2. CASE e \in [type : {"oauth"}, version : {v}, expiring : BOOLEAN, access : BOOLEAN, direct : BOOLEAN]
  BY <1>2
<1>3. CASE e \in [type : {"api_key"}, version : {v}, expiring : {FALSE}, access : BOOLEAN, direct : {FALSE}]
  BY <1>3
<1>4. CASE e = NoEntry
  BY <1>4 DEF NoEntry
<1> QED
  BY <1>1, <1>2, <1>3, <1>4 DEF Entries

\* A version is a number.
LEMMA VersionIsNat ==
  ASSUME ProxyRequestAssumption, NEW e \in Credential
  PROVE  e.version \in 0 .. MaxVersion
BY CredentialFields DEF ProxyRequestAssumption, NoEntry

\* There is a slot, so a slot without a credential has a value.
LEMMA NoEntryFits ==
  ASSUME ProxyRequestAssumption, NEW p \in Slot
  PROVE  NoEntry \in Credential /\ 0 \in 0 .. MaxVersion
<1>1. 0 \in 0 .. MaxVersion
  BY DEF ProxyRequestAssumption
<1>2. NoEntry \in Entries(p, 0)
  BY DEF Entries
<1> QED
  BY <1>1, <1>2 DEF Credential

\* The OAuth credentials of a version, among them the one a refresh stores.
Grants(v) == [type : {"oauth"}, version : {v}, expiring : BOOLEAN, access : BOOLEAN, direct : BOOLEAN]

LEMMA RenewedFields ==
  ASSUME NEW u, NEW v, NEW e \in Grants(u)
  PROVE  /\ Renewed(e, v) \in Grants(v)
         /\ Renewed(e, v).version = v /\ ~Renewed(e, v).expiring /\ Renewed(e, v).type = "oauth"
BY DEF Renewed, Grants

\* What a refresh stores is a credential again.
LEMMA RenewedCredential ==
  ASSUME NEW e \in Credential, NEW v \in 0 .. MaxVersion, e.expiring
  PROVE  /\ Renewed(e, v) \in Credential
         /\ Renewed(e, v).version = v /\ ~Renewed(e, v).expiring
         /\ e.type = "oauth" /\ Renewed(e, v).type = "oauth"
<1>1. PICK p \in Slot, u \in 0 .. MaxVersion : e \in Entries(p, u)
  BY DEF Credential
<1>2. e.type = "oauth"
  BY CredentialFields
<1>3. e # NoEntry
  BY <1>2 DEF NoEntry
<1>4. e \notin [type : {"api_key"}, version : {u}, expiring : {FALSE}, access : BOOLEAN, direct : {FALSE}]
  BY <1>2
<1>5. e \in Grants(u)
  BY <1>1, <1>3, <1>4 DEF Entries, Grants
<1>6. Renewed(e, v) \in Entries(p, v)
  BY <1>5, RenewedFields DEF Entries, Grants
<1>7. Renewed(e, v) \in Credential
  BY <1>6 DEF Credential
<1>8. Renewed(e, v).version = v /\ ~Renewed(e, v).expiring /\ Renewed(e, v).type = "oauth"
  BY <1>5, RenewedFields
<1> QED
  BY <1>2, <1>7, <1>8

\* Whoever passes the gates presented the placeholder or a token.
LEMMA GatesOpen ==
  ASSUME NEW r, admitRequest(r) = 200
  PROVE  r.secret.kind \in {"placeholder", "token"}
BY DEF admitRequest, presentedSecret, Placeholder, Token

\* The gates and the credential answer with these statuses.
LEMMA GateStatus == ASSUME NEW r PROVE admitRequest(r) \in {200, 401, 404}
BY DEF admitRequest

LEMMA RefusalStatus ==
  ASSUME NEW p, NEW rest, NEW e \in Credential
  PROVE  /\ refusal(p, rest, e) \in {200, 401, 404}
         /\ refusal(p, rest, e) = 200 => e.access
BY CredentialFields DEF refusal

-----------------------------------------------------------------------------
(* The invariant holds at first, and every step keeps it.                  *)

LEMMA InitHolds ==
  ASSUME ProxyRequestAssumption, Init
  PROVE  IInv
<1>1. PICK p \in Slot : req.path = [slot |-> p, rest |-> "climbs"]
  BY DEF Init
<1>2. NoEntry \in Credential /\ 0 \in 0 .. MaxVersion
  BY <1>1, NoEntryFits
<1>3. store \in [Slot -> Credential] /\ \A q \in Slot : store[q].version = 0
  <2>1. \A q \in Slot : store[q] \in UNION {Entries(r, 0) : r \in Slot}
    BY DEF Init
  <2>2. \A q \in Slot : store[q] \in Credential
    BY <1>2, <2>1 DEF Credential
  <2>3. ASSUME NEW e, NEW r, e \in Entries(r, 0) PROVE e.version = 0
    <3>1. CASE e = NoEntry
      BY <3>1 DEF NoEntry
    <3>2. CASE e # NoEntry
      <4>1. e.version \in {0}
        BY <2>3, <3>2 DEF Entries
      <4> QED
        BY <4>1
    <3> QED
      BY <3>1, <3>2
  <2>4. store \in [Slot -> UNION {Entries(p0, 0) : p0 \in Slot}]
    BY DEF Init
  <2>5. store \in [Slot -> Credential]
    BY <2>2, <2>4
  <2> QED
    BY <2>1, <2>3, <2>5
<1>4. req \in [path : Paths, secret : Secret, upgrade : BOOLEAN]
  <2>1. Nothing \in Secret
    BY DEF Secret
  <2> QED
    BY <2>1 DEF Init, Paths, Endpoints
<1>5. Typed
  BY <1>2, <1>3, <1>4 DEF Init, Typed, Upstream, ProxyRequestAssumption
<1>6. Numbered
  BY <1>3 DEF Init, Numbered
<1> QED
  BY <1>5, <1>6 DEF IInv, Init, Staged, Upheld

\* A refusal before anything went upstream.
LEMMA RefuseHolds ==
  ASSUME IInv, upstream = NoUpstream, NEW status \in {200, 400, 401, 404, 501}, Refuse(status),
         entry' \in Credential, refreshed' = refreshed, newest' = newest
  PROVE  IInv'
BY DEF IInv, Typed, Numbered, Staged, Upheld, Refuse

LEMMA ArriveHolds == ASSUME ProxyRequestAssumption, IInv, Arrive PROVE IInv'
<1>1. PICK path \in Paths, up \in BOOLEAN, s \in Secret : req' = [path |-> path, secret |-> s, upgrade |-> up]
  <2>1. PICK path \in Paths, up \in BOOLEAN : \E s \in Presentable(path.slot) :
          req' = [path |-> path, secret |-> s, upgrade |-> up]
    BY DEF Arrive
  <2>2. Presentable(path.slot) \subseteq Secret
    BY <2>1 DEF Presentable, Secret, Paths
  <2> QED
    BY <2>1, <2>2
<1>2. req' \in [path : Paths, secret : Secret, upgrade : BOOLEAN]
  BY <1>1
<1>3. NoEntry \in Credential /\ requests' \in 0 .. MaxRequests
  BY <1>1, NoEntryFits DEF Arrive, IInv, Typed, Paths, ProxyRequestAssumption
<1> QED
  BY <1>2, <1>3 DEF IInv, Typed, Numbered, Staged, Upheld, Arrive, Upstream

LEMMA AdmitHolds == ASSUME ProxyRequestAssumption, IInv, Admit PROVE IInv'
<1>1. phase = "arrived" /\ upstream = NoUpstream
  BY DEF Admit, IInv, Staged
<1>2. CASE req.upgrade \/ admitRequest(req) # 200
  <2>1. \E status \in {200, 400, 401, 404, 501} : Refuse(status)
    BY <1>2, GateStatus DEF Admit
  <2> QED
    BY <1>1, <1>2, <2>1, RefuseHolds DEF Admit, IInv, Typed
<1>3. CASE ~req.upgrade /\ admitRequest(req) = 200
  <2> DEFINE q == req.path.slot
  <2>1. /\ entry' = store[q] /\ newest' = store[q].version
        /\ phase' = IF store[q].access /\ store[q].expiring THEN "refreshing" ELSE "shaping"
        /\ UNCHANGED <<store, routes, req, refreshed, upstream, answer, caller, versions, requests>>
    BY <1>3 DEF Admit
  <2>2. q \in Slot /\ store[q] \in Credential /\ store[q].version \in 0 .. MaxVersion
    BY VersionIsNat DEF IInv, Typed, Paths
  <2>3. req.secret.kind \in {"placeholder", "token"}
    BY <1>3, GatesOpen
  <2>4. Typed'
    BY <2>1, <2>2 DEF IInv, Typed
  <2>5. Numbered'
    BY <2>1, <2>2 DEF IInv, Typed, Numbered
  <2>6. Staged'
    BY <1>1, <2>1, <2>2, <2>3, CredentialFields DEF Staged, Admitted, Fresh
  <2> QED
    BY <1>1, <2>1, <2>4, <2>5, <2>6 DEF IInv, Upheld
<1> QED
  BY <1>2, <1>3 DEF IInv, Typed

\* The slot a credential is refreshed for may have been logged out or into
\* again; the newest of what is known goes on.
LEMMA RefreshOkHolds == ASSUME ProxyRequestAssumption, IInv, RefreshOk PROVE IInv'
<1> DEFINE q == req.path.slot
<1>1. /\ phase = "refreshing" /\ phase' = "shaping" /\ upstream = NoUpstream
      /\ refreshed' = IF store[q].type = "none" THEN "vanished" ELSE "ok"
      /\ entry' = IF store'[q].type = "none" THEN entry ELSE store'[q]
      /\ UNCHANGED <<routes, req, upstream, answer, caller, newest, requests>>
  BY DEF RefreshOk, IInv, Staged
<1>2. /\ q \in Slot /\ store[q] \in Credential /\ entry \in Credential /\ Admitted
      /\ newest \in 0 .. MaxVersion /\ versions \in 0 .. MaxVersion
      /\ store[q].type = "none" \/ store[q].version >= newest
  BY <1>1 DEF IInv, Typed, Numbered, Staged, Paths
<1>3. /\ store' \in [Slot -> Credential] /\ versions' \in 0 .. MaxVersion /\ newest <= versions'
      /\ \A p \in Slot : store'[p].version <= versions'
      /\ store'[q] \in Credential /\ ~store'[q].expiring
      /\ store'[q].type = "none" <=> store[q].type = "none"
      /\ store'[q].type # "none" => store'[q].version >= newest
  <2>1. CASE /\ store[q].expiring /\ versions < MaxVersion
             /\ store' = [store EXCEPT ![q] = Renewed(@, versions + 1)]
             /\ versions' = versions + 1
    <3>1. versions + 1 \in 0 .. MaxVersion
      BY <1>2, <2>1 DEF ProxyRequestAssumption
    <3>2. /\ Renewed(store[q], versions + 1) \in Credential
          /\ Renewed(store[q], versions + 1).version = versions + 1
          /\ ~Renewed(store[q], versions + 1).expiring
          /\ store[q].type = "oauth" /\ Renewed(store[q], versions + 1).type = "oauth"
      BY <1>2, <2>1, <3>1, RenewedCredential
    <3>3. store' \in [Slot -> Credential]
      BY <2>1, <3>2 DEF IInv, Typed
    <3>4. /\ store'[q] = Renewed(store[q], versions + 1)
          /\ \A p \in Slot : p # q => store'[p] = store[p]
      BY <1>2, <2>1 DEF IInv, Typed
    <3>5. ASSUME NEW p \in Slot PROVE store'[p].version <= versions'
      <4>1. CASE p = q
        BY <1>2, <2>1, <3>2, <3>4, <4>1
      <4>2. CASE p # q
        <5>1. store'[p] = store[p] /\ store[p].version \in 0 .. MaxVersion /\ store[p].version <= versions
          BY <3>4, <4>2, VersionIsNat DEF IInv, Typed, Numbered
        <5> QED
          BY <1>2, <2>1, <5>1
      <4> QED
        BY <4>1, <4>2
    <3> QED
      BY <1>2, <2>1, <3>1, <3>2, <3>3, <3>4, <3>5 DEF IInv, Numbered
  <2>2. CASE ~store[q].expiring /\ UNCHANGED <<store, versions>>
    BY <1>2, <2>2 DEF IInv, Typed, Numbered
  <2> QED
    BY <2>1, <2>2 DEF RefreshOk
<1>4. entry' \in Credential /\ entry'.version >= newest'
  BY <1>1, <1>2, <1>3 DEF Admitted
<1>5. Fresh'
  BY <1>1, <1>3 DEF Fresh
<1>6. Typed'
  BY <1>1, <1>3, <1>4 DEF IInv, Typed
<1>7. Numbered'
  BY <1>1, <1>3 DEF Numbered
<1>8. Staged'
  BY <1>1, <1>2, <1>4, <1>5 DEF Staged, Admitted
<1> QED
  BY <1>1, <1>6, <1>7, <1>8 DEF IInv, Upheld

LEMMA RefreshFailsHolds == ASSUME IInv, RefreshFails PROVE IInv'
BY DEF IInv, Typed, Numbered, Staged, Upheld, RefreshFails, Admitted, Fresh

LEMMA ShapeHolds == ASSUME IInv, Shape PROVE IInv'
<1> DEFINE status == refusal(req.path.slot, req.path.rest, entry)
<1>1. /\ status \in {200, 401, 404} /\ (status = 200 => entry.access)
      /\ phase = "shaping" /\ upstream = NoUpstream /\ Admitted /\ Fresh
  BY RefusalStatus DEF Shape, IInv, Typed, Staged
<1>2. CASE status # 200
  BY <1>1, <1>2, RefuseHolds DEF Shape, IInv, Typed
<1>3. CASE status = 200
  <2>1. phase' = "reading" /\ UNCHANGED <<store, routes, req, entry, refreshed, upstream, answer, caller, newest, versions, requests>>
    BY <1>3 DEF Shape
  <2> QED
    BY <1>1, <1>3, <2>1 DEF IInv, Typed, Numbered, Staged, Upheld, Admitted, Credited, Fresh
<1> QED
  BY <1>2, <1>3

LEMMA FetchHolds == ASSUME ProxyRequestAssumption, IInv, Fetch PROVE IInv'
<1>1. /\ phase = "reading" /\ upstream = NoUpstream /\ Admitted /\ Credited
      /\ UNCHANGED <<store, routes, req, entry, refreshed, answer, caller, newest, versions, requests>>
  BY DEF Fetch, IInv, Staged
<1>2. CASE caller = "gone"
  <2>1. phase' = "idle" /\ upstream' = upstream
    BY <1>2 DEF Fetch
  <2> QED
    BY <1>1, <2>1 DEF IInv, Typed, Numbered, Staged, Upheld
<1>3. CASE caller = "open"
  <2> DEFINE q == req.path.slot
  <2>1. /\ phase' = "waiting"
        /\ upstream' = [state |-> "sent", rest |-> upstreamRest(q, req.path.rest), secret |-> Token(q, entry.version)]
    BY <1>3 DEF Fetch, shapeUpstreamRequest
  <2>2. q \in Slot /\ entry.version \in 0 .. MaxVersion /\ req.path.rest \in Endpoints
    BY VersionIsNat DEF IInv, Typed, Paths
  <2>3. upstreamRest(q, req.path.rest) \in Endpoints \cup {"codex/images"}
    BY <2>2 DEF upstreamRest
  <2>4. Token(q, entry.version) \in {Token(p, v) : p \in Slot, v \in 0 .. MaxVersion}
    BY <2>2
  <2>5. upstream' \in Upstream
    BY <2>1, <2>3, <2>4 DEF Upstream
  <2>6. upstream'.state = "sent" /\ upstream'.secret = Token(q, entry.version)
    BY <2>1
  <2>7. Typed'
    BY <1>1, <2>1, <2>5 DEF IInv, Typed
  <2>8. Numbered'
    BY <1>1, <2>1 DEF IInv, Numbered
  <2>9. Staged'
    BY <1>1, <2>1 DEF Staged, Admitted
  <2>10. Upheld'
    BY <1>1, <1>3, <2>1, <2>6 DEF Upheld, Admitted, Credited, Fresh
  <2> QED
    BY <2>7, <2>8, <2>9, <2>10 DEF IInv
<1> QED
  BY <1>2, <1>3 DEF IInv, Typed

LEMMA BadBodyHolds == ASSUME IInv, BadBody PROVE IInv'
<1>1. upstream = NoUpstream
  BY DEF BadBody, IInv, Staged
<1> QED
  BY <1>1, RefuseHolds DEF BadBody, IInv, Typed

\* The state of what is upstream changes, and nothing else of it.
Moved(u, state) == [u EXCEPT !.state = state]

LEMMA UpstreamMoves ==
  ASSUME NEW u \in Upstream, u # NoUpstream,
         NEW state \in {"sent", "streaming", "done", "failed", "aborted"}
  PROVE  /\ Moved(u, state) \in Upstream /\ Moved(u, state) # NoUpstream
         /\ Moved(u, state).state = state /\ Moved(u, state).secret = u.secret
<1> DEFINE S == {Token(p, v) : p \in Slot, v \in 0 .. MaxVersion}
           R == Endpoints \cup {"codex/images"}
<1> HIDE DEF S, R
<1>1. u \in [state : {"sent", "streaming", "done", "failed", "aborted"}, rest : R, secret : S]
  BY DEF Upstream, S, R
<1>2. /\ Moved(u, state) \in [state : {"sent", "streaming", "done", "failed", "aborted"}, rest : R, secret : S]
      /\ Moved(u, state).state = state
      /\ Moved(u, state).secret = u.secret
  BY <1>1 DEF Moved
<1>3. Moved(u, state) \in Upstream
  BY <1>2 DEF Upstream, S, R
<1> QED
  BY <1>2, <1>3 DEF NoUpstream

\* What is upstream is known by its state.
LEMMA UpstreamState ==
  ASSUME NEW u \in Upstream
  PROVE  (u.state # "none") <=> (u # NoUpstream)
<1>1. ASSUME u # NoUpstream PROVE u.state \in {"sent", "streaming", "done", "failed", "aborted"}
  <2> DEFINE S == {Token(p, v) : p \in Slot, v \in 0 .. MaxVersion}
  <2> HIDE DEF S
  <2> QED
    BY <1>1 DEF Upstream, S
<1> QED
  BY <1>1 DEF NoUpstream

\* The steps that only move what is upstream, and the caller with it.
LEMMA MovesHold ==
  ASSUME IInv, upstream # NoUpstream,
         NEW state \in {"sent", "streaming", "done", "failed", "aborted"},
         upstream' = [upstream EXCEPT !.state = state],
         phase' = "idle" \/ (phase' \in {"waiting", "streaming"} /\ phase \in {"waiting", "streaming"}),
         phase \in {"waiting", "streaming", "idle"},
         answer' \in {0, 200, 400, 401, 404, 501, 502}, caller' \in {"open", "gone"},
         state \in {"sent", "streaming"} => caller' = "open" /\ phase' \in {"waiting", "streaming"},
         UNCHANGED <<store, routes, req, entry, refreshed, newest, versions, requests>>
  PROVE  IInv'
<1>1. /\ upstream' \in Upstream /\ upstream' # NoUpstream
      /\ upstream'.state = state /\ upstream'.secret = upstream.secret
  <2>1. upstream' = Moved(upstream, state)
    BY DEF Moved
  <2> QED
    BY <2>1, UpstreamMoves DEF IInv, Typed
<1>2. Admitted /\ Credited /\ upstream.secret = Token(req.path.slot, entry.version)
  BY DEF IInv, Upheld
<1>3. Typed'
  BY <1>1 DEF IInv, Typed
<1>4. Numbered'
  BY DEF IInv, Numbered
<1>5. Staged'
  BY <1>2 DEF Staged, Admitted
<1>6. Upheld'
  BY <1>1, <1>2 DEF Upheld, Admitted, Credited, Fresh
<1> QED
  BY <1>3, <1>4, <1>5, <1>6 DEF IInv

LEMMA HeadersHold == ASSUME IInv, Headers PROVE IInv'
<1>1. upstream # NoUpstream /\ caller = "open"
  BY DEF Headers, NoUpstream, IInv, Upheld
<1> QED
  BY <1>1, MovesHold DEF Headers, IInv, Typed

LEMMA UnreachableHolds == ASSUME IInv, Unreachable PROVE IInv'
<1>1. upstream # NoUpstream
  BY DEF Unreachable, NoUpstream
<1> QED
  BY <1>1, MovesHold DEF Unreachable, IInv, Typed

LEMMA StreamEndsHolds == ASSUME IInv, StreamEnds PROVE IInv'
<1>1. upstream # NoUpstream
  BY DEF StreamEnds, NoUpstream
<1>2. CASE upstream' = [upstream EXCEPT !.state = "done"] /\ caller' = caller
  BY <1>1, <1>2, MovesHold DEF StreamEnds, IInv, Typed
<1>3. CASE upstream' = [upstream EXCEPT !.state = "failed"] /\ caller' = "gone"
  BY <1>1, <1>3, MovesHold DEF StreamEnds, IInv, Typed
<1> QED
  BY <1>2, <1>3 DEF StreamEnds

LEMMA AbortedHolds == ASSUME IInv, Aborted PROVE IInv'
<1>1. upstream # NoUpstream
  BY DEF Aborted, NoUpstream
<1> QED
  BY <1>1 DEF Aborted, IInv, Typed, Numbered, Staged, Upheld, Admitted, Credited, Fresh

LEMMA HangUpHolds == ASSUME IInv, HangUp PROVE IInv'
<1>1. CASE upstream.state \in {"sent", "streaming"}
  <2>1. upstream # NoUpstream /\ upstream' = [upstream EXCEPT !.state = "aborted"]
    BY <1>1 DEF HangUp, NoUpstream
  <2>2. phase \in {"waiting", "streaming"} /\ phase' = phase
    BY <1>1, <2>1 DEF HangUp, IInv, Upheld
  <2> QED
    BY <2>1, <2>2, MovesHold DEF HangUp, IInv, Typed
<1>2. CASE upstream.state \notin {"sent", "streaming"}
  BY <1>2 DEF HangUp, IInv, Typed, Numbered, Staged, Upheld, Admitted, Credited, Fresh
<1> QED
  BY <1>1, <1>2

LEMMA StoreChangesHolds == ASSUME ProxyRequestAssumption, IInv, StoreChanges PROVE IInv'
<1>1. PICK p, e : p \in Slot /\ e \in Entries(p, versions + 1) /\ store' = [store EXCEPT ![p] = e]
  BY DEF StoreChanges
<1>2. /\ versions < MaxVersion /\ versions' = versions + 1
      /\ UNCHANGED <<routes, phase, req, entry, refreshed, upstream, answer, caller, newest, requests>>
  BY DEF StoreChanges
<1>3. versions \in 0 .. MaxVersion /\ versions + 1 \in 0 .. MaxVersion /\ newest \in 0 .. MaxVersion /\ newest <= versions
  BY <1>2 DEF IInv, Typed, Numbered, ProxyRequestAssumption
<1>4. e \in Credential
  BY <1>1, <1>3 DEF Credential
<1>5. (e.type = "none" /\ e.version = 0) \/ e.version = versions + 1
  <2>1. CASE e = NoEntry
    BY <2>1 DEF NoEntry
  <2>2. CASE e # NoEntry
    <3>1. e.version \in {versions + 1}
      BY <1>1, <2>2 DEF Entries
    <3> QED
      BY <3>1
  <2> QED
    BY <2>1, <2>2
<1>6. store' \in [Slot -> Credential] /\ store'[p] = e /\ \A q \in Slot : q # p => store'[q] = store[q]
  BY <1>1, <1>4 DEF IInv, Typed
<1>7. ASSUME NEW q \in Slot
      PROVE  /\ store'[q].version <= versions'
             /\ (store[q].type = "none" \/ store[q].version >= newest)
                  => (store'[q].type = "none" \/ store'[q].version >= newest)
  <2>1. CASE q = p
    BY <1>2, <1>3, <1>5, <1>6, <2>1
  <2>2. CASE q # p
    <3>1. store'[q] = store[q] /\ store[q].version \in 0 .. MaxVersion /\ store[q].version <= versions
      BY <1>6, <2>2, VersionIsNat DEF IInv, Typed, Numbered
    <3> QED
      BY <1>2, <1>3, <3>1
  <2> QED
    BY <2>1, <2>2
<1>8. Typed'
  BY <1>2, <1>3, <1>6 DEF IInv, Typed
<1>9. Numbered'
  <2>1. req.path.slot \in Slot
    BY DEF IInv, Typed, Paths
  <2> QED
    BY <1>2, <1>3, <1>7, <2>1 DEF IInv, Numbered
<1> QED
  BY <1>2, <1>8, <1>9 DEF IInv, Staged, Upheld, Admitted, Credited, Fresh

LEMMA WithdrawHolds == ASSUME IInv, Withdraw PROVE IInv'
BY DEF Withdraw, IInv, Typed, Numbered, Staged, Upheld, Admitted, Credited, Fresh

LEMMA NextHolds ==
  ASSUME ProxyRequestAssumption, IInv, [Next]_vars
  PROVE  IInv'
<1>1. CASE Handler
  BY <1>1, AdmitHolds, RefreshOkHolds, RefreshFailsHolds, ShapeHolds, FetchHolds, BadBodyHolds,
     HeadersHold, UnreachableHolds, StreamEndsHolds, AbortedHolds DEF Handler
<1>2. CASE UNCHANGED vars
  BY <1>2 DEF vars, IInv, Typed, Numbered, Staged, Upheld, Admitted, Credited, Fresh
<1> QED
  BY <1>1, <1>2, ArriveHolds, HangUpHolds, StoreChangesHolds, WithdrawHolds DEF Next

-----------------------------------------------------------------------------
(* What follows from it.                                                   *)

\* The inductive invariant: at every stage of a request, however the store
\* changes and the caller leaves, what the handler holds is as new as it was
\* at the gates.
THEOREM AlwaysStaged == ASSUME ProxyRequestAssumption PROVE Spec => []IInv
  BY InitHolds, NextHolds, PTL DEF Spec

\* A bare child told to go through the parent passes the gates.
LEMMA UsableAdmitted == ASSUME Typed PROVE UsableMeansAdmitted
<1> SUFFICES ASSUME NEW p \in Slot, classifyChildUsability(p) = "parent-proxy", store[p].access
             PROVE  admitRequest([path |-> [slot |-> p, rest |-> "messages"],
                                  secret |-> ChildPresents(p), upgrade |-> FALSE]) = 200
  BY DEF UsableMeansAdmitted
<1>1. p \in routes /\ Shown(p) \in {"placeholder", "oauth"} /\ (Shown(p) = "oauth" => p \in Builtin)
  BY DEF classifyChildUsability, vendorRefusesBareChild
<1>2. ChildPresents(p) \in {Placeholder} \cup presentedSecret(p)
  <2>1. CASE Shown(p) = "placeholder"
    BY <2>1 DEF ChildPresents
  <2>2. CASE Shown(p) = "oauth"
    <3>1. store[p].type # "none"
      BY <2>2 DEF Shown
    <3>2. ChildPresents(p) = Token(p, store[p].version)
      BY <1>1, <2>2 DEF ChildPresents
    <3> QED
      BY <3>1, <3>2 DEF presentedSecret
  <2> QED
    BY <1>1, <2>1, <2>2
<1> QED
  BY <1>1, <1>2 DEF admitRequest, parseProxyPath

\* RightSecretLeaves: whatever credentials are replaced, removed or logged in
\* while a request waits, what goes upstream is a secret the parent holds for
\* the slot the caller named, no older than at the gates and never one about
\* to expire unless a refresh could not help; nothing upstream outlives its
\* caller; and a bare child told to go through the parent is let in.
THEOREM RightSecret == ASSUME ProxyRequestAssumption PROVE Spec => []RightSecretLeaves
<1> SUFFICES ASSUME ProxyRequestAssumption, IInv PROVE RightSecretLeaves
  BY AlwaysStaged, PTL
<1>1. TypeOK
  <2>1. upstream.state \in {"none", "sent", "streaming", "done", "failed", "aborted"}
    <3> DEFINE S == {Token(p, v) : p \in Slot, v \in 0 .. MaxVersion}
    <3> HIDE DEF S
    <3> QED
      BY DEF IInv, Typed, Upstream, NoUpstream, S
  <2> QED
    BY <2>1 DEF IInv, Typed, TypeOK, Credential
<1>2. OwnSecretLeaves
  <2> SUFFICES ASSUME Sent
               PROVE  /\ upstream.secret \in {Token(req.path.slot, v) : v \in newest .. MaxVersion}
                      /\ req.secret.kind \in {"placeholder", "token"}
    BY DEF OwnSecretLeaves
  <2>1. Admitted /\ upstream.secret = Token(req.path.slot, entry.version)
    BY UpstreamState DEF Sent, IInv, Typed, Upheld
  <2>2. entry.version \in newest .. MaxVersion
    BY <2>1, VersionIsNat DEF Admitted, IInv, Typed, ProxyRequestAssumption
  <2> QED
    BY <2>1, <2>2 DEF Admitted
<1>3. FreshTokenLeaves
  BY UpstreamState DEF FreshTokenLeaves, Sent, IInv, Typed, Upheld, Credited, Fresh
<1>4. NoOrphanRequest
  BY DEF NoOrphanRequest, IInv, Upheld, NoUpstream
<1> QED
  BY <1>1, <1>2, <1>3, <1>4, UsableAdmitted DEF RightSecretLeaves, IInv

-----------------------------------------------------------------------------
(* The proxy the requests reach: what follows is about SharedProxy, for     *)
(* every number of processes, activations, sessions, crashes and losses of  *)
(* the credentials.  The canonical port is a lease on the shared files.     *)

CONSTANTS Proc, Root, Nobody, Home, Session, Off, MaxCrashes, MaxLoss, Contended, ListenFails

VARIABLES
  holder, auth, models, usable, members, ready, publisher, handlerOwner, server, starting, sharedRoutes,
  pc, bind, port, closed, foreign, stray, busy, left, crashes, losses

S == INSTANCE SharedProxy WITH routes <- sharedRoutes

-----------------------------------------------------------------------------
(* The inductive invariant.                                                 *)

Stages == {"new", "start", "publish", "second", "provision", "live", "ended",
           "restore", "unprovision", "release", "clean", "sweep", "gone"}
\* The stages of code that writes the shared files or closes the port: as the
\* holder of the port, and as a root with the proxy off.
Holding == {"provision", "restore", "unprovision", "release"}
Sweeping == {"clean", "sweep"}
Leaving == {"restore", "unprovision", "release"}

SharedTyped ==
  /\ holder \in Proc \cup {Nobody} /\ auth \in {"oauth", "placeholder"}
  /\ models \in {"none", "loopback"} /\ left \in BOOLEAN
  /\ server \in [Proc -> BOOLEAN] /\ sharedRoutes \in [Proc -> BOOLEAN]
  /\ stray \subseteq Proc
  /\ busy \in [Proc -> Root \cup {Nobody}] /\ pc \in [Root -> Stages]

\* Who listens holds the port, once: as its coordinator, or as a closed root.
Held ==
  /\ \A p \in Proc : server[p] => holder = p /\ p \notin stray
  /\ \A p \in stray : holder = p
  /\ holder # Nobody => server[holder] \/ holder \in stray

\* The code between two writes has its process to itself, and the port.
Working ==
  \A r \in Root : /\ pc[r] \in Holding => server[Home[r]] /\ busy[Home[r]] = r
                  /\ pc[r] \in Sweeping => busy[Home[r]] = r
                  /\ pc[r] = "second" => r \notin Off

\* What the last root to leave has already taken back.
TakenBack ==
  \A r \in Root : /\ pc[r] \in {"unprovision", "release"} => auth = "oauth" \/ left
                  /\ pc[r] = "release" => models = "none"

\* A placeholder is served.
Served == auth = "placeholder" /\ ~left => holder # Nobody /\ server[holder]

SharedIInv == SharedTyped /\ Held /\ Working /\ TakenBack /\ Served

\* What is published is in both files, except for the route that is about to be written.
Published ==
  \A p \in Proc : sharedRoutes[p] =>
    /\ server[p] /\ (auth = "placeholder" \/ Contended)
    /\ models = "loopback" \/ \E r \in S!At(p) : pc[r] = "provision"
    /\ \A r \in S!At(p) : pc[r] \notin Leaving
\* Without a root that has the proxy off, nobody sweeps.
NoSweep == \A r \in Root : pc[r] \notin Sweeping
SharedInv == SharedIInv /\ Published /\ NoSweep

-----------------------------------------------------------------------------
(* What the steps do to the port and to the files.                          *)

\* Nothing of either; a publication may be withdrawn from memory.
Rests(r) ==
  /\ UNCHANGED <<holder, S!files, server, stray, busy>>
  /\ sharedRoutes' \in [Proc -> BOOLEAN] /\ \A q \in Proc : sharedRoutes'[q] => sharedRoutes[q]
  /\ \/ pc' = pc
     \/ /\ pc[r] \notin Holding \cup Sweeping
        /\ \E s \in Stages \ (Holding \cup Sweeping) :
             (s = "second" => r \notin Off) /\ pc' = [pc EXCEPT ![r] = s]

\* A process takes the free port, for its coordinator or for a closed root.
Claims(p) ==
  /\ holder = Nobody /\ holder' = p
  /\ \/ server' = [server EXCEPT ![p] = TRUE] /\ stray' = stray
     \/ server' = server /\ stray' = stray \cup {p}
  /\ UNCHANGED <<S!files, sharedRoutes, busy, pc>>

\* An owner in its own process writes the placeholder, and goes on to the route; ...
Publishes(r) ==
  /\ server[Home[r]] /\ busy[Home[r]] = Nobody
  /\ pc[r] = "second" /\ pc' = [pc EXCEPT ![r] = "provision"]
  /\ sharedRoutes' = [sharedRoutes EXCEPT ![Home[r]] = TRUE] /\ busy' = [busy EXCEPT ![Home[r]] = r]
  /\ S!Write("placeholder")
  /\ UNCHANGED <<holder, models, server, stray>>

\* ... or writes only the placeholder; ...
Hides(r) ==
  /\ server[Home[r]] /\ busy[Home[r]] = Nobody
  /\ S!Write("placeholder")
  /\ UNCHANGED <<holder, models, server, stray, sharedRoutes, busy, pc>>

\* ... or takes the route back.
Withdraws(r) ==
  /\ server[Home[r]] /\ busy[Home[r]] = Nobody
  /\ pc[r] \in {"start", "publish"} /\ pc' = [pc EXCEPT ![r] = "live"]
  /\ models' = "none" /\ sharedRoutes' = [sharedRoutes EXCEPT ![Home[r]] = FALSE]
  /\ UNCHANGED <<holder, auth, left, server, stray, busy>>

\* The last root of a process begins to leave, with the port, ...
Leaves(r) ==
  /\ server[Home[r]] /\ busy[Home[r]] = Nobody
  /\ pc[r] \notin Holding \cup Sweeping /\ pc' = [pc EXCEPT ![r] = "restore"]
  /\ sharedRoutes' = [sharedRoutes EXCEPT ![Home[r]] = FALSE] /\ busy' = [busy EXCEPT ![Home[r]] = r]
  /\ UNCHANGED <<holder, S!files, server, stray>>

\* ... or without it and with the proxy off.
Cleans(r) ==
  /\ r \in Off /\ busy[Home[r]] = Nobody
  /\ pc[r] \notin Holding \cup Sweeping /\ pc' = [pc EXCEPT ![r] = "clean"]
  /\ sharedRoutes' = [sharedRoutes EXCEPT ![Home[r]] = FALSE] /\ busy' = [busy EXCEPT ![Home[r]] = r]
  /\ UNCHANGED <<holder, S!files, server, stray>>

LEMMA PortFree ==
  ASSUME SharedTyped, NEW p \in Proc
  PROVE  [sharedRoutes EXCEPT ![p] = FALSE] \in [Proc -> BOOLEAN]
         /\ [sharedRoutes EXCEPT ![p] = TRUE] \in [Proc -> BOOLEAN]
BY DEF SharedTyped

LEMMA ListenSteps ==
  ASSUME S!SharedProxyAssumption, SharedTyped, NEW r \in Root,
         \/ S!Listening(r) \/ S!ForeignOwner(r) \/ S!ListeningElsewhere(r) \/ S!ListenFailed(r)
         \/ S!StartOver(r) \/ S!ListeningAlone(r)
  PROVE  Rests(r) \/ Claims(Home[r])
<1>1. sharedRoutes \in [Proc -> BOOLEAN]
  BY DEF SharedTyped
<1>2. CASE S!Listening(r)
  <2>1. UNCHANGED <<S!files, sharedRoutes, busy, pc, stray>>
    BY <1>2 DEF S!Listening
  <2>2. \/ UNCHANGED <<holder, server>>
        \/ holder = Nobody /\ holder' = Home[r] /\ server' = [server EXCEPT ![Home[r]] = TRUE]
    BY <1>2 DEF S!Listening
  <2> QED
    BY <1>1, <2>1, <2>2 DEF Rests, Claims
<1>3. CASE S!ForeignOwner(r)
  BY <1>1, <1>3 DEF S!ForeignOwner, Rests, S!coordinator
<1>4. CASE S!ListeningElsewhere(r)
  BY <1>1, <1>4 DEF S!ListeningElsewhere, Rests
<1>5. CASE S!ListenFailed(r)
  BY <1>1, <1>5 DEF S!ListenFailed, Rests
<1>6. CASE S!StartOver(r)
  BY <1>1, <1>6 DEF S!StartOver, Rests
<1>7. CASE S!ListeningAlone(r)
  BY <1>1, <1>7 DEF S!ListeningAlone, Rests, Claims, S!coordinator
<1> QED
  BY <1>2, <1>3, <1>4, <1>5, <1>6, <1>7

LEMMA PublishSteps ==
  ASSUME S!SharedProxyAssumption, SharedTyped, Working, NEW r \in Root,
         \/ S!BeginPublish(r) \/ S!Publish(r) \/ S!Rediscover(r) \/ S!RefreshShadow(r)
  PROVE  Rests(r) \/ Withdraws(r) \/ Publishes(r) \/ Hides(r)
<1>1. sharedRoutes \in [Proc -> BOOLEAN] /\ Home[r] \in Proc
  BY DEF SharedTyped, S!SharedProxyAssumption
<1>2. CASE S!BeginPublish(r)
  <2> DEFINE p == Home[r]
             claims == server[p] /\ S!Member(r) /\ ~closed[r]
             owns == S!ownsSharedChildPublication(r, IF claims THEN r ELSE publisher[p])
  <2>1. owns => server[p]
    BY <1>2 DEF S!BeginPublish, S!ownsSharedChildPublication
  <2>2. /\ busy[p] = Nobody /\ pc[r] \in {"start", "publish"}
        /\ UNCHANGED <<holder, auth, left, server, stray, busy>>
        /\ \E s \in {"ended", "live", "second"} : (s = "second" => r \notin Off) /\ pc' = [pc EXCEPT ![r] = s]
        /\ \/ UNCHANGED <<models, sharedRoutes>>
           \/ /\ pc' = [pc EXCEPT ![r] = "live"] /\ models' = (IF owns THEN "none" ELSE models)
              /\ sharedRoutes' = [sharedRoutes EXCEPT ![p] = @ /\ ~owns]
    BY <1>2 DEF S!BeginPublish, S!Free
  <2> HIDE DEF owns
  <2>3. CASE UNCHANGED <<models, sharedRoutes>>
    BY <1>1, <2>2, <2>3 DEF Rests, S!files, Holding, Sweeping, Stages
  <2>4. CASE /\ pc' = [pc EXCEPT ![r] = "live"] /\ models' = (IF owns THEN "none" ELSE models)
             /\ sharedRoutes' = [sharedRoutes EXCEPT ![p] = @ /\ ~owns]
    <3>1. CASE owns
      <4>1. sharedRoutes' = [sharedRoutes EXCEPT ![p] = FALSE]
        BY <2>4, <3>1
      <4> QED
        BY <2>1, <2>2, <2>4, <3>1, <4>1 DEF Withdraws
    <3>2. CASE ~owns
      <4>1. sharedRoutes' = [sharedRoutes EXCEPT ![p] = sharedRoutes[p] /\ TRUE]
        BY <2>4, <3>2
      <4>2. sharedRoutes' = sharedRoutes
        BY <1>1, <4>1
      <4> QED
        BY <1>1, <2>2, <2>4, <3>2, <4>2 DEF Rests, S!files, Holding, Sweeping, Stages
    <3> QED
      BY <3>1, <3>2
  <2> QED
    BY <2>2, <2>3, <2>4
<1>3. CASE S!Publish(r)
  <2> DEFINE p == Home[r]
             leads == port[r] = "canonical" /\ S!Member(r)
             owns == S!ownsSharedChildPublication(r, IF leads THEN r ELSE publisher[p])
  <2>1. owns => server[p]
    BY <1>3 DEF S!Publish, Working, S!ownsSharedChildPublication
  <2>2. /\ S!Free(p) /\ pc[r] = "second" /\ UNCHANGED <<holder, models, server, stray>>
        /\ \/ /\ pc' = [pc EXCEPT ![r] = "ended"] \/ pc' = [pc EXCEPT ![r] = "live"]
              /\ UNCHANGED <<auth, left, sharedRoutes, busy>>
           \/ /\ owns /\ pc' = [pc EXCEPT ![r] = "provision"] /\ S!Write("placeholder")
              /\ sharedRoutes' = [sharedRoutes EXCEPT ![p] = TRUE] /\ busy' = [busy EXCEPT ![p] = r]
    BY <1>3 DEF S!Publish
  <2> HIDE DEF owns
  <2>3. CASE /\ pc' = [pc EXCEPT ![r] = "ended"] \/ pc' = [pc EXCEPT ![r] = "live"]
             /\ UNCHANGED <<auth, left, sharedRoutes, busy>>
    <3>1. \E s \in {"ended", "live"} : pc' = [pc EXCEPT ![r] = s]
      BY <2>3
    <3> QED
      BY <1>1, <2>2, <2>3, <3>1 DEF Rests, S!files, Holding, Sweeping, Stages
  <2>4. CASE /\ owns /\ pc' = [pc EXCEPT ![r] = "provision"] /\ S!Write("placeholder")
             /\ sharedRoutes' = [sharedRoutes EXCEPT ![p] = TRUE] /\ busy' = [busy EXCEPT ![p] = r]
    BY <2>1, <2>2, <2>4 DEF Publishes, S!Free
  <2> QED
    BY <2>2, <2>3, <2>4
<1>4. CASE S!Rediscover(r)
  BY <1>1, <1>4 DEF S!Rediscover, Rests, S!coordinator, Holding, Sweeping, Stages
<1>5. CASE S!RefreshShadow(r)
  BY <1>5 DEF S!RefreshShadow, Hides, S!coordinator, S!Idle, S!ownsSharedChildPublication
<1> QED
  BY <1>2, <1>3, <1>4, <1>5

LEMMA SessionSteps ==
  ASSUME S!SharedProxyAssumption, SharedTyped, NEW r \in Root, S!Start(r) \/ S!Attend(r) \/ S!Shutdown(r)
  PROVE  Rests(r) \/ Leaves(r) \/ Cleans(r)
<1>1. sharedRoutes \in [Proc -> BOOLEAN] /\ Home[r] \in Proc
  BY DEF SharedTyped, S!SharedProxyAssumption
<1>2. CASE S!Start(r)
  <2>1. pc[r] = "new" /\ pc' = [pc EXCEPT ![r] = "start"]
        /\ UNCHANGED <<holder, S!files, server, sharedRoutes, stray, busy>>
    BY <1>2 DEF S!Start
  <2> QED
    BY <1>1, <2>1 DEF Rests, Holding, Sweeping, Stages
<1>3. CASE S!Attend(r)
  <2>1. pc[r] = "start" /\ UNCHANGED <<holder, S!files, server, sharedRoutes, stray, busy>>
        /\ \E s \in {"ended", "live"} : pc' = [pc EXCEPT ![r] = s]
    BY <1>3 DEF S!Attend
  <2> QED
    BY <1>1, <2>1 DEF Rests, Holding, Sweeping, Stages
<1>4. CASE S!Shutdown(r)
  <2> DEFINE p == Home[r]
             last == S!Member(r) /\ SelectSeq(members[p], LAMBDA q : q # r) = <<>>
  <2>1. /\ busy[p] = Nobody /\ pc[r] \in {"start", "second", "live", "ended"}
        /\ UNCHANGED <<holder, S!files, server, stray>>
        /\ sharedRoutes' = [sharedRoutes EXCEPT ![p] = @ /\ ~last]
        /\ \/ /\ last /\ server[p] /\ pc' = [pc EXCEPT ![r] = "restore"] /\ busy' = [busy EXCEPT ![p] = r]
           \/ /\ last /\ r \in Off /\ pc' = [pc EXCEPT ![r] = "clean"] /\ busy' = [busy EXCEPT ![p] = r]
           \/ pc' = [pc EXCEPT ![r] = "gone"] /\ busy' = busy
    BY <1>4 DEF S!Shutdown, S!Idle
  <2> HIDE DEF last
  <2>2. CASE last
    <3>1. sharedRoutes' = [sharedRoutes EXCEPT ![p] = FALSE]
      BY <2>1, <2>2
    <3>2. sharedRoutes' \in [Proc -> BOOLEAN] /\ \A q \in Proc : sharedRoutes'[q] => sharedRoutes[q]
      BY <1>1, <3>1, PortFree
    <3> QED
      BY <2>1, <3>1, <3>2 DEF Leaves, Cleans, Rests, Holding, Sweeping, Stages
  <2>3. CASE ~last
    <3>1. sharedRoutes' = [sharedRoutes EXCEPT ![p] = sharedRoutes[p] /\ TRUE]
      BY <2>1, <2>3
    <3>2. sharedRoutes' = sharedRoutes
      BY <1>1, <3>1
    <3> QED
      BY <1>1, <2>1, <2>3, <3>2 DEF Rests, Holding, Sweeping, Stages
  <2> QED
    BY <2>2, <2>3
<1> QED
  BY <1>2, <1>3, <1>4

\* Every step is one of these, or one of the code between two writes, or a death.
LEMMA StepKinds ==
  ASSUME S!SharedProxyAssumption, SharedTyped, Working, S!Next
  PROVE  \/ \E r \in Root :
              \/ Rests(r) \/ Claims(Home[r]) \/ Publishes(r) \/ Hides(r) \/ Withdraws(r)
              \/ Leaves(r) \/ Cleans(r)
              \/ S!Provision(r) \/ S!Restore(r) \/ S!Unprovision(r) \/ S!Release(r)
              \/ S!Sweep(r) \/ S!SweepAuth(r)
         \/ S!CredentialsChange
         \/ \E p \in Proc : S!Crash(p)
<1>1. ASSUME NEW r \in Root, S!Progress(r) \/ S!Start(r) \/ S!ListenFailed(r) \/ S!Rediscover(r)
                             \/ S!RefreshShadow(r) \/ S!Shutdown(r)
      PROVE  \/ Rests(r) \/ Claims(Home[r]) \/ Publishes(r) \/ Hides(r) \/ Withdraws(r)
             \/ Leaves(r) \/ Cleans(r)
             \/ S!Provision(r) \/ S!Restore(r) \/ S!Unprovision(r) \/ S!Release(r)
             \/ S!Sweep(r) \/ S!SweepAuth(r)
  <2>1. CASE S!Listening(r) \/ S!ForeignOwner(r) \/ S!ListeningElsewhere(r) \/ S!ListenFailed(r)
             \/ S!StartOver(r) \/ S!ListeningAlone(r)
    BY <2>1, ListenSteps, Zenon
  <2>2. CASE S!BeginPublish(r) \/ S!Publish(r) \/ S!Rediscover(r) \/ S!RefreshShadow(r)
    BY <2>2, PublishSteps, Zenon
  <2>3. CASE S!Start(r) \/ S!Attend(r) \/ S!Shutdown(r)
    BY <2>3, SessionSteps, Zenon
  <2> QED
    BY <1>1, <2>1, <2>2, <2>3, Zenon DEF S!Progress
<1> QED
  BY <1>1, Zenon DEF S!Next

-----------------------------------------------------------------------------
(* The invariant holds.                                                     *)

LEMMA InitInv ==
  ASSUME S!SharedProxyAssumption, S!Init
  PROVE  SharedInv
<1>1. SharedTyped
  BY DEF S!Init, SharedTyped, Stages
<1> QED
  BY <1>1 DEF S!Init, SharedInv, SharedIInv, Held, Working, TakenBack, Served, Published, NoSweep,
              Holding, Sweeping

\* A write of auth.json leaves it one of its two values.
LEMMA WriteTyped ==
  ASSUME SharedTyped, NEW value \in {"oauth", "placeholder"}, S!Write(value)
  PROVE  auth' \in {"oauth", "placeholder"} /\ left' \in BOOLEAN
BY DEF SharedTyped, S!Write

LEMMA NextTyped ==
  ASSUME S!SharedProxyAssumption, SharedIInv, S!Next
  PROVE  SharedTyped'
<1>1. SharedTyped /\ Working /\ \A r \in Root : Home[r] \in Proc
  BY DEF SharedIInv, S!SharedProxyAssumption
<1>2. ASSUME NEW r \in Root, Rests(r) PROVE SharedTyped'
  <2>1. pc' \in [Root -> Stages]
    BY <1>1, <1>2 DEF SharedTyped, Rests
  <2> QED
    BY <1>1, <1>2, <2>1 DEF SharedTyped, Rests, S!files
<1>3. ASSUME NEW r \in Root, Claims(Home[r]) PROVE SharedTyped'
  BY <1>1, <1>3 DEF SharedTyped, Claims, S!files
<1>4. ASSUME NEW r \in Root, Publishes(r) PROVE SharedTyped'
  <2>1. auth' \in {"oauth", "placeholder"} /\ left' \in BOOLEAN
    BY <1>1, <1>4, WriteTyped DEF Publishes
  <2>2. pc' \in [Root -> Stages]
    BY <1>1, <1>4 DEF SharedTyped, Publishes, Stages
  <2>3. busy' \in [Proc -> Root \cup {Nobody}] /\ sharedRoutes' \in [Proc -> BOOLEAN]
    BY <1>1, <1>4, PortFree DEF SharedTyped, Publishes
  <2> QED
    BY <1>1, <1>4, <2>1, <2>2, <2>3, PortFree DEF SharedTyped, Publishes
<1>5. ASSUME NEW r \in Root, Hides(r) PROVE SharedTyped'
  <2>1. auth' \in {"oauth", "placeholder"} /\ left' \in BOOLEAN
    BY <1>1, <1>5, WriteTyped DEF Hides
  <2> QED
    BY <1>1, <1>5, <2>1 DEF SharedTyped, Hides
<1>6. ASSUME NEW r \in Root, Withdraws(r) \/ Leaves(r) \/ Cleans(r) PROVE SharedTyped'
  <2>1. sharedRoutes' \in [Proc -> BOOLEAN]
    <3>1. sharedRoutes' = [sharedRoutes EXCEPT ![Home[r]] = FALSE]
      BY <1>6 DEF Withdraws, Leaves, Cleans
    <3> QED
      BY <1>1, <3>1, PortFree
  <2>2. busy' \in [Proc -> Root \cup {Nobody}]
    BY <1>1, <1>6 DEF Withdraws, Leaves, Cleans, SharedTyped
  <2>3. pc' \in [Root -> Stages]
    BY <1>1, <1>6 DEF Withdraws, Leaves, Cleans, SharedTyped, Stages
  <2>4. models' \in {"none", "loopback"} /\ UNCHANGED <<holder, auth, left, server, stray>>
    BY <1>1, <1>6 DEF Withdraws, Leaves, Cleans, SharedTyped, S!files
  <2> QED
    BY <1>1, <2>1, <2>2, <2>3, <2>4 DEF SharedTyped
<1>7. ASSUME NEW r \in Root, S!Provision(r) \/ S!Unprovision(r) \/ S!Sweep(r) PROVE SharedTyped'
  <2>1. \E s \in Stages : pc' = [pc EXCEPT ![r] = s]
    BY <1>7 DEF S!Provision, S!Unprovision, S!Sweep, Stages
  <2>2. models' \in {"none", "loopback"} /\ UNCHANGED <<holder, auth, left, server, sharedRoutes, stray>>
        /\ (busy' = busy \/ busy' = [busy EXCEPT ![Home[r]] = Nobody])
    BY <1>7 DEF S!Provision, S!Unprovision, S!Sweep, S!coordinator
  <2> QED
    BY <1>1, <2>1, <2>2 DEF SharedTyped
<1>8. ASSUME NEW r \in Root, S!Restore(r) \/ S!SweepAuth(r) PROVE SharedTyped'
  <2>1. auth' \in {"oauth", "placeholder"} /\ left' \in BOOLEAN
    BY <1>1, <1>8, WriteTyped DEF S!Restore, S!SweepAuth
  <2>2. \E s \in Stages : pc' = [pc EXCEPT ![r] = s]
    BY <1>8 DEF S!Restore, S!SweepAuth, Stages
  <2>3. UNCHANGED <<holder, models, server, sharedRoutes, stray>>
        /\ (busy' = busy \/ busy' = [busy EXCEPT ![Home[r]] = Nobody])
    BY <1>8 DEF S!Restore, S!SweepAuth, S!coordinator
  <2> QED
    BY <1>1, <2>1, <2>2, <2>3 DEF SharedTyped
<1>9. ASSUME NEW r \in Root, S!Release(r) PROVE SharedTyped'
  BY <1>1, <1>9 DEF SharedTyped, S!Release, S!files, Stages
<1>10. CASE S!CredentialsChange
  BY <1>1, <1>10 DEF SharedTyped, S!CredentialsChange, S!files, S!coordinator
<1>11. ASSUME NEW p \in Proc, S!Crash(p) PROVE SharedTyped'
  <2>1. pc' \in [Root -> Stages]
    BY <1>1, <1>11 DEF SharedTyped, S!Crash, Stages
  <2>2. left' \in BOOLEAN
    BY <1>1, <1>11 DEF S!Crash
  <2> QED
    BY <1>1, <1>11, <2>1, <2>2 DEF SharedTyped, S!Crash
<1> QED
  BY <1>1, <1>2, <1>3, <1>4, <1>5, <1>6, <1>7, <1>8, <1>9, <1>10, <1>11, StepKinds

LEMMA NextHeld ==
  ASSUME S!SharedProxyAssumption, SharedIInv, S!Next
  PROVE  Held'
<1>1. SharedTyped /\ Held /\ Working /\ Nobody \notin Proc /\ Nobody \notin Root /\ \A r \in Root : Home[r] \in Proc
  BY DEF SharedIInv, S!SharedProxyAssumption
<1>2. CASE UNCHANGED <<holder, server, stray>>
  BY <1>1, <1>2 DEF Held
<1>3. ASSUME NEW r \in Root, Claims(Home[r]) PROVE Held'
  <2>1. /\ \A p \in Proc : ~server[p]
        /\ stray = {} /\ holder' = Home[r]
    BY <1>1, <1>3 DEF Held, Claims, SharedTyped
  <2>2. CASE server' = [server EXCEPT ![Home[r]] = TRUE] /\ stray' = stray
    BY <1>1, <2>1, <2>2 DEF Held, SharedTyped
  <2>3. CASE server' = server /\ stray' = stray \cup {Home[r]}
    BY <1>1, <2>1, <2>3 DEF Held, SharedTyped
  <2> QED
    BY <1>3, <2>2, <2>3 DEF Claims
<1>4. ASSUME NEW r \in Root, S!Release(r) PROVE Held'
  <2>1. server[Home[r]] /\ holder = Home[r] /\ stray = {}
    BY <1>1, <1>4 DEF S!Release, Working, Holding, Held, SharedTyped
  <2>2. holder' = Nobody /\ server' = [server EXCEPT ![Home[r]] = FALSE] /\ stray' = stray
    BY <1>4, <2>1 DEF S!Release
  <2> QED
    BY <1>1, <2>1, <2>2 DEF Held, SharedTyped
<1>5. ASSUME NEW p \in Proc, S!Crash(p) PROVE Held'
  <2>1. /\ holder' = (IF holder = p THEN Nobody ELSE holder)
        /\ server' = [server EXCEPT ![p] = FALSE] /\ stray' = stray \ {p}
    BY <1>5 DEF S!Crash
  <2> QED
    BY <1>1, <2>1 DEF Held, SharedTyped
<1>6. ASSUME NEW r \in Root,
             \/ Rests(r) \/ Publishes(r) \/ Hides(r) \/ Withdraws(r) \/ Leaves(r) \/ Cleans(r)
             \/ S!Provision(r) \/ S!Restore(r) \/ S!Unprovision(r) \/ S!Sweep(r) \/ S!SweepAuth(r)
      PROVE  UNCHANGED <<holder, server, stray>>
  BY <1>6 DEF Rests, Publishes, Hides, Withdraws, Leaves, Cleans, S!Provision, S!Restore, S!Unprovision,
              S!Sweep, S!SweepAuth, S!coordinator
<1>7. S!CredentialsChange => UNCHANGED <<holder, server, stray>>
  BY DEF S!CredentialsChange, S!coordinator
<1> QED
  BY <1>1, <1>2, <1>3, <1>4, <1>5, <1>6, <1>7, StepKinds

LEMMA NextWorking ==
  ASSUME S!SharedProxyAssumption, SharedIInv, S!Next
  PROVE  Working'
<1> DEFINE Good(v) == /\ pc'[v] \in Holding => server'[Home[v]] /\ busy'[Home[v]] = v
                      /\ pc'[v] \in Sweeping => busy'[Home[v]] = v
                      /\ pc'[v] = "second" => v \notin Off
<1> SUFFICES ASSUME NEW v \in Root PROVE Good(v)
  BY DEF Working
<1>1. /\ SharedTyped /\ Nobody \notin Root /\ Home[v] \in Proc /\ \A r \in Root : Home[r] \in Proc
      /\ pc[v] \in Holding => server[Home[v]] /\ busy[Home[v]] = v
      /\ pc[v] \in Sweeping => busy[Home[v]] = v
      /\ pc[v] = "second" => v \notin Off
  BY DEF SharedIInv, Working, S!SharedProxyAssumption
<1>2. pc \in [Root -> Stages] /\ busy \in [Proc -> Root \cup {Nobody}] /\ server \in [Proc -> BOOLEAN]
  BY <1>1 DEF SharedTyped
<1>3. ASSUME NEW r \in Root, Rests(r) PROVE Good(v)
  BY <1>1, <1>2, <1>3 DEF Rests
<1>4. ASSUME NEW r \in Root, Claims(Home[r]) PROVE Good(v)
  BY <1>1, <1>2, <1>4 DEF Claims
<1>5. ASSUME NEW r \in Root, Publishes(r) \/ Leaves(r) \/ Cleans(r) PROVE Good(v)
  <2>1. /\ busy[Home[r]] = Nobody /\ busy' = [busy EXCEPT ![Home[r]] = r] /\ server' = server
        /\ \/ pc' = [pc EXCEPT ![r] = "provision"] /\ server[Home[r]]
           \/ pc' = [pc EXCEPT ![r] = "restore"] /\ server[Home[r]]
           \/ pc' = [pc EXCEPT ![r] = "clean"]
    BY <1>5 DEF Publishes, Leaves, Cleans
  <2>2. CASE v = r
    BY <1>1, <1>2, <2>1, <2>2 DEF Holding, Sweeping
  <2>3. CASE v # r
    BY <1>1, <1>2, <2>1, <2>3 DEF Holding, Sweeping
  <2> QED
    BY <2>2, <2>3
<1>6. ASSUME NEW r \in Root, Hides(r) \/ Withdraws(r) PROVE Good(v)
  <2>1. server' = server /\ busy' = busy /\ (pc' = pc \/ pc' = [pc EXCEPT ![r] = "live"])
    BY <1>6 DEF Hides, Withdraws
  <2> QED
    BY <1>1, <1>2, <2>1 DEF Holding, Sweeping
<1>7. ASSUME NEW r \in Root, S!Restore(r) \/ S!Unprovision(r) \/ S!Sweep(r) PROVE Good(v)
  <2>1. /\ server' = server /\ busy' = busy
        /\ \/ pc[r] \in Holding /\ \E s \in Holding : pc' = [pc EXCEPT ![r] = s]
           \/ pc[r] \in Sweeping /\ \E s \in Sweeping : pc' = [pc EXCEPT ![r] = s]
    BY <1>7 DEF S!Restore, S!Unprovision, S!Sweep, S!coordinator, Holding, Sweeping
  <2> QED
    BY <1>1, <1>2, <2>1 DEF Holding, Sweeping
<1>8. ASSUME NEW r \in Root, S!Provision(r) \/ S!SweepAuth(r) \/ S!Release(r) PROVE Good(v)
  <2>1. /\ pc[r] \in Holding \cup Sweeping /\ busy' = [busy EXCEPT ![Home[r]] = Nobody]
        /\ \E s \in {"live", "gone"} : pc' = [pc EXCEPT ![r] = s]
        /\ server' = server \/ server' = [server EXCEPT ![Home[r]] = FALSE]
    BY <1>8 DEF S!Provision, S!SweepAuth, S!Release, S!coordinator, Holding, Sweeping
  <2>2. busy[Home[r]] = r
    BY <1>8 DEF SharedIInv, Working, S!Provision, S!SweepAuth, S!Release, Holding, Sweeping
  <2>3. CASE v = r
    BY <1>1, <1>2, <2>1, <2>3 DEF Holding, Sweeping
  <2>4. CASE v # r
    BY <1>1, <1>2, <2>1, <2>2, <2>4 DEF Holding, Sweeping
  <2> QED
    BY <2>3, <2>4
<1>9. CASE S!CredentialsChange
  BY <1>1, <1>9 DEF S!CredentialsChange, S!coordinator
<1>10. ASSUME NEW p \in Proc, S!Crash(p) PROVE Good(v)
  <2>1. /\ pc'[v] = (IF Home[v] = p THEN "gone" ELSE pc[v])
        /\ server' = [server EXCEPT ![p] = FALSE] /\ busy' = [busy EXCEPT ![p] = Nobody]
    BY <1>10 DEF S!Crash, S!At
  <2> QED
    BY <1>1, <1>2, <2>1 DEF Holding, Sweeping
<1> HIDE DEF Good
<1>11. Working
  BY DEF SharedIInv
<1> QED
  BY <1>1, <1>3, <1>4, <1>5, <1>6, <1>7, <1>8, <1>9, <1>10, <1>11, StepKinds

\* One root at a time works as the holder of the port, and while it does nobody else
\* in its process begins to.
LEMMA Alone ==
  ASSUME S!SharedProxyAssumption, SharedIInv, NEW v \in Root, pc[v] \in Holding, NEW r \in Root, r # v
  PROVE  pc[r] \notin Holding /\ ~(server[Home[r]] /\ busy[Home[r]] = Nobody)
<1>1. /\ Home[v] \in Proc /\ Home[r] \in Proc /\ Nobody \notin Root
      /\ server[Home[v]] /\ busy[Home[v]] = v /\ holder = Home[v]
  BY DEF SharedIInv, Working, Held, S!SharedProxyAssumption
<1>2. server[Home[r]] => Home[r] = Home[v]
  BY <1>1 DEF SharedIInv, Held
<1> QED
  BY <1>1, <1>2 DEF SharedIInv, Working

\* After the attempt to write the credential back, what shows is a known leftover.
LEMMA WrittenBack ==
  ASSUME SharedTyped, S!Write("oauth")
  PROVE  auth' = "oauth" \/ left'
<1>1. CASE auth' = "oauth"
  BY <1>1
<1>2. CASE auth' = auth /\ left' = (left \/ ("oauth" = "oauth" /\ auth = "placeholder"))
  BY <1>2 DEF SharedTyped
<1> QED
  BY <1>1, <1>2 DEF S!Write

LEMMA NextTakenBack ==
  ASSUME S!SharedProxyAssumption, SharedIInv, S!Next
  PROVE  TakenBack'
<1> DEFINE Good(v) == /\ pc'[v] \in {"unprovision", "release"} => auth' = "oauth" \/ left'
                      /\ pc'[v] = "release" => models' = "none"
<1> SUFFICES ASSUME NEW v \in Root PROVE Good(v)
  BY DEF TakenBack
<1>1. /\ SharedTyped /\ Working /\ pc \in [Root -> Stages]
      /\ pc[v] \in {"unprovision", "release"} => auth = "oauth" \/ left
      /\ pc[v] = "release" => models = "none"
  BY DEF SharedIInv, TakenBack, SharedTyped
<1>2. ASSUME UNCHANGED S!files, pc'[v] \in {"unprovision", "release"} => pc'[v] = pc[v]
      PROVE  Good(v)
  BY <1>1, <1>2 DEF S!files
<1>3. ASSUME NEW r \in Root, Rests(r) \/ Claims(Home[r]) \/ Leaves(r) \/ Cleans(r) \/ S!Release(r) PROVE Good(v)
  <2>1. UNCHANGED S!files
    BY <1>3 DEF Rests, Claims, Leaves, Cleans, S!Release
  <2>2. pc'[v] \in {"unprovision", "release"} => pc'[v] = pc[v]
    BY <1>1, <1>3 DEF Rests, Claims, Leaves, Cleans, S!Release, Holding, Sweeping
  <2> QED
    BY <1>2, <2>1, <2>2
<1>4. ASSUME NEW r \in Root, Publishes(r) \/ Hides(r) \/ Withdraws(r) \/ S!Provision(r) PROVE Good(v)
  <2>1. /\ (server[Home[r]] /\ busy[Home[r]] = Nobody) \/ pc[r] = "provision"
        /\ pc' = pc \/ \E s \in {"provision", "live"} : pc' = [pc EXCEPT ![r] = s]
    BY <1>4 DEF Publishes, Hides, Withdraws, S!Provision
  <2>2. CASE pc[v] \in {"unprovision", "release"} /\ v # r
    BY <2>1, <2>2, Alone DEF Holding
  <2>3. CASE pc[v] \in {"unprovision", "release"} /\ v = r
    <3>1. server[Home[r]] /\ busy[Home[r]] = Nobody
      BY <2>1, <2>3
    <3> QED
      BY <2>3, <3>1 DEF SharedIInv, Working, Holding, S!SharedProxyAssumption
  <2>4. CASE pc[v] \notin {"unprovision", "release"}
    BY <1>1, <2>1, <2>4
  <2> QED
    BY <2>2, <2>3, <2>4
<1>5. ASSUME NEW r \in Root, S!Restore(r) PROVE Good(v)
  <2>1. /\ pc[r] = "restore" /\ pc' = [pc EXCEPT ![r] = "unprovision"] /\ models' = models
        /\ auth' = "oauth" \/ left'
    BY <1>1, <1>5, WrittenBack DEF S!Restore
  <2> QED
    BY <1>1, <2>1
<1>6. ASSUME NEW r \in Root, S!SweepAuth(r) PROVE Good(v)
  <2>1. /\ pc' = [pc EXCEPT ![r] = "gone"] /\ models' = models /\ (auth' = "oauth" \/ left')
    BY <1>1, <1>6, WrittenBack DEF S!SweepAuth
  <2> QED
    BY <1>1, <2>1
<1>7. ASSUME NEW r \in Root, S!Unprovision(r) \/ S!Sweep(r) PROVE Good(v)
  <2>1. /\ models' = "none" /\ UNCHANGED <<auth, left>>
        /\ \/ pc[r] = "unprovision" /\ pc' = [pc EXCEPT ![r] = "release"]
           \/ pc' = [pc EXCEPT ![r] = "sweep"]
    BY <1>7 DEF S!Unprovision, S!Sweep
  <2> QED
    BY <1>1, <2>1
<1>8. CASE S!CredentialsChange
  BY <1>1, <1>2, <1>8 DEF S!CredentialsChange
<1>9. ASSUME NEW p \in Proc, S!Crash(p) PROVE Good(v)
  <2>1. /\ pc'[v] \in {"unprovision", "release"} => pc'[v] = pc[v]
        /\ UNCHANGED <<auth, models>> /\ left' = (left \/ (holder = p /\ (auth = "placeholder" \/ models = "loopback")))
    BY <1>9 DEF S!Crash
  <2> QED
    BY <1>1, <2>1
<1> HIDE DEF Good
<1> QED
  BY <1>1, <1>3, <1>4, <1>5, <1>6, <1>7, <1>8, <1>9, StepKinds

LEMMA NextServed ==
  ASSUME S!SharedProxyAssumption, SharedIInv, S!Next
  PROVE  Served'
<1>1. SharedTyped /\ Working /\ Held /\ Served /\ Nobody \notin Proc /\ \A r \in Root : Home[r] \in Proc
  BY DEF SharedIInv, S!SharedProxyAssumption
<1>2. ASSUME auth' = auth, left' = left, holder' = holder, server' = server PROVE Served'
  BY <1>1, <1>2 DEF Served
<1>3. ASSUME auth' = "oauth" \/ left' PROVE Served'
  BY <1>3 DEF Served
<1>4. ASSUME NEW r \in Root, Rests(r) \/ Leaves(r) \/ Cleans(r) \/ Withdraws(r) \/ S!Provision(r)
                             \/ S!Unprovision(r) \/ S!Sweep(r)
      PROVE  Served'
  <2>1. auth' = auth /\ left' = left /\ holder' = holder /\ server' = server
    BY <1>4 DEF Rests, Leaves, Cleans, Withdraws, S!Provision, S!Unprovision, S!Sweep, S!files, S!coordinator
  <2> QED
    BY <1>2, <2>1
<1>5. ASSUME NEW r \in Root, Claims(Home[r]) PROVE Served'
  BY <1>1, <1>5 DEF Served, Claims, S!files, SharedTyped
<1>6. ASSUME NEW r \in Root, Publishes(r) \/ Hides(r) PROVE Served'
  <2>1. server[Home[r]] /\ UNCHANGED <<holder, server>>
    BY <1>6 DEF Publishes, Hides
  <2>2. holder = Home[r]
    BY <1>1, <2>1 DEF Held
  <2> QED
    BY <1>1, <2>1, <2>2 DEF Served
<1>7. ASSUME NEW r \in Root, S!Restore(r) \/ S!SweepAuth(r) PROVE Served'
  BY <1>1, <1>3, <1>7, WrittenBack DEF S!Restore, S!SweepAuth
<1>8. ASSUME NEW r \in Root, S!Release(r) PROVE Served'
  <2>1. auth = "oauth" \/ left
    BY <1>8 DEF S!Release, SharedIInv, TakenBack
  <2> QED
    BY <1>3, <1>8, <2>1 DEF S!Release, S!files
<1>9. CASE S!CredentialsChange
  BY <1>2, <1>9 DEF S!CredentialsChange, S!files, S!coordinator
<1>10. ASSUME NEW p \in Proc, S!Crash(p) PROVE Served'
  <2>1. /\ auth' = auth /\ holder' = (IF holder = p THEN Nobody ELSE holder)
        /\ server' = [server EXCEPT ![p] = FALSE]
        /\ left' = (left \/ (holder = p /\ (auth = "placeholder" \/ models = "loopback")))
    BY <1>10 DEF S!Crash
  <2>2. CASE holder = p
    BY <1>1, <1>3, <2>1, <2>2 DEF SharedTyped
  <2>3. CASE holder # p
    BY <1>1, <2>1, <2>3 DEF Served, SharedTyped
  <2> QED
    BY <2>2, <2>3
<1> QED
  BY <1>1, <1>4, <1>5, <1>6, <1>7, <1>8, <1>9, <1>10, StepKinds

\* While somebody listens on the canonical port it holds the port alone, the code
\* between two writes of a process is nobody else's, and a placeholder is served.
THEOREM AlwaysServed == ASSUME S!SharedProxyAssumption PROVE S!Spec => []SharedIInv
<1>1. S!Init => SharedIInv
  BY InitInv DEF SharedInv
<1>2. SharedIInv /\ [S!Next]_(S!vars) => SharedIInv'
  <2>1. ASSUME SharedIInv, UNCHANGED S!vars PROVE SharedIInv'
    BY <2>1 DEF S!vars, S!files, S!coordinator, SharedIInv, SharedTyped, Held, Working, TakenBack, Served
  <2> QED
    BY <2>1, NextTyped, NextHeld, NextWorking, NextTakenBack, NextServed DEF SharedIInv
<1> QED
  BY <1>1, <1>2, PTL DEF S!Spec

\* A placeholder in auth.json always has a coordinator that listens for it, until a
\* process dies or could not write the file, whichever roots have the proxy off.
THEOREM PlaceholderServed == ASSUME S!SharedProxyAssumption PROVE S!Spec => []S!PlaceholderIsServed
<1>1. SharedIInv => S!PlaceholderIsServed
  BY DEF SharedIInv, Served, S!PlaceholderIsServed
<1> QED
  BY <1>1, AlwaysServed, PTL

-----------------------------------------------------------------------------
(* Where no root has the proxy off.                                         *)

LEMMA OnePublishes ==
  ASSUME SharedInv, NEW r \in Root, server[Home[r]], Home[r] \in Proc, NEW p \in Proc, sharedRoutes[p]
  PROVE  p = Home[r]
BY DEF SharedInv, SharedIInv, Held, Published

LEMMA NextPublished ==
  ASSUME S!SharedProxyAssumption, Off = {}, SharedInv, S!Next
  PROVE  Published' /\ NoSweep'
<1> DEFINE Good(p) == /\ server'[p] /\ (auth' = "placeholder" \/ Contended)
                      /\ models' = "loopback" \/ \E v \in S!At(p) : pc'[v] = "provision"
                      /\ \A v \in S!At(p) : pc'[v] \notin Leaving
           Fine == (\A p \in Proc : sharedRoutes'[p] => Good(p)) /\ \A v \in Root : pc'[v] \notin Sweeping
<1> SUFFICES Fine
  BY DEF Published, NoSweep
<1>1. /\ SharedIInv /\ SharedTyped /\ Working /\ Nobody \notin Root /\ \A r \in Root : Home[r] \in Proc
      /\ \A v \in Root : pc[v] \notin Sweeping
  BY DEF SharedInv, SharedIInv, S!SharedProxyAssumption, NoSweep
<1>2. /\ pc \in [Root -> Stages] /\ busy \in [Proc -> Root \cup {Nobody}]
      /\ server \in [Proc -> BOOLEAN] /\ sharedRoutes \in [Proc -> BOOLEAN]
  BY <1>1 DEF SharedTyped
<1>3. ASSUME NEW p \in Proc, sharedRoutes[p]
      PROVE  /\ server[p] /\ (auth = "placeholder" \/ Contended)
             /\ models = "loopback" \/ \E v \in S!At(p) : pc[v] = "provision"
             /\ \A v \in S!At(p) : pc[v] \notin Leaving
  BY <1>3 DEF SharedInv, Published
<1>4. ASSUME NEW r \in Root, Rests(r) PROVE Fine
  <2>1. ASSUME NEW v \in Root
        PROVE  /\ pc[v] = "provision" => pc'[v] = "provision"
               /\ pc'[v] \in Leaving => pc[v] \in Leaving
               /\ pc'[v] \notin Sweeping
    BY <1>1, <1>2, <1>4 DEF Rests, Holding, Leaving
  <2>2. UNCHANGED <<auth, models, server>> /\ \A p \in Proc : sharedRoutes'[p] => sharedRoutes[p]
    BY <1>4 DEF Rests, S!files
  <2> QED
    BY <1>3, <2>1, <2>2 DEF S!At
<1>5. ASSUME NEW r \in Root, Claims(Home[r]) PROVE Fine
  <2>1. UNCHANGED <<auth, models, sharedRoutes, pc>> /\ \A p \in Proc : server[p] => server'[p]
    BY <1>2, <1>5 DEF Claims, S!files
  <2> QED
    BY <1>1, <1>3, <2>1
<1>6. ASSUME NEW r \in Root, Publishes(r) PROVE Fine
  <2>1. /\ server[Home[r]] /\ busy[Home[r]] = Nobody /\ server' = server /\ models' = models
        /\ pc' = [pc EXCEPT ![r] = "provision"] /\ sharedRoutes' = [sharedRoutes EXCEPT ![Home[r]] = TRUE]
    BY <1>6 DEF Publishes
  <2>2. auth' = "placeholder" \/ Contended
    BY <1>6 DEF Publishes, S!Write
  <2>3. ASSUME NEW p \in Proc, sharedRoutes'[p] PROVE p = Home[r]
    BY <1>1, <1>2, <2>1, <2>3, OnePublishes
  <2>4. \A v \in S!At(Home[r]) : pc[v] \notin Leaving
    BY <1>1, <2>1 DEF Working, Leaving, Holding, S!At
  <2>5. \A v \in Root : pc'[v] \notin Sweeping
    BY <1>1, <1>2, <2>1 DEF Sweeping
  <2>6. Good(Home[r])
    BY <1>1, <1>2, <2>1, <2>2, <2>4 DEF S!At, Leaving
  <2> QED
    BY <2>3, <2>5, <2>6
<1>7. ASSUME NEW r \in Root, Hides(r) PROVE Fine
  <2>1. UNCHANGED <<models, server, sharedRoutes, pc>> /\ (auth' = "placeholder" \/ auth' = auth)
    BY <1>7 DEF Hides, S!Write
  <2> QED
    BY <1>1, <1>3, <2>1
<1>8. ASSUME NEW r \in Root, Withdraws(r) \/ Leaves(r) PROVE Fine
  <2>1. /\ server[Home[r]] /\ sharedRoutes' = [sharedRoutes EXCEPT ![Home[r]] = FALSE]
        /\ \E s \in {"live", "restore"} : pc' = [pc EXCEPT ![r] = s]
    BY <1>8 DEF Withdraws, Leaves
  <2>2. \A p \in Proc : ~sharedRoutes'[p]
    BY <1>1, <1>2, <2>1, OnePublishes
  <2> QED
    BY <1>1, <1>2, <2>1, <2>2 DEF Sweeping
<1>9. ASSUME NEW r \in Root, S!Provision(r) PROVE Fine
  <2>1. /\ pc' = [pc EXCEPT ![r] = "live"] /\ models' = "loopback" /\ UNCHANGED <<auth, server, sharedRoutes>>
    BY <1>9 DEF S!Provision
  <2> QED
    BY <1>1, <1>2, <1>3, <2>1 DEF S!At, Leaving, Sweeping
<1>10. ASSUME NEW r \in Root, S!Restore(r) \/ S!Unprovision(r) \/ S!Release(r) PROVE Fine
  <2>1. /\ pc[r] \in Leaving /\ sharedRoutes' = sharedRoutes
        /\ \E s \in {"unprovision", "release", "gone"} : pc' = [pc EXCEPT ![r] = s]
    BY <1>10 DEF S!Restore, S!Unprovision, S!Release, S!coordinator, Leaving
  <2>2. server[Home[r]]
    BY <1>1, <2>1 DEF Working, Leaving, Holding
  <2>3. ~sharedRoutes[Home[r]]
    BY <1>1, <1>3, <2>1 DEF S!At
  <2>4. \A p \in Proc : ~sharedRoutes[p]
    BY <1>1, <2>2, <2>3, OnePublishes
  <2> QED
    BY <1>1, <1>2, <2>1, <2>4 DEF Sweeping
<1>11. ASSUME NEW r \in Root, S!Sweep(r) \/ S!SweepAuth(r) \/ Cleans(r) PROVE Fine
  BY <1>1, <1>11 DEF S!Sweep, S!SweepAuth, Cleans, Sweeping
<1>12. CASE S!CredentialsChange
  <2>1. UNCHANGED <<auth, models, server, sharedRoutes, pc>>
    BY <1>12 DEF S!CredentialsChange, S!files, S!coordinator
  <2> QED
    BY <1>1, <1>3, <2>1
<1>13. ASSUME NEW q \in Proc, S!Crash(q) PROVE Fine
  <2>1. /\ UNCHANGED <<auth, models>> /\ sharedRoutes' = [sharedRoutes EXCEPT ![q] = FALSE]
        /\ server' = [server EXCEPT ![q] = FALSE]
        /\ \A v \in Root : pc'[v] = (IF Home[v] = q THEN "gone" ELSE pc[v])
    BY <1>13 DEF S!Crash, S!At
  <2> QED
    BY <1>1, <1>2, <1>3, <2>1 DEF S!At, Sweeping
<1> HIDE DEF Fine
<1> QED
  BY <1>1, <1>4, <1>5, <1>6, <1>7, <1>8, <1>9, <1>10, <1>11, <1>12, <1>13, StepKinds

\* Where no root has the proxy off, what is published is in both files, and nobody
\* sweeps them.
THEOREM AlwaysPublished == ASSUME S!SharedProxyAssumption, Off = {} PROVE S!Spec => []SharedInv
<1>1. SharedInv /\ [S!Next]_(S!vars) => SharedInv'
  <2>1. ASSUME SharedInv, UNCHANGED S!vars PROVE SharedInv'
    BY <2>1 DEF S!vars, S!files, S!coordinator, SharedInv, SharedIInv, SharedTyped, Held, Working, TakenBack, Served,
                Published, NoSweep
  <2>2. ASSUME SharedInv, S!Next PROVE SharedInv'
    BY <2>2, NextTyped, NextHeld, NextWorking, NextTakenBack, NextServed, NextPublished
       DEF SharedInv, SharedIInv
  <2> QED
    BY <2>1, <2>2
<1> QED
  BY InitInv, <1>1, PTL DEF S!Spec

\* What a listening process published stays published, whichever of its roots leave
\* and whatever roots of other processes start, leave or die.
THEOREM PublicationKept == ASSUME S!SharedProxyAssumption, Off = {} PROVE S!Spec => []S!PublicationStands
<1>1. SharedInv => S!PublicationStands
  <2> SUFFICES ASSUME SharedInv, NEW p \in Proc, S!Idle(p), sharedRoutes[p]
               PROVE  models = "loopback" /\ (auth = "placeholder" \/ Contended)
    BY DEF S!PublicationStands
  <2>1. \A v \in S!At(p) : pc[v] # "provision"
    BY DEF S!Idle, SharedInv, SharedIInv, Working, Holding, S!At, S!SharedProxyAssumption
  <2> QED
    BY <2>1 DEF SharedInv, Published
<1> QED
  BY <1>1, AlwaysPublished, PTL

-----------------------------------------------------------------------------
(* The port is a lease on the files.                                        *)

\* Who writes, or has listened, holds the port.
LEMMA Holds ==
  ASSUME S!SharedProxyAssumption, SharedIInv, NEW r \in Root, server[Home[r]] \/ pc[r] \in Holding
  PROVE  holder = Home[r] /\ Home[r] \in Proc
BY DEF SharedIInv, Held, Working, S!SharedProxyAssumption

\* A step that changes auth.json or models.json is a step of the process that holds
\* the port.
THEOREM HolderWrites == ASSUME S!SharedProxyAssumption, Off = {} PROVE S!Spec => S!OnlyHolderWrites
<1>1. SharedInv /\ [S!Next]_(S!vars) => [S!OnlyHolderWritesStep]_(S!vars)
  <2> SUFFICES ASSUME SharedInv, S!Next, auth' # auth \/ models' # models, NEW v \in Root, pc'[v] # pc[v]
               PROVE  Home[v] = holder
    BY DEF S!OnlyHolderWritesStep
  <2>1. SharedIInv /\ SharedTyped /\ Working /\ NoSweep /\ pc \in [Root -> Stages]
    BY DEF SharedInv, SharedIInv, SharedTyped
  <2>2. ASSUME NEW r \in Root, Publishes(r) \/ Withdraws(r) \/ S!Provision(r) \/ S!Restore(r) \/ S!Unprovision(r)
        PROVE  Home[v] = holder
    <3>1. (server[Home[r]] \/ pc[r] \in Holding) /\ \E s \in Stages : pc' = [pc EXCEPT ![r] = s]
      BY <2>2 DEF Publishes, Withdraws, S!Provision, S!Restore, S!Unprovision, Holding, Stages
    <3>2. v = r
      BY <2>1, <3>1
    <3> QED
      BY <2>1, <3>1, <3>2, Holds
  <2>3. ASSUME NEW r \in Root, \/ Rests(r) \/ Claims(Home[r]) \/ Hides(r) \/ Leaves(r) \/ Cleans(r)
                               \/ S!Release(r) \/ S!Sweep(r) \/ S!SweepAuth(r)
        PROVE  FALSE
    BY <2>1, <2>3 DEF Rests, Claims, Hides, Leaves, Cleans, S!Release, S!Sweep, S!SweepAuth, S!files,
                      NoSweep, Sweeping
  <2>4. ~S!CredentialsChange /\ \A p \in Proc : ~S!Crash(p)
    BY DEF S!CredentialsChange, S!Crash, S!files
  <2> QED
    BY <2>1, <2>2, <2>3, <2>4, StepKinds
<1> QED
  BY <1>1, AlwaysPublished, PTL DEF S!Spec, S!OnlyHolderWrites

\* The same as a refinement: the protocol of the coordinators is the lease of the port
\* on the files, in every step.
THEOREM RespectsLease == ASSUME S!SharedProxyAssumption, Off = {} PROVE S!Spec => S!LeaseRespected
<1>1. S!Init => S!Lease!Init
  BY DEF S!Init, S!Lease!Init
<1>2. SharedInv /\ [S!Next]_(S!vars) => [S!Lease!Next]_(S!Lease!vars)
  <2> DEFINE Still == UNCHANGED <<holder, auth, models, left>>
  <2>1. Still => UNCHANGED S!Lease!vars
    BY DEF S!Lease!vars
  <2>2. UNCHANGED S!vars => Still
    BY DEF S!vars, S!files
  <2> SUFFICES ASSUME SharedInv, S!Next PROVE S!Lease!Next \/ Still
    BY <2>1, <2>2
  <2>3. SharedIInv /\ SharedTyped /\ Working /\ TakenBack /\ NoSweep /\ \A r \in Root : Home[r] \in Proc
    BY DEF SharedInv, SharedIInv, S!SharedProxyAssumption
  <2>4. ASSUME NEW r \in Root, Rests(r) \/ Leaves(r) PROVE Still
    BY <2>4 DEF Rests, Leaves, S!files
  <2>5. ASSUME NEW r \in Root, Claims(Home[r]) PROVE S!Lease!Next
    <3>1. S!Lease!Claim(Home[r])
      BY <2>5 DEF Claims, S!files, S!Lease!Claim
    <3> QED
      BY <2>3, <3>1 DEF S!Lease!Next
  <2>6. ASSUME NEW r \in Root, Publishes(r) \/ Hides(r) PROVE S!Lease!Next \/ Still
    <3>1. holder = Home[r] /\ holder' = holder /\ models' = models /\ S!Write("placeholder")
      BY <2>3, <2>6, Holds DEF Publishes, Hides
    <3>2. \/ auth' = "placeholder" /\ left' = left
          \/ auth' = auth /\ left' = left
      BY <2>3, <3>1 DEF S!Write, SharedTyped
    <3>3. CASE auth' = "placeholder" /\ left' = left
      <4>1. S!Lease!Hide(Home[r])
        BY <3>1, <3>3 DEF S!Lease!Hide
      <4> QED
        BY <2>3, <4>1 DEF S!Lease!Next
    <3> QED
      BY <3>1, <3>2, <3>3
  <2>7. ASSUME NEW r \in Root, Withdraws(r) \/ S!Unprovision(r) PROVE S!Lease!Next
    <3>1. holder = Home[r] /\ models' = "none" /\ UNCHANGED <<holder, auth, left>>
      BY <2>3, <2>7, Holds DEF Withdraws, S!Unprovision, Holding
    <3>2. S!Lease!Unroute(Home[r])
      BY <3>1 DEF S!Lease!Unroute
    <3> QED
      BY <2>3, <3>2 DEF S!Lease!Next
  <2>8. ASSUME NEW r \in Root, S!Provision(r) PROVE S!Lease!Next
    <3>1. holder = Home[r] /\ models' = "loopback" /\ UNCHANGED <<holder, auth, left>>
      BY <2>3, <2>8, Holds DEF S!Provision, Holding
    <3>2. S!Lease!Route(Home[r])
      BY <3>1 DEF S!Lease!Route
    <3> QED
      BY <2>3, <3>2 DEF S!Lease!Next
  <2>9. ASSUME NEW r \in Root, S!Restore(r) PROVE S!Lease!Next \/ Still
    <3>1. holder = Home[r] /\ holder' = holder /\ models' = models /\ S!Write("oauth")
      BY <2>3, <2>9, Holds DEF S!Restore, Holding
    <3>2. \/ auth' = "oauth" /\ ~left'
          \/ auth' = auth /\ left' = TRUE
          \/ auth' = auth /\ left' = left
      BY <2>3, <3>1 DEF S!Write, SharedTyped
    <3>3. CASE auth' = "oauth" /\ ~left'
      <4>1. S!Lease!Reveal(Home[r])
        BY <3>1, <3>3 DEF S!Lease!Reveal
      <4> QED
        BY <2>3, <4>1 DEF S!Lease!Next
    <3>4. CASE auth' = auth /\ left' = TRUE
      <4>1. S!Lease!Defer(Home[r])
        BY <3>1, <3>4 DEF S!Lease!Defer
      <4> QED
        BY <2>3, <4>1 DEF S!Lease!Next
    <3> QED
      BY <3>1, <3>2, <3>3, <3>4
  <2>10. ASSUME NEW r \in Root, S!Release(r) PROVE S!Lease!Next
    <3>1. pc[r] = "release" /\ server[Home[r]]
      BY <2>3, <2>10 DEF S!Release, Working, Holding
    <3>2. holder = Home[r] /\ holder' = Nobody /\ UNCHANGED <<auth, models, left>>
      BY <2>3, <2>10, <3>1, Holds DEF S!Release, S!files
    <3>3. models = "none" /\ (auth = "oauth" \/ left)
      BY <2>3, <3>1 DEF TakenBack
    <3>4. S!Lease!Release(Home[r])
      BY <3>2, <3>3 DEF S!Lease!Release
    <3> QED
      BY <2>3, <3>4 DEF S!Lease!Next
  <2>11. ASSUME NEW r \in Root, S!Sweep(r) \/ S!SweepAuth(r) \/ Cleans(r) PROVE FALSE
    BY <2>3, <2>11 DEF S!Sweep, S!SweepAuth, Cleans, NoSweep, Sweeping
  <2>12. CASE S!CredentialsChange
    BY <2>12 DEF S!CredentialsChange, S!files
  <2>13. ASSUME NEW p \in Proc, S!Crash(p) PROVE S!Lease!Next \/ Still
    <3>1. /\ UNCHANGED <<auth, models>> /\ holder' = (IF holder = p THEN Nobody ELSE holder)
          /\ left' = (left \/ (holder = p /\ (auth = "placeholder" \/ models = "loopback")))
      BY <2>13 DEF S!Crash
    <3>2. CASE holder = p
      <4>1. S!Lease!Die(p)
        BY <3>1, <3>2 DEF S!Lease!Die
      <4> QED
        BY <4>1 DEF S!Lease!Next
    <3>3. CASE holder # p
      BY <2>3, <3>1, <3>3 DEF SharedTyped
    <3> QED
      BY <3>2, <3>3
  <2> HIDE DEF Still
  <2> QED
    BY <2>3, <2>4, <2>5, <2>6, <2>7, <2>8, <2>9, <2>10, <2>11, <2>12, <2>13, StepKinds
<1> QED
  BY <1>1, <1>2, InitInv, AlwaysPublished, PTL DEF S!Spec, S!LeaseRespected, S!Lease!Spec
=============================================================================
