----------------------------- MODULE ProxyRequest -----------------------------
(***************************************************************************)
(* One request to the parent-owned proxy, from its arrival to its end:     *)
(* admission, the credential (refreshed first when it is about to expire), *)
(* the upstream request that carries it, and the answer streamed back,     *)
(* while the stored credentials change and the caller may hang up at any   *)
(* wait.  And what a child without the extension can make of a slot.       *)
(*                                                                         *)
(* Abstractions: a path is its slot and the kind of endpoint it names; a   *)
(* secret is the placeholder, a token (its slot, its version) or a string  *)
(* of a stranger; bodies and the other headers are left out.               *)
(***************************************************************************)
EXTENDS Naturals, FiniteSets

CONSTANTS
  Slot,        \* slot ids
  Family,      \* the family of each: "anthropic", "codex", "openai" or "other"
  Builtin,     \* the slots Pi itself defines (base anthropic)
  MaxVersion,  \* how often a credential may be replaced
  MaxRequests  \* how many requests follow one another

ProxyRequestAssumption ==
  /\ Family \in [Slot -> {"anthropic", "codex", "openai", "other"}]
  /\ Builtin \subseteq Slot /\ MaxVersion \in Nat /\ MaxRequests \in Nat

Endpoints == {"messages", "responses", "images", "climbs"}
Paths == [slot : Slot, rest : Endpoints]
NoEntry == [type |-> "none", version |-> 0, expiring |-> FALSE, access |-> FALSE, direct |-> FALSE]
Placeholder == [kind |-> "placeholder"]
Stranger == [kind |-> "stranger"]
Nothing == [kind |-> "nothing"]
Token(p, v) == [kind |-> "token", of |-> p, version |-> v]
Presentable(p) ==
  {Placeholder, Stranger, Nothing} \cup {Token(p, v) : v \in 0 .. MaxVersion}

VARIABLES
  store,     \* what the parent reads for each slot (auth.json with the side file)
  routes,    \* the published slots
  phase,     \* where the handler is
  req,       \* the request
  entry,     \* the credential the handler has read
  refreshed, \* how the refresh for this request ended
  upstream,  \* the request sent upstream: its state, endpoint and secret
  answer,    \* the status written to the caller
  caller,    \* "open", or "gone" once it hung up
  newest,    \* history: the version in the store at admission
  versions, requests

vars == <<store, routes, phase, req, entry, refreshed, upstream, answer, caller,
          newest, versions, requests>>

NoUpstream == [state |-> "none"]
Entries(p, v) ==
  [type : {"oauth"}, version : {v}, expiring : BOOLEAN, access : BOOLEAN, direct : BOOLEAN]
    \cup [type : {"api_key"}, version : {v}, expiring : {FALSE}, access : BOOLEAN, direct : {FALSE}]
    \cup {NoEntry}

Init ==
  /\ store \in {f \in [Slot -> UNION {Entries(p, 0) : p \in Slot}] :
                  \A p \in Slot : f[p].type = "oauth" => (f[p].direct <=> Family[p] = "openai")}
  /\ routes = {p \in Slot : Family[p] # "other"}
  /\ phase = "idle" /\ req \in [path : [slot : Slot, rest : {"climbs"}], secret : {Nothing}, upgrade : {FALSE}]
  /\ entry = NoEntry /\ refreshed = "no" /\ upstream = NoUpstream
  /\ answer = 0 /\ caller = "gone" /\ newest = 0 /\ versions = 0 /\ requests = 0

-----------------------------------------------------------------------------
(* The two gates.                                                          *)

\* A path that climbs out of its slot, or names none, is no route.
parseProxyPath(path) == path.rest # "climbs"

\* The secret the store holds for a slot now.
presentedSecret(p) ==
  IF store[p].type # "none" /\ store[p].access THEN {Token(p, store[p].version)} ELSE {}

\* Mutant of admitRequest: only the placeholder opens the second gate.
AdmitPlaceholder(r) ==
  IF ~parseProxyPath(r.path) \/ r.path.slot \notin routes THEN 404
  ELSE IF r.secret = Placeholder THEN 200 ELSE 401

\* Mutant of admitRequest: any secret opens the second gate.
AdmitAnyone(r) ==
  IF ~parseProxyPath(r.path) \/ r.path.slot \notin routes THEN 404
  ELSE IF r.secret # Nothing THEN 200 ELSE 401

\* The slot must be published, and the caller must present the published
\* placeholder or the slot's current secret.
admitRequest(r) ==
  IF ~parseProxyPath(r.path) \/ r.path.slot \notin routes THEN 404
  ELSE IF r.secret \in {Placeholder} \cup presentedSecret(r.path.slot) THEN 200
  ELSE 401

-----------------------------------------------------------------------------
(* The upstream request.                                                   *)

\* Codex images live under /codex.
upstreamRest(p, rest) ==
  IF Family[p] = "codex" /\ rest = "images" THEN "codex/images" ELSE rest

\* The status with which a request is refused for want of a credential.
\* A ChatGPT subscription serves native Responses, with its direct grant.
refusal(p, rest, cred) ==
  IF cred.type = "none" THEN 401
  ELSE IF Family[p] = "openai" /\ rest # "responses" THEN 404
  ELSE IF Family[p] = "openai" /\ ~(cred.type = "oauth" /\ cred.access /\ cred.direct) THEN 401
  ELSE IF ~cred.access THEN 401
  ELSE 200

\* Mutant of shapeUpstreamRequest: the caller's own secret is forwarded.
ShapeForwarding(p, rest, cred) ==
  [state |-> "sent", rest |-> upstreamRest(p, rest), secret |-> req.secret]

\* The secret is the stored one; what the caller presented is dropped.
shapeUpstreamRequest(p, rest, cred) ==
  [state |-> "sent", rest |-> upstreamRest(p, rest), secret |-> Token(p, cred.version)]

-----------------------------------------------------------------------------
(* handleProxyRequest.                                                     *)

Arrive ==
  /\ phase = "idle" /\ requests < MaxRequests /\ requests' = requests + 1
  /\ phase' = "arrived" /\ caller' = "open" /\ answer' = 0
  /\ \E path \in Paths, up \in BOOLEAN : \E s \in Presentable(path.slot) :
       req' = [path |-> path, secret |-> s, upgrade |-> up]
  /\ entry' = NoEntry /\ refreshed' = "no" /\ upstream' = NoUpstream
  /\ UNCHANGED <<store, routes, newest, versions>>

Refuse(status) ==
  /\ answer' = status /\ phase' = "idle"
  /\ UNCHANGED <<store, routes, req, upstream, caller, versions, requests>>

\* Mutant of Admit: a token about to expire is taken as it is.
AdmitStale ==
  /\ phase = "arrived"
  /\ IF req.upgrade THEN Refuse(501) /\ UNCHANGED <<entry, refreshed, newest>>
     ELSE IF admitRequest(req) # 200
     THEN Refuse(admitRequest(req)) /\ UNCHANGED <<entry, refreshed, newest>>
     ELSE /\ entry' = store[req.path.slot] /\ phase' = "shaping"
          /\ newest' = entry'.version
          /\ UNCHANGED <<store, routes, req, refreshed, upstream, answer, caller, versions, requests>>

\* The gates, and credentialForProxy up to its wait: a token with less than
\* a minute to go is refreshed first.
Admit ==
  /\ phase = "arrived"
  /\ IF req.upgrade THEN Refuse(501) /\ UNCHANGED <<entry, refreshed, newest>>
     ELSE IF admitRequest(req) # 200
     THEN Refuse(admitRequest(req)) /\ UNCHANGED <<entry, refreshed, newest>>
     ELSE LET e == store[req.path.slot] IN
          /\ entry' = e
          /\ newest' = e.version
          /\ phase' = IF e.access /\ e.expiring THEN "refreshing" ELSE "shaping"
          /\ UNCHANGED <<store, routes, req, refreshed, upstream, answer, caller, versions, requests>>

\* A credential with the next token.
Renewed(e, v) == [e EXCEPT !.version = v, !.expiring = FALSE]

\* Mutant of RefreshOk: the token read before the refresh goes out.
RefreshUnread ==
  LET p == req.path.slot IN
  /\ phase = "refreshing" /\ phase' = "shaping"
  /\ refreshed' = IF store[p].type = "none" THEN "vanished" ELSE "ok"
  /\ IF store[p].expiring /\ versions < MaxVersion
     THEN /\ store' = [store EXCEPT ![p] = Renewed(@, versions + 1)]
          /\ versions' = versions + 1
     ELSE UNCHANGED <<store, versions>>
  /\ UNCHANGED <<routes, req, entry, upstream, answer, caller, newest, requests>>

\* The refresh succeeded (or another window had refreshed already): the
\* credential is read again; a slot logged out meanwhile keeps the old read.
RefreshOk ==
  LET p == req.path.slot IN
  /\ phase = "refreshing" /\ phase' = "shaping"
  /\ refreshed' = IF store[p].type = "none" THEN "vanished" ELSE "ok"
  /\ \/ /\ store[p].expiring /\ versions < MaxVersion
        /\ store' = [store EXCEPT ![p] = Renewed(@, versions + 1)]
        /\ versions' = versions + 1
     \/ /\ ~store[p].expiring
        /\ UNCHANGED <<store, versions>>
  /\ entry' = IF store'[p].type = "none" THEN entry ELSE store'[p]
  /\ UNCHANGED <<routes, req, upstream, answer, caller, newest, requests>>

\* A refresh that fails is logged, and the credential at hand is used.
RefreshFails ==
  /\ phase = "refreshing" /\ phase' = "shaping" /\ refreshed' = "failed"
  /\ UNCHANGED <<store, routes, req, entry, upstream, answer, caller, newest, versions, requests>>

Shape ==
  LET status == refusal(req.path.slot, req.path.rest, entry) IN
  /\ phase = "shaping"
  /\ IF status # 200 THEN Refuse(status)
     ELSE phase' = "reading"
          /\ UNCHANGED <<store, routes, req, upstream, answer, caller, versions, requests>>
  /\ UNCHANGED <<entry, refreshed, newest>>

\* Mutant of Fetch: nobody looks whether the caller is still there.
FetchRegardless ==
  /\ phase = "reading"
  /\ upstream' = shapeUpstreamRequest(req.path.slot, req.path.rest, entry) /\ phase' = "waiting"
  /\ UNCHANGED <<store, routes, req, entry, refreshed, answer, caller, newest, versions, requests>>

\* The body has been read; a caller that left meanwhile ends the request.
Fetch ==
  /\ phase = "reading"
  /\ IF caller = "gone" THEN phase' = "idle" /\ UNCHANGED upstream
     ELSE upstream' = shapeUpstreamRequest(req.path.slot, req.path.rest, entry) /\ phase' = "waiting"
  /\ UNCHANGED <<store, routes, req, entry, refreshed, answer, caller, newest, versions, requests>>

\* The body of a native ChatGPT request is no JSON object.
BadBody ==
  /\ phase = "reading" /\ caller = "open" /\ Family[req.path.slot] = "openai"
  /\ Refuse(400) /\ UNCHANGED <<entry, refreshed, newest>>

Headers ==
  /\ phase = "waiting" /\ upstream.state = "sent"
  /\ phase' = "streaming" /\ answer' = 200
  /\ upstream' = [upstream EXCEPT !.state = "streaming"]
  /\ UNCHANGED <<store, routes, req, entry, refreshed, caller, newest, versions, requests>>

\* Mutant of Unreachable: the status is one the callers do not know.
UnreachableAs500 ==
  /\ phase = "waiting" /\ upstream.state = "sent"
  /\ phase' = "idle" /\ answer' = 500 /\ upstream' = [upstream EXCEPT !.state = "failed"]
  /\ UNCHANGED <<store, routes, req, entry, refreshed, caller, newest, versions, requests>>

\* Mutant of Unreachable: the failure is only logged.
UnreachableSilently ==
  /\ phase = "waiting" /\ upstream.state = "sent"
  /\ phase' = "idle" /\ upstream' = [upstream EXCEPT !.state = "failed"]
  /\ UNCHANGED <<store, routes, req, entry, refreshed, answer, caller, newest, versions, requests>>

\* The upstream cannot be reached: 502.
Unreachable ==
  /\ phase = "waiting" /\ upstream.state = "sent"
  /\ phase' = "idle" /\ answer' = 502 /\ upstream' = [upstream EXCEPT !.state = "failed"]
  /\ UNCHANGED <<store, routes, req, entry, refreshed, caller, newest, versions, requests>>

\* The stream ends, or breaks and takes the caller's connection along.
StreamEnds ==
  /\ phase = "streaming" /\ upstream.state = "streaming" /\ phase' = "idle"
  /\ \/ upstream' = [upstream EXCEPT !.state = "done"] /\ UNCHANGED caller
     \/ upstream' = [upstream EXCEPT !.state = "failed"] /\ caller' = "gone"
  /\ UNCHANGED <<store, routes, req, entry, refreshed, answer, newest, versions, requests>>

\* An aborted fetch rejects, and the handler returns without an answer.
Aborted ==
  /\ phase \in {"waiting", "streaming"} /\ upstream.state = "aborted" /\ phase' = "idle"
  /\ UNCHANGED <<store, routes, req, entry, refreshed, upstream, answer, caller, newest, versions, requests>>

\* Mutant of HangUp: the upstream request is left to run.
HangUpQuietly ==
  /\ caller = "open" /\ phase # "idle" /\ caller' = "gone"
  /\ UNCHANGED <<store, routes, phase, req, entry, refreshed, upstream, answer, newest, versions, requests>>

\* The caller hangs up: whatever is under way upstream is aborted.
HangUp ==
  /\ caller = "open" /\ phase # "idle" /\ caller' = "gone"
  /\ upstream' = IF upstream.state \in {"sent", "streaming"}
                 THEN [upstream EXCEPT !.state = "aborted"] ELSE upstream
  /\ UNCHANGED <<store, routes, phase, req, entry, refreshed, answer, newest, versions, requests>>

-----------------------------------------------------------------------------
(* Meanwhile.                                                              *)

\* Another window refreshes, the user logs in or out.
StoreChanges ==
  /\ versions < MaxVersion /\ versions' = versions + 1
  /\ \E p \in Slot :
     \E e \in {x \in Entries(p, versions + 1) : x.type # "oauth" \/ (x.direct <=> Family[p] = "openai")} :
       store' = [store EXCEPT ![p] = e]
  /\ UNCHANGED <<routes, phase, req, entry, refreshed, upstream, answer, caller, newest, requests>>

\* The publication is taken back.
Withdraw ==
  /\ routes # {} /\ routes' = {}
  /\ UNCHANGED <<store, phase, req, entry, refreshed, upstream, answer, caller, newest, versions, requests>>

Handler ==
  \/ Admit \/ RefreshOk \/ RefreshFails \/ Shape \/ Fetch \/ BadBody
  \/ Headers \/ Unreachable \/ StreamEnds \/ Aborted

Next == Arrive \/ Handler \/ HangUp \/ StoreChanges \/ Withdraw

Spec == Init /\ [][Next]_vars

\* The refresh, the fetch and the stream all have their time limits or end.
Fairness == WF_vars(Handler)
FairSpec == Spec /\ Fairness

-----------------------------------------------------------------------------
(* What a child without the extension can make of a slot.                  *)

\* What auth.json shows of a slot while its route is published: a numbered
\* slot's OAuth credential is behind the placeholder, a built-in's is not.
Shown(p) ==
  CASE store[p].type = "none" -> "none"
    [] store[p].type = "api_key" -> "api_key"
    [] store[p].type = "oauth" /\ (p \in Builtin \/ p \notin routes) -> "oauth"
    [] OTHER -> "placeholder"

\* Built in, on a subscription: the vendor refuses a bare client.
vendorRefusesBareChild(p, shown) ==
  p \in Builtin /\ Family[p] = "anthropic" /\ shown = "oauth"

\* Through what a bare child can use the slot, if at all.  The route is
\* published exactly while the slot is in routes.
classifyChildUsability(p) ==
  LET shown == Shown(p) IN
  IF p \in Builtin /\ ~vendorRefusesBareChild(p, shown) THEN "builtin"
  ELSE IF vendorRefusesBareChild(p, shown) THEN IF p \in routes THEN "parent-proxy" ELSE "unusable"
  ELSE IF shown \in {"api_key", "placeholder"}
       THEN IF p \in routes /\ shown = "placeholder" THEN "parent-proxy" ELSE "api-key"
  ELSE "unusable"

\* Pi's own resolver: the stored credential comes first, an OAuth one only
\* for a provider that declares the flow.
ChildPresents(p) ==
  CASE Shown(p) = "placeholder" -> Placeholder
    [] Shown(p) = "api_key" \/ (Shown(p) = "oauth" /\ p \in Builtin) -> Token(p, store[p].version)
    [] OTHER -> Nothing

-----------------------------------------------------------------------------
(* Properties.                                                             *)

TypeOK ==
  /\ store \in [Slot -> UNION {Entries(p, v) : p \in Slot, v \in 0 .. MaxVersion}]
  /\ routes \subseteq Slot
  /\ phase \in {"idle", "arrived", "refreshing", "shaping", "reading", "waiting", "streaming"}
  /\ req.path \in Paths /\ req.upgrade \in BOOLEAN
  /\ entry \in UNION {Entries(p, v) : p \in Slot, v \in 0 .. MaxVersion}
  /\ refreshed \in {"no", "ok", "failed", "vanished"}
  /\ upstream.state \in {"none", "sent", "streaming", "done", "failed", "aborted"}
  /\ answer \in {0, 200, 400, 401, 404, 501, 502} /\ caller \in {"open", "gone"}
  /\ newest \in 0 .. MaxVersion /\ versions \in 0 .. MaxVersion /\ requests \in 0 .. MaxRequests

Sent == upstream.state # "none"

\* "The placeholder is never forwarded": what goes upstream is a secret the
\* parent holds for the very slot the caller named, and none older than the
\* one it held when the request was let in.
OwnSecretLeaves ==
  Sent => /\ upstream.secret \in {Token(req.path.slot, v) : v \in newest .. MaxVersion}
          /\ req.secret.kind \in {"placeholder", "token"}

\* "The newly persisted token, not the expired one, reaches upstream": a
\* token about to expire is forwarded only after a refresh that failed, or
\* when the slot has been logged out meanwhile.
FreshTokenLeaves ==
  Sent /\ entry.expiring =>
    refreshed \in {"failed", "vanished"}

\* No upstream request outlives its caller: none is started for a caller
\* that has gone, and the one under way is aborted as it goes.
NoOrphanRequest == upstream.state \in {"sent", "streaming"} => caller = "open"

\* A bare child that is told a slot is usable through the parent is let in.
UsableMeansAdmitted ==
  \A p \in Slot : classifyChildUsability(p) = "parent-proxy" /\ store[p].access =>
    admitRequest([path |-> [slot |-> p, rest |-> "messages"],
                  secret |-> ChildPresents(p), upgrade |-> FALSE]) = 200

\* What leaves with a request is the current secret of the slot it names; it
\* was admitted before, and nothing upstream outlives the caller.
RightSecretLeaves ==
  /\ TypeOK
  /\ OwnSecretLeaves /\ FreshTokenLeaves
  /\ NoOrphanRequest /\ UsableMeansAdmitted

\* Every request is answered, unless its caller leaves.
EveryRequestAnswered == phase = "arrived" ~> (phase = "idle" /\ (answer # 0 \/ caller = "gone"))
=============================================================================
