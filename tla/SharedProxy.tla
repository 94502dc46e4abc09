----------------------------- MODULE SharedProxy -----------------------------
(***************************************************************************)
(* The parent-owned child proxy: the roots (activations of the extension)  *)
(* of each Pi process share one listener on the canonical loopback port,   *)
(* and the process that holds the port publishes the accounts in auth.json *)
(* (a placeholder for the OAuth credential, which moves to a side file)    *)
(* and models.json (a route to the port).  The coordinator of a process    *)
(* lives in its memory; the port and the two files are the machine's.      *)
(*                                                                         *)
(* A process runs one piece of code at a time, but two processes run at    *)
(* once: the writes to the two files and the closing of the port are steps *)
(* of their own, and busy keeps the other roots of the same process out.   *)
(* Callbacks already due (promises) run before the process's next event.   *)
(* Abstractions: one account stands for all that are published; the        *)
(* setting childProxy of a root is fixed when it starts; a write of        *)
(* auth.json that finds its lock taken is put off (AuthTransaction has     *)
(* the lock itself).                                                       *)
(***************************************************************************)
EXTENDS Naturals, Sequences, SequencesExt, FiniteSets

CONSTANTS
  Proc,       \* the Pi processes
  Root,       \* the activations
  Nobody,     \* neither a process nor a root
  Home,       \* the process each root runs in
  Session,    \* the session id each root serves
  Off,        \* the roots that run with childProxy false
  MaxCrashes, \* how many processes may die
  MaxLoss,    \* how often every credential may become unusable
  Contended,  \* writes of auth.json may find the lock taken
  ListenFails \* listening may fail for a reason other than the port

SharedProxyAssumption ==
  /\ Nobody \notin Proc \cup Root
  /\ Home \in [Root -> Proc] /\ DOMAIN Session = Root
  /\ Off \subseteq Root /\ MaxCrashes \in Nat /\ MaxLoss \in Nat
  /\ Contended \in BOOLEAN /\ ListenFails \in BOOLEAN

VARIABLES
  \* the machine
  holder,    \* the process listening on the canonical port
  auth,      \* auth.json: "oauth" or "placeholder"
  models,    \* models.json: "none" or "loopback"
  usable,    \* some credential of a proxied family is usable
  \* the coordinator of each process
  members,   \* its roots, in the order they joined
  ready,     \* the roots that may answer requests
  publisher, handlerOwner,
  server,    \* it has the listener on the canonical port
  starting,  \* the root whose listen attempt the others wait for
  routes,    \* accounts are published
  \* each root
  pc,        \* where its session is
  bind,      \* where its listen attempt is
  port,      \* slotProxyPort: "none", "canonical" or "own" (ephemeral)
  closed,    \* sessionClosed
  foreign,   \* slotProxyForeignOwner
  stray,     \* the processes where a closed root kept the canonical port
  busy,      \* the root whose synchronous code the process is running
  \* history
  left,      \* a publication has outlived the process that wrote it
  crashes, losses

files == <<auth, models, left>>
coordinator == <<members, ready, publisher, handlerOwner, server, starting, routes>>
bounds == <<crashes, losses>>
vars == <<holder, files, usable, coordinator, pc, bind, port, closed, foreign,
          stray, busy, bounds>>

At(p) == {r \in Root : Home[r] = p}

Init ==
  /\ holder = Nobody /\ auth = "oauth" /\ models = "none" /\ usable \in BOOLEAN
  /\ members = [p \in Proc |-> <<>>] /\ ready = {}
  /\ publisher = [p \in Proc |-> Nobody] /\ handlerOwner = [p \in Proc |-> Nobody]
  /\ server = [p \in Proc |-> FALSE] /\ starting = [p \in Proc |-> Nobody]
  /\ routes = [p \in Proc |-> FALSE]
  /\ pc = [r \in Root |-> "new"] /\ bind = [r \in Root |-> "idle"]
  /\ port = [r \in Root |-> "none"]
  /\ closed = [r \in Root |-> FALSE] /\ foreign = [r \in Root |-> FALSE]
  /\ stray = {} /\ busy = [p \in Proc |-> Nobody]
  /\ left = FALSE /\ crashes = 0 /\ losses = 0

Member(r) == r \in Range(members[Home[r]])

\* A callback is due: it runs before the next event of the process.
Due(r) ==
  \/ bind[r] = "again"
  \/ bind[r] = "idle" /\ pc[r] \in {"start", "publish", "second"}

\* The process is free to take its next event.
Idle(p) == busy[p] = Nobody /\ \A r \in At(p) : ~Due(r)

Free(p) == busy[p] = Nobody

\* The last ready member, or nobody.
readyProxyOwner(p, list, set) ==
  LET able == SelectSeq(list, LAMBDA r : r \in set)
  IN IF able = <<>> THEN Nobody ELSE Last(able)

-----------------------------------------------------------------------------
(* Ownership of the shared files.                                          *)

\* Mutant of ownsSharedChildPublication: the port is not asked for.
OwnsWithoutPort(r, who) ==
  IF r \in Off THEN ~server[Home[r]] /\ auth # "placeholder"
  ELSE ~closed[r] /\ Member(r) /\ port[r] # "none"

\* A shared publisher must still own the canonical socket and a live root
\* membership; who is the publisher of the process.  A root with the proxy
\* off owns the files only where no root publishes and no placeholder shows.
ownsSharedChildPublication(r, who) ==
  LET p == Home[r] IN
  IF r \in Off
  THEN ~server[p] /\ Range(members[p]) \subseteq Off /\ auth # "placeholder"
  ELSE ~closed[r] /\ Member(r) /\ who = r /\ server[p] /\ ~foreign[r] /\ port[r] = "canonical"

-----------------------------------------------------------------------------
(* Joining.                                                                *)

\* The effect of startSlotProxy up to its first wait.
startSlotProxy(r, slots) ==
  LET p == Home[r] IN
  IF port[r] # "none" THEN UNCHANGED <<bind, port, starting>>
  ELSE IF server[p] /\ pc[r] # "gone"
       THEN port' = [port EXCEPT ![r] = "canonical"] /\ bind' = [bind EXCEPT ![r] = "idle"]
            /\ UNCHANGED starting
  ELSE IF starting[p] # Nobody /\ pc[r] # "gone"
       THEN bind' = [bind EXCEPT ![r] = "wait"] /\ UNCHANGED <<port, starting>>
  ELSE /\ bind' = [bind EXCEPT ![r] = IF pc[r] = "gone" THEN "alone" ELSE "listen"]
       /\ starting' = IF pc[r] = "gone" THEN starting ELSE [starting EXCEPT ![p] = r]
       /\ UNCHANGED port

\* Mutant of joinSharedProxy: the replaced root stays a member.
JoinBeside(r) ==
  /\ members' = [members EXCEPT ![Home[r]] = Append(@, r)]
  /\ closed' = [q \in Root |-> closed[q] \/ (Session[q] = Session[r] /\ q \in Range(members[Home[r]]))]
  /\ UNCHANGED <<ready, publisher, handlerOwner>>

\* Mutant of joinSharedProxy: the place of the replaced root goes to nobody.
JoinWithoutHeir(r) ==
  LET p == Home[r]
      old == {q \in Range(members[p]) : Session[q] = Session[r]}
  IN /\ members' = [members EXCEPT ![p] = Append(SelectSeq(@, LAMBDA q : q \notin old), r)]
     /\ ready' = ready \ old
     /\ closed' = [q \in Root |-> closed[q] \/ q \in old]
     /\ publisher' = [publisher EXCEPT ![p] = IF @ \in old THEN Nobody ELSE @]
     /\ handlerOwner' = [handlerOwner EXCEPT ![p] = IF @ \in old THEN Nobody ELSE @]

\* A later activation of the same session supersedes the earlier one.
joinSharedProxy(r) ==
  LET p == Home[r]
      old == {q \in Range(members[p]) : Session[q] = Session[r]}
      rest == SelectSeq(members[p], LAMBDA q : q \notin old)
      heir == readyProxyOwner(p, rest, ready \ old)
  IN /\ members' = [members EXCEPT ![p] = Append(rest, r)]
     /\ ready' = ready \ old
     /\ closed' = [q \in Root |-> closed[q] \/ q \in old]
     /\ publisher' = [publisher EXCEPT ![p] = IF @ \in old THEN heir ELSE @]
     /\ handlerOwner' = [handlerOwner EXCEPT ![p] = IF @ \in old THEN heir ELSE @]

\* session_start: join, then ask for the listener.  A root with the proxy
\* off only waits for a listener that is being started.
Start(r) ==
  /\ Idle(Home[r]) /\ pc[r] = "new"
  /\ pc' = [pc EXCEPT ![r] = "start"]
  /\ joinSharedProxy(r)
  /\ IF r \in Off
     THEN /\ bind' = [bind EXCEPT ![r] = IF starting[Home[r]] # Nobody THEN "wait" ELSE "idle"]
          /\ port' = [port EXCEPT ![r] =
                        IF starting[Home[r]] = Nobody /\ server[Home[r]] THEN "canonical" ELSE @]
          /\ UNCHANGED starting
     ELSE startSlotProxy(r, "start")
  /\ UNCHANGED <<holder, files, usable, server, routes, foreign, stray, busy, bounds>>

-----------------------------------------------------------------------------
(* Listening.                                                              *)

\* The listen attempt of r is over: its coordinator forgets it, and those
\* who waited go on; they take a canonical listener as theirs, and start
\* over when there is none.
Settled(r, canonical) ==
  LET p == Home[r] IN
  /\ starting' = [starting EXCEPT ![p] = IF @ = r THEN Nobody ELSE @]
  /\ bind' = [q \in Root |->
       IF q = r THEN "idle"
       ELSE IF Home[q] # p \/ bind[q] # "wait" THEN bind[q]
       ELSE IF canonical \/ q \in Off THEN "idle" ELSE "again"]

Waiting(r) == {q \in At(Home[r]) : bind[q] = "wait"}

\* Mutant of Listening: nobody looks whether a member is left.
ListeningForNobody(r) ==
  LET p == Home[r] IN
  /\ Idle(p) /\ bind[r] = "listen" /\ holder = Nobody
  /\ Settled(r, TRUE)
  /\ holder' = p /\ server' = [server EXCEPT ![p] = TRUE]
  /\ publisher' = [publisher EXCEPT ![p] = IF members[p] = <<>> THEN Nobody ELSE Last(members[p])]
  /\ port' = [q \in Root |-> IF q = r \/ q \in Waiting(r) THEN "canonical" ELSE port[q]]
  /\ UNCHANGED <<files, usable, members, ready, handlerOwner, routes, pc, closed,
                 foreign, stray, busy, bounds>>

\* The canonical port is free: the listener belongs to the coordinator, if
\* it has a member left.
Listening(r) ==
  LET p == Home[r] IN
  /\ Idle(p) /\ bind[r] = "listen" /\ holder = Nobody
  /\ IF members[p] = <<>>
     THEN /\ Settled(r, FALSE)
          /\ UNCHANGED <<holder, server, publisher, port>>
     ELSE /\ Settled(r, TRUE)
          /\ holder' = p /\ server' = [server EXCEPT ![p] = TRUE]
          /\ publisher' = [publisher EXCEPT ![p] = Last(members[p])]
          /\ port' = [q \in Root |->
               IF q = r \/ q \in Waiting(r) \ {w \in Off : closed[w]} THEN "canonical" ELSE port[q]]
  /\ UNCHANGED <<files, usable, members, ready, handlerOwner, routes, pc, closed,
                 foreign, stray, busy, bounds>>

\* Mutant of ForeignOwner: the retry from inside the error callback is lost.
RetryLost(r) ==
  /\ Idle(Home[r]) /\ bind[r] = "listen" /\ holder # Nobody
  /\ bind' = [bind EXCEPT ![r] = "lost"]
  /\ foreign' = [foreign EXCEPT ![r] = TRUE]
  /\ UNCHANGED <<holder, files, usable, coordinator, pc, port, closed, stray, busy, bounds>>

\* EADDRINUSE: another process owns the port; try once more, on an
\* ephemeral port, in the next turn of the event loop.
ForeignOwner(r) ==
  /\ Idle(Home[r]) /\ bind[r] = "listen" /\ holder # Nobody
  /\ bind' = [bind EXCEPT ![r] = "retry"]
  /\ foreign' = [foreign EXCEPT ![r] = TRUE]
  /\ UNCHANGED <<holder, files, usable, coordinator, pc, port, closed, stray, busy, bounds>>

\* Mutant of ListeningElsewhere: the session is not looked at.
ListeningRegardless(r) ==
  /\ Idle(Home[r]) /\ bind[r] = "retry"
  /\ Settled(r, FALSE)
  /\ port' = [port EXCEPT ![r] = "own"]
  /\ UNCHANGED <<holder, files, usable, members, ready, publisher, handlerOwner, server,
                 routes, pc, closed, foreign, stray, busy, bounds>>

\* The private listener is up; one whose session is over is closed again.
ListeningElsewhere(r) ==
  /\ Idle(Home[r]) /\ bind[r] = "retry"
  /\ Settled(r, FALSE)
  /\ port' = [port EXCEPT ![r] = IF closed[r] THEN @ ELSE "own"]
  /\ UNCHANGED <<holder, files, usable, members, ready, publisher, handlerOwner, server,
                 routes, pc, closed, foreign, stray, busy, bounds>>

\* Any other error: there is no port.
ListenFailed(r) ==
  /\ ListenFails /\ Idle(Home[r]) /\ bind[r] \in {"listen", "retry"}
  /\ Settled(r, FALSE)
  /\ UNCHANGED <<holder, files, usable, members, ready, publisher, handlerOwner, server,
                 routes, pc, port, closed, foreign, stray, busy, bounds>>

\* One that waited for a foreign attempt starts over.  A root whose session
\* is over by now has no coordinator any more and listens alone.
StartOver(r) ==
  /\ Free(Home[r]) /\ bind[r] = "again"
  /\ IF port[r] # "none" THEN bind' = [bind EXCEPT ![r] = "idle"] /\ UNCHANGED <<port, starting>>
     ELSE startSlotProxy(r, "again")
  /\ UNCHANGED <<holder, files, usable, members, ready, publisher, handlerOwner, server,
                 routes, pc, closed, foreign, stray, busy, bounds>>

\* The attempt of a root without a coordinator: the canonical port is kept,
\* an ephemeral one is closed.
ListeningAlone(r) ==
  /\ Idle(Home[r]) /\ bind[r] = "alone"
  /\ bind' = [bind EXCEPT ![r] = "idle"]
  /\ IF holder = Nobody
     THEN holder' = Home[r] /\ stray' = stray \cup {Home[r]}
     ELSE UNCHANGED <<holder, stray>>
  /\ UNCHANGED <<files, usable, coordinator, pc, port, closed, foreign, busy, bounds>>

-----------------------------------------------------------------------------
(* Publishing.                                                             *)

\* Mutant of activateSharedProxy: the listener is not asked for, and whoever
\* answers already is kept.
ActivateWithoutHandler(r) ==
  /\ IF Member(r) /\ ~closed[r] THEN ready' = ready \cup {r} ELSE UNCHANGED ready
  /\ UNCHANGED handlerOwner

\* Only a live member of a listening coordinator becomes ready; the last to
\* do so answers the requests.
activateSharedProxy(r) ==
  LET p == Home[r] IN
  IF Member(r) /\ ~closed[r] /\ server[p]
  THEN ready' = ready \cup {r} /\ handlerOwner' = [handlerOwner EXCEPT ![p] = r]
  ELSE UNCHANGED <<ready, handlerOwner>>

\* session_start after the listener, for a root with the proxy off: it only
\* joins those who may answer.
Attend(r) ==
  /\ Free(Home[r]) /\ r \in Off /\ pc[r] = "start" /\ bind[r] = "idle"
  /\ pc' = [pc EXCEPT ![r] = IF closed[r] THEN "ended" ELSE "live"]
  /\ activateSharedProxy(r)
  /\ UNCHANGED <<holder, files, usable, members, publisher, server, starting, routes,
                 bind, port, closed, foreign, stray, busy, bounds>>

\* publishProxiedSlots before its wait: without a usable account the
\* publication is taken back (the placeholder stays until the last root
\* leaves), otherwise the listener is asked for, again if the first attempt
\* got none.
BeginPublish(r) ==
  LET p == Home[r]
      claims == server[p] /\ Member(r) /\ ~closed[r]
      owns == ownsSharedChildPublication(r, IF claims THEN r ELSE publisher[p])
  IN
  /\ Free(p) /\ r \notin Off /\ pc[r] \in {"start", "publish"} /\ bind[r] = "idle"
  /\ publisher' = [publisher EXCEPT ![p] = IF claims THEN r ELSE @]
  /\ IF closed[r]
     THEN pc' = [pc EXCEPT ![r] = "ended"]
          /\ UNCHANGED <<models, ready, handlerOwner, starting, routes, bind, port>>
     ELSE IF ~usable
     THEN /\ pc' = [pc EXCEPT ![r] = "live"]
          /\ activateSharedProxy(r)
          /\ models' = IF owns THEN "none" ELSE models
          /\ routes' = [routes EXCEPT ![p] = @ /\ ~owns]
          /\ UNCHANGED <<starting, bind, port>>
     ELSE /\ pc' = [pc EXCEPT ![r] = "second"]
          /\ startSlotProxy(r, "second")
          /\ UNCHANGED <<models, ready, handlerOwner, routes>>
  /\ UNCHANGED <<holder, auth, left, usable, members, server, closed, foreign, stray, busy, bounds>>

\* A write of auth.json: it may be put off.
Write(value) ==
  \/ auth' = value /\ left' = (left /\ value # "oauth")
  \/ Contended /\ UNCHANGED auth /\ left' = (left \/ (value = "oauth" /\ auth = "placeholder"))

\* Mutant of Publish: a foreign owner publishes as well.
PublishAnyway(r) ==
  LET p == Home[r] IN
  /\ Free(p) /\ pc[r] = "second" /\ bind[r] = "idle" /\ ~closed[r] /\ port[r] # "none"
  /\ publisher' = [publisher EXCEPT ![p] = r]
  /\ pc' = [pc EXCEPT ![r] = "provision"]
  /\ routes' = [routes EXCEPT ![p] = TRUE]
  /\ Write("placeholder") /\ busy' = [busy EXCEPT ![p] = r]
  /\ UNCHANGED <<holder, models, usable, members, ready, handlerOwner, server, starting, bind,
                 port, closed, foreign, stray, bounds>>

\* Mutant of Publish: the roots with the proxy off keep their public route.
PublishPastOthers(r) ==
  LET p == Home[r] IN
  /\ Free(p) /\ pc[r] = "second" /\ bind[r] = "idle" /\ ~closed[r]
  /\ port[r] = "canonical" /\ Member(r) /\ server[p] /\ ~foreign[r]
  /\ publisher' = [publisher EXCEPT ![p] = r]
  /\ pc' = [pc EXCEPT ![r] = "provision"]
  /\ routes' = [routes EXCEPT ![p] = TRUE]
  /\ Write("placeholder") /\ busy' = [busy EXCEPT ![p] = r]
  /\ UNCHANGED <<holder, models, usable, members, ready, handlerOwner, server, starting, bind,
                 port, closed, foreign, stray, bounds>>

\* publishProxiedSlots after its wait.  Only the owner goes on to the shared
\* files: the roots with the proxy off are moved to the loopback first, then
\* the placeholder is written.
Publish(r) ==
  LET p == Home[r]
      others == {q \in Range(members[p]) : q \in Off}
      leads == port[r] = "canonical" /\ Member(r)
      owns == ownsSharedChildPublication(r, IF leads THEN r ELSE publisher[p])
  IN
  /\ Free(p) /\ pc[r] = "second" /\ bind[r] = "idle"
  /\ publisher' = [publisher EXCEPT ![p] = IF leads /\ ~closed[r] THEN r ELSE @]
  /\ IF closed[r]
     THEN pc' = [pc EXCEPT ![r] = "ended"]
          /\ UNCHANGED <<auth, left, ready, handlerOwner, routes, port, busy>>
     ELSE IF port[r] = "none"
     THEN pc' = [pc EXCEPT ![r] = "live"]
          /\ UNCHANGED <<auth, left, ready, handlerOwner, routes, port, busy>>
     ELSE IF ~owns
     THEN /\ pc' = [pc EXCEPT ![r] = "live"]
          /\ activateSharedProxy(r)
          /\ UNCHANGED <<auth, left, routes, port, busy>>
     ELSE /\ pc' = [pc EXCEPT ![r] = "provision"]
          /\ routes' = [routes EXCEPT ![p] = TRUE]
          /\ port' = [q \in Root |-> IF q \in others THEN "canonical" ELSE port[q]]
          /\ ready' = ready \cup others
          /\ Write("placeholder")
          /\ busy' = [busy EXCEPT ![p] = r]
          /\ UNCHANGED handlerOwner
  /\ UNCHANGED <<holder, models, usable, members, server, starting, bind, closed,
                 foreign, stray, bounds>>

\* The route of each account goes into models.json, and r answers.
Provision(r) ==
  LET p == Home[r] IN
  /\ pc[r] = "provision" /\ pc' = [pc EXCEPT ![r] = "live"]
  /\ models' = "loopback" /\ activateSharedProxy(r)
  /\ busy' = [busy EXCEPT ![p] = Nobody]
  /\ UNCHANGED <<holder, auth, left, usable, members, publisher, server, starting, routes,
                 bind, port, closed, foreign, stray, bounds>>

\* /multi-account rediscover publishes again.
Rediscover(r) ==
  /\ Idle(Home[r]) /\ pc[r] = "live" /\ r \notin Off /\ ~closed[r]
  /\ pc' = [pc EXCEPT ![r] = "publish"]
  /\ UNCHANGED <<holder, files, usable, coordinator, bind, port, closed, foreign,
                 stray, busy, bounds>>

\* A refreshed credential is hidden again by the owner.
RefreshShadow(r) ==
  /\ Idle(Home[r]) /\ pc[r] = "live" /\ usable
  /\ r \notin Off /\ ownsSharedChildPublication(r, publisher[Home[r]])
  /\ Write("placeholder")
  /\ UNCHANGED <<holder, models, usable, coordinator, pc, bind, port, closed, foreign,
                 stray, busy, bounds>>

\* Every credential becomes unusable, or one is usable again.
CredentialsChange ==
  /\ losses < MaxLoss /\ losses' = losses + 1 /\ usable' = ~usable
  /\ UNCHANGED <<holder, files, coordinator, pc, bind, port, closed, foreign, stray, busy, crashes>>

-----------------------------------------------------------------------------
(* Leaving.                                                                *)

\* Mutant of Shutdown: whoever bound the listener closes it with its session.
ShutdownClosesListener(r) ==
  LET p == Home[r]
      rest == SelectSeq(members[p], LAMBDA q : q # r) IN
  /\ Idle(p) /\ pc[r] \in {"start", "second", "live", "ended"}
  /\ closed' = [closed EXCEPT ![r] = TRUE]
  /\ members' = [members EXCEPT ![p] = rest] /\ ready' = ready \ {r}
  /\ publisher' = [publisher EXCEPT ![p] = IF @ = r THEN readyProxyOwner(p, rest, ready \ {r}) ELSE @]
  /\ handlerOwner' = [handlerOwner EXCEPT ![p] = IF @ = r THEN readyProxyOwner(p, rest, ready \ {r}) ELSE @]
  /\ port' = [port EXCEPT ![r] = "none"]
  /\ pc' = [pc EXCEPT ![r] = "gone"]
  /\ server' = [server EXCEPT ![p] = @ /\ publisher[p] # r]
  /\ holder' = IF server[p] /\ publisher[p] = r THEN Nobody ELSE holder
  /\ UNCHANGED <<files, usable, starting, bind, foreign, stray, bounds, routes, busy>>

\* Mutant of Shutdown: the port is closed first, the files restored later.
ShutdownPortFirst(r) ==
  LET p == Home[r]
      rest == SelectSeq(members[p], LAMBDA q : q # r)
      last == Member(r) /\ rest = <<>> IN
  /\ Idle(p) /\ pc[r] \in {"start", "second", "live", "ended"}
  /\ closed' = [closed EXCEPT ![r] = TRUE]
  /\ members' = [members EXCEPT ![p] = rest] /\ ready' = ready \ {r}
  /\ publisher' = [publisher EXCEPT ![p] = IF @ = r THEN readyProxyOwner(p, rest, ready \ {r}) ELSE @]
  /\ handlerOwner' = [handlerOwner EXCEPT ![p] = IF @ = r THEN readyProxyOwner(p, rest, ready \ {r}) ELSE @]
  /\ port' = [port EXCEPT ![r] = "none"]
  /\ routes' = [routes EXCEPT ![p] = @ /\ ~last]
  /\ IF last /\ server[p]
     THEN /\ pc' = [pc EXCEPT ![r] = "restore"] /\ busy' = [busy EXCEPT ![p] = r]
          /\ holder' = Nobody /\ server' = [server EXCEPT ![p] = FALSE]
     ELSE pc' = [pc EXCEPT ![r] = "gone"] /\ UNCHANGED <<busy, holder, server>>
  /\ UNCHANGED <<files, usable, starting, bind, foreign, stray, bounds>>

\* stopSlotProxy: a member hands its places on; the last one takes the
\* publication back before it gives the port up.
Shutdown(r) ==
  LET p == Home[r]
      rest == SelectSeq(members[p], LAMBDA q : q # r)
      heir == readyProxyOwner(p, rest, ready \ {r})
      last == Member(r) /\ rest = <<>>
      cleanupWithoutProxy == r \in Off /\ ownsSharedChildPublication(r, publisher[p])
  IN
  /\ Idle(p) /\ pc[r] \in {"start", "second", "live", "ended"}
  /\ closed' = [closed EXCEPT ![r] = TRUE]
  /\ members' = [members EXCEPT ![p] = rest] /\ ready' = ready \ {r}
  /\ publisher' = [publisher EXCEPT ![p] = IF @ = r THEN heir ELSE @]
  /\ handlerOwner' = [handlerOwner EXCEPT ![p] = IF @ = r THEN heir ELSE @]
  /\ port' = [port EXCEPT ![r] = "none"]
  /\ routes' = [routes EXCEPT ![p] = @ /\ ~last]
  /\ IF last /\ server[p]
     THEN pc' = [pc EXCEPT ![r] = "restore"] /\ busy' = [busy EXCEPT ![p] = r]
     ELSE IF last /\ cleanupWithoutProxy
     THEN pc' = [pc EXCEPT ![r] = "clean"] /\ busy' = [busy EXCEPT ![p] = r]
     ELSE pc' = [pc EXCEPT ![r] = "gone"] /\ UNCHANGED busy
  /\ UNCHANGED <<holder, files, usable, server, starting, bind, foreign, stray, bounds>>

\* The OAuth credential goes back into auth.json, ...
Restore(r) ==
  /\ pc[r] = "restore" /\ pc' = [pc EXCEPT ![r] = "unprovision"]
  /\ Write("oauth")
  /\ UNCHANGED <<holder, models, usable, coordinator, bind, port, closed, foreign,
                 stray, busy, bounds>>

\* Mutant of Unprovision: the route stays.
UnprovisionNothing(r) ==
  /\ pc[r] = "unprovision" /\ pc' = [pc EXCEPT ![r] = "release"]
  /\ UNCHANGED <<holder, files, usable, coordinator, bind, port, closed, foreign,
                 stray, busy, bounds>>

\* ... the loopback route out of models.json, ...
Unprovision(r) ==
  /\ pc[r] = "unprovision" /\ pc' = [pc EXCEPT ![r] = "release"]
  /\ models' = "none"
  /\ UNCHANGED <<holder, auth, left, usable, coordinator, bind, port, closed, foreign,
                 stray, busy, bounds>>

\* ... and only then the port is given up.
Release(r) ==
  LET p == Home[r] IN
  /\ pc[r] = "release" /\ pc' = [pc EXCEPT ![r] = "gone"]
  /\ holder' = IF server[p] THEN Nobody ELSE holder
  /\ server' = [server EXCEPT ![p] = FALSE]
  /\ busy' = [busy EXCEPT ![p] = Nobody]
  /\ UNCHANGED <<files, usable, members, ready, publisher, handlerOwner, starting, routes,
                 bind, port, closed, foreign, stray, bounds>>

\* The last root of a process without the proxy, which saw no placeholder,
\* sweeps what an earlier run may have left: the dead route, ...
Sweep(r) ==
  /\ pc[r] = "clean" /\ pc' = [pc EXCEPT ![r] = "sweep"]
  /\ models' = "none"
  /\ UNCHANGED <<holder, auth, left, usable, coordinator, bind, port, closed, foreign,
                 stray, busy, bounds>>

\* ... then the placeholders.
SweepAuth(r) ==
  /\ pc[r] = "sweep" /\ pc' = [pc EXCEPT ![r] = "gone"]
  /\ Write("oauth")
  /\ busy' = [busy EXCEPT ![Home[r]] = Nobody]
  /\ UNCHANGED <<holder, models, usable, coordinator, bind, port, closed, foreign, stray, bounds>>

\* The process dies: the port is free, the files stay as they are.
Crash(p) ==
  /\ crashes < MaxCrashes /\ crashes' = crashes + 1
  /\ \E r \in At(p) : pc[r] \notin {"new", "gone"}
  /\ pc' = [r \in Root |-> IF r \in At(p) THEN "gone" ELSE pc[r]]
  /\ bind' = [r \in Root |-> IF r \in At(p) THEN "idle" ELSE bind[r]]
  /\ port' = [r \in Root |-> IF r \in At(p) THEN "none" ELSE port[r]]
  /\ closed' = [r \in Root |-> closed[r] \/ r \in At(p)]
  /\ members' = [members EXCEPT ![p] = <<>>] /\ ready' = ready \ At(p)
  /\ publisher' = [publisher EXCEPT ![p] = Nobody]
  /\ handlerOwner' = [handlerOwner EXCEPT ![p] = Nobody]
  /\ server' = [server EXCEPT ![p] = FALSE] /\ starting' = [starting EXCEPT ![p] = Nobody]
  /\ routes' = [routes EXCEPT ![p] = FALSE] /\ busy' = [busy EXCEPT ![p] = Nobody]
  /\ stray' = stray \ {p}
  /\ holder' = IF holder = p THEN Nobody ELSE holder
  /\ left' = (left \/ (holder = p /\ (auth = "placeholder" \/ models = "loopback")))
  /\ UNCHANGED <<auth, models, usable, foreign, losses>>

-----------------------------------------------------------------------------

\* What the event loop of a process, or the code it runs, will do by itself.
Progress(r) ==
  \/ Listening(r) \/ ForeignOwner(r) \/ ListeningElsewhere(r) \/ StartOver(r)
  \/ ListeningAlone(r) \/ Attend(r) \/ BeginPublish(r) \/ Publish(r) \/ Provision(r)
  \/ Restore(r) \/ Unprovision(r) \/ Release(r) \/ Sweep(r) \/ SweepAuth(r)

Next ==
  \/ \E r \in Root : Progress(r) \/ Start(r) \/ ListenFailed(r) \/ Rediscover(r)
                   \/ RefreshShadow(r) \/ Shutdown(r)
  \/ CredentialsChange
  \/ \E p \in Proc : Crash(p)

Spec == Init /\ [][Next]_vars

\* An event loop reaches every queued event, however many others come in
\* between: strong fairness for what is queued.
Fairness == \A r \in Root : SF_vars(Progress(r))
FairSpec == Spec /\ Fairness

-----------------------------------------------------------------------------
(* Properties.                                                             *)

TypeOK ==
  /\ holder \in Proc \cup {Nobody} /\ auth \in {"oauth", "placeholder"}
  /\ models \in {"none", "loopback"} /\ usable \in BOOLEAN /\ left \in BOOLEAN
  /\ members \in [Proc -> Seq(Root)] /\ ready \subseteq Root
  /\ publisher \in [Proc -> Root \cup {Nobody}]
  /\ handlerOwner \in [Proc -> Root \cup {Nobody}]
  /\ server \in [Proc -> BOOLEAN] /\ starting \in [Proc -> Root \cup {Nobody}]
  /\ routes \in [Proc -> BOOLEAN] /\ busy \in [Proc -> Root \cup {Nobody}]
  /\ pc \in [Root -> {"new", "start", "publish", "second", "provision", "live", "ended",
                      "restore", "unprovision", "release", "clean", "sweep", "gone"}]
  /\ bind \in [Root -> {"idle", "listen", "retry", "wait", "again", "alone"}]
  /\ port \in [Root -> {"none", "canonical", "own"}]
  /\ closed \in [Root -> BOOLEAN] /\ foreign \in [Root -> BOOLEAN] /\ stray \subseteq Proc
  /\ crashes \in 0 .. MaxCrashes /\ losses \in 0 .. MaxLoss

\* The socket outlives its first session, and requests go only to a live,
\* ready root: one that was superseded or has shut down answers none.
OnlyLiveRootAnswers ==
  \A p \in Proc : LET h == handlerOwner[p] IN h # Nobody => Member(h) /\ ~closed[h] /\ h \in ready

\* A root that can answer is never passed over: while one is ready, no
\* request to the port is turned away with "handoff in progress".
NoNeedlessGap ==
  \A p \in Proc :
    Idle(p) /\ server[p] /\ (\E r \in ready : Home[r] = p) => handlerOwner[p] \in ready

\* A placeholder in auth.json is good for nothing but the canonical port, so
\* while it shows a coordinator listens there (unless a process died, or
\* could not write the file when it left).
PlaceholderIsServed ==
  auth = "placeholder" /\ ~left => holder # Nobody /\ server[holder]

\* What a listening process has published stays published, whichever of its
\* roots leave and whatever roots of other processes start or leave.
PublicationStands ==
  \A p \in Proc : Idle(p) /\ server[p] /\ routes[p] =>
    models = "loopback" /\ (auth = "placeholder" \/ Contended)

\* When every session is over the port is free and both files are as they
\* were (unless a process died or could not write).
NothingLeft ==
  (\A r \in Root : pc[r] = "gone" /\ bind[r] = "idle") =>
    /\ \A p \in Proc : ~server[p]
    /\ ~left => auth = "oauth" /\ models = "none"

\* A root with the proxy off was moved to the loopback before a placeholder
\* of its own process appeared: it never sends it to a public upstream.
DisabledSiblingMoved ==
  \A r \in Off : Member(r) /\ pc[r] = "live" /\ routes[Home[r]] => port[r] = "canonical"

\* A session that ended while its listen attempt was under way keeps no
\* listener on an ephemeral port.
NoPrivateListener ==
  \A r \in Root : pc[r] = "gone" /\ bind[r] = "idle" => port[r] # "own"

\* The canonical port is the ownership token of the shared files: a step
\* that changes one of them is a step of the process that holds it.
OnlyHolderWritesStep ==
  auth' # auth \/ models' # models
    => \A r \in Root : pc'[r] # pc[r] => Home[r] = holder
OnlyHolderWrites == [][OnlyHolderWritesStep]_vars

\* session_start never hangs on the port, whoever holds it.
StartSettles ==
  \A r \in Root : pc[r] \in {"start", "second"} ~> pc[r] \notin {"start", "second"}

\* A handoff gap closes: published routes without a root to answer them get
\* one, or the listener goes.
GapCloses ==
  \A p \in Proc :
    (server[p] /\ routes[p] /\ handlerOwner[p] = Nobody)
      ~> (~server[p] \/ ~routes[p] \/ handlerOwner[p] # Nobody)

\* The detailed protocol implements the lease of the port on the files.
Lease == INSTANCE ChildLease WITH
           hidden <- auth = "placeholder", routed <- models = "loopback"
LeaseRespectedStep == [Lease!Next]_(Lease!vars)
LeaseRespected == Lease!Spec
=============================================================================
