------------------------- MODULE CursorStreamProofs -------------------------
(* Theorems about the Cursor proxy, for every number of requests, execs,   *)
(* compactions and turns, and every choice of what may happen to a bridge. *)
EXTENDS CursorStream, TLAPS

-----------------------------------------------------------------------------
(* The records of the proxy.                                                *)

IsWriter(x) ==
  /\ x = [phase |-> x.phase, out |-> x.out, run |-> x.run, stored |-> x.stored, rgen |-> x.rgen,
          cancelled |-> x.cancelled, flushed |-> x.flushed, mcp |-> x.mcp, ended |-> x.ended,
          pend |-> x.pend, told |-> x.told, timer |-> x.timer, saw |-> x.saw]
  /\ x.pend \subseteq Exec

IsBridge(x) ==
  x = [proc |-> x.proc, ended |-> x.ended, heart |-> x.heart, cb |-> x.cb, got |-> x.got,
       report |-> x.report]

IsActive(x) ==
  x = [run |-> x.run, owner |-> x.owner, paused |-> x.paused, dispose |-> x.dispose,
       stored |-> x.stored, rgen |-> x.rgen]

IsProxy(s) ==
  /\ s = [wr |-> s.wr, br |-> s.br, act |-> s.act, stored |-> s.stored, gen |-> s.gen, obj |-> s.obj]
  /\ s.wr = [w \in Request |-> s.wr[w]] /\ s.br = [b \in Request |-> s.br[b]]
  /\ \A w \in Request : IsWriter(s.wr[w])
  /\ \A b \in Request : IsBridge(s.br[b])
  /\ IsActive(s.act)
  /\ s.stored \in 0..MaxReq

\* The same response and the same bridge, as far as turns go.
SameWriter(x, y) ==
  x.phase = y.phase /\ x.out = y.out /\ x.run = y.run /\ x.pend = y.pend /\ x.cancelled = y.cancelled
SameBridge(x, y) == x.proc = y.proc /\ x.heart = y.heart /\ x.cb = y.cb

\* The response x has become y, ended that way.
EndedAs(x, y, how) == y.phase = "closed" /\ y.out = how /\ y.run = x.run

SameRest(s, t) == t.stored = s.stored /\ t.gen = s.gen /\ t.obj = s.obj

WithWriter(s, w, x) == [s EXCEPT !.wr = [s.wr EXCEPT ![w] = x]]
WithBridge(s, b, x) == [s EXCEPT !.br = [s.br EXCEPT ![b] = x]]
WithActive(s, x) == [s EXCEPT !.act = x]

LEMMA PutWriter ==
  ASSUME NEW s, IsProxy(s), NEW w \in Request, NEW x, IsWriter(x)
  PROVE  LET t == WithWriter(s, w, x) IN
         /\ IsProxy(t) /\ t.br = s.br /\ t.act = s.act /\ SameRest(s, t)
         /\ t.wr[w] = x /\ \A u \in Request \ {w} : t.wr[u] = s.wr[u]
<1> DEFINE t == WithWriter(s, w, x)
<1>1. /\ t.wr = [s.wr EXCEPT ![w] = x] /\ t.br = s.br /\ t.act = s.act /\ SameRest(s, t)
      /\ t = [wr |-> t.wr, br |-> t.br, act |-> t.act, stored |-> t.stored, gen |-> t.gen, obj |-> t.obj]
  BY DEF IsProxy, WithWriter, SameRest
<1> HIDE DEF t
<1>2. \A u \in Request : t.wr[u] = IF u = w THEN x ELSE s.wr[u]
  BY <1>1 DEF IsProxy
<1>3. t.wr = [u \in Request |-> t.wr[u]]
  BY <1>1 DEF IsProxy
<1>4. IsProxy(t)
  BY <1>1, <1>2, <1>3 DEF IsProxy, SameRest
<1> QED
  BY <1>1, <1>2, <1>4 DEF t

LEMMA PutBridge ==
  ASSUME NEW s, IsProxy(s), NEW b \in Request, NEW x, IsBridge(x)
  PROVE  LET t == WithBridge(s, b, x) IN
         /\ IsProxy(t) /\ t.wr = s.wr /\ t.act = s.act /\ SameRest(s, t)
         /\ t.br[b] = x /\ \A c \in Request \ {b} : t.br[c] = s.br[c]
<1> DEFINE t == WithBridge(s, b, x)
<1>1. /\ t.br = [s.br EXCEPT ![b] = x] /\ t.wr = s.wr /\ t.act = s.act /\ SameRest(s, t)
      /\ t = [wr |-> t.wr, br |-> t.br, act |-> t.act, stored |-> t.stored, gen |-> t.gen, obj |-> t.obj]
  BY DEF IsProxy, WithBridge, SameRest
<1> HIDE DEF t
<1>2. \A c \in Request : t.br[c] = IF c = b THEN x ELSE s.br[c]
  BY <1>1 DEF IsProxy
<1>3. t.br = [c \in Request |-> t.br[c]]
  BY <1>1 DEF IsProxy
<1>4. IsProxy(t)
  BY <1>1, <1>2, <1>3 DEF IsProxy, SameRest
<1> QED
  BY <1>1, <1>2, <1>4 DEF t

LEMMA PutActive ==
  ASSUME NEW s, IsProxy(s), NEW x, IsActive(x)
  PROVE  LET t == WithActive(s, x) IN
         IsProxy(t) /\ t.wr = s.wr /\ t.br = s.br /\ t.act = x /\ SameRest(s, t)
<1> DEFINE t == WithActive(s, x)
<1>1. /\ t.br = s.br /\ t.wr = s.wr /\ t.act = x /\ SameRest(s, t)
      /\ t = [wr |-> t.wr, br |-> t.br, act |-> t.act, stored |-> t.stored, gen |-> t.gen, obj |-> t.obj]
  BY DEF IsProxy, WithActive, SameRest
<1> HIDE DEF t
<1>2. IsProxy(t)
  BY <1>1 DEF IsProxy, SameRest
<1> QED
  BY <1>1, <1>2 DEF t

\* A step of the registry of conversations: no response, bridge or active Run.
Beside(s, t) == IsProxy(t) /\ t.wr = s.wr /\ t.br = s.br /\ t.act = s.act

LEMMA Registry ==
  ASSUME CursorStreamAssumption, NEW s, IsProxy(s)
  PROVE  /\ Beside(s, forgetConversation(s)) /\ Beside(s, dropConversation(s))
         /\ \A w : Beside(s, forgetIfOwned(s, w))
         /\ \A o, body : Beside(s, coverTranscript(s, o, body))
         /\ \A o, m : Beside(s, recordAssistantResponse(s, o, m))
         /\ \A o, x : Beside(s, [s EXCEPT !.obj[o].cp = x])
         /\ \A o, x : Beside(s, [s EXCEPT !.obj[o].id = x])
         /\ \A o, x : Beside(s, [s EXCEPT !.obj[o].rgen = x])
         /\ \A n \in 0..MaxReq : Beside(s, [s EXCEPT !.stored = n])
<1>0. ASSUME NEW t, t = [wr |-> s.wr, br |-> s.br, act |-> s.act, stored |-> t.stored, gen |-> t.gen, obj |-> t.obj],
             t.stored \in 0..MaxReq
      PROVE  Beside(s, t)
  <2>1. t.wr = s.wr /\ t.br = s.br /\ t.act = s.act
        /\ t = [wr |-> t.wr, br |-> t.br, act |-> t.act, stored |-> t.stored, gen |-> t.gen, obj |-> t.obj]
    BY <1>0
  <2> QED
    BY <1>0, <2>1 DEF Beside, IsProxy
<1>1. Beside(s, forgetConversation(s)) /\ Beside(s, dropConversation(s)) /\ Beside(s, s)
  <2>1. ASSUME NEW x, NEW n \in 0..MaxReq PROVE Beside(s, [s EXCEPT !.stored = n, !.gen = x])
    <3> DEFINE r == [s EXCEPT !.stored = n]
               t == [r EXCEPT !.gen = x]
    <3>1. r = [wr |-> s.wr, br |-> s.br, act |-> s.act, stored |-> n, gen |-> s.gen, obj |-> s.obj]
      BY DEF IsProxy
    <3> HIDE DEF r
    <3>2. t = [wr |-> s.wr, br |-> s.br, act |-> s.act, stored |-> n, gen |-> x, obj |-> s.obj]
      BY <3>1
    <3> HIDE DEF t
    <3>3. t.stored = n /\ t.gen = x /\ t.obj = s.obj
      BY <3>2
    <3>4. Beside(s, t)
      BY <1>0, <3>2, <3>3
    <3> QED
      BY <3>4, Zenon DEF t, r
  <2>2. s.stored \in 0..MaxReq /\ 0 \in 0..MaxReq
    BY DEF IsProxy, CursorStreamAssumption
  <2> QED
    BY <2>1, <2>2 DEF Beside, forgetConversation, dropConversation
<1>2. \A w : Beside(s, forgetIfOwned(s, w))
  BY <1>1 DEF forgetIfOwned
<1>3. ASSUME NEW o, NEW body PROVE Beside(s, coverTranscript(s, o, body))
  <2>1. coverTranscript(s, o, body) =
          [s EXCEPT !.obj = [[s.obj EXCEPT ![o].covered = body] EXCEPT ![o].expected = NoMsg]]
    BY DEF coverTranscript, IsProxy
  <2> QED
    BY <1>0, <2>1 DEF IsProxy
<1>4. ASSUME NEW o, NEW m PROVE Beside(s, recordAssistantResponse(s, o, m))
  <2>1. recordAssistantResponse(s, o, m) = [s EXCEPT !.obj = [s.obj EXCEPT ![o].expected = m]]
    BY DEF recordAssistantResponse, IsProxy
  <2> QED
    BY <1>0, <2>1 DEF IsProxy
<1>5. ASSUME NEW o, NEW x PROVE Beside(s, [s EXCEPT !.obj[o].cp = x])
  <2>1. [s EXCEPT !.obj[o].cp = x] = [s EXCEPT !.obj = [s.obj EXCEPT ![o].cp = x]]
    BY DEF IsProxy
  <2> QED
    BY <1>0, <2>1 DEF IsProxy
<1>6. ASSUME NEW o, NEW x PROVE Beside(s, [s EXCEPT !.obj[o].id = x])
  <2>1. [s EXCEPT !.obj[o].id = x] = [s EXCEPT !.obj = [s.obj EXCEPT ![o].id = x]]
    BY DEF IsProxy
  <2> QED
    BY <1>0, <2>1 DEF IsProxy
<1>7. ASSUME NEW o, NEW x PROVE Beside(s, [s EXCEPT !.obj[o].rgen = x])
  <2>1. [s EXCEPT !.obj[o].rgen = x] = [s EXCEPT !.obj = [s.obj EXCEPT ![o].rgen = x]]
    BY DEF IsProxy
  <2> QED
    BY <1>0, <2>1 DEF IsProxy
<1>8. ASSUME NEW n \in 0..MaxReq PROVE Beside(s, [s EXCEPT !.stored = n])
  <2>1. [s EXCEPT !.stored = n] =
          [wr |-> s.wr, br |-> s.br, act |-> s.act, stored |-> n, gen |-> s.gen, obj |-> s.obj]
    BY DEF IsProxy
  <2> QED
    BY <1>0, <2>1
<1> QED
  BY <1>1, <1>2, <1>3, <1>4, <1>5, <1>6, <1>7, <1>8

-----------------------------------------------------------------------------
(* Closing: a response, a Run, a bridge.                                    *)

\* A step of responses only.
OfWriters(s, t) == IsProxy(t) /\ t.br = s.br /\ t.act = s.act

LEMMA MarkCancelled ==
  ASSUME NEW s, IsProxy(s), NEW w \in Request
  PROVE  LET t == [s EXCEPT !.wr[w].cancelled = TRUE] IN
         /\ OfWriters(s, t) /\ SameRest(s, t) /\ \A u \in Request \ {w} : t.wr[u] = s.wr[u]
         /\ t.wr[w].phase = s.wr[w].phase /\ t.wr[w].out = s.wr[w].out /\ t.wr[w].run = s.wr[w].run
         /\ t.wr[w].pend = s.wr[w].pend /\ t.wr[w].cancelled = TRUE
<1> DEFINE x == [s.wr[w] EXCEPT !.cancelled = TRUE]
           t == WithWriter(s, w, x)
<1>1. IsWriter(s.wr[w])
  BY DEF IsProxy
<1>2. ASSUME NEW y, y = x 
      PROVE  /\ IsWriter(y) /\ y.phase = s.wr[w].phase /\ y.out = s.wr[w].out /\ y.run = s.wr[w].run
             /\ y.pend = s.wr[w].pend /\ y.cancelled = TRUE
  BY <1>1, <1>2 DEF IsWriter
<1>3. /\ IsWriter(x) /\ x.phase = s.wr[w].phase /\ x.out = s.wr[w].out /\ x.run = s.wr[w].run
      /\ x.pend = s.wr[w].pend /\ x.cancelled = TRUE
  BY <1>2
<1>4. [s EXCEPT !.wr[w].cancelled = TRUE] = t
  BY Zenon DEF WithWriter
<1> HIDE DEF x
<1>5. /\ IsProxy(t) /\ t.br = s.br /\ t.act = s.act /\ SameRest(s, t)
      /\ t.wr[w] = x /\ \A u \in Request \ {w} : t.wr[u] = s.wr[u]
  BY <1>3, PutWriter
<1> HIDE DEF t
<1> QED
  BY <1>3, <1>4, <1>5 DEF OfWriters

LEMMA MarkEnded ==
  ASSUME NEW s, IsProxy(s), NEW w \in Request
  PROVE  LET t == [s EXCEPT !.wr[w].ended = TRUE] IN
         OfWriters(s, t) /\ \A u \in Request : SameWriter(s.wr[u], t.wr[u])
<1> DEFINE x == [s.wr[w] EXCEPT !.ended = TRUE]
           t == WithWriter(s, w, x)
<1>1. IsWriter(s.wr[w])
  BY DEF IsProxy
<1>2. ASSUME NEW y, y = x PROVE IsWriter(y) /\ SameWriter(s.wr[w], y)
  BY <1>1, <1>2 DEF IsWriter, SameWriter
<1>3. IsWriter(x) /\ SameWriter(s.wr[w], x)
  BY <1>2
<1>4. [s EXCEPT !.wr[w].ended = TRUE] = t
  BY Zenon DEF WithWriter
<1> HIDE DEF x
<1>5. /\ IsProxy(t) /\ t.br = s.br /\ t.act = s.act /\ SameRest(s, t)
      /\ t.wr[w] = x /\ \A u \in Request \ {w} : t.wr[u] = s.wr[u]
  BY <1>3, PutWriter
<1> HIDE DEF t
<1> QED
  BY <1>3, <1>4, <1>5 DEF OfWriters, SameWriter

LEMMA MarkTimer ==
  ASSUME NEW s, IsProxy(s), NEW w \in Request
  PROVE  LET t == [s EXCEPT !.wr[w].timer = FALSE] IN
         OfWriters(s, t) /\ \A u \in Request : SameWriter(s.wr[u], t.wr[u])
<1> DEFINE x == [s.wr[w] EXCEPT !.timer = FALSE]
           t == WithWriter(s, w, x)
<1>1. IsWriter(s.wr[w])
  BY DEF IsProxy
<1>2. ASSUME NEW y, y = x PROVE IsWriter(y) /\ SameWriter(s.wr[w], y)
  BY <1>1, <1>2 DEF IsWriter, SameWriter
<1>3. IsWriter(x) /\ SameWriter(s.wr[w], x)
  BY <1>2
<1>4. [s EXCEPT !.wr[w].timer = FALSE] = t
  BY Zenon DEF WithWriter
<1> HIDE DEF x
<1>5. /\ IsProxy(t) /\ t.br = s.br /\ t.act = s.act /\ SameRest(s, t)
      /\ t.wr[w] = x /\ \A u \in Request \ {w} : t.wr[u] = s.wr[u]
  BY <1>3, PutWriter
<1> HIDE DEF t
<1> QED
  BY <1>3, <1>4, <1>5 DEF OfWriters, SameWriter

LEMMA Closes ==
  ASSUME NEW s, IsProxy(s), NEW w \in Request, NEW how
  PROVE  LET t == closeResponse(s, w, how) IN
         /\ OfWriters(s, t) /\ SameRest(s, t) /\ \A u \in Request \ {w} : t.wr[u] = s.wr[u]
         /\ t.wr[w].phase = "closed" /\ t.wr[w].run = s.wr[w].run
         /\ s.wr[w].phase = "closed" => t.wr[w] = s.wr[w]
         /\ s.wr[w].phase # "closed" => EndedAs(s.wr[w], t.wr[w], how)
<1>1. CASE s.wr[w].phase = "closed"
  BY <1>1 DEF closeResponse, OfWriters, SameRest
<1>2. CASE s.wr[w].phase # "closed"
  <2> DEFINE x == [s.wr[w] EXCEPT !.phase = "closed", !.timer = FALSE, !.out = how]
  <2>1. closeResponse(s, w, how) = WithWriter(s, w, x)
    BY <1>2 DEF closeResponse, IsProxy, WithWriter
  <2>2. IsWriter(s.wr[w])
    BY DEF IsProxy
  <2>3. IsWriter(x) /\ x.phase = "closed" /\ x.out = how /\ x.run = s.wr[w].run
    <3>1. ASSUME NEW y, y = x
          PROVE  IsWriter(y) /\ y.phase = "closed" /\ y.out = how /\ y.run = s.wr[w].run
      BY <2>2, <3>1 DEF IsWriter
    <3> QED
      BY <3>1
  <2> HIDE DEF x
  <2> QED
    BY <1>2, <2>1, <2>3, PutWriter DEF OfWriters, EndedAs
<1> QED
  BY <1>1, <1>2

LEMMA Disposes ==
  ASSUME NEW s, IsProxy(s), NEW w \in Request
  PROVE  LET t == dispose(s, w) IN
         /\ OfWriters(s, t) /\ SameRest(s, t) /\ \A u \in Request \ {w} : t.wr[u] = s.wr[u]
         /\ t.wr[w].phase = "closed"
         /\ s.wr[w].phase = "closed" => t.wr[w] = s.wr[w]
         /\ s.wr[w].phase # "closed" => EndedAs(s.wr[w], t.wr[w], "error")
<1>1. CASE s.wr[w].phase = "closed"
  BY <1>1 DEF dispose, OfWriters, SameRest
<1>2. CASE s.wr[w].phase # "closed"
  <2> DEFINE r == [s EXCEPT !.wr[w].cancelled = TRUE]
  <2>1. dispose(s, w) = closeResponse(r, w, "error")
    BY <1>2 DEF dispose
  <2>2. /\ OfWriters(s, r) /\ SameRest(s, r) /\ \A u \in Request \ {w} : r.wr[u] = s.wr[u]
        /\ r.wr[w].phase = s.wr[w].phase /\ r.wr[w].run = s.wr[w].run
    BY MarkCancelled
  <2> HIDE DEF r
  <2>3. IsProxy(r)
    BY <2>2 DEF OfWriters
  <2> QED
    BY <1>2, <2>1, <2>2, <2>3, Closes DEF OfWriters, SameRest, EndedAs
<1> QED
  BY <1>1, <1>2

LEMMA Drops ==
  ASSUME NEW s, IsProxy(s), NEW b
  PROVE  LET t == dropActive(s, b) IN
         /\ IsProxy(t) /\ t.wr = s.wr /\ t.br = s.br
         /\ t.act = IF s.act.run = b THEN NoActive ELSE s.act
<1>1. IsActive(NoActive)
  BY DEF IsActive, NoActive
<1>2. [s EXCEPT !.act = NoActive] = WithActive(s, NoActive)
  BY DEF WithActive
<1> QED
  BY <1>1, <1>2, PutActive DEF dropActive

\* The evidence of a failure, before the cleanup: the response ends with it.
LEMMA Fails ==
  ASSUME CursorStreamAssumption, NEW s, IsProxy(s), NEW w \in Request
  PROVE  LET t == Failed(s, w) IN
         /\ OfWriters(s, t) /\ \A u \in Request \ {w} : t.wr[u] = s.wr[u]
         /\ t.wr[w].phase = "closed"
         /\ s.wr[w].phase = "closed" => t.wr[w] = s.wr[w]
         /\ s.wr[w].phase # "closed" => EndedAs(s.wr[w], t.wr[w], "error")
<1>1. CASE s.wr[w].phase = "closed"
  BY <1>1 DEF Failed, OfWriters
<1>2. CASE s.wr[w].phase # "closed"
  <2> DEFINE r == [s EXCEPT !.wr[w].cancelled = TRUE]
             q == forgetIfOwned(r, w)
  <2>1. Failed(s, w) = closeResponse(q, w, "error")
    BY <1>2 DEF Failed
  <2>2. /\ OfWriters(s, r) /\ \A u \in Request \ {w} : r.wr[u] = s.wr[u]
        /\ r.wr[w].phase = s.wr[w].phase /\ r.wr[w].run = s.wr[w].run
    BY MarkCancelled
  <2> HIDE DEF r
  <2>3. IsProxy(r)
    BY <2>2 DEF OfWriters
  <2>4. Beside(r, q)
    BY <2>3, Registry
  <2> HIDE DEF q
  <2>5. IsProxy(q) /\ q.wr = r.wr /\ q.br = r.br /\ q.act = r.act
    BY <2>4 DEF Beside
  <2> QED
    BY <1>2, <2>1, <2>2, <2>5, Closes DEF OfWriters, EndedAs
<1> QED
  BY <1>1, <1>2

\* A step of one bridge only: x is what has become of it.
OfBridge(s, t, b) ==
  /\ IsProxy(t) /\ t.wr = s.wr /\ t.act = s.act
  /\ \A c \in Request \ {b} : t.br[c] = s.br[c]

LEMMA MarkHeart ==
  ASSUME NEW s, IsProxy(s), NEW b \in Request
  PROVE  LET t == [s EXCEPT !.br[b].heart = FALSE] IN
         OfBridge(s, t, b) /\ t.br[b].proc = s.br[b].proc /\ t.br[b].cb = s.br[b].cb /\ t.br[b].heart = FALSE
<1> DEFINE x == [s.br[b] EXCEPT !.heart = FALSE]
           t == WithBridge(s, b, x)
<1>1. IsBridge(s.br[b])
  BY DEF IsProxy
<1>2. ASSUME NEW y, y = x PROVE IsBridge(y) /\ y.proc = s.br[b].proc /\ y.cb = s.br[b].cb /\ y.heart = FALSE
  BY <1>1, <1>2 DEF IsBridge
<1>3. IsBridge(x) /\ x.proc = s.br[b].proc /\ x.cb = s.br[b].cb /\ x.heart = FALSE
  BY <1>2
<1>4. [s EXCEPT !.br[b].heart = FALSE] = t
  BY Zenon DEF WithBridge
<1> HIDE DEF x
<1>5. /\ IsProxy(t) /\ t.wr = s.wr /\ t.act = s.act
      /\ t.br[b] = x /\ \A c \in Request \ {b} : t.br[c] = s.br[c]
  BY <1>3, PutBridge
<1> HIDE DEF t
<1> QED
  BY <1>3, <1>4, <1>5 DEF OfBridge

LEMMA MarkPipe ==
  ASSUME NEW s, IsProxy(s), NEW b \in Request
  PROVE  LET t == [s EXCEPT !.br[b].ended = TRUE] IN
         OfBridge(s, t, b) /\ SameBridge(s.br[b], t.br[b])
<1> DEFINE x == [s.br[b] EXCEPT !.ended = TRUE]
           t == WithBridge(s, b, x)
<1>1. IsBridge(s.br[b])
  BY DEF IsProxy
<1>2. ASSUME NEW y, y = x PROVE IsBridge(y) /\ SameBridge(s.br[b], y)
  BY <1>1, <1>2 DEF IsBridge, SameBridge
<1>3. IsBridge(x) /\ SameBridge(s.br[b], x)
  BY <1>2
<1>4. [s EXCEPT !.br[b].ended = TRUE] = t
  BY Zenon DEF WithBridge
<1> HIDE DEF x
<1>5. /\ IsProxy(t) /\ t.wr = s.wr /\ t.act = s.act
      /\ t.br[b] = x /\ \A c \in Request \ {b} : t.br[c] = s.br[c]
  BY <1>3, PutBridge
<1> HIDE DEF t
<1> QED
  BY <1>3, <1>4, <1>5 DEF OfBridge

LEMMA MarkReport ==
  ASSUME NEW s, IsProxy(s), NEW b \in Request
  PROVE  LET t == [s EXCEPT !.br[b].report = TRUE] IN
         OfBridge(s, t, b) /\ SameBridge(s.br[b], t.br[b])
<1> DEFINE x == [s.br[b] EXCEPT !.report = TRUE]
           t == WithBridge(s, b, x)
<1>1. IsBridge(s.br[b])
  BY DEF IsProxy
<1>2. ASSUME NEW y, y = x PROVE IsBridge(y) /\ SameBridge(s.br[b], y)
  BY <1>1, <1>2 DEF IsBridge, SameBridge
<1>3. IsBridge(x) /\ SameBridge(s.br[b], x)
  BY <1>2
<1>4. [s EXCEPT !.br[b].report = TRUE] = t
  BY Zenon DEF WithBridge
<1> HIDE DEF x
<1>5. /\ IsProxy(t) /\ t.wr = s.wr /\ t.act = s.act
      /\ t.br[b] = x /\ \A c \in Request \ {b} : t.br[c] = s.br[c]
  BY <1>3, PutBridge
<1> HIDE DEF t
<1> QED
  BY <1>3, <1>4, <1>5 DEF OfBridge

LEMMA Gets ==
  ASSUME NEW s, IsProxy(s), NEW b \in Request, NEW v
  PROVE  LET t == [s EXCEPT !.br[b].got = v] IN
         OfBridge(s, t, b) /\ SameBridge(s.br[b], t.br[b])
<1> DEFINE x == [s.br[b] EXCEPT !.got = v]
           t == WithBridge(s, b, x)
<1>1. IsBridge(s.br[b])
  BY DEF IsProxy
<1>2. ASSUME NEW y, y = x PROVE IsBridge(y) /\ SameBridge(s.br[b], y)
  BY <1>1, <1>2 DEF IsBridge, SameBridge
<1>3. IsBridge(x) /\ SameBridge(s.br[b], x)
  BY <1>2
<1>4. [s EXCEPT !.br[b].got = v] = t
  BY Zenon DEF WithBridge
<1> HIDE DEF x
<1>5. /\ IsProxy(t) /\ t.wr = s.wr /\ t.act = s.act
      /\ t.br[b] = x /\ \A c \in Request \ {b} : t.br[c] = s.br[c]
  BY <1>3, PutBridge
<1> HIDE DEF t
<1> QED
  BY <1>3, <1>4, <1>5 DEF OfBridge

LEMMA Kills ==
  ASSUME NEW s, IsProxy(s), NEW b \in Request, NEW v
  PROVE  LET t == [s EXCEPT !.br[b].proc = v] IN
         OfBridge(s, t, b) /\ t.br[b].proc = v /\ t.br[b].cb = s.br[b].cb /\ t.br[b].heart = s.br[b].heart
<1> DEFINE x == [s.br[b] EXCEPT !.proc = v]
           t == WithBridge(s, b, x)
<1>1. IsBridge(s.br[b])
  BY DEF IsProxy
<1>2. ASSUME NEW y, y = x PROVE IsBridge(y) /\ y.proc = v /\ y.cb = s.br[b].cb /\ y.heart = s.br[b].heart
  BY <1>1, <1>2 DEF IsBridge
<1>3. IsBridge(x) /\ x.proc = v /\ x.cb = s.br[b].cb /\ x.heart = s.br[b].heart
  BY <1>2
<1>4. [s EXCEPT !.br[b].proc = v] = t
  BY Zenon DEF WithBridge
<1> HIDE DEF x
<1>5. /\ IsProxy(t) /\ t.wr = s.wr /\ t.act = s.act
      /\ t.br[b] = x /\ \A c \in Request \ {b} : t.br[c] = s.br[c]
  BY <1>3, PutBridge
<1> HIDE DEF t
<1> QED
  BY <1>3, <1>4, <1>5 DEF OfBridge

\* The close callback: the response that has the callbacks fails, if it is
\* open, and nothing else changes but the active Run and the bridge's beat.
LEMMA ClosesBridge ==
  ASSUME CursorStreamAssumption, NEW s, IsProxy(s), NEW b \in Request, s.br[b].cb \in Request
  PROVE  LET t == bridgeOnClose(s, b)
             w == s.br[b].cb
         IN /\ IsProxy(t) /\ t.act = (IF s.act.run = b THEN NoActive ELSE s.act)
            /\ \A c \in Request \ {b} : t.br[c] = s.br[c]
            /\ t.br[b].proc = s.br[b].proc /\ t.br[b].cb = w /\ t.br[b].heart = FALSE
            /\ \A u \in Request \ {w} : SameWriter(s.wr[u], t.wr[u])
            /\ s.wr[w].cancelled \/ s.wr[w].phase = "closed" => SameWriter(s.wr[w], t.wr[w])
            /\ ~s.wr[w].cancelled /\ s.wr[w].phase # "closed" => EndedAs(s.wr[w], t.wr[w], "error")
<1> DEFINE w == s.br[b].cb
           me == s.wr[w]
           r == [s EXCEPT !.wr[w].timer = FALSE]
           q == [r EXCEPT !.br[b].heart = FALSE]
           s1 == dropActive(q, b)
           adopts == ownsConversation(s1, w) /\ ~me.cancelled /\ me.ended /\ me.saw # NoCheckpoint
           s2 == IF adopts THEN [s1 EXCEPT !.obj[me.stored].cp = me.saw] ELSE s1
           t == bridgeOnClose(s, b)
<1>1. dropActive([s EXCEPT !.wr[w].timer = FALSE, !.br[b].heart = FALSE], b) = s1
  BY Zenon
<1>2. t = IF me.cancelled THEN s2
          ELSE IF me.phase = "closed"
               THEN IF me.flushed /\ ~me.ended /\ ownsConversation(s1, w) THEN forgetConversation(s2) ELSE s2
               ELSE Failed(s2, w)
  BY <1>1, Zenon DEF bridgeOnClose
<1>3. OfWriters(s, r) /\ \A u \in Request : SameWriter(s.wr[u], r.wr[u])
  BY MarkTimer
<1> HIDE DEF r
<1>4. OfBridge(r, q, b) /\ q.br[b].proc = r.br[b].proc /\ q.br[b].cb = r.br[b].cb /\ q.br[b].heart = FALSE
  BY <1>3, MarkHeart DEF OfWriters
<1> HIDE DEF q
<1>5. IsProxy(s1) /\ s1.wr = q.wr /\ s1.br = q.br /\ s1.act = (IF q.act.run = b THEN NoActive ELSE q.act)
  BY <1>4, Drops DEF OfBridge
<1> HIDE DEF s1
<1>6. Beside(s1, s2)
  <2>1. CASE adopts
    <3>1. s2 = [s1 EXCEPT !.obj[me.stored].cp = me.saw]
      BY <2>1
    <3> HIDE DEF s2, adopts
    <3> QED
      BY <1>5, <3>1, Registry, Zenon
  <2>2. CASE ~adopts
    <3>1. s2 = s1
      BY <2>2
    <3> HIDE DEF s2, adopts
    <3> QED
      BY <1>5, <3>1 DEF Beside
  <2> QED
    BY <2>1, <2>2
<1> HIDE DEF s2, adopts
<1> DEFINE Base(x) ==
      /\ IsProxy(x) /\ x.act = (IF s.act.run = b THEN NoActive ELSE s.act)
      /\ \A c \in Request \ {b} : x.br[c] = s.br[c]
      /\ x.br[b].proc = s.br[b].proc /\ x.br[b].cb = w /\ x.br[b].heart = FALSE
      /\ \A u \in Request : SameWriter(s.wr[u], x.wr[u])
<1>7. Base(s2)
  BY <1>3, <1>4, <1>5, <1>6 DEF Beside, OfWriters, OfBridge
<1>8. CASE me.cancelled \/ me.phase = "closed"
  <2>1. t = s2 \/ t = forgetConversation(s2)
    BY <1>2, <1>8
  <2> HIDE DEF t, w, me
  <2>2. Beside(s2, t)
    <3>1. IsProxy(s2)
      BY <1>7
    <3> HIDE DEF Base
    <3>2. Beside(s2, forgetConversation(s2))
      BY <3>1, Registry
    <3> QED
      BY <2>1, <3>1, <3>2 DEF Beside
  <2>3. Base(t)
    BY <1>7, <2>2 DEF Beside
  <2> QED
    BY <1>8, <2>3 DEF t, w, me
<1>9. CASE ~me.cancelled /\ me.phase # "closed"
  <2>1. t = Failed(s2, w) /\ w \in Request
    BY <1>2, <1>9
  <2> HIDE DEF t
  <2>2. SameWriter(s.wr[w], s2.wr[w]) /\ s2.wr[w].phase # "closed"
    BY <1>7, <1>9, <2>1 DEF SameWriter
  <2>3. /\ OfWriters(s2, t) /\ \A u \in Request \ {w} : t.wr[u] = s2.wr[u]
        /\ EndedAs(s2.wr[w], t.wr[w], "error")
    BY <1>7, <2>1, <2>2, Fails
  <2>4. EndedAs(s.wr[w], t.wr[w], "error")
    BY <2>2, <2>3 DEF EndedAs, SameWriter
  <2> HIDE DEF w
  <2> QED
    BY <1>7, <1>9, <2>3, <2>4 DEF OfWriters, t, w, me
<1> QED
  BY <1>8, <1>9

LEMMA Destroys ==
  ASSUME CursorStreamAssumption, NEW s, IsProxy(s), NEW b \in Request, s.br[b].cb \in Request,
         s.br[b].proc = "running" => s.wr[s.br[b].cb].phase = "closed"
  PROVE  LET t == destroy(s, b) IN
         /\ IsProxy(t) /\ t.act \in {NoActive, s.act} /\ (s.act.run # b => t.act = s.act)
         /\ \A c \in Request \ {b} : t.br[c] = s.br[c]
         /\ t.br[b].proc = (IF s.br[b].proc = "running" THEN "closed" ELSE s.br[b].proc)
         /\ t.br[b].cb = s.br[b].cb
         /\ \A u \in Request : SameWriter(s.wr[u], t.wr[u])
<1> DEFINE r == [s EXCEPT !.br[b].ended = TRUE]
           q == [r EXCEPT !.br[b].proc = "closed"]
<1>1. OfBridge(s, r, b) /\ SameBridge(s.br[b], r.br[b])
  BY MarkPipe
<1>2. destroy(s, b) = IF s.br[b].proc # "running" THEN r ELSE bridgeOnClose(q, b)
  BY Zenon DEF destroy
<1> HIDE DEF r
<1>3. CASE s.br[b].proc # "running"
  <2>1. destroy(s, b) = r
    BY <1>2, <1>3
  <2>2. \A u \in Request : SameWriter(s.wr[u], r.wr[u])
    BY <1>1 DEF OfBridge, SameWriter
  <2> QED
    BY <1>1, <1>3, <2>1, <2>2 DEF OfBridge, SameBridge
<1>4. CASE s.br[b].proc = "running"
  <2>0. IsProxy(r)
    BY <1>1 DEF OfBridge
  <2>1. OfBridge(r, q, b) /\ q.br[b].proc = "closed" /\ q.br[b].cb = r.br[b].cb
    BY <2>0, Kills
  <2> HIDE DEF q
  <2>2. IsProxy(q) /\ q.br[b].cb = s.br[b].cb /\ q.wr = s.wr /\ q.act = s.act
        /\ \A c \in Request \ {b} : q.br[c] = s.br[c]
    BY <1>1, <2>1 DEF OfBridge, SameBridge
  <2> DEFINE t == bridgeOnClose(q, b)
  <2>3. /\ IsProxy(t) /\ t.act = (IF q.act.run = b THEN NoActive ELSE q.act)
        /\ \A c \in Request \ {b} : t.br[c] = q.br[c]
        /\ t.br[b].proc = q.br[b].proc /\ t.br[b].cb = q.br[b].cb
        /\ \A u \in Request : SameWriter(q.wr[u], t.wr[u])
    <3>1. s.wr[s.br[b].cb].phase = "closed"
      BY <1>4
    <3>2. q.br[b].cb \in Request /\ q.wr[q.br[b].cb].phase = "closed"
      BY <2>2, <3>1
    <3> DEFINE w == q.br[b].cb
    <3>3. /\ IsProxy(t) /\ t.act = (IF q.act.run = b THEN NoActive ELSE q.act)
          /\ \A c \in Request \ {b} : t.br[c] = q.br[c]
          /\ t.br[b].proc = q.br[b].proc /\ t.br[b].cb = w /\ t.br[b].heart = FALSE
          /\ \A u \in Request \ {w} : SameWriter(q.wr[u], t.wr[u])
          /\ q.wr[w].cancelled \/ q.wr[w].phase = "closed" => SameWriter(q.wr[w], t.wr[w])
          /\ ~q.wr[w].cancelled /\ q.wr[w].phase # "closed" => EndedAs(q.wr[w], t.wr[w], "error")
      BY <2>2, <3>2, ClosesBridge
    <3> HIDE DEF t
    <3> QED
      BY <3>2, <3>3
  <2> HIDE DEF t
  <2> QED
    BY <1>2, <1>4, <2>1, <2>2, <2>3 DEF t
<1> QED
  BY <1>3, <1>4

\* The bridge b can be cleaned up: nobody but the response to dispose of hears it.
Cleanable(s, b) ==
  /\ s.br[b].cb \in Request
  /\ s.act.run = b => s.act.dispose \in {0} \cup Request
  /\ \/ s.br[b].proc # "running"
     \/ s.wr[s.br[b].cb].phase = "closed"
     \/ s.act.run = b /\ s.act.dispose = s.br[b].cb

\* The response that the cleanup of b disposes of.
Disposed(s, b, u) == s.act.run = b /\ s.act.dispose = u /\ s.wr[u].phase # "closed"

LEMMA Cleans ==
  ASSUME CursorStreamAssumption, NEW s, IsProxy(s), NEW b \in Request, Cleanable(s, b)
  PROVE  LET t == cleanupBridge(s, b) IN
         /\ IsProxy(t) /\ t.act = (IF s.act.run = b THEN NoActive ELSE s.act)
         /\ \A c \in Request \ {b} : t.br[c] = s.br[c]
         /\ t.br[b].proc = (IF s.br[b].proc = "running" THEN "closed" ELSE s.br[b].proc)
         /\ t.br[b].cb = s.br[b].cb
         /\ \A u \in Request : IF Disposed(s, b, u) THEN EndedAs(s.wr[u], t.wr[u], "error")
                                                 ELSE SameWriter(s.wr[u], t.wr[u])
<1> DEFINE d == s.act.dispose
           r == IF s.act.run = b /\ d # 0 THEN dispose(s, d) ELSE s
           q == [r EXCEPT !.br[b].heart = FALSE]
           o == destroy(q, b)
           t == dropActive(o, b)
<1>1. cleanupBridge(s, b) = t
  BY Zenon DEF cleanupBridge
<1>2. 0 \notin Request
  BY DEF Request
<1>3. /\ OfWriters(s, r)
      /\ \A u \in Request : IF Disposed(s, b, u) THEN EndedAs(s.wr[u], r.wr[u], "error")
                                             ELSE SameWriter(s.wr[u], r.wr[u])
      /\ s.act.run = b /\ d # 0 => r.wr[d].phase = "closed"
  <2>1. CASE s.act.run = b /\ d # 0
    <3>1. d \in Request
      BY <2>1 DEF Cleanable
    <3>2. r = dispose(s, d)
      BY <2>1
    <3> HIDE DEF r
    <3>3. /\ OfWriters(s, r) /\ \A u \in Request \ {d} : r.wr[u] = s.wr[u]
          /\ r.wr[d].phase = "closed"
          /\ s.wr[d].phase = "closed" => r.wr[d] = s.wr[d]
          /\ s.wr[d].phase # "closed" => EndedAs(s.wr[d], r.wr[d], "error")
      BY <3>1, <3>2, Disposes
    <3> QED
      BY <2>1, <3>1, <3>3 DEF Disposed, SameWriter
  <2>2. CASE ~(s.act.run = b /\ d # 0)
    <3>1. r = s
      BY <2>2
    <3> HIDE DEF r
    <3> QED
      BY <1>2, <2>2, <3>1 DEF Disposed, SameWriter, OfWriters
  <2> QED
    BY <2>1, <2>2
<1> HIDE DEF r
<1>4. OfBridge(r, q, b) /\ q.br[b].proc = r.br[b].proc /\ q.br[b].cb = r.br[b].cb
  BY <1>3, MarkHeart DEF OfWriters
<1> HIDE DEF q
<1>5. /\ IsProxy(q) /\ q.wr = r.wr /\ q.act = s.act /\ q.br[b].proc = s.br[b].proc /\ q.br[b].cb = s.br[b].cb
      /\ \A c \in Request \ {b} : q.br[c] = s.br[c]
  BY <1>3, <1>4 DEF OfBridge, OfWriters
<1>6. q.br[b].cb \in Request /\ (q.br[b].proc = "running" => q.wr[q.br[b].cb].phase = "closed")
  <2>1. s.br[b].cb \in Request
    BY DEF Cleanable
  <2>2. CASE s.wr[s.br[b].cb].phase = "closed"
    BY <1>3, <1>5, <2>1, <2>2 DEF Disposed, SameWriter
  <2>3. CASE s.act.run = b /\ s.act.dispose = s.br[b].cb
    BY <1>2, <1>3, <1>5, <2>1, <2>3
  <2> QED
    BY <1>5, <2>1, <2>2, <2>3 DEF Cleanable
<1>7. /\ IsProxy(o) /\ o.act \in {NoActive, q.act} /\ (q.act.run # b => o.act = q.act)
      /\ \A c \in Request \ {b} : o.br[c] = q.br[c]
      /\ o.br[b].proc = (IF q.br[b].proc = "running" THEN "closed" ELSE q.br[b].proc)
      /\ o.br[b].cb = q.br[b].cb
      /\ \A u \in Request : SameWriter(q.wr[u], o.wr[u])
  BY <1>5, <1>6, Destroys
<1> HIDE DEF o
<1>8. IsProxy(t) /\ t.wr = o.wr /\ t.br = o.br /\ t.act = (IF o.act.run = b THEN NoActive ELSE o.act)
  BY <1>7, Drops
<1> HIDE DEF t
<1>9. t.act = IF s.act.run = b THEN NoActive ELSE s.act
  BY <1>2, <1>5, <1>7, <1>8 DEF NoActive
<1>10. \A u \in Request : IF Disposed(s, b, u) THEN EndedAs(s.wr[u], t.wr[u], "error")
                                            ELSE SameWriter(s.wr[u], t.wr[u])
  BY <1>3, <1>5, <1>7, <1>8 DEF SameWriter, EndedAs
<1> QED
  BY <1>1, <1>5, <1>7, <1>8, <1>9, <1>10

-----------------------------------------------------------------------------
(* The inductive invariant.                                                 *)

Outcomes == {"none", "stop", "tool_calls", "error"}

\* A closed response has an outcome; one that was never opened has nothing.
Responses(s) ==
  \A w \in Request :
    /\ s.wr[w].phase \in {"none", "open", "closed"} /\ s.wr[w].out \in Outcomes
    /\ s.wr[w].phase = "closed" <=> s.wr[w].out # "none"
    /\ s.wr[w].phase = "none" => s.wr[w].pend = {}

\* The open response is that of the active Run: the one that a cleanup of the
\* Run disposes of, and that has the callbacks of its bridge.
OpenOne(s) ==
  \A w \in Request : s.wr[w].phase = "open" =>
    /\ s.wr[w].run \in Request /\ s.act.run = s.wr[w].run
    /\ s.act.owner = w /\ s.act.dispose = w /\ ~s.act.paused
    /\ s.br[s.act.run].cb = w

\* The active Run has its process, or one whose exit was seen.
Running(s) ==
  /\ s.act.run \in {0} \cup Request
  /\ s.act.run # 0 =>
       /\ s.br[s.act.run].proc \in {"running", "exited"}
       /\ s.act.dispose \in {0} \cup Request
       /\ s.act.dispose # 0 => s.wr[s.act.dispose].phase # "none"

\* A process that runs is that of the active Run; one that was started has
\* given its callbacks to a response of its Run.
Bridges(s) ==
  \A b \in Request :
    /\ s.br[b].proc \in {"none", "running", "exited", "closed"}
    /\ s.br[b].proc = "running" => s.act.run = b /\ s.br[b].heart
    /\ s.br[b].proc # "none" =>
         /\ s.br[b].cb \in Request
         /\ s.wr[s.br[b].cb].run = b /\ s.wr[s.br[b].cb].phase # "none"

Shape(s) == IsProxy(s) /\ Responses(s) /\ OpenOne(s) /\ Running(s) /\ Bridges(s)

\* A response that is cancelled is over.
Calm(s) == \A w \in Request : s.wr[w].cancelled => s.wr[w].phase = "closed"

\* Requests come one after the other, and each names its response and its Run.
Fresh(s, n) ==
  \A w \in Request : /\ s.wr[w].phase = "none" <=> w > n
                     /\ s.br[w].proc # "none" => w <= n

-----------------------------------------------------------------------------
(* What a step can do to the active Run.                                    *)

Kept(x, y) ==
  /\ y.phase = x.phase /\ y.out = x.out /\ y.run = x.run
  /\ x.phase = "none" => y.pend = x.pend

\* The Run b is over, if it was active, and its open response ended that way.
Ended(s, t, b, how) ==
  /\ IsProxy(t) /\ t.act = (IF s.act.run = b THEN NoActive ELSE s.act)
  /\ \A c \in Request :
       /\ t.br[c].cb = s.br[c].cb
       /\ c # b => t.br[c].proc = s.br[c].proc /\ t.br[c].heart = s.br[c].heart
  /\ t.br[b].proc \in {s.br[b].proc, "closed"} \ {"running"}
  /\ s.br[b].proc = "none" <=> t.br[b].proc = "none"
  /\ \A u \in Request : IF s.wr[u].phase = "open" /\ s.act.run = b
                         THEN EndedAs(s.wr[u], t.wr[u], how) ELSE Kept(s.wr[u], t.wr[u])
  /\ \A u \in Request : t.wr[u].cancelled => t.wr[u].phase = "closed" \/ s.wr[u].cancelled

LEMMA EndsKeep ==
  ASSUME CursorStreamAssumption, NEW s, Shape(s), NEW b \in Request, NEW how \in {"stop", "error"},
         NEW t, Ended(s, t, b, how)
  PROVE  Shape(t) /\ (Calm(s) => Calm(t)) /\ \A n : Fresh(s, n) => Fresh(t, n)
<1>0. 0 \notin Request /\ NoActive.run = 0
  BY DEF Request, NoActive
<1>1. Responses(t)
  BY DEF Shape, Responses, Ended, EndedAs, Kept, Outcomes
<1>2. \A w \in Request : t.wr[w].phase = "open" =>
        s.wr[w].phase = "open" /\ s.act.run # b /\ t.wr[w].run = s.wr[w].run
  BY DEF Ended, EndedAs, Kept
<1>3. OpenOne(t)
  BY <1>2 DEF Shape, OpenOne, Ended
<1>4. Running(t)
  BY <1>0 DEF Shape, Running, Ended, EndedAs, Kept
<1>5. Bridges(t)
  <2>1. ASSUME NEW c \in Request
        PROVE  /\ t.br[c].proc \in {"none", "running", "exited", "closed"}
               /\ t.br[c].proc = "running" => t.act.run = c /\ t.br[c].heart
    BY DEF Shape, Bridges, Ended
  <2>2. ASSUME NEW c \in Request, t.br[c].proc # "none"
        PROVE  t.br[c].cb \in Request /\ t.wr[t.br[c].cb].run = c /\ t.wr[t.br[c].cb].phase # "none"
    <3>1. s.br[c].proc # "none" /\ t.br[c].cb = s.br[c].cb
      BY <2>2 DEF Ended
    <3>2. s.br[c].cb \in Request /\ s.wr[s.br[c].cb].run = c /\ s.wr[s.br[c].cb].phase # "none"
      BY <3>1 DEF Shape, Bridges
    <3> QED
      BY <3>1, <3>2 DEF Ended, EndedAs, Kept
  <2> QED
    BY <2>1, <2>2 DEF Bridges
<1>6. Calm(s) => Calm(t)
  BY DEF Calm, Ended, EndedAs, Kept
<1>7. ASSUME NEW n, Fresh(s, n) PROVE Fresh(t, n)
  BY <1>7 DEF Fresh, Ended, EndedAs, Kept
<1> QED
  BY <1>1, <1>3, <1>4, <1>5, <1>6, <1>7 DEF Shape, Ended

LEMMA CleansUp ==
  ASSUME CursorStreamAssumption, NEW s, Shape(s), NEW b \in Request, s.br[b].proc # "none"
  PROVE  Ended(s, cleanupBridge(s, b), b, "error")
<1> DEFINE t == cleanupBridge(s, b)
<1>0. 0 \notin Request
  BY DEF Request
<1>1. IsProxy(s) /\ s.br[b].cb \in Request /\ s.wr[s.br[b].cb].phase \in {"open", "closed"}
  BY DEF Shape, Bridges, Responses
<1>2. Cleanable(s, b)
  BY <1>0, <1>1 DEF Cleanable, Shape, Running, OpenOne, Bridges
<1>3. /\ IsProxy(t) /\ t.act = (IF s.act.run = b THEN NoActive ELSE s.act)
      /\ \A c \in Request \ {b} : t.br[c] = s.br[c]
      /\ t.br[b].proc = (IF s.br[b].proc = "running" THEN "closed" ELSE s.br[b].proc)
      /\ t.br[b].cb = s.br[b].cb
      /\ \A u \in Request : IF Disposed(s, b, u) THEN EndedAs(s.wr[u], t.wr[u], "error")
                                              ELSE SameWriter(s.wr[u], t.wr[u])
  BY <1>1, <1>2, Cleans
<1> HIDE DEF t
<1>4. \A u \in Request : Disposed(s, b, u) <=> s.wr[u].phase = "open" /\ s.act.run = b
  BY <1>0 DEF Disposed, Shape, OpenOne, Running, Responses
<1>5. \A u \in Request : IF s.wr[u].phase = "open" /\ s.act.run = b
                         THEN EndedAs(s.wr[u], t.wr[u], "error") ELSE Kept(s.wr[u], t.wr[u])
  BY <1>3, <1>4 DEF SameWriter, Kept
<1>6. \A u \in Request : t.wr[u].cancelled => t.wr[u].phase = "closed" \/ s.wr[u].cancelled
  BY <1>3 DEF SameWriter, EndedAs
<1>7. Ended(s, t, b, "error")
  BY <1>3, <1>5, <1>6 DEF Ended
<1> QED
  BY <1>7 DEF t

\* A step that changes no turn: the Run, its bridge and the responses stay.
Beneath(s, r) ==
  /\ IsProxy(r) /\ r.act = s.act
  /\ \A c \in Request : SameBridge(s.br[c], r.br[c])

Quiet(s, r) ==
  /\ Beneath(s, r) /\ \A u \in Request : Kept(s.wr[u], r.wr[u])
  /\ \A u \in Request : r.wr[u].cancelled => s.wr[u].cancelled

\* The Runs are left as they are, and no response they answer to is given away.
LEMMA BridgesStand ==
  ASSUME NEW s, Bridges(s), NEW t, t.act.run = s.act.run,
         \A c \in Request : SameBridge(s.br[c], t.br[c]),
         \A u \in Request : s.wr[u].phase # "none" => t.wr[u].phase # "none" /\ t.wr[u].run = s.wr[u].run
  PROVE  Bridges(t)
<1>1. ASSUME NEW c \in Request
      PROVE  t.br[c].proc = s.br[c].proc /\ t.br[c].heart = s.br[c].heart /\ t.br[c].cb = s.br[c].cb
  BY DEF SameBridge
<1>2. ASSUME NEW c \in Request
      PROVE  /\ t.br[c].proc \in {"none", "running", "exited", "closed"}
             /\ t.br[c].proc = "running" => t.act.run = c /\ t.br[c].heart
  <2>1. /\ s.br[c].proc \in {"none", "running", "exited", "closed"}
        /\ s.br[c].proc = "running" => s.act.run = c /\ s.br[c].heart
    BY DEF Bridges
  <2> QED
    BY <1>1, <2>1
<1>3. ASSUME NEW c \in Request, t.br[c].proc # "none"
      PROVE  t.br[c].cb \in Request /\ t.wr[t.br[c].cb].run = c /\ t.wr[t.br[c].cb].phase # "none"
  <2>1. s.br[c].proc # "none" /\ t.br[c].cb = s.br[c].cb
    BY <1>1, <1>3
  <2>2. s.br[c].cb \in Request /\ s.wr[s.br[c].cb].run = c /\ s.wr[s.br[c].cb].phase # "none"
    BY <2>1 DEF Bridges
  <2> QED
    BY <2>1, <2>2
<1> QED
  BY <1>2, <1>3 DEF Bridges

LEMMA QuietKeeps ==
  ASSUME NEW s, Shape(s), NEW r, Beneath(s, r), \A u \in Request : Kept(s.wr[u], r.wr[u])
  PROVE  Shape(r) /\ \A n : Fresh(s, n) => Fresh(r, n)
<1>1. Responses(r)
  BY DEF Shape, Responses, Kept
<1>2. OpenOne(r)
  BY DEF Shape, OpenOne, Kept, Beneath, SameBridge
<1>3. Running(r)
  BY DEF Shape, Running, Kept, Beneath, SameBridge
<1>4. Bridges(r)
  <2>1. r.act.run = s.act.run /\ \A c \in Request : SameBridge(s.br[c], r.br[c])
    BY DEF Beneath
  <2>2. \A u \in Request : r.wr[u].phase = s.wr[u].phase /\ r.wr[u].run = s.wr[u].run
    BY DEF Kept
  <2>3. Bridges(s)
    BY DEF Shape
  <2> QED
    BY <2>1, <2>2, <2>3, BridgesStand
<1>5. ASSUME NEW n, Fresh(s, n) PROVE Fresh(r, n)
  BY <1>5 DEF Fresh, Kept, Beneath, SameBridge
<1> QED
  BY <1>1, <1>2, <1>3, <1>4, <1>5 DEF Shape, Beneath

\* The same end of the Run, seen from before a step that changes no turn but
\* for the mark of a response w that is over afterwards.
LEMMA EndsVia ==
  ASSUME NEW s, Shape(s), NEW r, Beneath(s, r), \A u \in Request : Kept(s.wr[u], r.wr[u]),
         NEW w \in Request, NEW b \in Request, NEW how, NEW t, Ended(r, t, b, how),
         \A u \in Request : r.wr[u].cancelled => u = w \/ s.wr[u].cancelled,
         t.wr[w].phase = "closed" \/ (r.wr[w].cancelled => s.wr[w].cancelled)
  PROVE  Ended(s, t, b, how)
<1>1. \A c \in Request :
        /\ t.br[c].cb = s.br[c].cb
        /\ c # b => t.br[c].proc = s.br[c].proc /\ t.br[c].heart = s.br[c].heart
  BY DEF Ended, Beneath, SameBridge
<1>2. t.br[b].proc \in {s.br[b].proc, "closed"} \ {"running"} /\ (s.br[b].proc = "none" <=> t.br[b].proc = "none")
  BY DEF Ended, Beneath, SameBridge
<1>3. \A u \in Request : IF s.wr[u].phase = "open" /\ s.act.run = b
                         THEN EndedAs(s.wr[u], t.wr[u], how) ELSE Kept(s.wr[u], t.wr[u])
  BY DEF Ended, Beneath, Kept, EndedAs
<1>4. \A u \in Request : t.wr[u].cancelled => t.wr[u].phase = "closed" \/ s.wr[u].cancelled
  BY DEF Ended
<1> QED
  BY <1>1, <1>2, <1>3, <1>4 DEF Ended, Beneath

\* A response is ended first, and its Run cleaned up afterwards.
LEMMA EndsFirst ==
  ASSUME CursorStreamAssumption, NEW s, Shape(s), NEW w \in Request, s.wr[w].phase = "open",
         NEW how \in {"stop", "error"}, NEW r, Beneath(s, r),
         EndedAs(s.wr[w], r.wr[w], how),
         \A u \in Request \ {w} : r.wr[u] = s.wr[u]
  PROVE  Ended(s, cleanupBridge(r, s.wr[w].run), s.wr[w].run, how)
<1> DEFINE b == s.wr[w].run
           t == cleanupBridge(r, b)
<1>1. b \in Request /\ s.act.run = b /\ s.act.dispose = w /\ s.br[b].proc # "none"
      /\ \A u \in Request \ {w} : s.wr[u].phase # "open"
  BY DEF Shape, OpenOne, Running, Request
<1>2. \A u \in Request : r.wr[u].phase # "open" /\ r.wr[u].run = s.wr[u].run
  BY <1>1 DEF EndedAs
<1>3. Shape(r)
  <2>1. Responses(r)
    BY DEF Shape, Responses, EndedAs, Outcomes
  <2>2. OpenOne(r)
    BY <1>2 DEF OpenOne
  <2>3. Running(r)
    BY <1>1 DEF Shape, Running, EndedAs, Beneath, SameBridge
  <2>4. Bridges(r)
    <3>1. r.act = s.act /\ \A c \in Request : SameBridge(s.br[c], r.br[c])
      BY DEF Beneath
    <3>2. \A u \in Request : s.wr[u].phase # "none" => r.wr[u].phase # "none" /\ r.wr[u].run = s.wr[u].run
      BY DEF EndedAs
    <3>3. Bridges(s)
      BY DEF Shape
    <3> QED
      BY <3>1, <3>2, <3>3, BridgesStand
  <2> QED
    BY <2>1, <2>2, <2>3, <2>4 DEF Shape, Beneath
<1>4. r.br[b].proc # "none"
  BY <1>1 DEF Beneath, SameBridge
<1> HIDE DEF b
<1>5. Ended(r, t, b, "error")
  BY <1>1, <1>3, <1>4, CleansUp
<1> HIDE DEF t
<1>6. \A u \in Request : Kept(r.wr[u], t.wr[u])
  BY <1>2, <1>5 DEF Ended
<1>7. \A u \in Request : IF s.wr[u].phase = "open" /\ s.act.run = b
                         THEN EndedAs(s.wr[u], t.wr[u], how) ELSE Kept(s.wr[u], t.wr[u])
  BY <1>1, <1>6 DEF EndedAs, Kept
<1>8. \A u \in Request : t.wr[u].cancelled => t.wr[u].phase = "closed" \/ s.wr[u].cancelled
  BY <1>5, <1>6, <1>7, <1>1 DEF Ended, EndedAs
<1>9. /\ t.act = (IF s.act.run = b THEN NoActive ELSE s.act)
      /\ \A c \in Request :
           /\ t.br[c].cb = s.br[c].cb
           /\ c # b => t.br[c].proc = s.br[c].proc /\ t.br[c].heart = s.br[c].heart
      /\ t.br[b].proc \in {s.br[b].proc, "closed"} \ {"running"}
      /\ s.br[b].proc = "none" <=> t.br[b].proc = "none"
  BY <1>1, <1>5 DEF Ended, Beneath, SameBridge
<1>10. Ended(s, t, b, how)
  BY <1>5, <1>7, <1>8, <1>9 DEF Ended
<1> QED
  BY <1>10 DEF t, b

-----------------------------------------------------------------------------
(* The ways in which a Run ends.                                            *)

LEMMA FailsRun ==
  ASSUME CursorStreamAssumption, NEW s, Shape(s), NEW w \in Request
  PROVE  /\ s.wr[w].phase = "closed" => failRun(s, w) = s
         /\ s.wr[w].phase = "open" => Ended(s, failRun(s, w), s.wr[w].run, "error")
<1>1. CASE s.wr[w].phase = "closed"
  BY <1>1 DEF failRun
<1>2. CASE s.wr[w].phase = "open"
  <2> DEFINE r == Failed(s, w)
  <2>1. failRun(s, w) = cleanupBridge(r, s.wr[w].run)
    BY <1>2 DEF failRun
  <2>2. /\ OfWriters(s, r) /\ \A u \in Request \ {w} : r.wr[u] = s.wr[u]
        /\ EndedAs(s.wr[w], r.wr[w], "error")
    BY <1>2, Fails DEF Shape
  <2> HIDE DEF r
  <2>3. Beneath(s, r)
    BY <2>2 DEF OfWriters, Beneath, SameBridge
  <2> QED
    BY <1>2, <2>1, <2>2, <2>3, EndsFirst
<1> QED
  BY <1>1, <1>2

LEMMA CancelsRun ==
  ASSUME CursorStreamAssumption, NEW s, Shape(s), NEW b \in Request, s.br[b].proc # "none",
         NEW w \in Request, s.wr[w].phase # "none", s.wr[w].run = b
  PROVE  Ended(s, closeResponse(cleanupBridge([s EXCEPT !.wr[w].cancelled = TRUE], b), w, "error"),
               b, "error")
<1> DEFINE r == [s EXCEPT !.wr[w].cancelled = TRUE]
           t == cleanupBridge(r, b)
<1>0. IsProxy(s)
  BY DEF Shape
<1>1. /\ OfWriters(s, r) /\ \A u \in Request \ {w} : r.wr[u] = s.wr[u]
      /\ r.wr[w].phase = s.wr[w].phase /\ r.wr[w].out = s.wr[w].out /\ r.wr[w].run = s.wr[w].run
      /\ r.wr[w].pend = s.wr[w].pend
  <2> HIDE DEF t
  <2>1. /\ OfWriters(s, r) /\ SameRest(s, r) /\ \A u \in Request \ {w} : r.wr[u] = s.wr[u]
        /\ r.wr[w].phase = s.wr[w].phase /\ r.wr[w].out = s.wr[w].out /\ r.wr[w].run = s.wr[w].run
        /\ r.wr[w].pend = s.wr[w].pend /\ r.wr[w].cancelled = TRUE
    BY <1>0, MarkCancelled
  <2> HIDE DEF r
  <2> QED
    BY <2>1
<1> HIDE DEF r
<1>2. Beneath(s, r) /\ \A u \in Request : Kept(s.wr[u], r.wr[u])
  BY <1>1 DEF OfWriters, Beneath, SameBridge, Kept
<1>3. Shape(r) /\ r.br[b].proc # "none"
  BY <1>1, <1>2, QuietKeeps DEF OfWriters
<1>4. Ended(r, t, b, "error")
  BY <1>3, CleansUp
<1> HIDE DEF t
<1>5. t.wr[w].phase = "closed"
  <2>1. r.wr[w].phase \in {"open", "closed"}
    BY <1>1, <1>3 DEF Shape, Responses
  <2>2. r.wr[w].phase = "open" => r.act.run = b
    BY <1>1, <1>3 DEF Shape, OpenOne
  <2>3. IF r.wr[w].phase = "open" /\ r.act.run = b
          THEN EndedAs(r.wr[w], t.wr[w], "error") ELSE Kept(r.wr[w], t.wr[w])
    BY <1>4 DEF Ended
  <2> QED
    BY <2>1, <2>2, <2>3 DEF EndedAs, Kept
<1>6. closeResponse(t, w, "error") = t
  BY <1>5 DEF closeResponse
<1>7. \A u \in Request : r.wr[u].cancelled => u = w \/ s.wr[u].cancelled
  BY <1>1
<1>8. Ended(s, t, b, "error")
  BY <1>2, <1>4, <1>5, <1>7, EndsVia
<1> QED
  BY <1>6, <1>8 DEF t, r

\* A Run is cleaned up after a step that changes no turn.
LEMMA CleansUpVia ==
  ASSUME CursorStreamAssumption, NEW s, Shape(s), NEW r, Quiet(s, r), NEW b \in Request,
         s.br[b].proc # "none"
  PROVE  Ended(s, cleanupBridge(r, b), b, "error")
<1>1. Shape(r) /\ r.br[b].proc # "none"
  BY QuietKeeps DEF Quiet, Beneath, SameBridge
<1> DEFINE t == cleanupBridge(r, b)
<1>2. Ended(r, t, b, "error")
  BY <1>1, CleansUp
<1> HIDE DEF t
<1>3. Beneath(s, r) /\ (\A u \in Request : Kept(s.wr[u], r.wr[u]))
      /\ \A u \in Request : r.wr[u].cancelled => u = b \/ s.wr[u].cancelled
  BY DEF Quiet
<1>4. Ended(s, t, b, "error")
  BY <1>2, <1>3, EndsVia DEF Quiet
<1> QED
  BY <1>4 DEF t

LEMMA QuietSteps ==
  ASSUME NEW s, IsProxy(s), NEW t
  PROVE  /\ Beside(s, t) => Quiet(s, t)
         /\ OfWriters(s, t) /\ (\A u \in Request : SameWriter(s.wr[u], t.wr[u])) => Quiet(s, t)
         /\ \A b \in Request : OfBridge(s, t, b) /\ SameBridge(s.br[b], t.br[b]) => Quiet(s, t)
<1>1. Beside(s, t) => Quiet(s, t)
  BY DEF Beside, Quiet, Beneath, SameBridge, Kept
<1>2. OfWriters(s, t) /\ (\A u \in Request : SameWriter(s.wr[u], t.wr[u])) => Quiet(s, t)
  BY DEF OfWriters, Quiet, Beneath, SameBridge, SameWriter, Kept
<1>3. ASSUME NEW b \in Request, OfBridge(s, t, b), SameBridge(s.br[b], t.br[b]) PROVE Quiet(s, t)
  BY <1>3 DEF OfBridge, Quiet, Beneath, SameBridge, Kept
<1> QED
  BY <1>1, <1>2, <1>3

LEMMA Finishes ==
  ASSUME CursorStreamAssumption, NEW s, Shape(s), NEW w \in Request, s.wr[w].phase # "none"
  PROVE  \/ finishOpenAITurn(s, w) = s
         \/ s.wr[w].phase = "open" /\ Ended(s, finishOpenAITurn(s, w), s.wr[w].run, "stop")
<1>1. CASE s.wr[w].phase = "closed" \/ s.wr[w].mcp
  BY <1>1 DEF finishOpenAITurn
<1>2. CASE ~(s.wr[w].phase = "closed" \/ s.wr[w].mcp)
  <2> DEFINE q == IF ownsConversation(s, w)
                  THEN recordAssistantResponse(s, s.wr[w].stored, Msg("asst", w, {})) ELSE s
             r == closeResponse(q, w, "stop")
  <2>1. finishOpenAITurn(s, w) = cleanupBridge(r, s.wr[w].run)
    BY <1>2 DEF finishOpenAITurn
  <2>2. Beside(s, q)
    <3>1. q = s \/ q = recordAssistantResponse(s, s.wr[w].stored, Msg("asst", w, {}))
      OBVIOUS
    <3>2. Beside(s, recordAssistantResponse(s, s.wr[w].stored, Msg("asst", w, {})))
      BY Registry, Zenon DEF Shape
    <3> HIDE DEF q
    <3> QED
      BY <3>1, <3>2 DEF Shape, Beside
  <2> HIDE DEF q
  <2>3. s.wr[w].phase = "open"
    BY <1>2 DEF Shape, Responses
  <2>4. /\ OfWriters(q, r) /\ \A u \in Request \ {w} : r.wr[u] = q.wr[u]
        /\ EndedAs(q.wr[w], r.wr[w], "stop")
    BY <2>2, <2>3, Closes DEF Beside
  <2> HIDE DEF r
  <2>5. /\ Beneath(s, r) /\ EndedAs(s.wr[w], r.wr[w], "stop")
        /\ \A u \in Request \ {w} : r.wr[u] = s.wr[u]
    BY <2>2, <2>4 DEF Beside, OfWriters, Beneath, SameBridge
  <2> QED
    BY <2>1, <2>3, <2>5, EndsFirst
<1> QED
  BY <1>1, <1>2

\* The process of b is gone, and its close callback is called.
LEMMA ClosesProcess ==
  ASSUME CursorStreamAssumption, NEW s, Shape(s), Calm(s), NEW b \in Request,
         s.br[b].proc \in {"running", "exited"}
  PROVE  Ended(s, bridgeOnClose([s EXCEPT !.br[b].proc = "closed"], b), b, "error")
<1> DEFINE q == [s EXCEPT !.br[b].proc = "closed"]
           w == q.br[b].cb
           t == bridgeOnClose(q, b)
<1>1. OfBridge(s, q, b) /\ q.br[b].proc = "closed" /\ q.br[b].cb = s.br[b].cb
  BY Kills DEF Shape
<1> HIDE DEF q
<1>2. w = s.br[b].cb /\ w \in Request /\ s.wr[w].phase # "none" /\ s.wr[w].run = b /\ q.wr = s.wr /\ q.act = s.act
      /\ IsProxy(q)
  <2>1. w = s.br[b].cb /\ q.wr = s.wr /\ q.act = s.act /\ IsProxy(q)
    BY <1>1 DEF OfBridge
  <2>2. s.br[b].cb \in Request /\ s.wr[s.br[b].cb].phase # "none" /\ s.wr[s.br[b].cb].run = b
    BY DEF Shape, Bridges
  <2> QED
    BY <2>1, <2>2
<1>3. /\ IsProxy(t) /\ t.act = (IF q.act.run = b THEN NoActive ELSE q.act)
      /\ \A c \in Request \ {b} : t.br[c] = q.br[c]
      /\ t.br[b].proc = q.br[b].proc /\ t.br[b].cb = w /\ t.br[b].heart = FALSE
      /\ \A u \in Request \ {w} : SameWriter(q.wr[u], t.wr[u])
      /\ q.wr[w].cancelled \/ q.wr[w].phase = "closed" => SameWriter(q.wr[w], t.wr[w])
      /\ ~q.wr[w].cancelled /\ q.wr[w].phase # "closed" => EndedAs(q.wr[w], t.wr[w], "error")
  BY <1>2, ClosesBridge
<1> HIDE DEF t, w
<1>4. \A u \in Request : s.wr[u].phase = "open" /\ s.act.run = b <=> s.wr[u].phase = "open" /\ u = w
  BY <1>2 DEF Shape, OpenOne
<1>5. s.wr[w].phase \in {"open", "closed"} /\ (s.wr[w].cancelled => s.wr[w].phase = "closed")
  BY <1>2 DEF Shape, Responses, Calm
<1>6. \A u \in Request : IF s.wr[u].phase = "open" /\ s.act.run = b
                         THEN EndedAs(s.wr[u], t.wr[u], "error") ELSE Kept(s.wr[u], t.wr[u])
  <2>1. CASE s.wr[w].phase = "open"
    <3>1. EndedAs(s.wr[w], t.wr[w], "error")
      BY <1>2, <1>3, <1>5, <2>1
    <3>2. \A u \in Request \ {w} : Kept(s.wr[u], t.wr[u])
      BY <1>2, <1>3 DEF SameWriter, Kept
    <3> QED
      BY <1>4, <2>1, <3>1, <3>2
  <2>2. CASE s.wr[w].phase = "closed"
    <3>1. SameWriter(s.wr[w], t.wr[w])
      BY <1>2, <1>3, <2>2
    <3>2. \A u \in Request \ {w} : SameWriter(s.wr[u], t.wr[u])
      BY <1>2, <1>3
    <3>3. \A u \in Request : SameWriter(s.wr[u], t.wr[u])
      BY <3>1, <3>2
    <3>4. \A u \in Request : Kept(s.wr[u], t.wr[u])
      BY <3>3 DEF SameWriter, Kept
    <3> QED
      BY <1>4, <2>2, <3>4
  <2> QED
    BY <1>5, <2>1, <2>2
<1>7. \A u \in Request : t.wr[u].cancelled => t.wr[u].phase = "closed" \/ s.wr[u].cancelled
  BY <1>2, <1>3, <1>5 DEF SameWriter, EndedAs
<1>8. Ended(s, t, b, "error")
  BY <1>1, <1>2, <1>3, <1>6, <1>7 DEF Ended, OfBridge
<1> QED
  BY <1>8 DEF t, q

-----------------------------------------------------------------------------
(* Opening: a request reaches the proxy.                                   *)

LEMMA CallsBack ==
  ASSUME NEW s, IsProxy(s), NEW b \in Request, NEW w
  PROVE  LET t == [s EXCEPT !.br[b].cb = w] IN
         OfBridge(s, t, b) /\ t.br[b].proc = s.br[b].proc /\ t.br[b].heart = s.br[b].heart /\ t.br[b].cb = w
<1> DEFINE x == [s.br[b] EXCEPT !.cb = w]
           t == WithBridge(s, b, x)
<1>1. IsBridge(s.br[b])
  BY DEF IsProxy
<1>2. ASSUME NEW y, y = x
      PROVE  IsBridge(y) /\ y.proc = s.br[b].proc /\ y.heart = s.br[b].heart /\ y.cb = w
  BY <1>1, <1>2 DEF IsBridge
<1>3. IsBridge(x) /\ x.proc = s.br[b].proc /\ x.heart = s.br[b].heart /\ x.cb = w
  BY <1>2
<1>4. [s EXCEPT !.br[b].cb = w] = t
  BY Zenon DEF WithBridge
<1> HIDE DEF x
<1>5. /\ IsProxy(t) /\ t.wr = s.wr /\ t.act = s.act
      /\ t.br[b] = x /\ \A c \in Request \ {b} : t.br[c] = s.br[c]
  BY <1>3, PutBridge
<1> HIDE DEF t
<1> QED
  BY <1>3, <1>4, <1>5 DEF OfBridge

\* The response w opens on the Run b, which becomes the active one.
Opened(s, t, w, b) ==
  /\ IsProxy(t)
  /\ t.act.run = b /\ t.act.owner = w /\ ~t.act.paused /\ t.act.dispose = w
  /\ \A c \in Request \ {b} : SameBridge(s.br[c], t.br[c])
  /\ t.br[b].cb = w
  /\ \A u \in Request \ {w} : SameWriter(s.wr[u], t.wr[u])
  /\ t.wr[w].phase = "open" /\ t.wr[w].out = s.wr[w].out /\ t.wr[w].run = b
  /\ t.wr[w].cancelled = s.wr[w].cancelled

LEMMA Opens ==
  ASSUME CursorStreamAssumption, NEW s, IsProxy(s), NEW w \in Request, NEW b \in Request
  PROVE  LET t == writeSSEStream(s, w, b) IN
         Opened(s, t, w, b) /\ t.br[b].proc = s.br[b].proc /\ t.br[b].heart = s.br[b].heart
<1> DEFINE g == IF s.stored = 0 THEN 0 ELSE s.obj[s.stored].rgen + 1
           r == IF s.stored = 0 THEN s ELSE [s EXCEPT !.obj[s.stored].rgen = g]
           x == [r.wr[w] EXCEPT !.phase = "open", !.run = b, !.stored = s.stored, !.rgen = g]
           a == [run |-> b, owner |-> w, paused |-> FALSE, dispose |-> w, stored |-> s.stored, rgen |-> g]
           q == WithWriter(r, w, x)
           o == WithActive(q, a)
           t == [o EXCEPT !.br[b].cb = w]
<1>1. writeSSEStream(s, w, b) = t
  BY Zenon DEF writeSSEStream, WithWriter, WithActive
<1>2. Beside(s, r)
  <2>1. Beside(s, [s EXCEPT !.obj[s.stored].rgen = g])
    BY Registry, Zenon
  <2>2. r = s \/ r = [s EXCEPT !.obj[s.stored].rgen = g]
    BY Zenon
  <2> HIDE DEF r
  <2> QED
    BY <2>1, <2>2 DEF Beside
<1> HIDE DEF r
<1>3. /\ IsWriter(x) /\ x.phase = "open" /\ x.out = s.wr[w].out /\ x.run = b
      /\ x.cancelled = s.wr[w].cancelled
  <2>1. IsWriter(r.wr[w]) /\ r.wr[w] = s.wr[w]
    BY <1>2 DEF Beside, IsProxy
  <2> HIDE DEF g
  <2>2. ASSUME NEW y, y = x
        PROVE  /\ IsWriter(y) /\ y.phase = "open" /\ y.out = r.wr[w].out /\ y.run = b
               /\ y.cancelled = r.wr[w].cancelled
    BY <2>1, <2>2 DEF IsWriter
  <2> QED
    BY <2>1, <2>2
<1> HIDE DEF x
<1>4. /\ IsProxy(q) /\ q.br = s.br /\ q.wr[w] = x /\ \A u \in Request \ {w} : q.wr[u] = s.wr[u]
  BY <1>2, <1>3, PutWriter DEF Beside
<1> HIDE DEF q
<1>5. IsActive(a) /\ a.run = b /\ a.owner = w /\ a.paused = FALSE /\ a.dispose = w
  BY DEF IsActive
<1> HIDE DEF a
<1>6. IsProxy(o) /\ o.wr = q.wr /\ o.br = q.br /\ o.act = a
  BY <1>4, <1>5, PutActive
<1> HIDE DEF o
<1>7. OfBridge(o, t, b) /\ t.br[b].proc = o.br[b].proc /\ t.br[b].heart = o.br[b].heart /\ t.br[b].cb = w
  BY <1>6, CallsBack, SMT
<1> HIDE DEF t
<1>8. Opened(s, t, w, b) /\ t.br[b].proc = s.br[b].proc /\ t.br[b].heart = s.br[b].heart
  BY <1>3, <1>4, <1>5, <1>6, <1>7 DEF OfBridge, Opened, SameBridge, SameWriter
<1> QED
  BY <1>1, <1>8

LEMMA Starts ==
  ASSUME CursorStreamAssumption, NEW s, IsProxy(s), NEW w \in Request, NEW body, NEW o
  PROVE  LET t == StartRun(s, w, body, o) IN
         Opened(s, t, w, w) /\ t.br[w].proc = "running" /\ t.br[w].heart
<1> DEFINE r1 == [s EXCEPT !.stored = w]
           r2 == [r1 EXCEPT !.obj[w].id = s.gen]
           r3 == [r2 EXCEPT !.obj[w].cp = NoCheckpoint]
           r == IF o # 0 THEN s ELSE r3
           q == coverTranscript(r, IF o # 0 THEN o ELSE w, body)
           x == [q.br[w] EXCEPT !.proc = "running", !.heart = TRUE]
           v == WithBridge(q, w, x)
           t == writeSSEStream(v, w, w)
<1>1. StartRun(s, w, body, o) = t
  BY Zenon DEF StartRun, WithBridge
<1>2. Beside(s, r)
  <2>1. Beside(s, r1)
    <3>1. w \in 0..MaxReq
      BY DEF Request
    <3> QED
      BY <3>1, Registry, Zenon
  <2> HIDE DEF r1
  <2>2. Beside(r1, r2)
    <3>1. IsProxy(r1)
      BY <2>1 DEF Beside
    <3> QED
      BY <3>1, Registry, Zenon
  <2> HIDE DEF r2
  <2>3. Beside(r2, r3)
    <3>1. IsProxy(r2)
      BY <2>2 DEF Beside
    <3> QED
      BY <3>1, Registry, Zenon
  <2> HIDE DEF r3
  <2> QED
    BY <2>1, <2>2, <2>3 DEF Beside
<1> HIDE DEF r
<1>3. Beside(r, q)
  <2>1. IsProxy(r)
    BY <1>2 DEF Beside
  <2> QED
    BY <2>1, Registry, Zenon
<1> HIDE DEF q
<1>4. IsProxy(q) /\ q.wr = s.wr /\ q.br = s.br
  BY <1>2, <1>3 DEF Beside
<1>5. IsBridge(x) /\ x.proc = "running" /\ x.heart = TRUE
  <2>1. IsBridge(q.br[w])
    BY <1>4 DEF IsProxy
  <2>2. ASSUME NEW y, y = x PROVE IsBridge(y) /\ y.proc = "running" /\ y.heart = TRUE
    BY <2>1, <2>2 DEF IsBridge
  <2> QED
    BY <2>2
<1> HIDE DEF x
<1>6. /\ IsProxy(v) /\ v.wr = s.wr /\ v.br[w] = x /\ \A c \in Request \ {w} : v.br[c] = s.br[c]
  BY <1>4, <1>5, PutBridge
<1> HIDE DEF v
<1>7. Opened(v, t, w, w) /\ t.br[w].proc = v.br[w].proc /\ t.br[w].heart = v.br[w].heart
  BY <1>6, Opens
<1> HIDE DEF t
<1>8. Opened(s, t, w, w)
  BY <1>6, <1>7 DEF Opened
<1> QED
  BY <1>1, <1>5, <1>6, <1>7, <1>8

\* The next request finds no Run: an active one has been cleaned up.
Cleared(s, t) ==
  /\ IsProxy(t) /\ t.act.run = 0
  /\ \A c \in Request :
       /\ t.br[c].cb = s.br[c].cb
       /\ t.br[c].proc \in {s.br[c].proc, "closed"} \ {"running"}
       /\ s.br[c].proc = "none" <=> t.br[c].proc = "none"
  /\ \A u \in Request : IF s.wr[u].phase = "open" THEN EndedAs(s.wr[u], t.wr[u], "error")
                         ELSE Kept(s.wr[u], t.wr[u])
  /\ \A u \in Request : t.wr[u].cancelled => t.wr[u].phase = "closed" \/ s.wr[u].cancelled

LEMMA ClearedKeeps ==
  ASSUME CursorStreamAssumption, NEW s, Shape(s), NEW t, Cleared(s, t)
  PROVE  /\ Shape(t) /\ (Calm(s) => Calm(t)) /\ \A n : Fresh(s, n) => Fresh(t, n)
         /\ \A u \in Request : t.wr[u].phase # "open"
<1>1. Responses(t)
  BY DEF Shape, Responses, Cleared, EndedAs, Kept, Outcomes
<1>2. \A u \in Request : t.wr[u].phase # "open" /\ t.wr[u].run = s.wr[u].run
  BY DEF Cleared, EndedAs, Kept
<1>3. OpenOne(t) /\ Running(t)
  BY <1>2 DEF OpenOne, Running, Cleared
<1>4. Bridges(t)
  <2>1. \A u \in Request : s.wr[u].phase # "none" => t.wr[u].phase # "none" /\ t.wr[u].run = s.wr[u].run
    BY <1>2 DEF Cleared, EndedAs, Kept
  <2>2. ASSUME NEW c \in Request
        PROVE  t.br[c].proc \in {"none", "exited", "closed"} /\ (t.br[c].proc # "none" => s.br[c].proc # "none")
               /\ t.br[c].cb = s.br[c].cb
    <3>1. s.br[c].proc \in {"none", "running", "exited", "closed"}
      BY DEF Shape, Bridges
    <3> QED
      BY <3>1 DEF Cleared
  <2>3. ASSUME NEW c \in Request, t.br[c].proc # "none"
        PROVE  t.br[c].cb \in Request /\ t.wr[t.br[c].cb].run = c /\ t.wr[t.br[c].cb].phase # "none"
    <3>1. s.br[c].cb \in Request /\ s.wr[s.br[c].cb].run = c /\ s.wr[s.br[c].cb].phase # "none"
      BY <2>2, <2>3 DEF Shape, Bridges
    <3> QED
      BY <2>1, <2>2, <3>1
  <2> QED
    BY <2>2, <2>3 DEF Bridges
<1>5. Calm(s) => Calm(t)
  BY DEF Calm, Cleared, EndedAs, Kept
<1>6. ASSUME NEW n, Fresh(s, n) PROVE Fresh(t, n)
  BY <1>6 DEF Fresh, Cleared, EndedAs, Kept
<1> QED
  BY <1>1, <1>2, <1>3, <1>4, <1>5, <1>6 DEF Shape, Cleared

LEMMA EndsClear ==
  ASSUME CursorStreamAssumption, NEW s, Shape(s), NEW t
  PROVE  /\ s.act.run # 0 /\ Ended(s, t, s.act.run, "error") => Cleared(s, t)
         /\ s.act.run = 0 /\ Quiet(s, t) => Cleared(s, t)
<1>0. NoActive.run = 0 /\ 0 \notin Request
  BY DEF NoActive, Request
<1>1. ASSUME s.act.run # 0, Ended(s, t, s.act.run, "error") PROVE Cleared(s, t)
  <2>1. \A c \in Request : s.br[c].proc = "running" => c = s.act.run
    BY DEF Shape, Bridges
  <2>2. \A c \in Request :
          /\ t.br[c].cb = s.br[c].cb
          /\ t.br[c].proc \in {s.br[c].proc, "closed"} \ {"running"}
          /\ s.br[c].proc = "none" <=> t.br[c].proc = "none"
    BY <1>1, <2>1 DEF Ended
  <2> QED
    BY <1>0, <1>1, <2>2 DEF Ended, Cleared
<1>2. ASSUME s.act.run = 0, Quiet(s, t) PROVE Cleared(s, t)
  <2>1. \A c \in Request : s.br[c].proc # "running" /\ s.wr[c].phase # "open"
    BY <1>0, <1>2 DEF Shape, Bridges, OpenOne
  <2> QED
    BY <1>2, <2>1 DEF Quiet, Beneath, SameBridge, Cleared
<1> QED
  BY <1>1, <1>2

LEMMA Clears ==
  ASSUME CursorStreamAssumption, NEW s, Shape(s)
  PROVE  /\ \A r : Quiet(s, r) =>
              Cleared(s, IF s.act.run # 0 THEN cleanupBridge(r, s.act.run) ELSE r)
         /\ \A r : s.act.run # 0 /\ s.act.paused /\ Beside(s, r) =>
              Cleared(s, cleanupBridge([r EXCEPT !.act = NoActive], s.act.run))
<1> DEFINE b == s.act.run
<1>0. NoActive.run = 0 /\ 0 \notin Request
  BY DEF NoActive, Request
<1>1. ASSUME NEW r, Quiet(s, r) PROVE Cleared(s, IF b # 0 THEN cleanupBridge(r, b) ELSE r)
  <2>1. CASE b # 0
    <3>1. b \in Request /\ s.br[b].proc # "none"
      BY <2>1 DEF Shape, Running
    <3>2. Ended(s, cleanupBridge(r, b), b, "error")
      BY <1>1, <3>1, CleansUpVia
    <3> QED
      BY <2>1, <3>2, EndsClear
  <2>2. CASE b = 0
    BY <1>1, <2>2, EndsClear
  <2> QED
    BY <2>1, <2>2
<1>2. ASSUME NEW r, b # 0, s.act.paused, Beside(s, r)
      PROVE  Cleared(s, cleanupBridge([r EXCEPT !.act = NoActive], b))
  <2> DEFINE q == WithActive(r, NoActive)
             t == cleanupBridge(q, b)
  <2>1. [r EXCEPT !.act = NoActive] = q
    BY DEF WithActive
  <2>2. IsProxy(q) /\ q.wr = s.wr /\ q.br = s.br /\ q.act = NoActive
    <3>1. IsActive(NoActive)
      BY DEF IsActive, NoActive
    <3> QED
      BY <1>2, <3>1, PutActive DEF Beside
  <2> HIDE DEF q
  <2>3. \A u \in Request : s.wr[u].phase # "open"
    BY <1>2 DEF Shape, OpenOne
  <2>4. b \in Request /\ s.br[b].proc # "none" /\ s.br[b].cb \in Request
        /\ s.wr[s.br[b].cb].phase = "closed"
    BY <1>2, <2>3 DEF Shape, Running, Bridges, Responses
  <2>5. Cleanable(q, b)
    BY <1>0, <2>2, <2>4 DEF Cleanable
  <2>6. /\ IsProxy(t) /\ t.act = (IF q.act.run = b THEN NoActive ELSE q.act)
        /\ \A c \in Request \ {b} : t.br[c] = q.br[c]
        /\ t.br[b].proc = (IF q.br[b].proc = "running" THEN "closed" ELSE q.br[b].proc)
        /\ t.br[b].cb = q.br[b].cb
        /\ \A u \in Request : IF Disposed(q, b, u) THEN EndedAs(q.wr[u], t.wr[u], "error")
                                                ELSE SameWriter(q.wr[u], t.wr[u])
    BY <2>2, <2>4, <2>5, Cleans
  <2> HIDE DEF t
  <2>7. \A u \in Request : SameWriter(s.wr[u], t.wr[u])
    BY <1>0, <1>2, <2>2, <2>6 DEF Disposed
  <2>8. \A c \in Request : s.br[c].proc = "running" => c = b
    BY DEF Shape, Bridges
  <2>9. \A c \in Request :
          /\ t.br[c].cb = s.br[c].cb
          /\ t.br[c].proc \in {s.br[c].proc, "closed"} \ {"running"}
          /\ s.br[c].proc = "none" <=> t.br[c].proc = "none"
    BY <2>2, <2>6, <2>8
  <2>10. Cleared(s, t)
    BY <1>0, <2>2, <2>3, <2>6, <2>7, <2>9 DEF Cleared, SameWriter, Kept
  <2> QED
    BY <2>1, <2>10 DEF t
<1> QED
  BY <1>1, <1>2

LEMMA OpenedKeeps ==
  ASSUME CursorStreamAssumption, NEW s, Shape(s), \A u \in Request : s.wr[u].phase # "open",
         NEW w \in Request, s.wr[w].phase = "none", NEW b \in Request, s.act.run \in {0, b},
         NEW t, Opened(s, t, w, b), t.br[b].proc \in {"running", "exited"},
         t.br[b].proc = "running" => t.br[b].heart
  PROVE  /\ Shape(t) /\ (Calm(s) => Calm(t))
         /\ \A n \in Nat : Fresh(s, n) /\ w = n + 1 /\ (b = w \/ s.br[b].proc # "none") => Fresh(t, n + 1)
<1>0. 0 \notin Request
  BY DEF Request
<1>1. Responses(t)
  BY DEF Shape, Responses, Opened, SameWriter, Outcomes
<1>2. OpenOne(t)
  BY DEF OpenOne, Opened, SameWriter
<1>3. Running(t)
  BY DEF Running, Opened
<1>4. Bridges(t)
  <2>1. ASSUME NEW c \in Request, c # b
        PROVE  /\ t.br[c].proc \in {"none", "running", "exited", "closed"}
               /\ t.br[c].proc # "running"
               /\ t.br[c].proc # "none" =>
                    /\ t.br[c].cb \in Request
                    /\ t.wr[t.br[c].cb].run = c /\ t.wr[t.br[c].cb].phase # "none"
    <3>1. SameBridge(s.br[c], t.br[c])
      BY <2>1 DEF Opened
    <3>2. s.br[c].proc # "running"
      BY <1>0, <2>1 DEF Shape, Bridges
    <3>3. s.br[c].proc # "none" => s.br[c].cb \in Request \ {w}
      BY DEF Shape, Bridges
    <3>4. \A u \in Request \ {w} : t.wr[u].run = s.wr[u].run /\ t.wr[u].phase = s.wr[u].phase
      BY DEF Opened, SameWriter
    <3>5. /\ s.br[c].proc \in {"none", "running", "exited", "closed"}
          /\ s.br[c].proc # "none" => s.wr[s.br[c].cb].run = c /\ s.wr[s.br[c].cb].phase # "none"
      BY DEF Shape, Bridges
    <3> QED
      BY <3>1, <3>2, <3>3, <3>4, <3>5 DEF SameBridge
  <2>2. t.act.run = b /\ t.br[b].cb = w /\ t.wr[w].run = b /\ t.wr[w].phase = "open"
    BY DEF Opened
  <2> QED
    BY <2>1, <2>2 DEF Bridges
<1>5. Calm(s) => Calm(t)
  BY DEF Calm, Opened, SameWriter
<1>6. ASSUME NEW n \in Nat, Fresh(s, n), w = n + 1, b = w \/ s.br[b].proc # "none" PROVE Fresh(t, n + 1)
  <2>1. \A u \in Request : t.wr[u].phase = "none" <=> u > n + 1
    BY <1>6 DEF Fresh, Opened, SameWriter, Request
  <2>2. \A u \in Request : t.br[u].proc # "none" => u <= n + 1
    BY <1>6 DEF Fresh, Opened, SameBridge, Request
  <2> QED
    BY <2>1, <2>2 DEF Fresh
<1> QED
  BY <1>1, <1>2, <1>3, <1>4, <1>5, <1>6 DEF Shape, Opened

\* The response w ends with the tool calls that Pi was given, and the Run pauses.
Paused(s, t, w) ==
  /\ IsProxy(t) /\ t.act.run = s.act.run /\ t.act.paused /\ t.act.dispose \in {0, w}
  /\ \A c \in Request : SameBridge(s.br[c], t.br[c])
  /\ \A u \in Request \ {w} : SameWriter(s.wr[u], t.wr[u])
  /\ t.wr[w].phase = "closed" /\ t.wr[w].out = "tool_calls" /\ t.wr[w].run = s.act.run

LEMMA PausedKeeps ==
  ASSUME CursorStreamAssumption, NEW s, Shape(s), NEW w \in Request, s.act.run # 0,
         NEW t, Paused(s, t, w), \A u \in Request \ {w} : s.wr[u].phase # "open",
         s.wr[w].phase = "open" \/ s.wr[w].phase = "none"
  PROVE  /\ Shape(t) /\ (Calm(s) => Calm(t))
         /\ \A n \in Nat : Fresh(s, n) /\ s.wr[w].phase = "open" => Fresh(t, n)
         /\ \A n \in Nat : Fresh(s, n) /\ w = n + 1 => Fresh(t, n + 1)
<1>0. 0 \notin Request
  BY DEF Request
<1>1. Responses(t)
  BY DEF Shape, Responses, Paused, SameWriter, Outcomes
<1>2. \A u \in Request : t.wr[u].phase # "open"
  BY DEF Paused, SameWriter
<1>3. OpenOne(t)
  BY <1>2 DEF OpenOne
<1>4. Running(t)
  BY <1>0 DEF Shape, Running, Paused, SameBridge
<1>5. s.wr[w].phase = "open" => s.wr[w].run = s.act.run
  BY DEF Shape, OpenOne
<1>6. \A c \in Request : s.br[c].proc # "none" =>
        s.br[c].cb \in Request /\ t.wr[s.br[c].cb].run = c /\ t.wr[s.br[c].cb].phase # "none"
  <2> SUFFICES ASSUME NEW c \in Request, s.br[c].proc # "none"
               PROVE  s.br[c].cb \in Request /\ t.wr[s.br[c].cb].run = c /\ t.wr[s.br[c].cb].phase # "none"
    OBVIOUS
  <2> DEFINE u == s.br[c].cb
  <2>1. u \in Request /\ s.wr[u].run = c /\ s.wr[u].phase # "none"
    BY DEF Shape, Bridges
  <2>2. /\ t.wr[w].phase = "closed" /\ t.wr[w].run = s.act.run
        /\ \A x \in Request \ {w} : t.wr[x].phase = s.wr[x].phase /\ t.wr[x].run = s.wr[x].run
    BY DEF Paused, SameWriter
  <2> HIDE DEF u
  <2>3. t.wr[u].run = c /\ t.wr[u].phase # "none"
    <3>1. CASE u = w
      BY <1>5, <2>1, <2>2, <3>1
    <3>2. CASE u # w
      BY <2>1, <2>2, <3>2
    <3> QED
      BY <3>1, <3>2
  <2> QED
    BY <2>1, <2>3 DEF u
<1>7. Bridges(t)
  <2>1. /\ t.act.run = s.act.run
        /\ \A c \in Request : t.br[c].proc = s.br[c].proc /\ t.br[c].heart = s.br[c].heart /\ t.br[c].cb = s.br[c].cb
    BY DEF Paused, SameBridge
  <2>2. ASSUME NEW c \in Request
        PROVE  /\ t.br[c].proc \in {"none", "running", "exited", "closed"}
               /\ t.br[c].proc = "running" => t.act.run = c /\ t.br[c].heart
    <3>1. /\ s.br[c].proc \in {"none", "running", "exited", "closed"}
          /\ s.br[c].proc = "running" => s.act.run = c /\ s.br[c].heart
      BY DEF Shape, Bridges
    <3> QED
      BY <2>1, <3>1
  <2>3. ASSUME NEW c \in Request, t.br[c].proc # "none"
        PROVE  t.br[c].cb \in Request /\ t.wr[t.br[c].cb].run = c /\ t.wr[t.br[c].cb].phase # "none"
    <3>1. s.br[c].proc # "none" /\ t.br[c].cb = s.br[c].cb
      BY <2>1, <2>3
    <3> QED
      BY <1>6, <3>1
  <2> QED
    BY <2>2, <2>3 DEF Bridges
<1>8. Calm(s) => Calm(t)
  BY DEF Calm, Paused, SameWriter
<1>9. ASSUME NEW n \in Nat, Fresh(s, n), s.wr[w].phase = "open" PROVE Fresh(t, n)
  BY <1>9 DEF Fresh, Paused, SameWriter, SameBridge
<1>10. ASSUME NEW n \in Nat, Fresh(s, n), w = n + 1 PROVE Fresh(t, n + 1)
  <2>1. \A u \in Request : t.wr[u].phase = "none" <=> u > n + 1
    BY <1>10 DEF Fresh, Paused, SameWriter, Request
  <2>2. \A u \in Request : t.br[u].proc # "none" => u <= n + 1
    BY <1>10 DEF Fresh, Paused, SameBridge, Request
  <2> QED
    BY <2>1, <2>2 DEF Fresh
<1> QED
  BY <1>1, <1>3, <1>4, <1>7, <1>8, <1>9, <1>10 DEF Shape, Paused

LEMMA MarkRun ==
  ASSUME NEW s, IsProxy(s), NEW w \in Request, NEW v
  PROVE  LET t == [s EXCEPT !.wr[w].run = v] IN
         /\ OfWriters(s, t) /\ SameRest(s, t) /\ \A u \in Request \ {w} : t.wr[u] = s.wr[u]
         /\ t.wr[w].run = v /\ t.wr[w].phase = s.wr[w].phase
<1> DEFINE x == [s.wr[w] EXCEPT !.run = v]
           t == WithWriter(s, w, x)
<1>1. IsWriter(s.wr[w])
  BY DEF IsProxy
<1>2. ASSUME NEW y, y = x PROVE IsWriter(y) /\ y.run = v /\ y.phase = s.wr[w].phase
  BY <1>1, <1>2 DEF IsWriter
<1>3. IsWriter(x) /\ x.run = v /\ x.phase = s.wr[w].phase
  BY <1>2
<1>4. [s EXCEPT !.wr[w].run = v] = t
  BY Zenon DEF WithWriter
<1> HIDE DEF x
<1>5. /\ IsProxy(t) /\ t.br = s.br /\ t.act = s.act /\ SameRest(s, t)
      /\ t.wr[w] = x /\ \A u \in Request \ {w} : t.wr[u] = s.wr[u]
  BY <1>3, PutWriter
<1> HIDE DEF t
<1> QED
  BY <1>3, <1>4, <1>5 DEF OfWriters

LEMMA MarkTold ==
  ASSUME NEW s, IsProxy(s), NEW w \in Request, NEW v
  PROVE  LET t == [s EXCEPT !.wr[w].told = v] IN
         OfWriters(s, t) /\ \A u \in Request : SameWriter(s.wr[u], t.wr[u])
<1> DEFINE x == [s.wr[w] EXCEPT !.told = v]
           t == WithWriter(s, w, x)
<1>1. IsWriter(s.wr[w])
  BY DEF IsProxy
<1>2. ASSUME NEW y, y = x PROVE IsWriter(y) /\ SameWriter(s.wr[w], y)
  BY <1>1, <1>2 DEF IsWriter, SameWriter
<1>3. IsWriter(x) /\ SameWriter(s.wr[w], x)
  BY <1>2
<1>4. [s EXCEPT !.wr[w].told = v] = t
  BY Zenon DEF WithWriter
<1> HIDE DEF x
<1>5. /\ IsProxy(t) /\ t.br = s.br /\ t.act = s.act /\ SameRest(s, t)
      /\ t.wr[w] = x /\ \A u \in Request \ {w} : t.wr[u] = s.wr[u]
  BY <1>3, PutWriter
<1> HIDE DEF t
<1> QED
  BY <1>3, <1>4, <1>5 DEF OfWriters, SameWriter

LEMMA Saw ==
  ASSUME NEW s, IsProxy(s), NEW w \in Request, NEW v
  PROVE  LET t == [s EXCEPT !.wr[w].saw = v] IN
         OfWriters(s, t) /\ \A u \in Request : SameWriter(s.wr[u], t.wr[u])
<1> DEFINE x == [s.wr[w] EXCEPT !.saw = v]
           t == WithWriter(s, w, x)
<1>1. IsWriter(s.wr[w])
  BY DEF IsProxy
<1>2. ASSUME NEW y, y = x PROVE IsWriter(y) /\ SameWriter(s.wr[w], y)
  BY <1>1, <1>2 DEF IsWriter, SameWriter
<1>3. IsWriter(x) /\ SameWriter(s.wr[w], x)
  BY <1>2
<1>4. [s EXCEPT !.wr[w].saw = v] = t
  BY Zenon DEF WithWriter
<1> HIDE DEF x
<1>5. /\ IsProxy(t) /\ t.br = s.br /\ t.act = s.act /\ SameRest(s, t)
      /\ t.wr[w] = x /\ \A u \in Request \ {w} : t.wr[u] = s.wr[u]
  BY <1>3, PutWriter
<1> HIDE DEF t
<1> QED
  BY <1>3, <1>4, <1>5 DEF OfWriters, SameWriter

\* The results of tools reach the paused Run: it goes on, or waits for the rest.
LEMMA Resumes ==
  ASSUME CursorStreamAssumption, NEW s, Shape(s), s.act.run # 0, s.act.paused,
         NEW w \in Request, s.wr[w].phase = "none",
         NEW r, IsProxy(r), r.wr = s.wr, r.br = s.br, NEW results
  PROVE  LET t == handleToolResultResume(r, w, s.act, results)
             b == s.act.run
         IN \/ Opened(s, t, w, b) /\ t.br[b].proc = s.br[b].proc /\ t.br[b].heart = s.br[b].heart
            \/ Paused(s, t, w)
<1> DEFINE a == s.act
           b == a.run
           pend == r.wr[a.owner].pend
           got == r.br[b].got \cup (results \cap pend)
           rest == pend \ got
           q == [r EXCEPT !.br[b].got = got]
           x == [a EXCEPT !.paused = TRUE, !.dispose = 0]
           q1 == WithActive(q, x)
           q2 == [q1 EXCEPT !.wr[w].run = b]
           q3 == [q2 EXCEPT !.wr[w].told = rest]
           q4 == IF r.stored = 0 THEN q3 ELSE recordAssistantResponse(q3, r.stored, Msg("again", w, rest))
           q5 == closeResponse(q4, w, "tool_calls")
           t == handleToolResultResume(r, w, a, results)
<1>1. t = IF rest = {} THEN writeSSEStream(q, w, b) ELSE q5
  BY Zenon DEF handleToolResultResume, WithActive
<1>2. b \in Request
  BY DEF Shape, Running
<1> HIDE DEF got, rest, pend
<1>3. OfBridge(r, q, b) /\ SameBridge(r.br[b], q.br[b])
  BY <1>2, Gets
<1> HIDE DEF q
<1>4. IsProxy(q) /\ q.wr = s.wr /\ \A c \in Request : SameBridge(s.br[c], q.br[c])
  BY <1>3 DEF OfBridge, SameBridge
<1>5. CASE rest = {}
  <2> DEFINE v == writeSSEStream(q, w, b)
  <2>1. Opened(q, v, w, b) /\ v.br[b].proc = q.br[b].proc /\ v.br[b].heart = q.br[b].heart
    BY <1>2, <1>4, Opens
  <2>2. t = v
    BY <1>1, <1>5
  <2> HIDE DEF v, t
  <2>3. Opened(s, v, w, b)
    <3>1. \A c \in Request \ {b} : SameBridge(q.br[c], v.br[c])
      BY <2>1 DEF Opened
    <3>2. \A c \in Request \ {b} : SameBridge(s.br[c], v.br[c])
      BY <1>4, <3>1 DEF SameBridge
    <3> QED
      BY <1>4, <2>1, <3>2 DEF Opened
  <2>4. v.br[b].proc = s.br[b].proc /\ v.br[b].heart = s.br[b].heart
    BY <1>2, <1>4, <2>1 DEF SameBridge
  <2> QED
    BY <2>2, <2>3, <2>4 DEF t
<1>6. CASE rest # {}
  <2>1. IsActive(x) /\ x.run = b /\ x.paused = TRUE /\ x.dispose = 0
    <3>1. IsActive(a)
      BY DEF Shape, IsProxy
    <3> HIDE DEF a
    <3>2. ASSUME NEW y, y = x PROVE IsActive(y) /\ y.run = b /\ y.paused = TRUE /\ y.dispose = 0
      BY <3>1, <3>2 DEF IsActive
    <3> QED
      BY <3>2
  <2> HIDE DEF x
  <2>2. IsProxy(q1) /\ q1.wr = q.wr /\ q1.br = q.br /\ q1.act = x
    BY <1>4, <2>1, PutActive
  <2> HIDE DEF q1
  <2>3. /\ OfWriters(q1, q2) /\ \A u \in Request \ {w} : q2.wr[u] = q1.wr[u]
        /\ q2.wr[w].run = b /\ q2.wr[w].phase = q1.wr[w].phase
    BY <2>2, MarkRun
  <2> HIDE DEF q2
  <2>4. OfWriters(q2, q3) /\ \A u \in Request : SameWriter(q2.wr[u], q3.wr[u])
    BY <2>3, MarkTold DEF OfWriters
  <2> HIDE DEF q3
  <2>5. Beside(q3, q4)
    <3>1. IsProxy(q3)
      BY <2>4 DEF OfWriters
    <3>2. Beside(q3, recordAssistantResponse(q3, r.stored, Msg("again", w, rest)))
      BY <3>1, Registry, Zenon
    <3>3. q4 = q3 \/ q4 = recordAssistantResponse(q3, r.stored, Msg("again", w, rest))
      OBVIOUS
    <3> HIDE DEF q4
    <3> QED
      BY <3>1, <3>2, <3>3 DEF Beside
  <2> HIDE DEF q4
  <2>6. IsProxy(q4) /\ q4.wr[w].phase = "none" /\ q4.wr[w].run = b
    BY <1>4, <2>2, <2>3, <2>4, <2>5 DEF OfWriters, Beside, SameWriter
  <2>7. /\ OfWriters(q4, q5) /\ \A u \in Request \ {w} : q5.wr[u] = q4.wr[u]
        /\ EndedAs(q4.wr[w], q5.wr[w], "tool_calls")
    BY <2>6, Closes
  <2>8. t = q5
    BY <1>1, <1>6
  <2> HIDE DEF q5, t
  <2>9. Paused(s, q5, w)
    <3>1. q5.act = x /\ q5.br = q.br /\ IsProxy(q5)
      BY <2>2, <2>3, <2>4, <2>5, <2>7 DEF OfWriters, Beside
    <3>2. \A u \in Request \ {w} : SameWriter(s.wr[u], q5.wr[u])
      <4>1. \A u \in Request \ {w} : q2.wr[u] = s.wr[u]
        BY <1>4, <2>2, <2>3
      <4>2. \A u \in Request \ {w} : q5.wr[u] = q3.wr[u]
        BY <2>5, <2>7 DEF Beside
      <4> QED
        BY <2>4, <4>1, <4>2
    <3> QED
      BY <1>4, <2>1, <2>6, <2>7, <3>1, <3>2 DEF Paused, EndedAs
  <2> QED
    BY <2>8, <2>9 DEF t
<1> QED
  BY <1>5, <1>6

-----------------------------------------------------------------------------
(* The steps of the proxy.                                                  *)

\* The tool calls gathered are given to Pi, and the Run pauses.
LEMMA Flushes ==
  ASSUME CursorStreamAssumption, NEW s, Shape(s), NEW w \in Request
  PROVE  LET t == flushPiToolCalls(s, w) IN
         Quiet(s, t) \/ (s.wr[w].phase = "open" /\ Paused(s, t, w))
<1>0. IsProxy(s)
  BY DEF Shape
<1>1. CASE s.wr[w].phase = "closed" \/ s.wr[w].cancelled \/ s.wr[w].flushed \/ s.wr[w].pend = {}
  <2> DEFINE t == [s EXCEPT !.wr[w].timer = FALSE]
  <2>1. OfWriters(s, t) /\ \A u \in Request : SameWriter(s.wr[u], t.wr[u])
    BY <1>0, MarkTimer
  <2>2. flushPiToolCalls(s, w) = t
    BY <1>1, Zenon DEF flushPiToolCalls
  <2> HIDE DEF t
  <2> QED
    BY <1>0, <2>1, <2>2, QuietSteps
<1>2. CASE ~(s.wr[w].phase = "closed" \/ s.wr[w].cancelled \/ s.wr[w].flushed \/ s.wr[w].pend = {})
  <2> DEFINE me == s.wr[w]
             x == [me EXCEPT !.flushed = TRUE, !.mcp = TRUE, !.timer = FALSE, !.told = me.pend]
             a == [run |-> me.run, owner |-> w, paused |-> TRUE, dispose |-> w,
                   stored |-> me.stored, rgen |-> me.rgen]
             q == WithWriter(s, w, x)
             r == WithActive(q, a)
             m == Msg("asst", w, me.pend)
             v == IF ownsConversation(r, w) THEN recordAssistantResponse(r, me.stored, m) ELSE r
             t == closeResponse(v, w, "tool_calls")
  <2>1. flushPiToolCalls(s, w) = t
    BY <1>2, Zenon DEF flushPiToolCalls, WithWriter, WithActive
  <2>2. s.wr[w].phase = "open" /\ s.wr[w].run = s.act.run
    BY <1>2 DEF Shape, Responses, OpenOne
  <2>3. IsWriter(x) /\ SameWriter(s.wr[w], x)
    <3>1. IsWriter(s.wr[w])
      BY <1>0 DEF IsProxy
    <3>2. ASSUME NEW y, y = x PROVE IsWriter(y) /\ SameWriter(s.wr[w], y)
      BY <3>1, <3>2 DEF IsWriter, SameWriter
    <3> QED
      BY <3>2
  <2> HIDE DEF x
  <2>4. /\ IsProxy(q) /\ q.br = s.br /\ q.wr[w] = x /\ \A u \in Request \ {w} : q.wr[u] = s.wr[u]
    BY <1>0, <2>3, PutWriter
  <2> HIDE DEF q
  <2>5. IsActive(a) /\ a.run = s.act.run /\ a.paused = TRUE /\ a.dispose = w
    BY <2>2 DEF IsActive
  <2> HIDE DEF a
  <2>6. IsProxy(r) /\ r.wr = q.wr /\ r.br = q.br /\ r.act = a
    BY <2>4, <2>5, PutActive
  <2> HIDE DEF r
  <2>7. Beside(r, v)
    <3>1. Beside(r, recordAssistantResponse(r, me.stored, m))
      BY <2>6, Registry, Zenon
    <3>2. v = r \/ v = recordAssistantResponse(r, me.stored, m)
      OBVIOUS
    <3> HIDE DEF v, m, me
    <3> QED
      BY <2>6, <3>1, <3>2 DEF Beside
  <2> HIDE DEF v
  <2>8. IsProxy(v) /\ v.wr[w] = x /\ v.act = a /\ v.br = s.br /\ \A u \in Request \ {w} : v.wr[u] = s.wr[u]
    BY <2>4, <2>6, <2>7 DEF Beside
  <2>9. v.wr[w].phase = "open" /\ v.wr[w].run = s.act.run
    BY <2>2, <2>3, <2>8 DEF SameWriter
  <2>10. /\ OfWriters(v, t) /\ \A u \in Request \ {w} : t.wr[u] = v.wr[u]
         /\ EndedAs(v.wr[w], t.wr[w], "tool_calls")
    BY <2>8, <2>9, Closes
  <2> HIDE DEF t
  <2>11. Paused(s, t, w)
    BY <2>5, <2>8, <2>9, <2>10 DEF OfWriters, Paused, EndedAs, SameBridge, SameWriter
  <2> QED
    BY <2>1, <2>2, <2>11
<1> QED
  BY <1>1, <1>2

LEMMA Queues ==
  ASSUME NEW s, IsProxy(s), NEW w \in Request, s.wr[w].phase # "none", NEW e \in Exec
  PROVE  Quiet(s, queuePiTool(s, w, e))
<1>1. CASE Late(s, w)
  BY <1>1 DEF queuePiTool, Quiet, Beneath, SameBridge, Kept
<1>2. CASE ~Late(s, w)
  <2> DEFINE x == [s.wr[w] EXCEPT !.pend = s.wr[w].pend \cup {e}, !.mcp = TRUE, !.timer = TRUE]
             t == WithWriter(s, w, x)
  <2>1. queuePiTool(s, w, e) = t
    BY <1>2, Zenon DEF queuePiTool, WithWriter
  <2>2. IsWriter(x) /\ x.phase = s.wr[w].phase /\ x.out = s.wr[w].out /\ x.run = s.wr[w].run
        /\ x.cancelled = s.wr[w].cancelled
    <3>1. IsWriter(s.wr[w])
      BY DEF IsProxy
    <3>2. ASSUME NEW y, y = x
          PROVE  /\ IsWriter(y) /\ y.phase = s.wr[w].phase /\ y.out = s.wr[w].out /\ y.run = s.wr[w].run
                 /\ y.cancelled = s.wr[w].cancelled
      BY <3>1, <3>2 DEF IsWriter
    <3> QED
      BY <3>2
  <2> HIDE DEF x
  <2>3. /\ IsProxy(t) /\ t.br = s.br /\ t.act = s.act
        /\ t.wr[w] = x /\ \A u \in Request \ {w} : t.wr[u] = s.wr[u]
    BY <2>2, PutWriter
  <2> HIDE DEF t
  <2>4. Quiet(s, t)
    BY <2>2, <2>3 DEF Quiet, Beneath, SameBridge, Kept
  <2> QED
    BY <2>1, <2>4
<1> QED
  BY <1>1, <1>2

LEMMA Stores ==
  ASSUME CursorStreamAssumption, NEW s, IsProxy(s), NEW w \in Request, NEW cp
  PROVE  Quiet(s, Store(s, w, cp))
<1> DEFINE q == [s EXCEPT !.wr[w].saw = cp]
           n == s.wr[w].stored
           r == [q EXCEPT !.obj[n].cp = cp]
           t == Store(s, w, cp)
<1>1. t = q \/ t = r
  BY Zenon DEF Store
<1>2. OfWriters(s, q) /\ \A u \in Request : SameWriter(s.wr[u], q.wr[u])
  BY Saw
<1> HIDE DEF q
<1>3. IsProxy(q)
  BY <1>2 DEF OfWriters
<1>4. Beside(q, r)
  BY <1>3, Registry, Zenon
<1> HIDE DEF r, n, t
<1>5. OfWriters(s, t) /\ \A u \in Request : SameWriter(s.wr[u], t.wr[u])
  BY <1>1, <1>2, <1>4 DEF OfWriters, Beside
<1> QED
  BY <1>5, QuietSteps DEF t

\* The exit of the process of b is seen.
LEMMA Exits ==
  ASSUME NEW s, Shape(s), NEW b \in Request, s.br[b].proc = "running"
  PROVE  LET t == [s EXCEPT !.br[b].proc = "exited"] IN
         /\ Shape(t) /\ (Calm(s) => Calm(t)) /\ \A n : Fresh(s, n) => Fresh(t, n)
         /\ t.wr = s.wr /\ t.act = s.act
<1> DEFINE t == [s EXCEPT !.br[b].proc = "exited"]
<1>1. OfBridge(s, t, b) /\ t.br[b].proc = "exited" /\ t.br[b].cb = s.br[b].cb
  BY Kills DEF Shape
<1> HIDE DEF t
<1>2. \A c \in Request : t.br[c].cb = s.br[c].cb
  BY <1>1 DEF OfBridge
<1>3. IsProxy(t) /\ t.wr = s.wr /\ t.act = s.act /\ \A c \in Request \ {b} : t.br[c] = s.br[c]
  BY <1>1 DEF OfBridge
<1>4. Responses(t) /\ OpenOne(t)
  <2>1. \A u \in Request : s.wr[u].phase = "open" => s.act.run \in Request
    BY DEF Shape, OpenOne
  <2> QED
    BY <1>2, <1>3, <2>1 DEF Shape, Responses, OpenOne
<1>5. Running(t)
  BY <1>1, <1>3 DEF Shape, Running
<1>6. Bridges(t)
  <2>1. Bridges(s)
    BY DEF Shape
  <2>2. ASSUME NEW c \in Request
        PROVE  /\ t.br[c].proc \in {"none", "running", "exited", "closed"}
               /\ t.br[c].proc = "running" => t.act.run = c /\ t.br[c].heart
               /\ t.br[c].proc # "none" => s.br[c].proc # "none"
    <3>1. CASE c = b
      BY <1>1, <3>1
    <3>2. CASE c # b
      BY <1>3, <2>1, <3>2 DEF Bridges
    <3> QED
      BY <3>1, <3>2
  <2>3. ASSUME NEW c \in Request, t.br[c].proc # "none"
        PROVE  t.br[c].cb \in Request /\ t.wr[t.br[c].cb].run = c /\ t.wr[t.br[c].cb].phase # "none"
    <3>1. s.br[c].cb \in Request /\ s.wr[s.br[c].cb].run = c /\ s.wr[s.br[c].cb].phase # "none"
      BY <2>1, <2>2, <2>3 DEF Bridges
    <3> QED
      BY <1>2, <1>3, <3>1
  <2> QED
    BY <2>2, <2>3 DEF Bridges
<1>7. ASSUME NEW n, Fresh(s, n) PROVE Fresh(t, n)
  BY <1>1, <1>3, <1>7 DEF Fresh
<1>8. Calm(s) => Calm(t)
  BY <1>3 DEF Calm
<1> QED
  BY <1>3, <1>4, <1>5, <1>6, <1>7, <1>8 DEF Shape, t

\* A request reaches the proxy: the Run it finds is cleaned up and a new one
\* started, or the Run that was paused goes on or waits for the rest.
Sent(s, t, w) ==
  \/ \E c : Cleared(s, c) /\ Opened(c, t, w, w) /\ t.br[w].proc = "running" /\ t.br[w].heart
  \/ /\ s.act.run # 0 /\ s.act.paused
     /\ \/ /\ Opened(s, t, w, s.act.run)
           /\ t.br[s.act.run].proc = s.br[s.act.run].proc /\ t.br[s.act.run].heart = s.br[s.act.run].heart
        \/ Paused(s, t, w)

LEMMA Itself ==
  ASSUME NEW s, IsProxy(s)
  PROVE  Beside(s, s) /\ Quiet(s, s)
BY DEF Beside, Quiet, Beneath, SameBridge, Kept

LEMMA Sends ==
  ASSUME CursorStreamAssumption, Shape(p), NEW w \in Request, p.wr[w].phase = "none", NEW body, NEW moved,
         handleChatCompletion(w, body, moved)
  PROVE  Sent(p, p', w)
<1> DEFINE stale == \/ p.stored # 0 /\ (moved \/ isStaleForTranscript(p.obj[p.stored], body))
                    \/ p.act.run # 0 /\ p.act.stored # 0 /\ ~owns(p, p.act.stored, p.act.rgen)
           s1 == IF ~stale THEN p
                 ELSE IF p.act.run # 0 THEN cleanupBridge(forgetConversation(p), p.act.run)
                      ELSE forgetConversation(p)
           a == IF stale THEN NoActive ELSE p.act
           o == IF stale THEN 0 ELSE p.stored
           results == toolResults(body)
           resuming == a.run # 0 /\ a.paused /\ results # {}
           r == IF o = 0 THEN s1 ELSE coverTranscript(s1, o, body)
           s2 == IF resuming THEN [r EXCEPT !.act = NoActive] ELSE s1
           s3 == IF a.run # 0 THEN cleanupBridge(s2, a.run) ELSE s2
<1>0. IsProxy(p) /\ NoActive.run = 0
  BY DEF Shape, NoActive
<1>1. \/ resuming /\ p' = handleToolResultResume(s2, w, a, results)
      \/ ~(resuming /\ Alive(p, a.run)) /\ p' = StartRun(s3, w, body, o)
  BY Zenon DEF handleChatCompletion
<1> HIDE DEF results
<1>2. CASE stale
  <2>1. a = NoActive /\ o = 0 /\ s3 = s1
        /\ s1 = (IF p.act.run # 0 THEN cleanupBridge(forgetConversation(p), p.act.run) ELSE forgetConversation(p))
    BY <1>0, <1>2
  <2>2. ~resuming
    BY <1>0, <2>1
  <2> HIDE DEF stale, s1, s2, s3, a, o, resuming
  <2>3. Cleared(p, s1)
    <3>1. Beside(p, forgetConversation(p))
      BY <1>0, Registry, Zenon
    <3>2. Quiet(p, forgetConversation(p))
      BY <1>0, <3>1, QuietSteps
    <3> QED
      BY <2>1, <3>2, Clears
  <2>4. IsProxy(s1)
    BY <2>3 DEF Cleared
  <2>5. p' = StartRun(s1, w, body, o)
    BY <1>1, <2>1, <2>2
  <2>6. Opened(s1, p', w, w) /\ p'.br[w].proc = "running" /\ p'.br[w].heart
    BY <2>4, <2>5, Starts, Zenon
  <2> QED
    BY <2>3, <2>6, Zenon DEF Sent
<1>3. CASE ~stale
  <2>1. a = p.act /\ o = p.stored /\ s1 = p
    BY <1>3
  <2> HIDE DEF stale, s1, a, o
  <2>2. Beside(p, r)
    <3>1. Beside(p, coverTranscript(p, o, body))
      BY <1>0, Registry, Zenon
    <3>2. r = p \/ r = coverTranscript(p, o, body)
      BY <2>1, Zenon
    <3> HIDE DEF r
    <3> QED
      BY <1>0, <3>1, <3>2, Itself
  <2> HIDE DEF r
  <2>3. CASE resuming /\ p' = handleToolResultResume(s2, w, a, results)
    <3> DEFINE q == WithActive(r, NoActive)
    <3>1. s2 = q
      BY <2>3, Zenon DEF WithActive
    <3>2. p.act.run # 0 /\ p.act.paused
      BY <2>1, <2>3
    <3> HIDE DEF s2
    <3>3. IsProxy(q) /\ q.wr = p.wr /\ q.br = p.br
      <4>1. IsActive(NoActive)
        BY DEF IsActive, NoActive
      <4> QED
        BY <2>2, <4>1, PutActive DEF Beside
    <3> HIDE DEF q
    <3> DEFINE t == handleToolResultResume(q, w, p.act, results)
               b == p.act.run
    <3>4. \/ Opened(p, t, w, b) /\ t.br[b].proc = p.br[b].proc /\ t.br[b].heart = p.br[b].heart
          \/ Paused(p, t, w)
      BY <3>2, <3>3, Resumes
    <3>5. p' = t
      BY <2>1, <2>3, <3>1
    <3> HIDE DEF t
    <3> QED
      BY <3>2, <3>4, <3>5, Zenon DEF Sent
  <2>4. CASE ~(resuming /\ Alive(p, a.run)) /\ p' = StartRun(s3, w, body, o)
    <3>1. Cleared(p, s3)
      <4>1. CASE resuming
        <5>1. s3 = cleanupBridge([r EXCEPT !.act = NoActive], p.act.run) /\ p.act.run # 0 /\ p.act.paused
          BY <2>1, <4>1
        <5> HIDE DEF s3
        <5> QED
          BY <2>2, <5>1, Clears, Zenon
      <4>2. CASE ~resuming
        <5>1. s3 = IF p.act.run # 0 THEN cleanupBridge(p, p.act.run) ELSE p
          BY <2>1, <4>2
        <5> HIDE DEF s3
        <5> QED
          BY <1>0, <5>1, Itself, Clears
      <4> QED
        BY <4>1, <4>2
    <3> HIDE DEF s3
    <3>2. IsProxy(s3)
      BY <3>1 DEF Cleared
    <3>3. p' = StartRun(s3, w, body, o)
      BY <2>4
    <3>4. Opened(s3, p', w, w) /\ p'.br[w].proc = "running" /\ p'.br[w].heart
      BY <3>2, <3>3, Starts, Zenon
    <3> QED
      BY <3>1, <3>4, Zenon DEF Sent
  <2> QED
    BY <1>1, <2>3, <2>4
<1> QED
  BY <1>2, <1>3

LEMMA SentKeeps ==
  ASSUME CursorStreamAssumption, NEW s, Shape(s), NEW w \in Request, s.wr[w].phase = "none",
         NEW t, Sent(s, t, w), NEW n \in Nat, Fresh(s, n), w = n + 1
  PROVE  Shape(t) /\ (Calm(s) => Calm(t)) /\ Fresh(t, n + 1)
<1>1. ASSUME NEW c, Cleared(s, c), Opened(c, t, w, w), t.br[w].proc = "running", t.br[w].heart
      PROVE  Shape(t) /\ (Calm(s) => Calm(t)) /\ Fresh(t, n + 1)
  <2>1. /\ Shape(c) /\ (Calm(s) => Calm(c)) /\ Fresh(c, n)
        /\ \A u \in Request : c.wr[u].phase # "open"
    BY <1>1, ClearedKeeps
  <2>2. c.act.run = 0 /\ c.wr[w].phase = "none"
    BY <1>1 DEF Cleared, Kept
  <2> QED
    BY <1>1, <2>1, <2>2, OpenedKeeps
<1>2. ASSUME s.act.run # 0, s.act.paused,
             \/ /\ Opened(s, t, w, s.act.run)
                /\ t.br[s.act.run].proc = s.br[s.act.run].proc /\ t.br[s.act.run].heart = s.br[s.act.run].heart
             \/ Paused(s, t, w)
      PROVE  Shape(t) /\ (Calm(s) => Calm(t)) /\ Fresh(t, n + 1)
  <2> DEFINE b == s.act.run
  <2>1. \A u \in Request : s.wr[u].phase # "open"
    BY <1>2 DEF Shape, OpenOne
  <2>2. b \in Request /\ s.br[b].proc \in {"running", "exited"} /\ (s.br[b].proc = "running" => s.br[b].heart)
    BY <1>2 DEF Shape, Running, Bridges
  <2>3. CASE Paused(s, t, w)
    BY <1>2, <2>1, <2>3, PausedKeeps
  <2>4. CASE /\ Opened(s, t, w, b)
             /\ t.br[b].proc = s.br[b].proc /\ t.br[b].heart = s.br[b].heart
    <3>1. t.br[b].proc \in {"running", "exited"} /\ (t.br[b].proc = "running" => t.br[b].heart)
          /\ s.br[b].proc # "none" /\ s.act.run \in {0, b}
      BY <2>2, <2>4
    <3> HIDE DEF b
    <3> QED
      BY <2>1, <2>2, <2>4, <3>1, OpenedKeeps
  <2> QED
    BY <1>2, <2>3, <2>4
<1> QED
  BY <1>1, <1>2, Zenon DEF Sent

\* What any other step does to the proxy: nothing to the turns, the end of a Run
\* by an error or by the end of Cursor's turn, a pause, the exit of a process.
Loses(s, t) == \E b \in Request : Ended(s, t, b, "error")
Stops(s, t) == \E w \in Request : s.wr[w].phase = "open" /\ Ended(s, t, s.wr[w].run, "stop")
Pauses(s, t) == \E w \in Request : s.wr[w].phase = "open" /\ Paused(s, t, w)
Leaves(s, t) == \E b \in Request : s.br[b].proc = "running" /\ t = [s EXCEPT !.br[b].proc = "exited"]
Moved(s, t) == Quiet(s, t) \/ Loses(s, t) \/ Stops(s, t) \/ Pauses(s, t) \/ Leaves(s, t)

LEMMA MovedKeeps ==
  ASSUME CursorStreamAssumption, NEW s, Shape(s), NEW t, Moved(s, t), NEW n \in Nat, Fresh(s, n), Calm(s)
  PROVE  Shape(t) /\ Calm(t) /\ Fresh(t, n)
<1>1. ASSUME Quiet(s, t) PROVE Shape(t) /\ Calm(t) /\ Fresh(t, n)
  <2>1. Shape(t) /\ Fresh(t, n)
    BY <1>1, QuietKeeps DEF Quiet
  <2> QED
    BY <1>1, <2>1 DEF Quiet, Calm, Kept
<1>2. ASSUME NEW b \in Request, NEW how \in {"stop", "error"}, Ended(s, t, b, how)
      PROVE  Shape(t) /\ Calm(t) /\ Fresh(t, n)
  BY <1>2, EndsKeep
<1>3. ASSUME NEW w \in Request, s.wr[w].phase = "open", Paused(s, t, w)
      PROVE  Shape(t) /\ Calm(t) /\ Fresh(t, n)
  <2>1. s.act.run # 0 /\ \A u \in Request \ {w} : s.wr[u].phase # "open"
    <3>1. 0 \notin Request
      BY DEF Request
    <3> QED
      BY <1>3, <3>1 DEF Shape, OpenOne
  <2> QED
    BY <1>3, <2>1, PausedKeeps
<1>4. ASSUME NEW b \in Request, s.br[b].proc = "running", t = [s EXCEPT !.br[b].proc = "exited"]
      PROVE  Shape(t) /\ Calm(t) /\ Fresh(t, n)
  BY <1>4, Exits
<1>5. ASSUME NEW w \in Request, s.wr[w].phase = "open", Ended(s, t, s.wr[w].run, "stop")
      PROVE  Shape(t) /\ Calm(t) /\ Fresh(t, n)
  <2>1. s.wr[w].run \in Request
    BY <1>5 DEF Shape, OpenOne
  <2> QED
    BY <1>2, <1>5, <2>1
<1> QED
  BY <1>1, <1>2, <1>3, <1>4, <1>5 DEF Moved, Loses, Stops, Pauses, Leaves

\* Only the end of Cursor's turn makes a response end with "stop".
LEMMA NoStop ==
  ASSUME CursorStreamAssumption, NEW s, Shape(s), NEW t,
         Quiet(s, t) \/ Loses(s, t) \/ Pauses(s, t) \/ Leaves(s, t) \/ \E w \in Request : Sent(s, t, w),
         NEW u \in Request, s.wr[u].out # "stop"
  PROVE  t.wr[u].out # "stop"
<1>1. CASE Quiet(s, t)
  BY <1>1 DEF Quiet, Kept
<1>2. CASE Loses(s, t)
  BY <1>2 DEF Loses, Ended, EndedAs, Kept
<1>3. CASE Pauses(s, t)
  BY <1>3 DEF Pauses, Paused, SameWriter
<1>4. CASE Leaves(s, t)
  <2>1. PICK b \in Request : s.br[b].proc = "running" /\ t = [s EXCEPT !.br[b].proc = "exited"]
    BY <1>4 DEF Leaves
  <2>2. t.wr = s.wr
    BY <2>1, Exits
  <2> QED
    BY <2>2
<1>5. ASSUME NEW w \in Request, Sent(s, t, w) PROVE t.wr[u].out # "stop"
  <2>1. ASSUME NEW c, Cleared(s, c), Opened(c, t, w, w) PROVE t.wr[u].out # "stop"
    <3>1. c.wr[u].out # "stop"
      BY <2>1 DEF Cleared, EndedAs, Kept
    <3> QED
      BY <2>1, <3>1 DEF Opened, SameWriter
  <2>2. ASSUME Opened(s, t, w, s.act.run) PROVE t.wr[u].out # "stop"
    BY <2>2 DEF Opened, SameWriter
  <2>3. ASSUME Paused(s, t, w) PROVE t.wr[u].out # "stop"
    BY <2>3 DEF Paused, SameWriter
  <2> QED
    BY <1>5, <2>1, <2>2, <2>3 DEF Sent
<1> QED
  BY <1>1, <1>2, <1>3, <1>4, <1>5

-----------------------------------------------------------------------------
(* The refinement of CursorTurn, from the shape of the steps.               *)

LEMMA MovedTurns ==
  ASSUME CursorStreamAssumption, Shape(p), Moved(p, p')
  PROVE  OneTurnStep
<1> DEFINE A == [w \in Request |-> IF p.wr[w].phase = "open" THEN "open" ELSE p.wr[w].out]
           B == [w \in Request |-> IF p'.wr[w].phase = "open" THEN "open" ELSE p'.wr[w].out]
<1>0. NoActive.run = 0 /\ 0 \notin Request /\ Turn!Request = Request
  BY DEF NoActive, Request, Turn!Request
<1>1. ASSUME p'.act.run = p.act.run, B = A PROVE OneTurnStep
  BY <1>1 DEF OneTurnStep, Turn!tvars
<1>2. CASE Quiet(p, p')
  BY <1>1, <1>2 DEF Quiet, Beneath, Kept
<1>3. ASSUME NEW b \in Request, Ended(p, p', b, "error") PROVE OneTurnStep
  <2>1. CASE p.act.run = b
    <3>1. p'.act.run = 0 /\ p.act.run # 0
      BY <1>0, <1>3, <2>1 DEF Ended
    <3>2. \A w \in Request : B[w] = IF A[w] = "open" THEN "error" ELSE A[w]
      BY <1>3, <2>1 DEF Ended, EndedAs, Kept, Shape, Responses, Outcomes
    <3>3. B = [w \in Turn!Request |-> IF w \in Turn!Open THEN "error" ELSE A[w]]
      BY <1>0, <3>2 DEF Turn!Open
    <3> QED
      BY <3>1, <3>3 DEF OneTurnStep, Turn!Next, Turn!Lose
  <2>2. CASE p.act.run # b
    BY <1>1, <1>3, <2>2 DEF Ended, Kept
  <2> QED
    BY <2>1, <2>2
<1>4. ASSUME NEW w \in Request, p.wr[w].phase = "open", Ended(p, p', p.wr[w].run, "stop") PROVE OneTurnStep
  <2>1. p.act.run = p.wr[w].run /\ \A u \in Request : p.wr[u].phase = "open" => u = w
    BY <1>4 DEF Shape, OpenOne
  <2>2. p'.act.run = 0
    BY <1>0, <1>4, <2>1 DEF Ended
  <2>3. \A u \in Request : B[u] = IF u = w THEN "stop" ELSE A[u]
    BY <1>4, <2>1 DEF Ended, EndedAs, Kept
  <2>4. B = [A EXCEPT ![w] = "stop"] /\ w \in Turn!Open
    BY <1>0, <1>4, <2>3 DEF Turn!Open
  <2> QED
    BY <1>0, <2>2, <2>4 DEF OneTurnStep, Turn!Next, Turn!Finish
<1>5. ASSUME NEW w \in Request, p.wr[w].phase = "open", Paused(p, p', w) PROVE OneTurnStep
  <2>1. p.act.run # 0 /\ p'.act.run = p.act.run
    BY <1>0, <1>5 DEF Shape, OpenOne, Paused
  <2>2. \A u \in Request : B[u] = IF u = w THEN "tool_calls" ELSE A[u]
    BY <1>5 DEF Paused, SameWriter
  <2>3. B = [A EXCEPT ![w] = "tool_calls"] /\ w \in Turn!Open
    BY <1>0, <1>5, <2>2 DEF Turn!Open
  <2> QED
    BY <1>0, <2>1, <2>3 DEF OneTurnStep, Turn!Next, Turn!Pause
<1>6. ASSUME NEW b \in Request, p.br[b].proc = "running", p' = [p EXCEPT !.br[b].proc = "exited"]
      PROVE  OneTurnStep
  <2>1. p'.wr = p.wr /\ p'.act = p.act
    BY <1>6, Exits
  <2> QED
    BY <1>1, <2>1
<1> QED
  BY <1>2, <1>3, <1>4, <1>5, <1>6 DEF Moved, Loses, Stops, Pauses, Leaves

LEMMA SentTurns ==
  ASSUME CursorStreamAssumption, Shape(p), NEW w \in Request, p.wr[w].phase = "none", Sent(p, p', w)
  PROVE  OneTurnStep
<1> DEFINE A == [u \in Request |-> IF p.wr[u].phase = "open" THEN "open" ELSE p.wr[u].out]
           B == [u \in Request |-> IF p'.wr[u].phase = "open" THEN "open" ELSE p'.wr[u].out]
<1>0. NoActive.run = 0 /\ 0 \notin Request /\ Turn!Request = Request
  BY DEF NoActive, Request, Turn!Request
<1>1. A[w] = "none"
  BY DEF Shape, Responses
<1>2. ASSUME NEW c, Cleared(p, c), Opened(c, p', w, w) PROVE OneTurnStep
  <2>1. p'.act.run = w
    BY <1>2 DEF Opened
  <2>2. \A u \in Request : B[u] = IF u = w THEN "open" ELSE IF A[u] = "open" THEN "error" ELSE A[u]
    <3>1. \A u \in Request : (IF c.wr[u].phase = "open" THEN "open" ELSE c.wr[u].out)
                              = IF A[u] = "open" THEN "error" ELSE A[u]
      BY <1>2 DEF Cleared, EndedAs, Kept, Shape, Responses, Outcomes
    <3> HIDE DEF A
    <3> QED
      BY <1>2, <3>1 DEF Opened, SameWriter
  <2>3. B = [u \in Turn!Request |-> IF u = w THEN "open" ELSE IF u \in Turn!Open THEN "error" ELSE A[u]]
    BY <1>0, <2>2 DEF Turn!Open
  <2> QED
    BY <1>0, <1>1, <2>1, <2>3 DEF OneTurnStep, Turn!Next, Turn!Start
<1>3. ASSUME p.act.run # 0, p.act.paused PROVE Turn!Open = {}
  BY <1>0, <1>3 DEF Turn!Open, Shape, OpenOne, Responses, Outcomes
<1>4. ASSUME p.act.run # 0, p.act.paused, Opened(p, p', w, p.act.run) PROVE OneTurnStep
  <2>1. p'.act.run = p.act.run
    BY <1>4 DEF Opened
  <2>2. \A u \in Request : B[u] = IF u = w THEN "open" ELSE A[u]
    BY <1>4 DEF Opened, SameWriter
  <2>3. B = [A EXCEPT ![w] = "open"]
    BY <2>2
  <2> QED
    BY <1>0, <1>1, <1>3, <1>4, <2>1, <2>3 DEF OneTurnStep, Turn!Next, Turn!Resume
<1>5. ASSUME p.act.run # 0, p.act.paused, Paused(p, p', w) PROVE OneTurnStep
  <2>1. p'.act.run = p.act.run
    BY <1>5 DEF Paused
  <2>2. \A u \in Request : B[u] = IF u = w THEN "tool_calls" ELSE A[u]
    BY <1>5 DEF Paused, SameWriter
  <2>3. B = [A EXCEPT ![w] = "tool_calls"]
    BY <2>2
  <2> QED
    BY <1>0, <1>1, <1>3, <1>5, <2>1, <2>3 DEF OneTurnStep, Turn!Next, Turn!Wait
<1> QED
  BY <1>2, <1>4, <1>5 DEF Sent

-----------------------------------------------------------------------------
(* The inductive invariant, and each action of it.                          *)

IsPi(x) ==
  /\ x = [log |-> x.log, cur |-> x.cur, n |-> x.n, gone |-> x.gone, compacted |-> x.compacted,
          ends |-> x.ends, foreign |-> x.foreign]
  /\ x.cur \in 0..MaxReq /\ x.n \in 0..MaxReq /\ x.gone \subseteq Request

IsServer(x) ==
  /\ x = [hist |-> x.hist, waiting |-> x.waiting, used |-> x.used, said |-> x.said,
          fresh |-> x.fresh, over |-> x.over]
  /\ x.waiting \subseteq Exec /\ x.used \in Nat

IsServers(f) == f = [b \in Request |-> f[b]] /\ \A b \in Request : IsServer(f[b])

IInv == IsPi(pi) /\ IsServers(sv) /\ Shape(p) /\ Calm(p) /\ Fresh(p, pi.n)

LEMMA PutServer ==
  ASSUME NEW f, IsServers(f), NEW b \in Request, NEW x, IsServer(x)
  PROVE  IsServers([f EXCEPT ![b] = x]) /\ [f EXCEPT ![b] = x][b] = x
<1> DEFINE g == [f EXCEPT ![b] = x]
<1>1. g = [c \in Request |-> g[c]] /\ \A c \in Request : g[c] = IF c = b THEN x ELSE f[c]
  BY DEF IsServers
<1> HIDE DEF g
<1> QED
  BY <1>1 DEF IsServers, g

\* What Cursor knows of a Run, and waits for, after a step of that Run.
LEMMA ServesHist ==
  ASSUME NEW f, IsServers(f), NEW b \in Request, NEW v
  PROVE  LET g == [f EXCEPT ![b].hist = v] IN IsServers(g)
<1> DEFINE x == [f[b] EXCEPT !.hist = v]
           g == [f EXCEPT ![b] = x]
<1>1. IsServer(f[b])
  BY DEF IsServers
<1>2. ASSUME NEW y, y = x PROVE IsServer(y)
  BY <1>1, <1>2 DEF IsServer
<1>3. IsServer(x)
  BY <1>2
<1>4. [f EXCEPT ![b].hist = v] = g
  BY Zenon
<1> HIDE DEF x
<1>5. IsServers(g) /\ g[b] = x
  BY <1>3, PutServer
<1> HIDE DEF g
<1> QED
  BY <1>3, <1>4, <1>5

LEMMA ServesFresh ==
  ASSUME NEW f, IsServers(f), NEW b \in Request, NEW v
  PROVE  LET g == [f EXCEPT ![b].fresh = v] IN IsServers(g)
<1> DEFINE x == [f[b] EXCEPT !.fresh = v]
           g == [f EXCEPT ![b] = x]
<1>1. IsServer(f[b])
  BY DEF IsServers
<1>2. ASSUME NEW y, y = x PROVE IsServer(y)
  BY <1>1, <1>2 DEF IsServer
<1>3. IsServer(x)
  BY <1>2
<1>4. [f EXCEPT ![b].fresh = v] = g
  BY Zenon
<1> HIDE DEF x
<1>5. IsServers(g) /\ g[b] = x
  BY <1>3, PutServer
<1> HIDE DEF g
<1> QED
  BY <1>3, <1>4, <1>5

LEMMA ServesOver ==
  ASSUME NEW f, IsServers(f), NEW b \in Request, NEW v
  PROVE  LET g == [f EXCEPT ![b].over = v] IN IsServers(g) /\ g[b].over = v
<1> DEFINE x == [f[b] EXCEPT !.over = v]
           g == [f EXCEPT ![b] = x]
<1>1. IsServer(f[b])
  BY DEF IsServers
<1>2. ASSUME NEW y, y = x PROVE IsServer(y) /\ y.over = v
  BY <1>1, <1>2 DEF IsServer
<1>3. IsServer(x) /\ x.over = v
  BY <1>2
<1>4. [f EXCEPT ![b].over = v] = g
  BY Zenon
<1> HIDE DEF x
<1>5. IsServers(g) /\ g[b] = x
  BY <1>3, PutServer
<1> HIDE DEF g
<1> QED
  BY <1>3, <1>4, <1>5

LEMMA ServesWaiting ==
  ASSUME NEW f, IsServers(f), NEW b \in Request, NEW v, v \subseteq Exec
  PROVE  LET g == [f EXCEPT ![b].waiting = v] IN IsServers(g)
<1> DEFINE x == [f[b] EXCEPT !.waiting = v]
           g == [f EXCEPT ![b] = x]
<1>1. IsServer(f[b])
  BY DEF IsServers
<1>2. ASSUME NEW y, y = x PROVE IsServer(y)
  BY <1>1, <1>2 DEF IsServer
<1>3. IsServer(x)
  BY <1>2
<1>4. [f EXCEPT ![b].waiting = v] = g
  BY Zenon
<1> HIDE DEF x
<1>5. IsServers(g) /\ g[b] = x
  BY <1>3, PutServer
<1> HIDE DEF g
<1> QED
  BY <1>3, <1>4, <1>5

LEMMA Tells ==
  ASSUME IsServers(sv), NEW b \in Request, NEW owner, NEW execs
  PROVE  IsServers(Told(b, owner, execs))
<1> DEFINE h == sv[b].hist \o <<Msg("asst", owner, execs), Msg("tools", 0, execs)>>
           x == [sv[b] EXCEPT !.waiting = sv[b].waiting \ execs, !.said = FALSE, !.fresh = FALSE, !.hist = h]
<1>1. IsServer(sv[b])
  BY DEF IsServers
<1>2. IsServer(x)
  <2> HIDE DEF h
  <2>1. ASSUME NEW y, y = x PROVE IsServer(y)
    BY <1>1, <2>1 DEF IsServer
  <2> QED
    BY <2>1
<1>3. Told(b, owner, execs) = [sv EXCEPT ![b] = x]
  BY DEF Told, IsServers
<1> HIDE DEF x
<1>4. IsServers([sv EXCEPT ![b] = x])
  BY <1>2, PutServer
<1> QED
  BY <1>3, <1>4

\* A callback of the bridge b finds the response that has the callbacks, one of its Run.
LEMMA Called ==
  ASSUME Shape(p), NEW b \in Request, p.br[b].proc # "none"
  PROVE  LET w == p.br[b].cb IN
         w \in Request /\ p.wr[w].phase \in {"open", "closed"} /\ p.wr[w].run = b /\ IsProxy(p)
BY DEF Shape, Bridges, Responses

LEMMA Cuts ==
  ASSUME CursorStreamAssumption, Shape(p), NEW b \in Request, p.br[b].proc # "none"
  PROVE  Loses(p, Cut(b))
<1>1. LET w == p.br[b].cb IN w \in Request /\ p.wr[w].phase # "none" /\ p.wr[w].run = b
  BY Called
<1> QED
  BY <1>1, CancelsRun DEF Cut, Loses

LEMMA TextStep ==
  ASSUME CursorStreamAssumption, IInv, NEW b \in Request, Text(b)
  PROVE  (Quiet(p, p') \/ Loses(p, p')) /\ IsServers(sv') /\ pi' = pi
<1>1. p.br[b].proc # "none" /\ Shape(p) /\ IsServers(sv)
  BY DEF IInv, Text, Frame
<1>2. Loses(p, Cut(b)) /\ Quiet(p, p)
  BY <1>1, Cuts, Called, Itself
<1>3. IsServers(sv')
  <2> DEFINE x == [sv[b] EXCEPT !.said = TRUE, !.fresh = FALSE]
  <2>0. IsServer(sv[b])
    BY <1>1 DEF IsServers
  <2>1. ASSUME NEW y, y = x PROVE IsServer(y)
    BY <2>0, <2>1 DEF IsServer
  <2>2. sv' = [sv EXCEPT ![b] = x]
    BY <1>1 DEF Text, IsServers
  <2>3. IsServer(x)
    BY <2>1
  <2> HIDE DEF x
  <2> QED
    BY <1>1, <2>2, <2>3, PutServer
<1> QED
  BY <1>2, <1>3 DEF Text

LEMMA ToolExecStep ==
  ASSUME CursorStreamAssumption, IInv, NEW b \in Request, ToolExec(b)
  PROVE  (Quiet(p, p') \/ Loses(p, p')) /\ IsServers(sv') /\ pi' = pi
<1> DEFINE e == <<b, sv[b].used + 1>>
           w == p.br[b].cb
           waits == IF ~Fenced(b) /\ Alive(p, b) /\ Late(p, w) THEN sv[b].waiting ELSE sv[b].waiting \cup {e}
           n == sv[b].used + 1
           x == [sv[b] EXCEPT !.said = TRUE, !.fresh = FALSE, !.used = n, !.waiting = waits]
<1>1. p.br[b].proc # "none" /\ Shape(p) /\ IsServers(sv)
  BY DEF IInv, ToolExec, Frame
<1>2. e \in Exec
  <2>1. sv[b].used + 1 \in 1..MaxExec
    BY <1>1 DEF IsServers, IsServer, ToolExec, CursorStreamAssumption
  <2> QED
    BY <2>1 DEF Exec
<1>3. Loses(p, Cut(b)) /\ Quiet(p, queuePiTool(p, w, e))
  BY <1>1, <1>2, Cuts, Called, Queues
<1>4. p' = Cut(b) \/ p' = queuePiTool(p, w, e)
  BY DEF ToolExec
<1>5. sv' = [sv EXCEPT ![b] = x]
  BY <1>1 DEF ToolExec, IsServers
<1>6. waits \subseteq Exec
  <2>1. sv[b].waiting \subseteq Exec
    BY <1>1 DEF IsServers, IsServer
  <2> HIDE DEF e
  <2> QED
    BY <1>2, <2>1
<1>7. IsServer(sv[b]) /\ n \in Nat
  BY <1>1 DEF IsServers, IsServer
<1> HIDE DEF waits, e, w, n
<1>8. IsServer(x)
  <2>1. ASSUME NEW y, y = x PROVE IsServer(y)
    BY <1>6, <1>7, <2>1 DEF IsServer
  <2> QED
    BY <2>1
<1> HIDE DEF x
<1>9. IsServers(sv')
  BY <1>1, <1>5, <1>8, PutServer
<1> QED
  BY <1>3, <1>4, <1>9 DEF ToolExec

LEMMA CheckpointStep ==
  ASSUME CursorStreamAssumption, IInv, NEW b \in Request, Checkpoint(b)
  PROVE  (Quiet(p, p') \/ Loses(p, p')) /\ IsServers(sv') /\ pi' = pi
<1> DEFINE w == p.br[b].cb
           hist == sv[b].hist \o (IF sv[b].said THEN <<Msg("asst", w, p.wr[w].pend)>> ELSE <<>>)
           cp == <<[hist |-> hist, run |-> b]>>
<1>1. p.br[b].proc # "none" /\ Shape(p) /\ IsServers(sv)
  BY DEF IInv, Checkpoint, Frame
<1>2. w \in Request /\ IsProxy(p)
  BY <1>1, Called
<1>3. p' = Cut(b) \/ p' = Store(p, w, cp)
  BY DEF Checkpoint
<1> HIDE DEF w, hist, cp
<1>4. Loses(p, Cut(b)) /\ Quiet(p, Store(p, w, cp))
  BY <1>1, <1>2, Cuts, Stores
<1>5. IsServers(sv')
  <2>1. IsServers([sv EXCEPT ![b].fresh = TRUE])
    BY <1>1, ServesFresh
  <2> QED
    BY <2>1 DEF Checkpoint
<1> QED
  BY <1>3, <1>4, <1>5 DEF Checkpoint

\* A turn that Cursor ended: "stop", if the response was open and has it to say.
LEMMA TurnEndedStep ==
  ASSUME CursorStreamAssumption, IInv, NEW b \in Request, TurnEnded(b)
  PROVE  /\ IsServers(sv') /\ sv'[b].over /\ pi' = pi
         /\ \/ Quiet(p, p') \/ Loses(p, p')
            \/ \E w \in Request : p.wr[w].phase = "open" /\ p.wr[w].run = b /\ Ended(p, p', b, "stop")
<1> DEFINE w == p.br[b].cb
           q == [p EXCEPT !.wr[w].ended = TRUE]
<1>1. p.br[b].proc # "none" /\ Shape(p) /\ IsServers(sv)
  BY DEF IInv, TurnEnded, Frame
<1>2. w \in Request /\ p.wr[w].phase \in {"open", "closed"} /\ p.wr[w].run = b /\ IsProxy(p)
  BY <1>1, Called
<1>3. p' = Cut(b) \/ p' = finishOpenAITurn(q, w)
  BY DEF TurnEnded
<1> HIDE DEF w
<1>4. OfWriters(p, q) /\ \A u \in Request : SameWriter(p.wr[u], q.wr[u])
  BY <1>2, MarkEnded
<1> HIDE DEF q
<1>5. Quiet(p, q)
  BY <1>2, <1>4, QuietSteps
<1>6. Shape(q)
  BY <1>1, <1>5, QuietKeeps DEF Quiet
<1>7. q.wr[w].phase = p.wr[w].phase /\ q.wr[w].run = b
  BY <1>2, <1>4 DEF SameWriter
<1>8. \/ finishOpenAITurn(q, w) = q
      \/ q.wr[w].phase = "open" /\ Ended(q, finishOpenAITurn(q, w), b, "stop")
  BY <1>2, <1>6, <1>7, Finishes
<1>9. \/ Quiet(p, p') \/ Loses(p, p')
      \/ p.wr[w].phase = "open" /\ p.wr[w].run = b /\ Ended(p, p', b, "stop")
  <2>1. CASE p' = Cut(b)
    BY <1>1, <2>1, Cuts
  <2>2. CASE p' = q
    BY <1>5, <2>2
  <2>3. CASE q.wr[w].phase = "open" /\ Ended(q, p', b, "stop")
    <3>1. Beneath(p, q) /\ (\A u \in Request : Kept(p.wr[u], q.wr[u]))
          /\ \A u \in Request : q.wr[u].cancelled => p.wr[u].cancelled
      BY <1>5 DEF Quiet
    <3>2. Ended(p, p', b, "stop")
      BY <1>1, <1>2, <2>3, <3>1, EndsVia
    <3> QED
      BY <1>2, <1>7, <2>3, <3>2
  <2> QED
    BY <1>3, <1>8, <2>1, <2>2, <2>3
<1>10. IsServers(sv') /\ sv'[b].over
  <2>1. IsServers([sv EXCEPT ![b].over = TRUE]) /\ [sv EXCEPT ![b].over = TRUE][b].over = TRUE
    BY <1>1, ServesOver
  <2> QED
    BY <2>1 DEF TurnEnded
<1> QED
  BY <1>2, <1>9, <1>10 DEF TurnEnded

\* A step of the registry before or after another step changes nothing to it.
LEMMA Thens ==
  ASSUME NEW s, Shape(s), NEW r, Quiet(s, r), NEW t
  PROVE  /\ Beside(r, t) => Quiet(s, t)
         /\ \A b \in Request : \A how : Ended(r, t, b, how) => Ended(s, t, b, how)
<1>1. ASSUME Beside(r, t) PROVE Quiet(s, t)
  BY <1>1 DEF Beside, Quiet, Beneath
<1>2. ASSUME NEW b \in Request, NEW how, Ended(r, t, b, how) PROVE Ended(s, t, b, how)
  BY <1>2, EndsVia DEF Quiet
<1> QED
  BY <1>1, <1>2

LEMMA EndedBeside ==
  ASSUME NEW s, NEW r, NEW b \in Request, NEW how, Ended(s, r, b, how), NEW t, Beside(r, t)
  PROVE  Ended(s, t, b, how)
BY DEF Ended, Beside

LEMMA EndStreamErrorStep ==
  ASSUME CursorStreamAssumption, IInv, NEW b \in Request, EndStreamError(b)
  PROVE  Quiet(p, p') \/ Loses(p, p')
<1> DEFINE w == p.br[b].cb
<1>1. p.br[b].proc # "none" /\ Shape(p)
  BY DEF IInv, EndStreamError
<1>2. w \in Request /\ p.wr[w].phase \in {"open", "closed"} /\ p.wr[w].run = b /\ IsProxy(p)
  BY <1>1, Called
<1>3. p' = Cut(b) \/ p' = failRun(p, w)
  BY DEF EndStreamError
<1> HIDE DEF w
<1>4. CASE p' = Cut(b)
  BY <1>1, <1>4, Cuts
<1>5. CASE p' = failRun(p, w)
  <2>1. /\ p.wr[w].phase = "closed" => failRun(p, w) = p
        /\ p.wr[w].phase = "open" => Ended(p, failRun(p, w), p.wr[w].run, "error")
    BY <1>1, <1>2, FailsRun
  <2> QED
    BY <1>2, <1>5, <2>1, Itself DEF Loses
<1> QED
  BY <1>3, <1>4, <1>5

LEMMA StatusErrorStep ==
  ASSUME CursorStreamAssumption, IInv, NEW b \in Request, StatusError(b)
  PROVE  Quiet(p, p') \/ Loses(p, p')
<1> DEFINE w == p.br[b].cb
           s1 == [p EXCEPT !.br[b].report = TRUE]
<1>1. p.br[b].proc # "none" /\ Shape(p)
  BY DEF IInv, StatusError
<1>2. w \in Request /\ p.wr[w].phase \in {"open", "closed"} /\ p.wr[w].run = b /\ IsProxy(p)
  BY <1>1, Called
<1>3. \/ p' = s1
      \/ p.wr[w].phase = "closed" /\ p' = cleanupBridge(forgetIfOwned(s1, w), b)
      \/ p.wr[w].phase # "closed" /\ p' = failRun(s1, w)
  BY DEF StatusError
<1> HIDE DEF w
<1>4. OfBridge(p, s1, b) /\ SameBridge(p.br[b], s1.br[b])
  BY <1>2, MarkReport
<1> HIDE DEF s1
<1>5. Quiet(p, s1) /\ s1.wr = p.wr /\ IsProxy(s1)
  BY <1>2, <1>4, QuietSteps DEF OfBridge
<1>6. Shape(s1)
  BY <1>1, <1>5, QuietKeeps DEF Quiet
<1>7. ASSUME p.wr[w].phase = "closed", p' = cleanupBridge(forgetIfOwned(s1, w), b) PROVE Loses(p, p')
  <2>1. Beside(s1, forgetIfOwned(s1, w))
    BY <1>5, Registry, Zenon
  <2>2. Quiet(p, forgetIfOwned(s1, w))
    BY <1>1, <1>5, <2>1, Thens
  <2> QED
    BY <1>1, <1>7, <2>2, CleansUpVia DEF Loses
<1>8. ASSUME p.wr[w].phase # "closed", p' = failRun(s1, w) PROVE Loses(p, p')
  <2>1. s1.wr[w].phase = "open" /\ s1.wr[w].run = b
    BY <1>2, <1>5, <1>8
  <2>2. Ended(s1, p', b, "error")
    BY <1>2, <1>6, <1>8, <2>1, FailsRun
  <2> QED
    BY <1>1, <1>5, <2>2, Thens DEF Loses
<1> QED
  BY <1>3, <1>5, <1>7, <1>8

LEMMA ProcessCloseStep ==
  ASSUME CursorStreamAssumption, IInv, NEW b \in Request, ProcessClose(b)
  PROVE  Loses(p, p')
<1>1. p.br[b].proc \in {"running", "exited"} /\ Shape(p) /\ Calm(p)
  BY DEF IInv, ProcessClose
<1> QED
  BY <1>1, ClosesProcess DEF ProcessClose, Loses

\* An open response is that of the active Run, which has a process.
LEMMA Active ==
  ASSUME NEW s, Shape(s)
  PROVE  /\ s.act.run # 0 => s.act.run \in Request /\ s.br[s.act.run].proc # "none"
         /\ \A w \in Request : s.wr[w].phase = "open" =>
              s.wr[w].run \in Request /\ s.wr[w].run = s.act.run /\ s.br[s.wr[w].run].proc # "none"
<1>1. 0 \notin Request
  BY DEF Request
<1> QED
  BY <1>1 DEF Shape, Running, OpenOne

LEMMA StallTimeoutStep ==
  ASSUME CursorStreamAssumption, IInv, NEW w \in Request, StallTimeout(w)
  PROVE  Loses(p, p') /\ IsServers(sv') /\ pi' = pi
<1> DEFINE b == p.wr[w].run
           q == [p EXCEPT !.wr[w].cancelled = TRUE]
           s1 == forgetIfOwned(q, w)
           r == closeResponse(s1, w, "error")
           waits == IF p.wr[w].flushed \/ ~Alive(p, b) THEN sv[b].waiting ELSE sv[b].waiting \ p.wr[w].pend
<1>1. Shape(p) /\ p.wr[w].phase = "open" /\ IsServers(sv) /\ IsProxy(p)
  BY DEF IInv, StallTimeout, Shape
<1>2. b \in Request
  BY <1>1, Active
<1>3. p' = cleanupBridge(r, b) /\ pi' = pi
  BY DEF StallTimeout
<1>4. sv' = [sv EXCEPT ![b].waiting = waits]
  BY <1>1, <1>2 DEF StallTimeout, IsServers
<1>5. waits \subseteq Exec
  BY <1>1, <1>2 DEF IsServers, IsServer
<1> HIDE DEF waits
<1>6. IsServers(sv')
  BY <1>1, <1>2, <1>4, <1>5, ServesWaiting
<1>7. /\ OfWriters(p, q) /\ \A u \in Request \ {w} : q.wr[u] = p.wr[u]
      /\ q.wr[w].phase = p.wr[w].phase /\ q.wr[w].run = p.wr[w].run
  <2>0. IsProxy(p)
    BY <1>1
  <2>1. /\ OfWriters(p, q) /\ SameRest(p, q) /\ \A u \in Request \ {w} : q.wr[u] = p.wr[u]
        /\ q.wr[w].phase = p.wr[w].phase /\ q.wr[w].out = p.wr[w].out /\ q.wr[w].run = p.wr[w].run
        /\ q.wr[w].pend = p.wr[w].pend /\ q.wr[w].cancelled = TRUE
    BY <2>0, MarkCancelled
  <2> HIDE DEF q
  <2> QED
    BY <2>1
<1> HIDE DEF q
<1>8. Beside(q, s1)
  <2>1. IsProxy(q)
    BY <1>7 DEF OfWriters
  <2> QED
    BY <2>1, Registry, Zenon
<1> HIDE DEF s1
<1>9. /\ OfWriters(s1, r) /\ \A u \in Request \ {w} : r.wr[u] = s1.wr[u]
      /\ EndedAs(s1.wr[w], r.wr[w], "error")
  <2>1. IsProxy(s1) /\ s1.wr[w].phase # "closed"
    BY <1>1, <1>7, <1>8 DEF Beside
  <2> QED
    BY <2>1, Closes
<1> HIDE DEF r
<1>10. Beneath(p, r) /\ EndedAs(p.wr[w], r.wr[w], "error") /\ \A u \in Request \ {w} : r.wr[u] = p.wr[u]
  BY <1>7, <1>8, <1>9 DEF OfWriters, Beside, Beneath, SameBridge, EndedAs
<1>11. Ended(p, p', b, "error")
  BY <1>1, <1>3, <1>10, EndsFirst
<1> QED
  BY <1>2, <1>3, <1>6, <1>11 DEF Loses

LEMMA ClientCloseStep ==
  ASSUME CursorStreamAssumption, IInv, NEW w \in Request, ClientClose(w)
  PROVE  Loses(p, p')
<1>1. Shape(p) /\ p.wr[w].phase = "open"
  BY DEF IInv, ClientClose
<1>2. p.wr[w].run \in Request /\ p.br[p.wr[w].run].proc # "none"
  BY <1>1, Active
<1> QED
  BY <1>1, <1>2, CancelsRun DEF ClientClose, Loses

LEMMA CoalescedStep ==
  ASSUME CursorStreamAssumption, IInv, NEW w \in Request, Coalesced(w)
  PROVE  Quiet(p, p') \/ Pauses(p, p')
BY Flushes DEF IInv, Coalesced, Pauses

\* A compaction, and the end of a session, clean up the active Run.
LEMMA Resets ==
  ASSUME CursorStreamAssumption, Shape(p)
  PROVE  /\ \A s : s = resetConversationForSession(p) => Quiet(p, s) \/ Loses(p, s)
         /\ \A s : s = cleanupSessionState(p) => Quiet(p, s) \/ Loses(p, s)
<1>0. IsProxy(p)
  BY DEF Shape
<1>1. ASSUME NEW s, s = resetConversationForSession(p) PROVE Quiet(p, s) \/ Loses(p, s)
  <2>1. Beside(p, forgetConversation(p))
    BY <1>0, Registry, Zenon
  <2>2. Quiet(p, forgetConversation(p))
    BY <1>0, <2>1, QuietSteps
  <2>3. p.act.run # 0 => Ended(p, cleanupBridge(forgetConversation(p), p.act.run), p.act.run, "error")
    BY <2>2, Active, CleansUpVia
  <2> QED
    BY <1>1, <2>2, <2>3, Active DEF resetConversationForSession, Loses
<1>2. ASSUME NEW s, s = cleanupSessionState(p) PROVE Quiet(p, s) \/ Loses(p, s)
  <2> DEFINE r == IF p.act.run = 0 THEN p ELSE cleanupBridge(p, p.act.run)
  <2>1. s = dropConversation(r)
    BY <1>2 DEF cleanupSessionState
  <2>2. \/ p.act.run = 0 /\ Quiet(p, r)
        \/ p.act.run \in Request /\ Ended(p, r, p.act.run, "error")
    BY <1>0, Itself, Active, CleansUp
  <2> HIDE DEF r
  <2>3. IsProxy(r)
    BY <2>2 DEF Quiet, Beneath, Ended
  <2>4. Beside(r, s)
    BY <2>1, <2>3, Registry, Zenon
  <2> QED
    BY <2>2, <2>4, Thens, EndedBeside DEF Loses
<1> QED
  BY <1>1, <1>2

\* What Cursor is told when a request reaches the proxy.
LEMMA Hears ==
  ASSUME IInv, NEW w \in Request, NEW body, NEW moved, handleChatCompletion(w, body, moved)
  PROVE  IsServers(sv')
<1> DEFINE stale == \/ p.stored # 0 /\ (moved \/ isStaleForTranscript(p.obj[p.stored], body))
                    \/ p.act.run # 0 /\ p.act.stored # 0 /\ ~owns(p, p.act.stored, p.act.rgen)
           s1 == IF ~stale THEN p
                 ELSE IF p.act.run # 0 THEN cleanupBridge(forgetConversation(p), p.act.run)
                      ELSE forgetConversation(p)
           a == IF stale THEN NoActive ELSE p.act
           o == IF stale THEN 0 ELSE p.stored
           results == toolResults(body)
           resuming == a.run # 0 /\ a.paused /\ results # {}
           r == IF o = 0 THEN s1 ELSE coverTranscript(s1, o, body)
           s2 == IF resuming THEN [r EXCEPT !.act = NoActive] ELSE s1
           s3 == IF a.run # 0 THEN cleanupBridge(s2, a.run) ELSE s2
           s4 == handleToolResultResume(s2, w, a, results)
           execs == s4.wr[a.owner].pend
           hist == SentHistory(body, IF o = 0 THEN NoCheckpoint ELSE s3.obj[o].cp)
<1>1. \/ resuming /\ sv' = IF s4.wr[w].phase = "open" THEN Told(a.run, a.owner, execs) ELSE sv
      \/ sv' = [sv EXCEPT ![w].hist = hist]
  BY Zenon DEF handleChatCompletion
<1> HIDE DEF hist, execs, s4, s3, s2, results
<1>2. resuming => a.run \in Request
  <2>1. a.run = 0 \/ a.run = p.act.run
    BY DEF NoActive
  <2> HIDE DEF a
  <2> QED
    BY <2>1, Active DEF IInv
<1> HIDE DEF resuming, a
<1>3. IsServers(sv)
  BY DEF IInv
<1>4. IsServers([sv EXCEPT ![w].hist = hist])
  BY <1>3, ServesHist
<1>5. CASE resuming /\ sv' = IF s4.wr[w].phase = "open" THEN Told(a.run, a.owner, execs) ELSE sv
  BY <1>2, <1>3, <1>5, Tells
<1> QED
  BY <1>1, <1>4, <1>5

LEMMA SendStep ==
  ASSUME CursorStreamAssumption, IInv, NEW body, NEW moved, Send(body, moved)
  PROVE  /\ IsPi(pi') /\ IsServers(sv') /\ pi'.n = pi.n + 1 /\ pi.n + 1 \in Request
         /\ p.wr[pi.n + 1].phase = "none" /\ Sent(p, p', pi.n + 1)
<1> DEFINE w == pi.n + 1
<1>1. w \in Request /\ handleChatCompletion(w, body, moved) /\ pi' = [pi EXCEPT !.log = body, !.cur = w, !.n = w]
  BY DEF Send
<1>2. IsPi(pi) /\ Shape(p) /\ Fresh(p, pi.n) /\ pi.n \in Nat
  BY DEF IInv, IsPi, CursorStreamAssumption
<1>3. p.wr[w].phase = "none"
  BY <1>1, <1>2 DEF Fresh
<1>4. w \in 0..MaxReq
  BY <1>1 DEF Request
<1> HIDE DEF w
<1>5. IsPi(pi') /\ pi'.n = w
  BY <1>1, <1>2, <1>4 DEF IsPi
<1>6. IsServers(sv') /\ Sent(p, p', w)
  BY <1>1, <1>2, <1>3, Hears, Sends
<1> QED
  BY <1>1, <1>3, <1>5, <1>6 DEF w

\* The steps of Pi that are no request leave the proxy alone, or reset it.
LEMMA PiStep ==
  ASSUME CursorStreamAssumption, IInv, Receive \/ Abort \/ ForeignTurn \/ Compact \/ EndSession
  PROVE  IsPi(pi') /\ pi'.n = pi.n /\ sv' = sv /\ (Quiet(p, p') \/ Loses(p, p'))
<1>1. IsPi(pi) /\ Shape(p) /\ IsProxy(p) /\ 0 \in 0..MaxReq
  BY DEF IInv, Shape, CursorStreamAssumption
<1>2. Quiet(p, p)
  BY <1>1, Itself
<1>3. CASE Receive
  <2> DEFINE w == pi.cur
             l == CASE p.wr[w].out = "stop" -> Append(pi.log, Msg("asst", w, {}))
                    [] p.wr[w].out = "tool_calls" ->
                         Append(pi.log, Msg(IF p.wr[w].flushed THEN "asst" ELSE "again", w, p.wr[w].told))
                    [] OTHER -> pi.log
  <2>1. pi' = [pi EXCEPT !.cur = 0, !.log = l] /\ p' = p /\ sv' = sv
    BY <1>3, Zenon DEF Receive
  <2> HIDE DEF l
  <2> QED
    BY <1>1, <1>2, <2>1 DEF IsPi
<1>4. CASE Abort
  <2>1. pi.cur \in Request
    BY <1>1, <1>4 DEF IsPi, Abort, Request
  <2> DEFINE g == pi.gone \cup {pi.cur}
  <2>2. pi' = [pi EXCEPT !.cur = 0, !.gone = g] /\ p' = p /\ sv' = sv
    BY <1>4 DEF Abort
  <2>3. g \subseteq Request
    BY <1>1, <2>1 DEF IsPi
  <2> HIDE DEF g
  <2> QED
    BY <1>1, <1>2, <2>2, <2>3 DEF IsPi
<1>5. CASE ForeignTurn
  <2> DEFINE l == Append(pi.log, Msg("other", pi.n, {}))
             f == pi.foreign + 1
  <2>1. pi' = [pi EXCEPT !.log = l, !.foreign = f] /\ p' = p /\ sv' = sv
    BY <1>5 DEF ForeignTurn
  <2> HIDE DEF l, f
  <2> QED
    BY <1>1, <1>2, <2>1 DEF IsPi
<1>6. CASE Compact
  <2>1. PICK k \in 0..(Len(pi.log) - 1) :
          pi' = [pi EXCEPT !.log = <<Msg("summary", pi.compacted, {})>>
                                     \o SubSeq(pi.log, Len(pi.log) - k + 1, Len(pi.log)),
                           !.compacted = pi.compacted + 1]
    BY <1>6 DEF Compact, log
  <2>2. p' = resetConversationForSession(p) /\ sv' = sv
    BY <1>6 DEF Compact
  <2>3. Quiet(p, p') \/ Loses(p, p')
    BY <1>1, <2>2, Resets
  <2> QED
    BY <1>1, <2>1, <2>2, <2>3 DEF IsPi
<1>7. CASE EndSession
  <2> DEFINE g == pi.gone \cup ({pi.cur} \ {0})
  <2>1. \E l, c : pi' = [pi EXCEPT !.log = l, !.ends = c, !.cur = 0, !.gone = g]
    BY <1>7, Zenon DEF EndSession
  <2>2. p' = cleanupSessionState(p) /\ sv' = sv
    BY <1>7 DEF EndSession
  <2>3. Quiet(p, p') \/ Loses(p, p')
    BY <1>1, <2>2, Resets
  <2>4. g \subseteq Request
    BY <1>1 DEF IsPi, Request
  <2> HIDE DEF g
  <2> QED
    BY <1>1, <2>1, <2>2, <2>3, <2>4 DEF IsPi
<1> QED
  BY <1>3, <1>4, <1>5, <1>6, <1>7

\* The three kinds of step: a request, one that says no "stop", and the end of a turn.
Requested ==
  /\ pi'.n = pi.n + 1 /\ pi.n + 1 \in Request
  /\ p.wr[pi.n + 1].phase = "none" /\ Sent(p, p', pi.n + 1)
Unstopped == pi'.n = pi.n /\ (Quiet(p, p') \/ Loses(p, p') \/ Pauses(p, p') \/ Leaves(p, p'))
Stopped ==
  /\ pi'.n = pi.n
  /\ \E w \in Request : /\ p.wr[w].phase = "open" /\ sv'[p.wr[w].run].over
                        /\ Ended(p, p', p.wr[w].run, "stop")

LEMMA Kinds ==
  ASSUME CursorStreamAssumption, IInv, Next
  PROVE  IsPi(pi') /\ IsServers(sv') /\ (Requested \/ Unstopped \/ Stopped)
<1>0. IsPi(pi) /\ IsServers(sv)
  BY DEF IInv
<1> DEFINE Goal == IsPi(pi') /\ IsServers(sv') /\ (Requested \/ Unstopped \/ Stopped)
<1>1. CASE Ask \/ Again \/ ReturnResults
  <2>1. \E body, moved : Send(body, moved)
    BY <1>1, Zenon DEF Ask, Again, ReturnResults
  <2> QED
    BY <2>1, SendStep DEF Requested
<1>2. CASE Receive \/ Abort \/ ForeignTurn \/ Compact \/ EndSession
  BY <1>0, <1>2, PiStep DEF Unstopped
<1>3. ASSUME NEW b \in Request, Text(b) \/ ToolExec(b) \/ Checkpoint(b) PROVE Goal
  BY <1>0, <1>3, TextStep, ToolExecStep, CheckpointStep DEF Unstopped
<1>4. ASSUME NEW b \in Request, TurnEnded(b) PROVE Goal
  <2>1. /\ IsServers(sv') /\ sv'[b].over /\ pi' = pi
        /\ \/ Quiet(p, p') \/ Loses(p, p')
           \/ \E w \in Request : p.wr[w].phase = "open" /\ p.wr[w].run = b /\ Ended(p, p', b, "stop")
    BY <1>4, TurnEndedStep
  <2> QED
    BY <1>0, <2>1 DEF Unstopped, Stopped
<1>5. ASSUME NEW b \in Request, EndStreamError(b) PROVE Goal
  <2>1. pi' = pi /\ sv' = sv
    BY <1>5 DEF EndStreamError
  <2> QED
    BY <1>0, <1>5, <2>1, EndStreamErrorStep DEF Unstopped
<1>6. ASSUME NEW b \in Request, StatusError(b) PROVE Goal
  <2>1. pi' = pi /\ sv' = sv
    BY <1>6 DEF StatusError
  <2> QED
    BY <1>0, <1>6, <2>1, StatusErrorStep DEF Unstopped
<1>7. ASSUME NEW b \in Request, ProcessExit(b) PROVE Goal
  BY <1>0, <1>7, Zenon DEF ProcessExit, Unstopped, Leaves
<1>8. ASSUME NEW b \in Request, ProcessClose(b) PROVE Goal
  <2>1. pi' = pi /\ sv' = sv
    BY <1>8 DEF ProcessClose
  <2> QED
    BY <1>0, <1>8, <2>1, ProcessCloseStep DEF Unstopped
<1>9. ASSUME NEW w \in Request, Coalesced(w) PROVE Goal
  <2>1. pi' = pi /\ sv' = sv
    BY <1>9 DEF Coalesced
  <2> QED
    BY <1>0, <1>9, <2>1, CoalescedStep DEF Unstopped
<1>10. ASSUME NEW w \in Request, StallTimeout(w) PROVE Goal
  BY <1>0, <1>10, StallTimeoutStep DEF Unstopped
<1>11. ASSUME NEW w \in Request, ClientClose(w) PROVE Goal
  <2>1. pi' = pi /\ sv' = sv
    BY <1>11 DEF ClientClose
  <2> QED
    BY <1>0, <1>11, <2>1, ClientCloseStep DEF Unstopped
<1> HIDE DEF Goal
<1>12. Goal
  BY <1>1, <1>2, <1>3, <1>4, <1>5, <1>6, <1>7, <1>8, <1>9, <1>10, <1>11 DEF Next, Goal
<1> QED
  BY <1>12 DEF Goal

LEMMA InitIInv ==
  ASSUME CursorStreamAssumption, Init
  PROVE  IInv
<1>1. MaxReq \in Nat /\ 0 \in 0..MaxReq /\ \A w \in Request : w > 0
  BY DEF CursorStreamAssumption, Request
<1>2. IsPi(pi) /\ pi.n = 0
  BY <1>1 DEF Init, IsPi
<1>3. IsServers(sv)
  BY DEF Init, IsServers, IsServer
<1>4. \A w \in Request : /\ IsWriter(p.wr[w]) /\ p.wr[w].phase = "none" /\ p.wr[w].out = "none"
                         /\ p.wr[w].pend = {} /\ p.wr[w].cancelled = FALSE
  BY DEF Init, IsWriter
<1>5. \A b \in Request : IsBridge(p.br[b]) /\ p.br[b].proc = "none"
  BY DEF Init, IsBridge
<1>6. IsActive(p.act) /\ p.act = NoActive /\ p.act.run = 0
  BY DEF Init, IsActive, NoActive
<1>7. /\ p = [wr |-> p.wr, br |-> p.br, act |-> p.act, stored |-> p.stored, gen |-> p.gen, obj |-> p.obj]
      /\ p.wr = [w \in Request |-> p.wr[w]] /\ p.br = [b \in Request |-> p.br[b]] /\ p.stored = 0
  BY DEF Init
<1>8. IsProxy(p)
  BY <1>1, <1>4, <1>5, <1>6, <1>7 DEF IsProxy
<1>9. Shape(p)
  BY <1>4, <1>5, <1>6, <1>8 DEF Shape, Responses, OpenOne, Running, Bridges, Outcomes
<1>10. Calm(p) /\ Fresh(p, 0)
  BY <1>1, <1>4, <1>5 DEF Calm, Fresh
<1> QED
  BY <1>2, <1>3, <1>9, <1>10 DEF IInv

LEMMA NextIInv ==
  ASSUME CursorStreamAssumption, IInv, [Next]_vars
  PROVE  IInv'
<1>1. CASE UNCHANGED vars
  <2>1. pi' = pi /\ p' = p /\ sv' = sv
    BY <1>1 DEF vars
  <2>2. IsPi(pi') /\ IsServers(sv') /\ Shape(p') /\ Calm(p') /\ Fresh(p', pi'.n)
    BY <2>1 DEF IInv
  <2> QED
    BY <2>2 DEF IInv
<1>2. CASE Next
  <2>1. IsPi(pi') /\ IsServers(sv') /\ (Requested \/ Unstopped \/ Stopped)
    BY <1>2, Kinds
  <2>2. Shape(p) /\ Calm(p) /\ Fresh(p, pi.n) /\ pi.n \in Nat
    BY DEF IInv, IsPi, CursorStreamAssumption
  <2>3. Unstopped \/ Stopped => Shape(p') /\ Calm(p') /\ Fresh(p', pi'.n)
    BY <2>2, MovedKeeps DEF Moved, Unstopped, Stopped, Stops
  <2>4. Requested => Shape(p') /\ Calm(p') /\ Fresh(p', pi'.n)
    BY <2>2, SentKeeps DEF Requested
  <2> QED
    BY <2>1, <2>3, <2>4 DEF IInv
<1> QED
  BY <1>1, <1>2

-----------------------------------------------------------------------------
(* The theorems.                                                            *)

\* One Run is live at most, an open response is that of the live Run and has
\* its callbacks, and one that is cancelled is over: what the rest follows from
\* (writeSSEStream, cleanupBridge and failRun of the proxy).
THEOREM AlwaysOneRun == ASSUME CursorStreamAssumption PROVE Spec => []IInv
<1>1. Init => IInv
  BY InitIInv
<1>2. IInv /\ [Next]_vars => IInv'
  BY NextIInv
<1> QED
  BY <1>1, <1>2, PTL DEF Spec

\* Every part of the proxy's state keeps its kind; a response has an outcome
\* exactly when it is closed (closeResponse).
THEOREM TypeCorrect == ASSUME CursorStreamAssumption PROVE Spec => []TypeOK
<1>1. IInv => TypeOK
  <2> SUFFICES ASSUME IInv PROVE TypeOK
    OBVIOUS
  <2>1. pi.cur \in 0..MaxReq /\ pi.n \in 0..MaxReq /\ pi.gone \subseteq Request
    BY DEF IInv, IsPi
  <2>2. \A w \in Request :
          /\ p.wr[w].phase \in {"none", "open", "closed"} /\ p.wr[w].out \in Outcomes
          /\ p.wr[w].phase = "closed" <=> p.wr[w].out # "none"
          /\ p.wr[w].pend \subseteq Exec
    BY DEF IInv, Shape, Responses, IsProxy, IsWriter
  <2>3. \A b \in Request : p.br[b].proc \in {"none", "running", "exited", "closed"} /\ sv[b].waiting \subseteq Exec
    BY DEF IInv, Shape, Bridges, IsServers, IsServer
  <2>4. p.stored \in 0..MaxReq /\ p.act.run \in 0..MaxReq
    BY DEF IInv, Shape, IsProxy, Running, Request, CursorStreamAssumption
  <2> QED
    BY <2>1, <2>2, <2>3, <2>4 DEF TypeOK, Flag, Outcomes
<1> QED
  BY <1>1, AlwaysOneRun, PTL

\* A bridge process that runs is the one of the registered Run, with its
\* heartbeat: no Run cancelled, stalled, compacted or replaced leaves one behind.
THEOREM NoOrphan == ASSUME CursorStreamAssumption PROVE Spec => []NoOrphanBridge
<1>1. IInv => NoOrphanBridge
  BY DEF IInv, Shape, Bridges, NoOrphanBridge
<1> QED
  BY <1>1, AlwaysOneRun, PTL

\* "stop" is said only of a turn that Cursor ended (finishOpenAITurn, not the
\* close of the bridge or of the response).
THEOREM StopsAfterEnd == ASSUME CursorStreamAssumption PROVE Spec => StopMeansEnded
<1>1. IInv /\ [Next]_vars => [StopMeansEndedStep]_vars
  <2> SUFFICES ASSUME IInv, Next PROVE StopMeansEndedStep
    OBVIOUS
  <2> SUFFICES ASSUME NEW u \in Request, p.wr[u].out # "stop", p'.wr[u].out = "stop"
               PROVE  sv'[p.wr[u].run].over
    BY DEF StopMeansEndedStep
  <2>1. Shape(p)
    BY DEF IInv
  <2>2. ~Unstopped /\ ~Requested
    BY <2>1, NoStop DEF Unstopped, Requested
  <2>3. Stopped
    BY <2>2, Kinds
  <2>4. PICK w \in Request : /\ p.wr[w].phase = "open" /\ sv'[p.wr[w].run].over
                             /\ Ended(p, p', p.wr[w].run, "stop")
    BY <2>3 DEF Stopped
  <2>5. p.wr[u].phase = "open"
    BY <2>4 DEF Ended, Kept
  <2>6. u = w
    BY <2>1, <2>4, <2>5 DEF Shape, OpenOne
  <2> QED
    BY <2>4, <2>6
<1> QED
  BY <1>1, AlwaysOneRun, PTL DEF Spec, StopMeansEnded

\* The proxy implements CursorTurn: every callback, whatever it calls, starts,
\* resumes, pauses, finishes or loses one turn as a whole, or changes none.
THEOREM KeepsTurns == ASSUME CursorStreamAssumption PROVE Spec => OneTurn
<1>1. Init => Turn!Init
  BY DEF Init, NoActive, Turn!Init, Turn!Request, Request
<1>2. IInv /\ [Next]_vars => OneTurnStep
  <2> SUFFICES ASSUME IInv, [Next]_vars PROVE OneTurnStep
    OBVIOUS
  <2>1. Shape(p)
    BY DEF IInv
  <2>2. CASE UNCHANGED vars
    BY <2>2 DEF vars, OneTurnStep, Turn!tvars
  <2>3. CASE Next
    <3>1. Requested \/ Unstopped \/ Stopped
      BY <2>3, Kinds
    <3>2. CASE Requested
      BY <2>1, <3>2, SentTurns DEF Requested
    <3>3. CASE Unstopped \/ Stopped
      BY <2>1, <3>3, MovedTurns DEF Moved, Unstopped, Stopped, Stops
    <3> QED
      BY <3>1, <3>2, <3>3
  <2> QED
    BY <2>2, <2>3
<1> QED
  BY <1>1, <1>2, AlwaysOneRun, PTL DEF Spec, OneTurn, OneTurnStep, Turn!Spec
=============================================================================
