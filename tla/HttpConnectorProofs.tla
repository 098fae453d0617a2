------------------------ MODULE HttpConnectorProofs ------------------------
(***************************************************************************)
(* Proofs about HttpConnector, for any requests, channels and pool size: a *)
(* request is told once, nothing deleted is reached, and no callback       *)
(* outlives ~HttpConnector.                                                *)
(*                                                                         *)
(* The invariant is stated over views of the state, one per field, which   *)
(* the provers need not expand: each action has a lemma that says what it  *)
(* does to the views, and one that derives the invariant from that.        *)
(***************************************************************************)
EXTENDS HttpConnector, TLAPS

Has(q, x) == \E i \in DOMAIN q : q[i] = x

Pc(r) == req[r].pc
Bo(r) == req[r].borrowed
Re(r) == req[r].result
To(r) == req[r].told

Wh(r) == conn[r].where
Ch(r) == conn[r].chan
Dl(r) == conn[r].delivered
Ha(r) == conn[r].handler

Pl(p) == pool[p].chan
He(p) == pool[p].held
Pe(p) == pool[p].pending
Li(p) == pool[p].life

Ph(c) == chan[c].phase
Hd(c) == chan[c].handler
At(c) == chan[c].step.at
Sr(c) == chan[c].step.r
Quiet(c) == chan[c].tasks = <<>>
Adopts(c, r) == Has(chan[c].tasks, r)
SingleIn(q) == \A i, j \in DOMAIN q : q[i] \in Requests /\ q[i] = q[j] => i = j
Once(c) == SingleIn(chan[c].tasks)

Distinct(q) == \A i, j \in DOMAIN q : q[i] = q[j] => i = j
InIdle(p) == Has(st.idle, p)
IdleOnce == Distinct(st.idle)

Queued(k, x) == Has(posted, [kind |-> k, of |-> x])
QueuedOnce == \A i, j \in DOMAIN posted : posted[i].of = posted[j].of => i = j

(* The request has been handed to a channel: Request will return success.  *)
Started(r) == Pc(r) \in {"release", "check"} \/ (Pc(r) = "returned" /\ Re(r) = "accepted")

(* A request and its connection, seen from the thread in Request.          *)
RequestsGood ==
  \A r \in Requests :
    /\ To(r) = 0 \/ (To(r) = 1 /\ Started(r) /\ Dl(r))
    /\ Re(r) # "none" => Pc(r) = "returned"
    /\ ~Started(r) /\ Pc(r) \notin {"inserted", "disown", "failed"}
         => Wh(r) = "none" /\ Ch(r) = NULL
    /\ Pc(r) \in {"inserted", "disown", "failed"} => Wh(r) = "conns"
    /\ Bo(r) # NULL => Pc(r) \in {"taken", "inserted", "release", "disown", "reclose"}
    /\ Pc(r) \in {"release", "disown", "reclose"} => Bo(r) # NULL
    /\ Pc(r) = "failed" \/ (Pc(r) = "inserted" /\ Bo(r) = NULL)
         => Ch(r) # NULL /\ Ph(Ch(r)) = "new"
    /\ Pc(r) \in {"inserted", "disown"} /\ Bo(r) # NULL => Ch(r) = Pl(Bo(r))

(* The channel of a connection exists and has one connection.              *)
ChannelsOwned ==
  /\ \A r \in Requests : Ch(r) # NULL => Ph(Ch(r)) \notin {"none", "freed"}
  /\ \A r, s \in Requests : Ch(r) # NULL /\ Ch(r) = Ch(s) => r = s

(* Whom a channel may call.                                                *)
HandlersGood ==
  \A c \in Chans :
    /\ Ph(c) \in {"none", "new", "over", "freed"} => Hd(c) = NULL /\ Quiet(c)
    /\ Ph(c) \in {"opening", "up"} => Hd(c) \in Requests
    /\ Ph(c) = "parked" => Hd(c) \in Pooleds
    /\ Ph(c) = "down" => Hd(c) # NULL
    /\ Hd(c) \in Requests => Ch(Hd(c)) = c /\ Wh(Hd(c)) = "conns" /\ Started(Hd(c))
    /\ Hd(c) \in Pooleds => Pl(Hd(c)) = c /\ Li(Hd(c)) = "live" /\ Pe(Hd(c)) = "none"

(* Adopt tasks: at most one in a channel, which is still the pool's.       *)
TasksGood ==
  \A c \in Chans :
    /\ Once(c)
    /\ Quiet(c) => \A r \in Requests : ~Adopts(c, r)
    /\ \A r \in Requests : Adopts(c, r) =>
         /\ Started(r) /\ Ch(r) = c /\ Wh(r) = "conns"
         /\ Hd(c) \in Pooleds /\ ~InIdle(Hd(c))
         /\ \A s \in Requests : Bo(s) = Hd(c) => s = r

(* What a queue thread is in the middle of.                                *)
Busy(c) == At(c) \notin {"idle", "recheck"}

StepsGood ==
  /\ \A c \in Chans :
       /\ At(c) # "idle" => Sr(c) \in Requests
       /\ Busy(c) => Started(Sr(c)) /\ Wh(Sr(c)) = "conns"
       /\ At(c) = "park" => Ph(c) = "up" /\ Hd(c) = Sr(c)
       /\ At(c) \in {"detach", "discard"} =>
            Ch(Sr(c)) = NULL \/ (Ch(Sr(c)) = c /\ Ph(c) = "over")
       /\ At(c) \in {"reopen", "closing", "giveUp"} =>
            Ch(Sr(c)) # NULL /\ Ph(Ch(Sr(c))) = "new"
       /\ At(c) \in {"reopen", "closing", "giveUp", "recheck"} =>
            Ph(c) \in {"parked", "down"} /\ Hd(c) \in Pooleds
  /\ \A c, d \in Chans : Busy(c) /\ Busy(d) /\ Sr(c) = Sr(d) => c = d

(* The Runtime queue: every object once, and nobody else holds it.         *)
PostedGood ==
  /\ QueuedOnce
  /\ \A r \in Requests : Queued("conn", r) =>
       /\ Wh(r) = "destroying"
       /\ Ch(r) # NULL => Ph(Ch(r)) \in {"over", "new"}
  /\ \A p \in Pooleds : Queued("closed", p) \/ Queued("detached", p) =>
       Li(p) = "live" /\ ~He(p) /\ Hd(Pl(p)) # p
  /\ \A p \in Pooleds : Queued("closed", p) => Ph(Pl(p)) = "over"

PoolGood ==
  \A p \in Pooleds :
    /\ Li(p) = "none" => Pe(p) = "none"
    /\ He(p) => Li(p) = "live"
    /\ Li(p) = "live" => Pl(p) # NULL /\ Ph(Pl(p)) \notin {"none", "new", "opening"}
    /\ He(p) /\ Pe(p) = "closed" => Ph(Pl(p)) = "over"

IdleGood ==
  /\ IdleOnce
  /\ \A p \in Pooleds : InIdle(p) => Li(p) = "live" /\ ~He(p) /\ Hd(Pl(p)) = p

BorrowedGood ==
  \A r \in Requests : Bo(r) # NULL =>
    /\ He(Bo(r))
    /\ \A s \in Requests : Bo(s) = Bo(r) => s = r
    /\ Pc(r) # "release" => Hd(Pl(Bo(r))) = Bo(r) \/ Pe(Bo(r)) = "closed"

(* A pooled channel that is over and waits to be deleted.                  *)
Doomed(p) == (He(p) /\ Pe(p) = "closed") \/ Queued("closed", p)

(* A connection has a channel of the pool only while it takes it over.     *)
SharedGood ==
  /\ \A p, q \in Pooleds : Doomed(p) /\ Doomed(q) /\ Pl(p) = Pl(q) => p = q
  /\ \A r \in Requests, p \in Pooleds :
       Ch(r) # NULL /\ Ch(r) = Pl(p) /\ (Hd(Pl(p)) = p \/ Doomed(p)) =>
         (Bo(r) = p /\ Pc(r) \in {"inserted", "disown"}) \/ Adopts(Ch(r), r)

Core == /\ RequestsGood /\ ChannelsOwned /\ HandlersGood /\ TasksGood /\ StepsGood
        /\ PostedGood /\ PoolGood /\ IdleGood /\ BorrowedGood /\ SharedGood

(* The destructor: when it stops waiting, everybody it knew is cut off,    *)
(* and OnClosed has been told or never will be.                            *)
DtorGood ==
  /\ dtor.pc # "none" => st.closing /\ \A r \in Requests : Pc(r) \in {"idle", "returned"}
  /\ st.handler = ~st.abandoned
  /\ dtor.pc \in {"wait", "done"} /\ AllDrainedLocked(conn, st) => st.notified \/ st.abandoned
  /\ dtor.pc = "abandoned" => st.abandoned
  /\ st.abandoned => dtor.pc # "none" /\ \A r \in Requests : Wh(r) = "conns" => ~Ha(r)
  /\ dtor.pc = "done" =>
       /\ inFlight \subseteq {dtor.on}
       /\ st.abandoned \/ (st.notified /\ \A r \in Requests : Wh(r) # "conns")

IInv == TypeOK /\ Core /\ DtorGood
-----------------------------------------------------------------------------
(* Sequences: tasks, the pool and the Runtime queue.                       *)

LEMMA AppendHas ==
  ASSUME NEW T, NEW q \in Seq(T), NEW e \in T
  PROVE  /\ Append(q, e) \in Seq(T)
         /\ Append(q, e) # <<>>
         /\ \A x : Has(Append(q, e), x) <=> Has(q, x) \/ x = e
<1> DEFINE n == Len(q) + 1
<1>1. /\ Append(q, e) \in Seq(T) /\ DOMAIN Append(q, e) = 1..n /\ DOMAIN q = 1..Len(q)
      /\ Append(q, e)[n] = e /\ \A i \in 1..Len(q) : Append(q, e)[i] = q[i]
      /\ Append(q, e) # <<>> /\ n \in Nat /\ Len(q) \in Nat
  OBVIOUS
<1>2. ASSUME NEW x, Has(Append(q, e), x) PROVE Has(q, x) \/ x = e
  BY <1>1, <1>2 DEF Has
<1>3. ASSUME NEW x, Has(q, x) PROVE Has(Append(q, e), x)
  BY <1>1, <1>3 DEF Has
<1>4. Has(Append(q, e), e)
  BY <1>1 DEF Has
<1> QED  BY <1>1, <1>2, <1>3, <1>4

LEMMA AppendSingle ==
  ASSUME NEW q \in Seq(TaskType), NEW e \in TaskType, SingleIn(q), e \in Requests => ~Has(q, e)
  PROVE  SingleIn(Append(q, e))
<1>1. /\ DOMAIN Append(q, e) = 1..(Len(q) + 1) /\ DOMAIN q = 1..Len(q) /\ Len(q) \in Nat
      /\ Append(q, e)[Len(q) + 1] = e /\ \A i \in 1..Len(q) : Append(q, e)[i] = q[i]
  OBVIOUS
<1> QED  BY <1>1 DEF SingleIn, Has

LEMMA TailFacts ==
  ASSUME NEW T, NEW q \in Seq(T), q # <<>>
  PROVE  /\ Head(q) \in T /\ Tail(q) \in Seq(T) /\ Head(q) = q[1] /\ 1 \in DOMAIN q
         /\ Len(q) \in Nat \ {0} /\ DOMAIN q = 1..Len(q)
         /\ DOMAIN Tail(q) = 1..(Len(q) - 1)
         /\ \A i \in 1..(Len(q) - 1) : Tail(q)[i] = q[i + 1]
         /\ Has(q, Head(q))
         /\ \A x : Has(Tail(q), x) => Has(q, x)
         /\ \A x : Has(q, x) /\ x # Head(q) => Has(Tail(q), x)
<1>1. /\ Head(q) \in T /\ Tail(q) \in Seq(T) /\ Head(q) = q[1] /\ 1 \in DOMAIN q
      /\ Len(q) \in Nat \ {0} /\ DOMAIN q = 1..Len(q)
      /\ DOMAIN Tail(q) = 1..(Len(q) - 1)
      /\ \A i \in 1..(Len(q) - 1) : Tail(q)[i] = q[i + 1]
  OBVIOUS
<1>2. ASSUME NEW x, Has(Tail(q), x) PROVE Has(q, x)
  BY <1>1, <1>2 DEF Has
<1>3. ASSUME NEW x, Has(q, x), x # Head(q) PROVE Has(Tail(q), x)
  <2>1. PICK i \in 1..Len(q) : q[i] = x
    BY <1>1, <1>3 DEF Has
  <2>2. i # 1 /\ i - 1 \in 1..(Len(q) - 1) /\ (i - 1) + 1 = i
    BY <1>1, <1>3, <2>1
  <2> QED  BY <1>1, <2>1, <2>2 DEF Has
<1> QED  BY <1>1, <1>2, <1>3 DEF Has

LEMMA TailSingle ==
  ASSUME NEW q \in Seq(TaskType), q # <<>>, SingleIn(q)
  PROVE  /\ SingleIn(Tail(q))
         /\ Head(q) \in Requests => ~Has(Tail(q), Head(q))
<1> HIDE DEF TaskType
<1>1. SingleIn(Tail(q))
  BY TailFacts DEF SingleIn
<1>2. ASSUME Head(q) \in Requests, Has(Tail(q), Head(q)) PROVE FALSE
  <2>1. PICK i \in 1..(Len(q) - 1) : q[i + 1] = q[1]
    BY TailFacts, <1>2 DEF Has
  <2>2. i + 1 \in DOMAIN q /\ 1 \in DOMAIN q /\ i + 1 # 1 /\ q[1] \in Requests
    BY TailFacts, <1>2
  <2> QED  BY <2>1, <2>2 DEF SingleIn
<1> QED  BY <1>1, <1>2

LEMMA TailDeaths ==
  ASSUME NEW q \in Seq(DeathType), q # <<>>,
         \A i, j \in DOMAIN q : q[i].of = q[j].of => i = j
  PROVE  /\ \A i, j \in DOMAIN Tail(q) : Tail(q)[i].of = Tail(q)[j].of => i = j
         /\ \A d : Has(Tail(q), d) => d.of # Head(q).of
<1> HIDE DEF DeathType
<1>1. \A i, j \in DOMAIN Tail(q) : Tail(q)[i].of = Tail(q)[j].of => i = j
  BY TailFacts
<1>2. ASSUME NEW d, Has(Tail(q), d), d.of = Head(q).of PROVE FALSE
  <2>1. PICK i \in 1..(Len(q) - 1) : q[i + 1] = d
    BY TailFacts, <1>2 DEF Has
  <2>2. i + 1 \in DOMAIN q /\ 1 \in DOMAIN q /\ i + 1 # 1 /\ q[1] = Head(q)
    BY TailFacts
  <2> QED  BY <1>2, <2>1, <2>2
<1> QED  BY <1>1, <1>2

LEMMA AppendDeaths ==
  ASSUME NEW q \in Seq(DeathType), NEW e \in DeathType,
         \A i, j \in DOMAIN q : q[i].of = q[j].of => i = j,
         \A i \in DOMAIN q : q[i].of # e.of
  PROVE  \A i, j \in DOMAIN Append(q, e) : Append(q, e)[i].of = Append(q, e)[j].of => i = j
<1> HIDE DEF DeathType
<1>1. /\ DOMAIN Append(q, e) = 1..(Len(q) + 1) /\ DOMAIN q = 1..Len(q) /\ Len(q) \in Nat
      /\ Append(q, e)[Len(q) + 1] = e /\ \A i \in 1..Len(q) : Append(q, e)[i] = q[i]
  OBVIOUS
<1> QED  BY <1>1

LEMMA WithoutHas ==
  ASSUME NEW q \in Seq(Pooleds), NEW p \in Pooleds, Distinct(q)
  PROVE  /\ Without(q, p) \in Seq(Pooleds) /\ Distinct(Without(q, p))
         /\ \A x : Has(Without(q, p), x) <=> Has(q, x) /\ x # p
<1>1. Len(q) \in Nat /\ DOMAIN q = 1..Len(q) /\ \A i \in 1..Len(q) : q[i] \in Pooleds
  OBVIOUS
<1>2. CASE ~Has(q, p)
  <2>1. Without(q, p) = q
    BY <1>2 DEF Without, Elems, Has
  <2> QED  BY <1>2, <2>1
<1>3. CASE Has(q, p)
  <2>1. PICK m \in 1..Len(q) : q[m] = p
    BY <1>1, <1>3 DEF Has
  <2>2. \A i \in DOMAIN q : q[i] = p => i = m
    BY <1>1, <2>1 DEF Distinct
  <2> DEFINE First(i) == q[i] = p /\ \A j \in 1..(i - 1) : q[j] # p
  <2>3. m \in DOMAIN q /\ First(m)
    <3>1. \A j \in 1..(m - 1) : j \in DOMAIN q /\ j # m
      BY <1>1, <2>1
    <3> QED  BY <1>1, <2>1, <2>2, <3>1
  <2> DEFINE k == CHOOSE i \in DOMAIN q : First(i)
  <2>4. k \in DOMAIN q /\ First(k)
    BY <2>3, Zenon
  <2>5. k = m
    BY <2>2, <2>4
  <2> DEFINE w == [i \in 1..(Len(q) - 1) |-> q[IF i < m THEN i ELSE i + 1]]
  <2>6. Without(q, p) = w
    BY <1>3, <2>5 DEF Without, Elems, Has
  <2>7. Len(q) - 1 \in Nat /\ \A i \in 1..(Len(q) - 1) : (IF i < m THEN i ELSE i + 1) \in 1..Len(q)
    BY <1>1, <2>1
  <2>8. w \in Seq(Pooleds) /\ DOMAIN w = 1..(Len(q) - 1)
    BY <1>1, <2>7
  <2>9. Distinct(w)
    <3>1. SUFFICES ASSUME NEW i \in 1..(Len(q) - 1), NEW j \in 1..(Len(q) - 1), w[i] = w[j] PROVE i = j
      BY <2>8 DEF Distinct
    <3> DEFINE a == IF i < m THEN i ELSE i + 1
               b == IF j < m THEN j ELSE j + 1
    <3>2. a \in DOMAIN q /\ b \in DOMAIN q /\ q[a] = q[b]
      BY <1>1, <2>7, <3>1
    <3>3. a = b
      BY <3>2 DEF Distinct
    <3> QED  BY <1>1, <2>1, <3>3
  <2>10. ASSUME NEW x, Has(w, x) PROVE Has(q, x) /\ x # p
    BY <1>1, <2>1, <2>2, <2>7, <2>10 DEF Has
  <2>11. ASSUME NEW x, Has(q, x), x # p PROVE Has(w, x)
    <3>1. PICK i \in 1..Len(q) : q[i] = x
      BY <1>1, <2>11 DEF Has
    <3>2. i # m
      BY <2>1, <2>11, <3>1
    <3>3. CASE i < m
      BY <1>1, <2>1, <3>1, <3>3 DEF Has
    <3>4. CASE i > m
      <4>1. i - 1 \in 1..(Len(q) - 1) /\ ~(i - 1 < m) /\ (i - 1) + 1 = i
        BY <1>1, <2>1, <3>4
      <4> QED  BY <3>1, <4>1 DEF Has
    <3> QED  BY <1>1, <2>1, <3>2, <3>3, <3>4
  <2> QED  BY <2>6, <2>8, <2>9, <2>10, <2>11
<1> QED  BY <1>2, <1>3
-----------------------------------------------------------------------------
(* Types of the views, and what leaves them alone.                         *)

Phases == {"none", "new", "opening", "up", "parked", "down", "over", "freed"}
Places == {"idle", "park", "discard", "detach", "giveUp", "closing", "reopen", "recheck"}
Pcs == {"idle", "taken", "inserted", "release", "disown", "reclose", "reinsert",
        "failed", "aborted", "check", "returned"}

Views ==
  /\ \A r \in Requests :
       /\ Pc(r) \in Pcs /\ Bo(r) \in Pooleds \cup {NULL} /\ To(r) \in Nat
       /\ Re(r) \in {"none", "accepted", "refused"}
       /\ Wh(r) \in {"none", "conns", "destroying"} /\ Ch(r) \in Chans \cup {NULL}
       /\ Dl(r) \in BOOLEAN /\ Ha(r) \in BOOLEAN
  /\ \A p \in Pooleds :
       /\ Pl(p) \in Chans \cup {NULL} /\ He(p) \in BOOLEAN
       /\ Pe(p) \in {"none", "closed", "detached"} /\ Li(p) \in {"none", "live", "dead"}
  /\ \A c \in Chans :
       /\ Ph(c) \in Phases /\ Hd(c) \in Requests \cup Pooleds \cup {NULL}
       /\ At(c) \in Places /\ Sr(c) \in Requests \cup {NULL}

LEMMA TypedViews == TypeOK => Views
BY DEF TypeOK, RequestType, ConnType, PooledType, ChanType, Views, Phases, Places, Pcs,
       Pc, Bo, To, Re, Wh, Ch, Dl, Ha, Pl, He, Pe, Li, Ph, Hd, At, Sr

LEMMA TypedViewsNext == TypeOK' => Views'
BY DEF TypeOK, RequestType, ConnType, PooledType, ChanType, Views, Phases, Places, Pcs,
       Pc, Bo, To, Re, Wh, Ch, Dl, Ha, Pl, He, Pe, Li, Ph, Hd, At, Sr

SameReq(r) == Pc(r)' = Pc(r) /\ Bo(r)' = Bo(r) /\ Re(r)' = Re(r) /\ To(r)' = To(r)
SameConn(r) == Wh(r)' = Wh(r) /\ Ch(r)' = Ch(r) /\ (Dl(r)' <=> Dl(r))
SamePool(p) == Pl(p)' = Pl(p) /\ (He(p)' <=> He(p)) /\ Pe(p)' = Pe(p) /\ Li(p)' = Li(p)

(* But for a "close" task.                                                 *)
SameTasks(c) ==
  /\ \A r \in Requests : Adopts(c, r)' <=> Adopts(c, r)
  /\ Once(c) => Once(c)'
  /\ Quiet(c)' => Quiet(c)
  /\ Quiet(c) => Quiet(c)' \/ Ph(c) \in {"opening", "up", "parked"}

SameChan(c) ==
  /\ Ph(c)' = Ph(c) /\ Hd(c)' = Hd(c) /\ At(c)' = At(c) /\ Sr(c)' = Sr(c)
  /\ SameTasks(c)

SameIdle == (\A p \in Pooleds : InIdle(p)' <=> InIdle(p)) /\ (IdleOnce => IdleOnce')
SamePosted == (\A k, x : Queued(k, x)' <=> Queued(k, x)) /\ (QueuedOnce => QueuedOnce')

LEMMA UnchangedViews ==
  /\ req' = req => \A r \in Requests : SameReq(r)
  /\ conn' = conn => \A r \in Requests : SameConn(r)
  /\ pool' = pool => \A p \in Pooleds : SamePool(p)
  /\ chan' = chan => \A c \in Chans : SameChan(c)
  /\ st'.idle = st.idle => SameIdle
  /\ posted' = posted => SamePosted
<1>1. req' = req => \A r \in Requests : SameReq(r)
  BY DEF SameReq, Pc, Bo, Re, To
<1>2. conn' = conn => \A r \in Requests : SameConn(r)
  BY DEF SameConn, Wh, Ch, Dl, Ha
<1>3. pool' = pool => \A p \in Pooleds : SamePool(p)
  BY DEF SamePool, Pl, He, Pe, Li
<1>4. chan' = chan => \A c \in Chans : SameChan(c)
  BY DEF SameChan, SameTasks, Ph, Hd, At, Sr, Adopts, Once, Quiet
<1>5. st'.idle = st.idle => SameIdle
  BY DEF SameIdle, InIdle, IdleOnce
<1>6. posted' = posted => SamePosted
  BY DEF SamePosted, Queued, QueuedOnce
<1> QED  BY <1>1, <1>2, <1>3, <1>4, <1>5, <1>6

LEMMA CoreStutters ==
  ASSUME Core, Views, \A r \in Requests : SameReq(r) /\ SameConn(r), \A p \in Pooleds : SamePool(p),
         \A c \in Chans : SameChan(c), SameIdle, SamePosted
  PROVE  Core'
<1>1. \A r \in Requests : Started(r)' <=> Started(r)
  BY DEF Started, SameReq
<1>2. \A c \in Chans : Busy(c)' <=> Busy(c)
  BY DEF Busy, SameChan
<1>3. \A p \in Pooleds : Doomed(p)' <=> Doomed(p)
  BY DEF Doomed, SamePool, SamePosted
<1>4. RequestsGood'
  BY <1>1 DEF Core, Views, RequestsGood, SameReq, SameConn, SameChan, SamePool
<1>5. ChannelsOwned'
  BY DEF Core, Views, ChannelsOwned, SameConn, SameChan
<1>6. HandlersGood'
  BY <1>1 DEF Core, Views, HandlersGood, SameConn, SameChan, SameTasks, SamePool
<1>7. TasksGood'
  BY <1>1 DEF Core, Views, TasksGood, SameReq, SameConn, SameChan, SameTasks, SameIdle
<1>8. StepsGood'
  BY <1>1, <1>2 DEF Core, Views, StepsGood, Busy, SameConn, SameChan
<1>9. PostedGood'
  BY DEF Core, Views, PostedGood, PoolGood, SamePosted, SameConn, SameChan, SamePool
<1>10. PoolGood'
  BY DEF Core, Views, PoolGood, SameChan, SamePool
<1>11. IdleGood'
  BY DEF Core, Views, IdleGood, PoolGood, SameIdle, SameChan, SamePool
<1>12. BorrowedGood'
  BY DEF Core, Views, BorrowedGood, PoolGood, SameReq, SameChan, SamePool
<1>13. SharedGood'
  BY <1>3 DEF Core, Views, SharedGood, SameReq, SameConn, SameChan, SameTasks, SamePool
<1> QED  BY <1>4, <1>5, <1>6, <1>7, <1>8, <1>9, <1>10, <1>11, <1>12, <1>13 DEF Core
-----------------------------------------------------------------------------
(* TcpChannel::Close adds at most a "close" task.                          *)

Closed(k, d) ==
  /\ d.phase = k.phase /\ d.handler = k.handler /\ d.step = k.step
  /\ \/ d.tasks = k.tasks
     \/ k.phase \in {"opening", "up", "parked"} /\ d.tasks = Append(k.tasks, "close")

(* The channel c is k in the next state, but for that.                     *)
BecomesChan(c, k) ==
  /\ Ph(c)' = k.phase /\ Hd(c)' = k.handler /\ At(c)' = k.step.at /\ Sr(c)' = k.step.r
  /\ \A r \in Requests : Adopts(c, r)' <=> Has(k.tasks, r)
  /\ SingleIn(k.tasks) => Once(c)'
  /\ Quiet(c)' => k.tasks = <<>>
  /\ k.tasks = <<>> => Quiet(c)' \/ k.phase \in {"opening", "up", "parked"}

LEMMA CloseAllClosed ==
  ASSUME NEW ch \in [Chans -> ChanType], NEW S
  PROVE  /\ CloseAll(ch, S) \in [Chans -> ChanType]
         /\ \A x \in Chans : Closed(ch[x], CloseAll(ch, S)[x])
<1> DEFINE d == CloseAll(ch, S)
<1>1. ASSUME NEW x \in Chans PROVE d[x] \in ChanType /\ Closed(ch[x], d[x])
  <2> DEFINE k == [ch[x] EXCEPT !.tasks = Append(@, "close")]
  <2>1. d[x] = ch[x] \/ (ch[x].phase \in {"opening", "up", "parked"} /\ d[x] = k)
    BY DEF CloseAll
  <2>2. ch[x] \in ChanType /\ Append(ch[x].tasks, "close") \in Seq(TaskType)
    BY DEF ChanType, TaskType
  <2>3. /\ k.phase = ch[x].phase /\ k.handler = ch[x].handler /\ k.step = ch[x].step
        /\ k.tasks = Append(ch[x].tasks, "close")
    BY <2>2 DEF ChanType
  <2>4. k \in ChanType
    BY <2>2, Zenon DEF ChanType
  <2>5. d[x] \in ChanType
    BY <2>1, <2>2, <2>4
  <2>6. CASE d[x] = ch[x]
    BY <2>5, <2>6 DEF Closed
  <2>7. CASE ch[x].phase \in {"opening", "up", "parked"} /\ d[x] = k
    <3> HIDE DEF k, d
    <3> QED  BY <2>3, <2>5, <2>7 DEF Closed
  <2> QED  BY <2>1, <2>5, <2>6, <2>7
<1>2. d = [x \in Chans |-> d[x]]
  BY DEF CloseAll
<1> QED  BY <1>1, <1>2

LEMMA ClosedViews ==
  ASSUME NEW c \in Chans, NEW k \in ChanType, Closed(k, chan'[c])
  PROVE  BecomesChan(c, k)
<1>1. k.tasks \in Seq(TaskType) /\ "close" \in TaskType /\ "close" \notin Requests
  BY ConnectorAssumption DEF ChanType, TaskType
<1>2. /\ Ph(c)' = k.phase /\ Hd(c)' = k.handler /\ At(c)' = k.step.at /\ Sr(c)' = k.step.r
  BY DEF Closed, Ph, Hd, At, Sr
<1>3. CASE chan'[c].tasks = k.tasks
  BY <1>2, <1>3 DEF BecomesChan, Adopts, Once, Quiet
<1>4. CASE k.phase \in {"opening", "up", "parked"} /\ chan'[c].tasks = Append(k.tasks, "close")
  <2>1. /\ Append(k.tasks, "close") # <<>>
        /\ \A x : Has(Append(k.tasks, "close"), x) <=> Has(k.tasks, x) \/ x = "close"
    BY <1>1, AppendHas
  <2>2. SingleIn(k.tasks) => SingleIn(Append(k.tasks, "close"))
    BY <1>1, AppendSingle
  <2> QED  BY <1>1, <1>2, <1>4, <2>1, <2>2 DEF BecomesChan, Adopts, Once, Quiet
<1> QED  BY <1>3, <1>4 DEF Closed

LEMMA SameByClosing ==
  ASSUME TypeOK, NEW c \in Chans, Closed(chan[c], chan'[c])
  PROVE  SameChan(c)
<1>1. chan[c] \in ChanType
  BY DEF TypeOK
<1>2. BecomesChan(c, chan[c])
  BY <1>1, ClosedViews
<1> QED  BY <1>2 DEF BecomesChan, SameChan, SameTasks, Ph, Hd, At, Sr, Adopts, Once, Quiet

(* One channel changes, and some are closed.                               *)
LEMMA ChanChanges ==
  ASSUME TypeOK, NEW c \in Chans, NEW k \in ChanType, NEW ch, ch = [chan EXCEPT ![c] = k],
         \/ chan' = ch
         \/ \E S : chan' = CloseAll(ch, S)
  PROVE  /\ chan' \in [Chans -> ChanType]
         /\ BecomesChan(c, k)
         /\ \A x \in Chans \ {c} : SameChan(x)
<1>1. ch \in [Chans -> ChanType] /\ ch[c] = k /\ \A x \in Chans \ {c} : ch[x] = chan[x]
  BY DEF TypeOK
<1>2. chan' \in [Chans -> ChanType] /\ \A x \in Chans : Closed(ch[x], chan'[x])
  <2>1. CASE chan' = ch
    BY <1>1, <2>1 DEF Closed
  <2>2. CASE \E S : chan' = CloseAll(ch, S)
    BY <1>1, <2>2, CloseAllClosed
  <2> QED  BY <2>1, <2>2
<1>3. BecomesChan(c, k)
  BY <1>1, <1>2, ClosedViews
<1>4. \A x \in Chans \ {c} : SameChan(x)
  BY <1>1, <1>2, SameByClosing
<1> QED  BY <1>2, <1>3, <1>4

LEMMA ClosingKeeps ==
  ASSUME TypeOK, \E S : chan' = CloseAll(chan, S)
  PROVE  chan' \in [Chans -> ChanType] /\ \A x \in Chans : SameChan(x)
BY CloseAllClosed, SameByClosing DEF TypeOK
-----------------------------------------------------------------------------
(* The destructor and OnClosed.                                            *)

LEMMA DtorIdle ==
  ASSUME DtorGood, dtor.pc = "none", dtor' = dtor,
         st'.handler = st.handler, st'.abandoned = st.abandoned
  PROVE  DtorGood'
BY DEF DtorGood

(* What everyone else may do while the destructor runs.                    *)
LEMMA DtorKeeps ==
  ASSUME DtorGood, dtor' = dtor, st'.closing = st.closing, st'.handler = st.handler,
         st'.abandoned = st.abandoned, st.notified => st'.notified,
         \A r \in Requests : Pc(r)' = Pc(r),
         \A r \in Requests : Wh(r)' = "conns" => Wh(r) = "conns" /\ (Ha(r)' => Ha(r)),
         AllDrainedLocked(conn', st') => AllDrainedLocked(conn, st) \/ st'.notified \/ st.abandoned,
         dtor.pc = "done" => inFlight' \subseteq inFlight
  PROVE  DtorGood'
BY DEF DtorGood

LEMMA NotifyKeeps ==
  ASSUME NEW t \in Threads, NEW cn, NEW s \in StateType, inFlight \subseteq Threads,
         NotifyIfDrained(t, cn, s)
  PROVE  /\ st' \in StateType /\ inFlight' \subseteq Threads
         /\ st'.idle = s.idle /\ st'.idleDestroying = s.idleDestroying
         /\ st'.closing = s.closing /\ st'.handler = s.handler /\ st'.abandoned = s.abandoned
         /\ s.notified => st'.notified
         /\ ~s.abandoned /\ s.closing /\ s.handler /\ AllDrainedLocked(cn, st') => st'.notified
         /\ s.notified \/ s.abandoned => inFlight' = inFlight
<1> DEFINE now == /\ ~s.abandoned /\ s.closing /\ ~s.notified
                  /\ AllDrainedLocked(cn, s) /\ s.handler
<1>1. CASE ~now
  <2>1. st' = s /\ inFlight' = inFlight
    BY <1>1 DEF NotifyIfDrained
  <2> QED  BY <1>1, <2>1
<1>2. CASE now
  <2>0. st' = [s EXCEPT !.notified = TRUE] /\ inFlight' = inFlight \cup {t}
    BY <1>2 DEF NotifyIfDrained
  <2>1. st' \in StateType
    BY <2>0, Zenon DEF StateType
  <2>2. /\ st'.idle = s.idle /\ st'.idleDestroying = s.idleDestroying
        /\ st'.closing = s.closing /\ st'.handler = s.handler /\ st'.abandoned = s.abandoned
        /\ st'.notified
    BY <2>0 DEF StateType
  <2> QED  BY <1>2, <2>0, <2>1, <2>2
<1> QED  BY <1>1, <1>2

(* Steps that touch no channel, connection or request.                     *)
LEMMA CoreKept ==
  ASSUME IInv, req' = req, conn' = conn, pool' = pool, posted' = posted, st'.idle = st.idle,
         \A c \in Chans : SameChan(c)
  PROVE  Core'
BY UnchangedViews, CoreStutters, TypedViews DEF IInv

LEMMA StrayDataKeeps ==
  ASSUME IInv, NEW c \in Chans, StrayData(c)
  PROVE  IInv'
<1> DEFINE k == [chan[c] EXCEPT !.spoiled = TRUE]
<1>1. TypeOK /\ chan[c] \in ChanType
  BY DEF IInv, TypeOK
<1>2. k \in ChanType
  BY <1>1, Zenon DEF ChanType
<1>3. chan' = [chan EXCEPT ![c] = k]
  BY DEF StrayData
<1>4. chan' \in [Chans -> ChanType] /\ \A x \in Chans : Closed(chan[x], chan'[x])
  BY <1>1, <1>2, <1>3 DEF TypeOK, Closed, ChanType
<1>5. \A x \in Chans : SameChan(x)
  BY <1>1, <1>4, SameByClosing
<1>6. Core'
  BY <1>5, CoreKept DEF StrayData
<1>7. DtorGood'
  BY UnchangedViews, DtorKeeps DEF IInv, StrayData, SameReq, Wh, Ha
<1> QED  BY <1>1, <1>4, <1>6, <1>7 DEF IInv, TypeOK, StrayData

LEMMA CallbackReturnsKeeps ==
  ASSUME IInv, NEW t \in Threads, CallbackReturns(t)
  PROVE  IInv'
<1>1. Core'
  BY CoreKept, UnchangedViews DEF CallbackReturns
<1>2. DtorGood'
  BY UnchangedViews, DtorKeeps DEF IInv, CallbackReturns, SameReq, Wh, Ha
<1> QED  BY <1>1, <1>2 DEF IInv, TypeOK, CallbackReturns

LEMMA CloseLockedKeeps ==
  ASSUME IInv, CloseLocked, req' = req, conn' = conn, pool' = pool, posted' = posted
  PROVE  /\ Core' /\ chan' \in [Chans -> ChanType] /\ st' \in StateType
         /\ st'.closing /\ st'.handler = st.handler /\ st'.abandoned = st.abandoned
<1>1. TypeOK /\ st \in StateType
  BY DEF IInv, TypeOK
<1>2. chan' \in [Chans -> ChanType] /\ \A x \in Chans : SameChan(x)
  BY <1>1, ClosingKeeps DEF CloseLocked
<1>3. st' \in StateType
  BY <1>1, Zenon DEF CloseLocked, StateType
<1>4. /\ st'.closing /\ st'.handler = st.handler /\ st'.abandoned = st.abandoned
      /\ st'.idle = st.idle
  BY <1>1 DEF CloseLocked, StateType
<1> QED  BY <1>2, <1>3, <1>4, CoreKept

LEMMA UserCloseKeeps ==
  ASSUME IInv, UserClose
  PROVE  IInv'
<1>1. /\ Core' /\ chan' \in [Chans -> ChanType] /\ st' \in StateType
      /\ st'.closing /\ st'.handler = st.handler /\ st'.abandoned = st.abandoned
  BY CloseLockedKeeps DEF UserClose
<1>2. DtorGood'
  BY <1>1, DtorIdle DEF IInv, UserClose
<1> QED  BY <1>1, <1>2 DEF IInv, TypeOK, UserClose

LEMMA UserNotifyKeeps ==
  ASSUME IInv, UserNotify
  PROVE  IInv'
<1>1. st \in StateType /\ "user" \in Threads /\ inFlight \subseteq Threads
  BY DEF IInv, TypeOK, Threads
<1>2. NotifyIfDrained("user", conn, st)
  BY DEF UserNotify
<1>3. /\ st' \in StateType /\ inFlight' \subseteq Threads
      /\ st'.idle = st.idle /\ st'.idleDestroying = st.idleDestroying
      /\ st'.closing = st.closing /\ st'.handler = st.handler /\ st'.abandoned = st.abandoned
      /\ st.notified => st'.notified
      /\ st.notified \/ st.abandoned => inFlight' = inFlight
  BY <1>1, <1>2, NotifyKeeps
<1>4. Core'
  BY <1>3, CoreKept, UnchangedViews DEF UserNotify
<1>5. AllDrainedLocked(conn', st') => AllDrainedLocked(conn, st)
  BY <1>3 DEF AllDrainedLocked, UserNotify
<1>6. dtor.pc = "done" => inFlight' \subseteq inFlight
  BY <1>3 DEF IInv, DtorGood
<1>7. DtorGood'
  BY <1>3, <1>5, <1>6, UnchangedViews, DtorKeeps DEF IInv, UserNotify, SameReq, Wh, Ha
<1> QED  BY <1>3, <1>4, <1>7 DEF IInv, TypeOK, UserNotify

LEMMA DtorBeginKeeps ==
  ASSUME IInv, NEW on \in Threads \cup {NULL}, DtorBegin(on)
  PROVE  IInv'
<1>1. /\ Core' /\ chan' \in [Chans -> ChanType] /\ st' \in StateType
      /\ st'.closing /\ st'.handler = st.handler /\ st'.abandoned = st.abandoned
  BY CloseLockedKeeps DEF DtorBegin
<1>2. dtor' = [pc |-> "notify", on |-> on] /\ dtor'.pc = "notify"
  BY DEF DtorBegin
<1>3. \A r \in Requests : Pc(r)' \in {"idle", "returned"}
  BY DEF DtorBegin, Pc
<1>4. dtor.pc = "none" /\ ~st.abandoned
  BY DEF IInv, DtorGood, DtorBegin
<1>5. DtorGood'
  BY <1>1, <1>2, <1>3, <1>4 DEF IInv, DtorGood
<1> QED  BY <1>1, <1>2, <1>5 DEF IInv, TypeOK, DtorBegin

LEMMA DtorMoves ==
  ASSUME IInv, NEW v \in {"wait", "done", "abandoned"}, dtor' = [dtor EXCEPT !.pc = v]
  PROVE  /\ dtor' \in [pc : {"none", "notify", "wait", "abandoned", "done"},
                       on : Threads \cup {NULL}]
         /\ dtor'.pc = v /\ dtor'.on = dtor.on
BY DEF IInv, TypeOK

LEMMA DtorNotifyKeeps ==
  ASSUME IInv, DtorNotify
  PROVE  IInv'
<1>1. st \in StateType /\ "dtor" \in Threads /\ inFlight \subseteq Threads
  BY DEF IInv, TypeOK, Threads
<1>2. NotifyIfDrained("dtor", conn, st)
  BY DEF DtorNotify
<1>3. /\ st' \in StateType /\ inFlight' \subseteq Threads
      /\ st'.idle = st.idle
      /\ st'.closing = st.closing /\ st'.handler = st.handler /\ st'.abandoned = st.abandoned
      /\ st.notified => st'.notified
      /\ ~st.abandoned /\ st.closing /\ st.handler /\ AllDrainedLocked(conn, st') => st'.notified
  BY <1>1, <1>2, NotifyKeeps
<1>4. Core'
  BY <1>3, CoreKept, UnchangedViews DEF DtorNotify
<1>5. /\ dtor' \in [pc : {"none", "notify", "wait", "abandoned", "done"}, on : Threads \cup {NULL}]
      /\ dtor'.pc = "wait" /\ dtor'.on = dtor.on /\ dtor.pc = "notify"
  BY DtorMoves DEF DtorNotify
<1>6. \A r \in Requests : Pc(r)' = Pc(r) /\ Wh(r)' = Wh(r) /\ (Ha(r)' <=> Ha(r))
  BY DEF DtorNotify, Pc, Wh, Ha
<1>7. conn' = conn
  BY DEF DtorNotify
<1>8. DtorGood'
  BY <1>3, <1>5, <1>6, <1>7 DEF IInv, DtorGood
<1> QED  BY <1>3, <1>4, <1>5, <1>8 DEF IInv, TypeOK, DtorNotify

LEMMA DtorDrainedKeeps ==
  ASSUME IInv, DtorDrained
  PROVE  IInv'
<1>1. Core'
  BY CoreKept, UnchangedViews DEF DtorDrained
<1>2. /\ dtor' \in [pc : {"none", "notify", "wait", "abandoned", "done"}, on : Threads \cup {NULL}]
      /\ dtor'.pc = "done" /\ dtor'.on = dtor.on /\ dtor.pc = "wait"
  BY DtorMoves DEF DtorDrained
<1>3. \A r \in Requests : Pc(r)' = Pc(r) /\ Wh(r)' = Wh(r) /\ (Ha(r)' <=> Ha(r))
  BY DEF DtorDrained, Pc, Wh, Ha
<1>4. \A r \in Requests : Wh(r) # "conns"
  BY DEF DtorDrained, AllDrainedLocked, Wh
<1>5. st' = st /\ conn' = conn /\ AllDrainedLocked(conn, st) /\ inFlight' \subseteq {dtor.on}
  BY DEF DtorDrained, NobodyElseInCallback
<1>6. DtorGood'
  BY <1>2, <1>3, <1>4, <1>5 DEF IInv, DtorGood
<1> QED  BY <1>1, <1>2, <1>6 DEF IInv, TypeOK, DtorDrained

LEMMA DtorAbandonedKeeps ==
  ASSUME IInv, DtorAbandoned
  PROVE  IInv'
<1>1. Core'
  BY CoreKept, UnchangedViews DEF DtorAbandoned
<1>2. /\ dtor' \in [pc : {"none", "notify", "wait", "abandoned", "done"}, on : Threads \cup {NULL}]
      /\ dtor'.pc = "done" /\ dtor'.on = dtor.on /\ dtor.pc = "abandoned"
  BY DtorMoves DEF DtorAbandoned
<1>3. \A r \in Requests : Pc(r)' = Pc(r) /\ Wh(r)' = Wh(r) /\ (Ha(r)' <=> Ha(r))
  BY DEF DtorAbandoned, Pc, Wh, Ha
<1>4. st' = st /\ inFlight' \subseteq {dtor.on}
  BY DEF DtorAbandoned, NobodyElseInCallback
<1>5. DtorGood'
  BY <1>2, <1>3, <1>4 DEF IInv, DtorGood
<1> QED  BY <1>1, <1>2, <1>5 DEF IInv, TypeOK, DtorAbandoned

LEMMA DtorAbandonKeeps ==
  ASSUME IInv, DtorAbandon
  PROVE  IInv'
<1>0. st \in StateType /\ conn \in [Requests -> ConnType]
  BY DEF IInv, TypeOK
<1>1. st' \in StateType
  BY <1>0, Zenon DEF DtorAbandon, StateType
<1>2. st'.abandoned = TRUE /\ st'.handler = FALSE /\ st'.closing = st.closing /\ st'.idle = st.idle
  BY <1>0 DEF DtorAbandon, StateType
<1>3. ASSUME NEW r \in Requests
      PROVE  /\ conn'[r] \in ConnType /\ SameConn(r)
             /\ Wh(r)' = "conns" => ~Ha(r)'
  <2> DEFINE k == [conn[r] EXCEPT !.handler = FALSE]
  <2>1. conn'[r] = IF conn[r].where = "conns" THEN k ELSE conn[r]
    BY DEF DtorAbandon
  <2>2. k \in ConnType /\ conn[r] \in ConnType
    BY <1>0, Zenon DEF ConnType
  <2>3. /\ k.where = conn[r].where /\ k.chan = conn[r].chan /\ k.delivered = conn[r].delivered
        /\ k.handler = FALSE
    BY <2>2 DEF ConnType
  <2> HIDE DEF k
  <2> QED  BY <2>1, <2>2, <2>3 DEF SameConn, Wh, Ch, Dl, Ha
<1>4. conn' \in [Requests -> ConnType]
  <2>1. conn' = [r \in Requests |-> conn'[r]]
    BY DEF DtorAbandon
  <2> QED  BY <1>3, <2>1
<1>5. /\ dtor' \in [pc : {"none", "notify", "wait", "abandoned", "done"}, on : Threads \cup {NULL}]
      /\ dtor'.pc = "abandoned" /\ dtor.pc = "wait"
  BY DtorMoves DEF DtorAbandon
<1>6. Core'
  BY <1>2, <1>3, UnchangedViews, CoreStutters, TypedViews DEF IInv, DtorAbandon
<1>7. \A r \in Requests : Pc(r)' = Pc(r)
  BY DEF DtorAbandon, Pc
<1>8. DtorGood'
  BY <1>2, <1>3, <1>5, <1>7 DEF IInv, DtorGood
<1> QED  BY <1>1, <1>4, <1>5, <1>6, <1>8 DEF IInv, TypeOK, DtorAbandon
-----------------------------------------------------------------------------
(* One request, connection or pooled channel changes.                      *)

LEMMA ReqChanges ==
  ASSUME TypeOK, NEW r \in Requests, NEW k \in RequestType, req' = [req EXCEPT ![r] = k]
  PROVE  /\ req' \in [Requests -> RequestType]
         /\ Pc(r)' = k.pc /\ Bo(r)' = k.borrowed /\ Re(r)' = k.result /\ To(r)' = k.told
         /\ \A s \in Requests \ {r} : SameReq(s)
BY DEF TypeOK, Pc, Bo, Re, To, SameReq

LEMMA ConnChanges ==
  ASSUME TypeOK, NEW r \in Requests, NEW k \in ConnType, conn' = [conn EXCEPT ![r] = k]
  PROVE  /\ conn' \in [Requests -> ConnType]
         /\ Wh(r)' = k.where /\ Ch(r)' = k.chan /\ (Dl(r)' <=> k.delivered) /\ (Ha(r)' <=> k.handler)
         /\ \A s \in Requests \ {r} : SameConn(s) /\ (Ha(s)' <=> Ha(s))
BY DEF TypeOK, Wh, Ch, Dl, Ha, SameConn

LEMMA PoolChanges ==
  ASSUME TypeOK, NEW p \in Pooleds, NEW k \in PooledType, pool' = [pool EXCEPT ![p] = k]
  PROVE  /\ pool' \in [Pooleds -> PooledType]
         /\ Pl(p)' = k.chan /\ (He(p)' <=> k.held) /\ Pe(p)' = k.pending /\ Li(p)' = k.life
         /\ \A q \in Pooleds \ {p} : SamePool(q)
BY DEF TypeOK, Pl, He, Pe, Li, SamePool
-----------------------------------------------------------------------------
(* The thread inside Request.                                              *)

(* It moves on, and nothing else does.                                     *)
LEMMA PcMoves ==
  ASSUME IInv, NEW r \in Requests, NEW v \in Pcs, req' = [req EXCEPT ![r].pc = v]
  PROVE  /\ req' \in [Requests -> RequestType]
         /\ Pc(r)' = v /\ Bo(r)' = Bo(r) /\ Re(r)' = Re(r) /\ To(r)' = To(r)
         /\ \A s \in Requests \ {r} : SameReq(s)
<1> DEFINE k == [req[r] EXCEPT !.pc = v]
<1>1. TypeOK /\ req[r] \in RequestType
  BY DEF IInv, TypeOK
<1>2. k \in RequestType
  BY <1>1, Zenon DEF RequestType, Pcs
<1>3. k.pc = v /\ k.borrowed = Bo(r) /\ k.result = Re(r) /\ k.told = To(r)
  BY <1>1 DEF RequestType, Bo, Re, To
<1>4. req' = [req EXCEPT ![r] = k]
  OBVIOUS
<1> HIDE DEF k
<1> QED  BY <1>1, <1>2, <1>3, <1>4, ReqChanges

(* Request returns.                                                        *)
LEMMA PcReturns ==
  ASSUME IInv, NEW r \in Requests, NEW v \in {"accepted", "refused"}, NEW b \in {Bo(r), NULL},
         req' = [req EXCEPT ![r] = [@ EXCEPT !.pc = "returned", !.result = v, !.borrowed = b]]
  PROVE  /\ req' \in [Requests -> RequestType]
         /\ Pc(r)' = "returned" /\ Bo(r)' = b /\ Re(r)' = v /\ To(r)' = To(r)
         /\ \A s \in Requests \ {r} : SameReq(s)
<1> DEFINE k == [req[r] EXCEPT !.pc = "returned", !.result = v, !.borrowed = b]
<1>1. TypeOK /\ req[r] \in RequestType
  BY DEF IInv, TypeOK
<1>2. b \in Pooleds \cup {NULL}
  BY <1>1 DEF RequestType, Bo
<1>3. k \in RequestType
  BY <1>1, <1>2, Zenon DEF RequestType
<1>4. k.pc = "returned" /\ k.borrowed = b /\ k.result = v /\ k.told = To(r)
  BY <1>1 DEF RequestType, To
<1>5. req' = [req EXCEPT ![r] = k]
  OBVIOUS
<1> HIDE DEF k
<1> QED  BY <1>1, <1>3, <1>4, <1>5, ReqChanges

LEMMA RequestReturns ==
  ASSUME IInv, NEW r \in Requests, NEW v \in {"accepted", "refused"},
         req' = [req EXCEPT ![r].pc = "returned", ![r].result = v]
  PROVE  /\ req' \in [Requests -> RequestType]
         /\ Pc(r)' = "returned" /\ Bo(r)' = Bo(r) /\ Re(r)' = v /\ To(r)' = To(r)
         /\ \A s \in Requests \ {r} : SameReq(s)
<1> DEFINE k == [req[r] EXCEPT !.pc = "returned", !.result = v]
<1>1. TypeOK /\ req[r] \in RequestType
  BY DEF IInv, TypeOK
<1>2. k \in RequestType
  BY <1>1, Zenon DEF RequestType
<1>3. k.pc = "returned" /\ k.borrowed = Bo(r) /\ k.result = v /\ k.told = To(r)
  BY <1>1 DEF RequestType, Bo, To
<1>4. req' = [req EXCEPT ![r] = k]
  OBVIOUS
<1> HIDE DEF k
<1> QED  BY <1>1, <1>2, <1>3, <1>4, ReqChanges

(* No request thread is in the middle of something while the destructor    *)
(* runs.                                                                   *)
LEMMA NoDtor ==
  ASSUME IInv, NEW r \in Requests, Pc(r) \notin {"idle", "returned"}, dtor' = dtor,
         st'.handler = st.handler, st'.abandoned = st.abandoned
  PROVE  DtorGood'
BY DtorIdle DEF IInv, DtorGood

LEMMA AbortedKeeps ==
  ASSUME IInv, NEW r \in Requests, Aborted(r)
  PROVE  IInv'
<1>1. /\ req' \in [Requests -> RequestType]
      /\ Pc(r)' = "returned" /\ Bo(r)' = Bo(r) /\ Re(r)' = "refused" /\ To(r)' = To(r)
      /\ \A s \in Requests \ {r} : SameReq(s)
  BY RequestReturns DEF Aborted
<1>2. Pc(r) = "aborted" /\ Core /\ Views
  BY TypedViews DEF Aborted, IInv, Pc
<1>3. /\ \A s \in Requests : SameConn(s)
      /\ \A p \in Pooleds : SamePool(p)
      /\ \A c \in Chans : SameChan(c)
      /\ SameIdle /\ SamePosted
  BY UnchangedViews DEF Aborted
<1>4. \A s \in Requests : Started(s)' <=> Started(s)
  BY <1>1, <1>2 DEF Started, SameReq
<1>5. \A p \in Pooleds : Doomed(p)' <=> Doomed(p)
  BY <1>3 DEF Doomed, SamePool, SamePosted
<1>6. RequestsGood'
  BY <1>1, <1>2, <1>3, <1>4 DEF Core, Views, RequestsGood, SameReq, SameConn, SameChan, SamePool
<1>7. ChannelsOwned'
  BY <1>1, <1>2, <1>3 DEF Core, Views, ChannelsOwned, SameConn, SameChan
<1>8. HandlersGood'
  BY <1>1, <1>2, <1>3, <1>4 DEF Core, Views, HandlersGood, SameConn, SameChan, SameTasks, SamePool
<1>9. TasksGood'
  BY <1>1, <1>2, <1>3, <1>4 DEF Core, Views, TasksGood, SameReq, SameConn, SameChan, SameTasks, SameIdle
<1>10. StepsGood'
  BY <1>1, <1>2, <1>3, <1>4 DEF Core, Views, StepsGood, Busy, SameConn, SameChan
<1>11. PostedGood'
  BY <1>1, <1>2, <1>3 DEF Core, Views, PostedGood, PoolGood, SamePosted, SameConn, SameChan, SamePool
<1>12. PoolGood'
  BY <1>1, <1>2, <1>3 DEF Core, Views, PoolGood, SameChan, SamePool
<1>13. IdleGood'
  BY <1>1, <1>2, <1>3 DEF Core, Views, IdleGood, PoolGood, SameIdle, SameChan, SamePool
<1>14. BorrowedGood'
  BY <1>1, <1>2, <1>3 DEF Core, Views, BorrowedGood, PoolGood, SameReq, SameChan, SamePool, RequestsGood
<1>15. SharedGood'
  BY <1>1, <1>2, <1>3, <1>5 DEF Core, Views, SharedGood, SameReq, SameConn, SameChan, SameTasks, SamePool, RequestsGood
<1>16. Core'
  BY <1>6, <1>7, <1>8, <1>9, <1>10, <1>11, <1>12, <1>13, <1>14, <1>15 DEF Core
<1>17. DtorGood'
  BY <1>2, NoDtor DEF Aborted
<1> QED  BY <1>1, <1>16, <1>17 DEF IInv, TypeOK, Aborted

LEMMA CheckKeeps ==
  ASSUME IInv, NEW r \in Requests, Check(r)
  PROVE  IInv'
<1>1. /\ req' \in [Requests -> RequestType]
      /\ Pc(r)' = "returned" /\ Bo(r)' = Bo(r) /\ Re(r)' = "accepted" /\ To(r)' = To(r)
      /\ \A s \in Requests \ {r} : SameReq(s)
  BY RequestReturns DEF Check
<1>2. Pc(r) = "check" /\ Core /\ Views /\ TypeOK
  BY TypedViews DEF Check, IInv, Pc
<1>3. chan' \in [Chans -> ChanType] /\ \A c \in Chans : SameChan(c)
  <2>1. CASE chan' = chan
    BY <1>2, <2>1, UnchangedViews DEF TypeOK
  <2>2. CASE chan' = Close(chan, conn[r].chan)
    BY <1>2, <2>2, ClosingKeeps DEF Close
  <2> QED  BY <2>1, <2>2 DEF Check
<1>4. /\ \A s \in Requests : SameConn(s)
      /\ \A p \in Pooleds : SamePool(p)
      /\ SameIdle /\ SamePosted
  BY UnchangedViews DEF Check
<1>5. \A s \in Requests : Started(s)' <=> Started(s)
  BY <1>1, <1>2 DEF Started, SameReq
<1>6. \A p \in Pooleds : Doomed(p)' <=> Doomed(p)
  BY <1>4 DEF Doomed, SamePool, SamePosted
<1>7. RequestsGood'
  BY <1>1, <1>2, <1>3, <1>4, <1>5 DEF Core, Views, RequestsGood, SameReq, SameConn, SameChan, SamePool
<1>8. ChannelsOwned'
  BY <1>1, <1>2, <1>3, <1>4 DEF Core, Views, ChannelsOwned, SameConn, SameChan
<1>9. HandlersGood'
  BY <1>1, <1>2, <1>3, <1>4, <1>5 DEF Core, Views, HandlersGood, SameConn, SameChan, SameTasks, SamePool
<1>10. TasksGood'
  BY <1>1, <1>2, <1>3, <1>4, <1>5 DEF Core, Views, TasksGood, SameReq, SameConn, SameChan, SameTasks, SameIdle
<1>11. StepsGood'
  BY <1>1, <1>2, <1>3, <1>4, <1>5 DEF Core, Views, StepsGood, Busy, SameConn, SameChan
<1>12. PostedGood'
  BY <1>1, <1>2, <1>3, <1>4 DEF Core, Views, PostedGood, PoolGood, SamePosted, SameConn, SameChan, SamePool
<1>13. PoolGood'
  BY <1>1, <1>2, <1>3, <1>4 DEF Core, Views, PoolGood, SameChan, SamePool
<1>14. IdleGood'
  BY <1>1, <1>2, <1>3, <1>4 DEF Core, Views, IdleGood, PoolGood, SameIdle, SameChan, SamePool
<1>15. BorrowedGood'
  BY <1>1, <1>2, <1>3, <1>4 DEF Core, Views, BorrowedGood, PoolGood, SameReq, SameChan, SamePool, RequestsGood
<1>16. SharedGood'
  BY <1>1, <1>2, <1>3, <1>4, <1>6 DEF Core, Views, SharedGood, SameReq, SameConn, SameChan, SameTasks, SamePool, RequestsGood
<1>17. Core'
  BY <1>7, <1>8, <1>9, <1>10, <1>11, <1>12, <1>13, <1>14, <1>15, <1>16 DEF Core
<1>18. DtorGood'
  BY <1>2, NoDtor DEF Check
<1> QED  BY <1>1, <1>3, <1>17, <1>18 DEF IInv, TypeOK, Check

LEMMA TakeLast ==
  ASSUME NEW q \in Seq(Pooleds), q # <<>>, Distinct(q)
  PROVE  /\ Len(q) \in DOMAIN q /\ q[Len(q)] \in Pooleds
         /\ SubSeq(q, 1, Len(q) - 1) \in Seq(Pooleds)
         /\ Distinct(SubSeq(q, 1, Len(q) - 1))
         /\ \A x : Has(SubSeq(q, 1, Len(q) - 1), x) <=> Has(q, x) /\ x # q[Len(q)]
<1> DEFINE w == SubSeq(q, 1, Len(q) - 1)
<1>1. /\ Len(q) \in Nat \ {0} /\ DOMAIN q = 1..Len(q) /\ \A i \in 1..Len(q) : q[i] \in Pooleds
      /\ w \in Seq(Pooleds) /\ DOMAIN w = 1..(Len(q) - 1)
      /\ \A i \in 1..(Len(q) - 1) : w[i] = q[i]
  OBVIOUS
<1> HIDE DEF w
<1>2. Distinct(w)
  BY <1>1 DEF Distinct
<1>3. ASSUME NEW x, Has(w, x) PROVE Has(q, x) /\ x # q[Len(q)]
  <2>1. PICK i \in 1..(Len(q) - 1) : q[i] = x
    BY <1>1, <1>3 DEF Has
  <2>2. i \in 1..Len(q) /\ Len(q) \in 1..Len(q) /\ i # Len(q)
    <3>1. Len(q) \in Nat \ {0}
      BY <1>1
    <3> HIDE <1>1
    <3> QED  BY <3>1
  <2> QED  BY <1>1, <2>1, <2>2 DEF Has, Distinct
<1>4. ASSUME NEW x, Has(q, x), x # q[Len(q)] PROVE Has(w, x)
  <2>1. PICK i \in 1..Len(q) : q[i] = x
    BY <1>1, <1>4 DEF Has
  <2>2. i \in 1..(Len(q) - 1)
    BY <1>1, <1>4, <2>1
  <2> QED  BY <1>1, <2>1, <2>2 DEF Has
<1> QED  BY <1>1, <1>2, <1>3, <1>4 DEF w

LEMMA RequestKeeps ==
  ASSUME IInv, NEW r \in Requests, Request(r)
  PROVE  IInv'
<1>1. Pc(r) = "idle" /\ Core /\ Views /\ TypeOK /\ Bo(r) = NULL /\ st \in StateType
  BY TypedViews DEF Request, IInv, TypeOK, Core, RequestsGood, Pc
<1>2. /\ \A s \in Requests : SameConn(s)
      /\ \A c \in Chans : SameChan(c)
      /\ SamePosted
  BY UnchangedViews DEF Request
<1>3. CASE st.idle = <<>>
  <2>1. /\ req' \in [Requests -> RequestType]
        /\ Pc(r)' = "taken" /\ Bo(r)' = Bo(r) /\ Re(r)' = Re(r) /\ To(r)' = To(r)
        /\ \A s \in Requests \ {r} : SameReq(s)
    BY <1>3, PcMoves DEF Request, Pcs
  <2>2. (\A p \in Pooleds : SamePool(p)) /\ SameIdle
    BY <1>3, UnchangedViews DEF Request
  <2>3. \A s \in Requests : Started(s)' <=> Started(s)
    BY <1>1, <2>1 DEF Started, SameReq
  <2>4. \A p \in Pooleds : Doomed(p)' <=> Doomed(p)
    BY <1>2, <2>2 DEF Doomed, SamePool, SamePosted
  <2>5. RequestsGood'
    BY <1>1, <1>2, <2>1, <2>2, <2>3 DEF Core, Views, RequestsGood, SameReq, SameConn, SameChan, SamePool
  <2>6. ChannelsOwned'
    BY <1>1, <1>2, <2>1, <2>2 DEF Core, Views, ChannelsOwned, SameConn, SameChan
  <2>7. HandlersGood'
    BY <1>1, <1>2, <2>1, <2>2, <2>3 DEF Core, Views, HandlersGood, SameConn, SameChan, SameTasks, SamePool
  <2>8. TasksGood'
    BY <1>1, <1>2, <2>1, <2>2, <2>3 DEF Core, Views, TasksGood, SameReq, SameConn, SameChan, SameTasks, SameIdle
  <2>9. StepsGood'
    BY <1>1, <1>2, <2>1, <2>2, <2>3 DEF Core, Views, StepsGood, Busy, SameConn, SameChan
  <2>10. PostedGood'
    BY <1>1, <1>2, <2>1, <2>2 DEF Core, Views, PostedGood, PoolGood, SamePosted, SameConn, SameChan, SamePool
  <2>11. PoolGood'
    BY <1>1, <1>2, <2>1, <2>2 DEF Core, Views, PoolGood, SameChan, SamePool
  <2>12. IdleGood'
    BY <1>1, <1>2, <2>1, <2>2 DEF Core, Views, IdleGood, PoolGood, SameIdle, SameChan, SamePool
  <2>13. BorrowedGood'
    BY <1>1, <1>2, <2>1, <2>2 DEF Core, Views, BorrowedGood, PoolGood, SameReq, SameChan, SamePool
  <2>14. SharedGood'
    BY <1>1, <1>2, <2>1, <2>2, <2>4 DEF Core, Views, SharedGood, SameReq, SameConn, SameChan, SameTasks, SamePool
  <2>15. Core'
    BY <2>5, <2>6, <2>7, <2>8, <2>9, <2>10, <2>11, <2>12, <2>13, <2>14 DEF Core
  <2>16. DtorGood'
    BY <1>3, DtorIdle DEF IInv, Request
  <2> QED  BY <1>3, <2>1, <2>15, <2>16 DEF IInv, TypeOK, Request
<1>4. CASE st.idle # <<>>
  <2> DEFINE w == SubSeq(st.idle, 1, Len(st.idle) - 1)
  <2>0. st.idle \in Seq(Pooleds) /\ Distinct(st.idle)
    BY <1>1 DEF StateType, Core, IdleGood, IdleOnce
  <2>1. PICK p \in Pooleds : p = st.idle[Len(st.idle)]
    BY <1>4, <2>0, TakeLast
  <2> DEFINE k == [req[r] EXCEPT !.pc = "taken", !.borrowed = p]
             d == [pool[p] EXCEPT !.held = TRUE]
  <2>2. /\ w \in Seq(Pooleds) /\ Distinct(w) /\ Has(st.idle, p)
        /\ \A x : Has(w, x) <=> Has(st.idle, x) /\ x # p
    BY <1>4, <2>0, <2>1, TakeLast DEF Has
  <2>3. st' = [st EXCEPT !.idle = w] /\ pool' = [pool EXCEPT ![p] = d] /\ req' = [req EXCEPT ![r] = k]
    BY <1>4, <2>1 DEF Request
  <2> HIDE DEF w
  <2>4. st' \in StateType
    BY <1>1, <2>2, <2>3, Zenon DEF StateType
  <2>5. /\ st'.idle = w /\ st'.handler = st.handler /\ st'.abandoned = st.abandoned
    BY <1>1, <2>3 DEF StateType
  <2>6. InIdle(p) /\ IdleOnce' /\ \A x \in Pooleds : InIdle(x)' <=> InIdle(x) /\ x # p
    BY <2>2, <2>5 DEF InIdle, IdleOnce
  <2>7. pool[p] \in PooledType /\ req[r] \in RequestType
    BY <1>1, <2>2 DEF TypeOK
  <2>8. d \in PooledType /\ k \in RequestType
    BY <2>2, <2>7, Zenon DEF PooledType, RequestType
  <2>9. /\ d.chan = Pl(p) /\ d.held /\ d.pending = Pe(p) /\ d.life = Li(p)
        /\ k.pc = "taken" /\ k.borrowed = p /\ k.result = Re(r) /\ k.told = To(r)
    BY <2>7 DEF PooledType, RequestType, Pl, Pe, Li, Re, To
  <2> HIDE DEF d, k
  <2>10. /\ pool' \in [Pooleds -> PooledType]
         /\ Pl(p)' = Pl(p) /\ He(p)' /\ Pe(p)' = Pe(p) /\ Li(p)' = Li(p)
         /\ \A q \in Pooleds \ {p} : SamePool(q)
    BY <1>1, <2>2, <2>3, <2>8, <2>9, PoolChanges
  <2>11. /\ req' \in [Requests -> RequestType]
         /\ Pc(r)' = "taken" /\ Bo(r)' = p /\ Re(r)' = Re(r) /\ To(r)' = To(r)
         /\ \A s \in Requests \ {r} : SameReq(s)
    BY <1>1, <2>3, <2>8, <2>9, ReqChanges
  <2>12. \A s \in Requests : Started(s)' <=> Started(s)
    BY <1>1, <2>11 DEF Started, SameReq
  <2>13. Li(p) = "live" /\ ~He(p) /\ Hd(Pl(p)) = p /\ Pe(p) = "none" /\ p # NULL /\ Pl(p) \in Chans
    BY <1>1, <2>2, <2>6, ConnectorAssumption DEF Core, Views, IdleGood, HandlersGood, PoolGood
  <2>14. \A q \in Pooleds : Doomed(q)' <=> Doomed(q)
    BY <1>2, <2>10, <2>13 DEF Doomed, SamePool, SamePosted
  <2>15. RequestsGood'
    BY <1>1, <1>2, <2>2, <2>6, <2>10, <2>11, <2>13, <2>12 DEF Core, Views, RequestsGood, SameReq, SameConn, SameChan, SamePool
  <2>16. ChannelsOwned'
    BY <1>1, <1>2, <2>2, <2>6, <2>10, <2>11, <2>13 DEF Core, Views, ChannelsOwned, SameConn, SameChan
  <2>17. HandlersGood'
    BY <1>1, <1>2, <2>2, <2>6, <2>10, <2>11, <2>13, <2>12 DEF Core, Views, HandlersGood, SameConn, SameChan, SameTasks, SamePool
  <2>18. TasksGood'
    BY <1>1, <1>2, <2>2, <2>6, <2>10, <2>11, <2>13, <2>12 DEF Core, Views, TasksGood, SameReq, SameConn, SameChan, SameTasks, SameIdle
  <2>19. StepsGood'
    BY <1>1, <1>2, <2>2, <2>6, <2>10, <2>11, <2>13, <2>12 DEF Core, Views, StepsGood, Busy, SameConn, SameChan
  <2>20. PostedGood'
    BY <1>1, <1>2, <2>2, <2>6, <2>10, <2>11, <2>13 DEF Core, Views, PostedGood, PoolGood, SamePosted, SameConn, SameChan, SamePool
  <2>21. PoolGood'
    BY <1>1, <1>2, <2>2, <2>6, <2>10, <2>11, <2>13 DEF Core, Views, PoolGood, SameChan, SamePool
  <2>22. IdleGood'
    BY <1>1, <1>2, <2>2, <2>6, <2>10, <2>11, <2>13 DEF Core, Views, IdleGood, PoolGood, SameIdle, SameChan, SamePool
  <2>23. BorrowedGood'
    BY <1>1, <1>2, <2>2, <2>6, <2>10, <2>11, <2>13 DEF Core, Views, BorrowedGood, PoolGood, SameReq, SameChan, SamePool
  <2>24. SharedGood'
    BY <1>1, <1>2, <2>2, <2>6, <2>10, <2>11, <2>13, <2>14 DEF Core, Views, SharedGood, SameReq, SameConn, SameChan, SameTasks, SamePool
  <2>25. Core'
    BY <2>15, <2>16, <2>17, <2>18, <2>19, <2>20, <2>21, <2>22, <2>23, <2>24 DEF Core
  <2>26. DtorGood'
    BY <2>5, DtorIdle DEF IInv, Request
  <2> QED  BY <2>4, <2>10, <2>11, <2>25, <2>26 DEF IInv, TypeOK, Request
<1> QED  BY <1>3, <1>4

(* PooledChannel::Release.                                                 *)
LEMMA PostedPooled ==
  ASSUME IInv, NEW p \in Pooleds, ~Queued("closed", p), ~Queued("detached", p)
  PROVE  \A i \in DOMAIN posted : posted[i].of # p
<1> SUFFICES ASSUME NEW i \in DOMAIN posted, posted[i].of = p PROVE FALSE
  OBVIOUS
<1>1. posted[i] \in DeathType
  BY DEF IInv, TypeOK
<1>2. posted[i] \in [kind : {"closed", "detached"}, of : Pooleds]
  BY <1>1, ConnectorAssumption DEF DeathType
<1>3. posted[i] = [kind |-> "closed", of |-> p] \/ posted[i] = [kind |-> "detached", of |-> p]
  BY <1>2
<1> QED  BY <1>3 DEF Queued, Has

(* A pooled channel is posted for deletion.                                *)
LEMMA ScheduleKeeps ==
  ASSUME IInv, NEW p \in Pooleds, NEW how \in {"closed", "detached"},
         ~Queued("closed", p), ~Queued("detached", p), posted' = Schedule(posted, p, how)
  PROVE  /\ posted' \in Seq(DeathType) /\ (QueuedOnce => QueuedOnce')
         /\ \A k, x : Queued(k, x)' <=> Queued(k, x) \/ (k = how /\ x = p)
<1> DEFINE e == [kind |-> how, of |-> p]
<1>1. posted \in Seq(DeathType) /\ e \in DeathType /\ posted' = Append(posted, e)
  BY DEF IInv, TypeOK, DeathType, Schedule
<1>2. /\ posted' \in Seq(DeathType)
      /\ \A x : Has(posted', x) <=> Has(posted, x) \/ x = e
  BY <1>1, AppendHas
<1>3. \A i \in DOMAIN posted : posted[i].of # e.of
  BY PostedPooled
<1>4. QueuedOnce => QueuedOnce'
  BY <1>1, <1>3, AppendDeaths DEF QueuedOnce
<1>5. \A k, x : [kind |-> k, of |-> x] = e <=> k = how /\ x = p
  OBVIOUS
<1> QED  BY <1>2, <1>4, <1>5 DEF Queued

LEMMA ReleaseViews ==
  ASSUME IInv, NEW p \in Pooleds, He(p), Release(p)
  PROVE  /\ pool' \in [Pooleds -> PooledType]
         /\ Pl(p)' = Pl(p) /\ ~He(p)' /\ Pe(p)' = Pe(p) /\ Li(p)' = Li(p)
         /\ \A q \in Pooleds \ {p} : SamePool(q)
         /\ posted' \in Seq(DeathType) /\ QueuedOnce'
         /\ \A k, x : Queued(k, x)' <=> Queued(k, x) \/ (k = Pe(p) /\ x = p /\ Pe(p) # "none")
<1> DEFINE d == [pool[p] EXCEPT !.held = FALSE]
<1>1. TypeOK /\ pool[p] \in PooledType /\ pool' = [pool EXCEPT ![p] = d]
  BY DEF IInv, TypeOK, Release
<1>2. d \in PooledType
  BY <1>1, Zenon DEF PooledType
<1>3. d.chan = Pl(p) /\ ~d.held /\ d.pending = Pe(p) /\ d.life = Li(p)
  BY <1>1 DEF PooledType, Pl, Pe, Li
<1> HIDE DEF d
<1>4. /\ pool' \in [Pooleds -> PooledType]
      /\ Pl(p)' = Pl(p) /\ ~He(p)' /\ Pe(p)' = Pe(p) /\ Li(p)' = Li(p)
      /\ \A q \in Pooleds \ {p} : SamePool(q)
  BY <1>1, <1>2, <1>3, PoolChanges
<1>5. ~Queued("closed", p) /\ ~Queued("detached", p) /\ QueuedOnce
  BY DEF IInv, Core, PostedGood
<1>6. Pe(p) \in {"none", "closed", "detached"} /\ Pe(p) = pool[p].pending
  BY <1>1, TypedViews DEF Views, Pe
<1>7. CASE Pe(p) = "none"
  <2>1. posted' = posted
    BY <1>6, <1>7 DEF Release
  <2> QED  BY <1>1, <1>4, <1>5, <1>7, <2>1 DEF TypeOK, Queued, QueuedOnce
<1>8. CASE Pe(p) # "none"
  <2>1. PICK how \in {"closed", "detached"} : how = Pe(p)
    BY <1>6, <1>8
  <2>2. posted' = Schedule(posted, p, how)
    BY <1>6, <1>8, <2>1 DEF Release
  <2>3. /\ posted' \in Seq(DeathType) /\ (QueuedOnce => QueuedOnce')
        /\ \A k, x : Queued(k, x)' <=> Queued(k, x) \/ (k = how /\ x = p)
    BY <1>5, <2>2, ScheduleKeeps
  <2> QED  BY <1>4, <1>5, <1>8, <2>1, <2>3
<1> QED  BY <1>7, <1>8

(* A request thread lets go of what it borrowed.                           *)
LEMMA ReleaseCore ==
  ASSUME IInv, NEW r \in Requests, NEW p \in Pooleds, Bo(r) = p, Release(p),
         Bo(r)' = NULL, To(r)' = To(r), \A s \in Requests \ {r} : SameReq(s),
         \/ Pc(r) = "release" /\ Pc(r)' = "check" /\ Re(r)' = Re(r)
         \/ Pc(r) = "reclose" /\ Pc(r)' = "reinsert" /\ Re(r)' = Re(r)
         \/ Pc(r) = "taken" /\ Pc(r)' = "returned" /\ Re(r)' = "refused",
         \A s \in Requests : SameConn(s), \A c \in Chans : SameChan(c), SameIdle
  PROVE  Core' /\ pool' \in [Pooleds -> PooledType] /\ posted' \in Seq(DeathType)
<1>1. Core /\ Views /\ TypeOK /\ p # NULL
  BY TypedViews, ConnectorAssumption DEF IInv
<1>2. He(p) /\ Li(p) = "live" /\ Pl(p) \in Chans
  BY <1>1 DEF Core, Views, BorrowedGood, PoolGood
<1>3. /\ pool' \in [Pooleds -> PooledType]
      /\ Pl(p)' = Pl(p) /\ ~He(p)' /\ Pe(p)' = Pe(p) /\ Li(p)' = Li(p)
      /\ \A q \in Pooleds \ {p} : SamePool(q)
      /\ posted' \in Seq(DeathType) /\ QueuedOnce'
      /\ \A k, x : Queued(k, x)' <=> Queued(k, x) \/ (k = Pe(p) /\ x = p /\ Pe(p) # "none")
  BY <1>2, ReleaseViews
<1>4. \A s \in Requests : Started(s)' <=> Started(s)
  BY DEF Started, SameReq
<1>5. \A q \in Pooleds : Doomed(q)' <=> Doomed(q)
  BY <1>2, <1>3 DEF Doomed, SamePool
<1>6. p \notin Requests /\ (Pe(p) # "none" => Hd(Pl(p)) # p)
  BY <1>1, <1>2, ConnectorAssumption DEF Core, HandlersGood
<1>7. RequestsGood'
  BY <1>1, <1>2, <1>3, <1>4 DEF Core, Views, RequestsGood, SameReq, SameConn, SameChan, SamePool
<1>8. ChannelsOwned'
  BY <1>1, <1>2, <1>3 DEF Core, Views, ChannelsOwned, SameConn, SameChan
<1>9. HandlersGood'
  BY <1>1, <1>2, <1>3, <1>4 DEF Core, Views, HandlersGood, SameConn, SameChan, SameTasks, SamePool
<1>10. TasksGood'
  BY <1>1, <1>2, <1>3, <1>4, ConnectorAssumption DEF Core, Views, TasksGood, SameReq, SameConn, SameChan, SameTasks, SameIdle
<1>11. StepsGood'
  BY <1>1, <1>2, <1>3, <1>4 DEF Core, Views, StepsGood, Busy, SameConn, SameChan
<1>12. PostedGood'
  <2>1. \A s \in Requests : Queued("conn", s)' <=> Queued("conn", s)
    BY <1>3, <1>6
  <2>2. \A q \in Pooleds :
          /\ Queued("closed", q)' <=> Queued("closed", q) \/ (q = p /\ Pe(p) = "closed")
          /\ Queued("detached", q)' <=> Queued("detached", q) \/ (q = p /\ Pe(p) = "detached")
    BY <1>3
  <2>3. QueuedOnce'
    BY <1>3
  <2>4. \A s \in Requests : Queued("conn", s)' =>
          /\ Wh(s)' = "destroying"
          /\ Ch(s)' # NULL => Ph(Ch(s))' \in {"over", "new"}
    BY <1>1, <2>1 DEF Core, Views, PostedGood, SameConn, SameChan
  <2>5. \A q \in Pooleds : Queued("closed", q)' \/ Queued("detached", q)' =>
          Li(q)' = "live" /\ ~He(q)' /\ Hd(Pl(q))' # q
    BY <1>1, <1>2, <1>3, <1>6, <2>2 DEF Core, Views, PostedGood, PoolGood, SameChan, SamePool
  <2>6. \A q \in Pooleds : Queued("closed", q)' => Ph(Pl(q))' = "over"
    BY <1>1, <1>2, <1>3, <2>2 DEF Core, Views, PostedGood, PoolGood, SameChan, SamePool
  <2> QED  BY <2>3, <2>4, <2>5, <2>6 DEF PostedGood
<1>13. PoolGood'
  BY <1>1, <1>2, <1>3 DEF Core, Views, PoolGood, SameChan, SamePool
<1>14. IdleGood'
  BY <1>1, <1>2, <1>3 DEF Core, Views, IdleGood, PoolGood, SameIdle, SameChan, SamePool
<1>15. BorrowedGood'
  BY <1>1, <1>2, <1>3 DEF Core, Views, BorrowedGood, PoolGood, SameReq, SameChan, SamePool, RequestsGood
<1>16. SharedGood'
  BY <1>1, <1>2, <1>3, <1>5 DEF Core, Views, SharedGood, SameReq, SameConn, SameChan, SameTasks, SamePool, RequestsGood
<1>17. Core'
  BY <1>7, <1>8, <1>9, <1>10, <1>11, <1>12, <1>13, <1>14, <1>15, <1>16 DEF Core
<1> QED  BY <1>3, <1>17

LEMMA LetsGo ==
  ASSUME IInv, NEW r \in Requests, NEW v \in Pcs,
         req' = [req EXCEPT ![r].pc = v, ![r].borrowed = NULL]
  PROVE  /\ req' \in [Requests -> RequestType]
         /\ Pc(r)' = v /\ Bo(r)' = NULL /\ Re(r)' = Re(r) /\ To(r)' = To(r)
         /\ \A s \in Requests \ {r} : SameReq(s)
<1> DEFINE k == [req[r] EXCEPT !.pc = v, !.borrowed = NULL]
<1>1. TypeOK /\ req[r] \in RequestType
  BY DEF IInv, TypeOK
<1>2. k \in RequestType
  BY <1>1, Zenon DEF RequestType, Pcs
<1>3. k.pc = v /\ k.borrowed = NULL /\ k.result = Re(r) /\ k.told = To(r)
  BY <1>1 DEF RequestType, Re, To
<1>4. req' = [req EXCEPT ![r] = k]
  OBVIOUS
<1> HIDE DEF k
<1> QED  BY <1>1, <1>2, <1>3, <1>4, ReqChanges

LEMMA Borrows ==
  ASSUME IInv, NEW r \in Requests, Bo(r) # NULL
  PROVE  \E p \in Pooleds : p = Bo(r) /\ p = req[r].borrowed
BY TypedViews DEF IInv, Views, Bo

LEMMA ReleaseBorrowedKeeps ==
  ASSUME IInv, NEW r \in Requests, ReleaseBorrowed(r)
  PROVE  IInv'
<1>1. Pc(r) = "release" /\ Bo(r) # NULL
  BY DEF ReleaseBorrowed, Pc, IInv, Core, RequestsGood
<1>2. PICK p \in Pooleds : p = Bo(r) /\ p = req[r].borrowed
  BY <1>1, Borrows
<1>3. /\ req' \in [Requests -> RequestType]
      /\ Pc(r)' = "check" /\ Bo(r)' = NULL /\ Re(r)' = Re(r) /\ To(r)' = To(r)
      /\ \A s \in Requests \ {r} : SameReq(s)
  BY LetsGo DEF ReleaseBorrowed, Pcs
<1>4. /\ \A s \in Requests : SameConn(s)
      /\ \A c \in Chans : SameChan(c)
      /\ SameIdle
  BY UnchangedViews DEF ReleaseBorrowed
<1>5. Release(p)
  BY <1>2 DEF ReleaseBorrowed
<1>6. Core' /\ pool' \in [Pooleds -> PooledType] /\ posted' \in Seq(DeathType)
  BY <1>1, <1>2, <1>3, <1>4, <1>5, ReleaseCore
<1>7. DtorGood'
  BY <1>1, NoDtor DEF ReleaseBorrowed
<1> QED  BY <1>3, <1>6, <1>7 DEF IInv, TypeOK, ReleaseBorrowed

LEMMA CloseBorrowedKeeps ==
  ASSUME IInv, NEW r \in Requests, CloseBorrowed(r)
  PROVE  IInv'
<1>1. Pc(r) = "reclose" /\ Bo(r) # NULL /\ TypeOK
  BY DEF CloseBorrowed, Pc, IInv, Core, RequestsGood
<1>2. PICK p \in Pooleds : p = Bo(r) /\ p = req[r].borrowed
  BY <1>1, Borrows
<1>3. /\ req' \in [Requests -> RequestType]
      /\ Pc(r)' = "reinsert" /\ Bo(r)' = NULL /\ Re(r)' = Re(r) /\ To(r)' = To(r)
      /\ \A s \in Requests \ {r} : SameReq(s)
  BY LetsGo DEF CloseBorrowed, Pcs
<1>4. chan' \in [Chans -> ChanType] /\ \A c \in Chans : SameChan(c)
  BY <1>1, ClosingKeeps DEF CloseBorrowed, Close
<1>5. (\A s \in Requests : SameConn(s)) /\ SameIdle
  BY UnchangedViews DEF CloseBorrowed
<1>6. Release(p)
  BY <1>2 DEF CloseBorrowed
<1>7. Core' /\ pool' \in [Pooleds -> PooledType] /\ posted' \in Seq(DeathType)
  BY <1>1, <1>2, <1>3, <1>4, <1>5, <1>6, ReleaseCore
<1>8. DtorGood'
  BY <1>1, NoDtor DEF CloseBorrowed
<1> QED  BY <1>3, <1>4, <1>7, <1>8 DEF IInv, TypeOK, CloseBorrowed

(* A new connection, with a channel of its own or a borrowed one.          *)
LEMMA NewConn ==
  ASSUME IInv, NEW r \in Requests, NEW c \in Chans,
         conn' = [conn EXCEPT ![r] = [NoConn EXCEPT !.where = "conns", !.chan = c]]
  PROVE  /\ conn' \in [Requests -> ConnType]
         /\ Wh(r)' = "conns" /\ Ch(r)' = c /\ ~Dl(r)'
         /\ \A s \in Requests \ {r} : SameConn(s)
<1> DEFINE k == [NoConn EXCEPT !.where = "conns", !.chan = c]
<1>1. NoConn \in ConnType /\ NoConn.delivered = FALSE
  BY DEF NoConn, ConnType
<1>2. k \in ConnType
  BY <1>1, Zenon DEF ConnType
<1>3. k.where = "conns" /\ k.chan = c /\ ~k.delivered
  BY <1>1 DEF ConnType
<1>4. TypeOK /\ conn' = [conn EXCEPT ![r] = k]
  BY DEF IInv
<1> HIDE DEF k
<1> QED  BY <1>2, <1>3, <1>4, ConnChanges

LEMMA InsertFreshKeeps ==
  ASSUME IInv, NEW r \in Requests, Pc(r) \in {"taken", "reinsert"}, Bo(r) = NULL,
         InsertFresh(r, "inserted"), pool' = pool, st' = st, posted' = posted,
         inFlight' = inFlight, closer' = closer, dtor' = dtor
  PROVE  IInv'
<1>1. Core /\ Views /\ TypeOK /\ ~Started(r) /\ Wh(r) = "none" /\ Ch(r) = NULL
  BY TypedViews DEF IInv, Core, RequestsGood, Started
<1>2. PICK c \in Chans :
        /\ chan[c].phase = "none" /\ chan' = [chan EXCEPT ![c].phase = "new"]
        /\ conn' = [conn EXCEPT ![r] = [NoConn EXCEPT !.where = "conns", !.chan = c]]
        /\ req' = [req EXCEPT ![r].pc = "inserted"]
  BY DEF InsertFresh, FreshChan, Some
<1> DEFINE k == [chan[c] EXCEPT !.phase = "new"]
<1>3. chan[c] \in ChanType /\ chan' = [chan EXCEPT ![c] = k] /\ Ph(c) = "none"
  BY <1>1, <1>2 DEF TypeOK, Ph
<1>4. k \in ChanType
  BY <1>3, Zenon DEF ChanType
<1>5. /\ k.phase = "new" /\ k.handler = Hd(c) /\ k.step.at = At(c) /\ k.step.r = Sr(c)
      /\ k.tasks = chan[c].tasks
  BY <1>3 DEF ChanType, Hd, At, Sr
<1> HIDE DEF k
<1>6. /\ chan' \in [Chans -> ChanType] /\ BecomesChan(c, k)
      /\ \A x \in Chans \ {c} : SameChan(x)
  BY <1>1, <1>3, <1>4, ChanChanges
<1>7. /\ Ph(c)' = "new" /\ Hd(c)' = Hd(c) /\ At(c)' = At(c) /\ Sr(c)' = Sr(c)
      /\ (\A s \in Requests : Adopts(c, s)' <=> Adopts(c, s)) /\ (Once(c) => Once(c)')
      /\ (Quiet(c)' <=> Quiet(c))
  BY <1>5, <1>6 DEF BecomesChan, Adopts, Once, Quiet
<1>8. /\ conn' \in [Requests -> ConnType]
      /\ Wh(r)' = "conns" /\ Ch(r)' = c /\ ~Dl(r)'
      /\ \A s \in Requests \ {r} : SameConn(s)
  BY <1>2, NewConn
<1>9. /\ req' \in [Requests -> RequestType]
      /\ Pc(r)' = "inserted" /\ Bo(r)' = NULL /\ Re(r)' = Re(r) /\ To(r)' = To(r)
      /\ \A s \in Requests \ {r} : SameReq(s)
  BY <1>2, PcMoves DEF Pcs
<1>10. (\A p \in Pooleds : SamePool(p)) /\ SameIdle /\ SamePosted
  BY UnchangedViews
<1>11. \A s \in Requests : Started(s)' <=> Started(s)
  BY <1>1, <1>9 DEF Started, SameReq
<1>12. \A q \in Pooleds : Doomed(q)' <=> Doomed(q)
  BY <1>10 DEF Doomed, SamePool, SamePosted
<1>13. c # NULL /\ Hd(c) = NULL /\ Quiet(c) /\ (\A s \in Requests : Ch(s) # c) /\ At(c) \notin {"park", "reopen", "closing", "giveUp", "recheck"}
       /\ (\A p \in Pooleds : Li(p) = "live" => Pl(p) # c)
  BY <1>1, <1>3, ConnectorAssumption DEF Core, Views, HandlersGood, ChannelsOwned, StepsGood, PoolGood
<1>14. RequestsGood'
  BY <1>1, <1>3, <1>7, <1>6, <1>8, <1>9, <1>10, <1>13, <1>11 DEF Core, Views, RequestsGood, SameReq, SameConn, SameChan, SamePool
<1>15. ChannelsOwned'
  BY <1>1, <1>3, <1>7, <1>6, <1>8, <1>9, <1>10, <1>13 DEF Core, Views, ChannelsOwned, SameConn, SameChan
<1>16. HandlersGood'
  BY <1>1, <1>3, <1>7, <1>6, <1>8, <1>9, <1>10, <1>13, <1>11 DEF Core, Views, HandlersGood, SameConn, SameChan, SameTasks, SamePool
<1>17. TasksGood'
  BY <1>1, <1>3, <1>7, <1>6, <1>8, <1>9, <1>10, <1>13, <1>11 DEF Core, Views, TasksGood, SameReq, SameConn, SameChan, SameTasks, SameIdle
<1>18. StepsGood'
  BY <1>1, <1>3, <1>7, <1>6, <1>8, <1>9, <1>10, <1>13, <1>11 DEF Core, Views, StepsGood, Busy, SameConn, SameChan
<1>19. PostedGood'
  BY <1>1, <1>3, <1>7, <1>6, <1>8, <1>9, <1>10, <1>13 DEF Core, Views, PostedGood, PoolGood, SamePosted, SameConn, SameChan, SamePool
<1>20. PoolGood'
  BY <1>1, <1>3, <1>7, <1>6, <1>8, <1>9, <1>10, <1>13 DEF Core, Views, PoolGood, SameChan, SamePool
<1>21. IdleGood'
  BY <1>1, <1>3, <1>7, <1>6, <1>8, <1>9, <1>10, <1>13 DEF Core, Views, IdleGood, PoolGood, SameIdle, SameChan, SamePool
<1>22. BorrowedGood'
  BY <1>1, <1>3, <1>7, <1>6, <1>8, <1>9, <1>10, <1>13 DEF Core, Views, BorrowedGood, PoolGood, SameReq, SameChan, SamePool
<1>23. SharedGood'
  BY <1>1, <1>3, <1>7, <1>6, <1>8, <1>9, <1>10, <1>13, <1>12, ConnectorAssumption DEF Core, Views, SharedGood, SameReq, SameConn, SameChan, SameTasks, SamePool, HandlersGood, PostedGood, PoolGood, Doomed
<1>24. Core'
  BY <1>14, <1>15, <1>16, <1>17, <1>18, <1>19, <1>20, <1>21, <1>22, <1>23 DEF Core
<1>25. DtorGood'
  BY NoDtor DEF Pc
<1> QED  BY <1>6, <1>8, <1>9, <1>24, <1>25 DEF IInv, TypeOK

LEMMA DoomedOver ==
  ASSUME Core, Views, NEW p \in Pooleds, Doomed(p)
  PROVE  Li(p) = "live" /\ Pl(p) \in Chans /\ Ph(Pl(p)) = "over" /\ Hd(Pl(p)) = NULL
<1>1. Li(p) = "live" /\ Ph(Pl(p)) = "over"
  BY DEF Core, Doomed, PoolGood, PostedGood
<1>2. Pl(p) \in Chans
  BY <1>1 DEF Core, Views, PoolGood
<1> QED  BY <1>1, <1>2 DEF Core, HandlersGood

(* A borrowed channel gets its connection.                                 *)
LEMMA InsertBorrowed ==
  ASSUME IInv, NEW r \in Requests, NEW p \in Pooleds, Pc(r) = "taken", Bo(r) = p,
         conn' = [conn EXCEPT ![r] = [NoConn EXCEPT !.where = "conns", !.chan = pool[p].chan]],
         req' = [req EXCEPT ![r].pc = "inserted"],
         UNCHANGED <<chan, pool, posted, st, inFlight, closer, dtor>>
  PROVE  IInv'
<1>1. /\ Core /\ Views /\ TypeOK /\ ~Started(r) /\ Ch(r) = NULL /\ p # NULL
      /\ Wh(r) = "none" /\ Re(r) = "none" /\ To(r) = 0
  BY TypedViews, ConnectorAssumption DEF IInv, Core, RequestsGood, Started
<1>2. He(p) /\ Li(p) = "live" /\ Pl(p) \in Chans /\ Ph(Pl(p)) \notin {"none", "new", "opening"}
      /\ (Hd(Pl(p)) = p \/ Pe(p) = "closed")
  BY <1>1 DEF Core, Views, BorrowedGood, PoolGood
<1>3. PICK c \in Chans : c = Pl(p) /\ c = pool[p].chan
  BY <1>2 DEF Pl
<1>4. /\ conn' \in [Requests -> ConnType]
      /\ Wh(r)' = "conns" /\ Ch(r)' = c /\ ~Dl(r)'
      /\ \A s \in Requests \ {r} : SameConn(s)
  BY <1>3, NewConn
<1>5. /\ req' \in [Requests -> RequestType]
      /\ Pc(r)' = "inserted" /\ Bo(r)' = p /\ Re(r)' = Re(r) /\ To(r)' = To(r)
      /\ \A s \in Requests \ {r} : SameReq(s)
  BY PcMoves DEF Pcs
<1>6. /\ \A x \in Chans : SameChan(x)
      /\ \A q \in Pooleds : SamePool(q)
      /\ SameIdle /\ SamePosted
  BY UnchangedViews
<1>7. \A s \in Requests : Started(s)' <=> Started(s)
  BY <1>1, <1>5 DEF Started, SameReq
<1>8. \A q \in Pooleds : Doomed(q)' <=> Doomed(q)
  BY <1>6 DEF Doomed, SamePool, SamePosted
<1>9. Ph(c) # "freed" /\ (Hd(c) = p \/ (Pe(p) = "closed" /\ Ph(c) = "over" /\ Hd(c) = NULL /\ Doomed(p)))
  BY <1>1, <1>2, <1>3, ConnectorAssumption DEF Core, HandlersGood, PoolGood, Doomed
<1>10. \A s \in Requests : Ch(s) # c
  <2>1. SUFFICES ASSUME NEW s \in Requests, Ch(s) = c PROVE FALSE
    OBVIOUS
  <2>2. (Bo(s) = p /\ Pc(s) \in {"inserted", "disown"}) \/ Adopts(c, s)
    BY <1>1, <1>3, <1>9, <2>1, ConnectorAssumption DEF Core, SharedGood
  <2>3. CASE Bo(s) = p
    BY <1>1, <1>3, <2>1, <2>3, ConnectorAssumption DEF Core, BorrowedGood
  <2>4. CASE Adopts(c, s)
    BY <1>1, <1>9, <2>1, <2>4, ConnectorAssumption DEF Core, TasksGood, HandlersGood
  <2> QED  BY <2>2, <2>3, <2>4
<1>11. \A q \in Pooleds : (Pl(q) = c /\ (Hd(c) = q \/ Doomed(q))) => q = p
  <2>1. SUFFICES ASSUME NEW q \in Pooleds, Pl(q) = c, Hd(c) = q \/ Doomed(q) PROVE q = p
    OBVIOUS
  <2>2. Doomed(q) => Hd(c) = NULL
    BY <1>1, <2>1, DoomedOver
  <2>3. q # NULL /\ p # NULL
    BY ConnectorAssumption
  <2>4. CASE Hd(c) = p
    BY <2>1, <2>2, <2>3, <2>4
  <2>5. CASE Hd(c) = NULL /\ Doomed(p)
    BY <1>1, <1>3, <2>1, <2>3, <2>5 DEF Core, SharedGood
  <2> QED  BY <1>9, <2>4, <2>5
<1>12. RequestsGood'
  <2>1. Pl(p)' = c
    BY <1>3, <1>6 DEF SamePool
  <2> QED  BY <2>1, <1>1, <1>4, <1>5, <1>6, <1>7 DEF Core, Views, RequestsGood, SameReq, SameConn, SameChan, SamePool
<1>13. ChannelsOwned'
  BY <1>1, <1>2, <1>3, <1>4, <1>5, <1>6, <1>9, <1>10 DEF Core, Views, ChannelsOwned, SameConn, SameChan
<1>14. HandlersGood'
  BY <1>1, <1>2, <1>3, <1>4, <1>5, <1>6, <1>7 DEF Core, Views, HandlersGood, SameConn, SameChan, SameTasks, SamePool
<1>15. TasksGood'
  BY <1>1, <1>2, <1>3, <1>4, <1>5, <1>6, <1>7 DEF Core, Views, TasksGood, SameReq, SameConn, SameChan, SameTasks, SameIdle
<1>16. StepsGood'
  BY <1>1, <1>2, <1>3, <1>4, <1>5, <1>6, <1>7 DEF Core, Views, StepsGood, Busy, SameConn, SameChan
<1>17. PostedGood'
  BY <1>1, <1>2, <1>3, <1>4, <1>5, <1>6 DEF Core, Views, PostedGood, PoolGood, SamePosted, SameConn, SameChan, SamePool
<1>18. PoolGood'
  BY <1>1, <1>2, <1>3, <1>4, <1>5, <1>6 DEF Core, Views, PoolGood, SameChan, SamePool
<1>19. IdleGood'
  BY <1>1, <1>2, <1>3, <1>4, <1>5, <1>6 DEF Core, Views, IdleGood, PoolGood, SameIdle, SameChan, SamePool
<1>20. BorrowedGood'
  BY <1>1, <1>2, <1>3, <1>4, <1>5, <1>6 DEF Core, Views, BorrowedGood, PoolGood, SameReq, SameChan, SamePool
<1>21. SharedGood'
  BY <1>1, <1>2, <1>3, <1>4, <1>5, <1>6, <1>8, <1>10, <1>11 DEF Core, Views, SharedGood, SameReq, SameConn, SameChan, SameTasks, SamePool
<1>22. Core'
  BY <1>12, <1>13, <1>14, <1>15, <1>16, <1>17, <1>18, <1>19, <1>20, <1>21 DEF Core
<1>23. DtorGood'
  BY NoDtor DEF Pc
<1> QED  BY <1>4, <1>5, <1>22, <1>23 DEF IInv, TypeOK

LEMMA RefusedKeeps ==
  ASSUME IInv, NEW r \in Requests, Pc(r) \in {"taken", "reinsert"}, Bo(r) = NULL,
         req' = [req EXCEPT ![r].pc = "returned", ![r].result = "refused"],
         UNCHANGED <<conn, chan, pool, posted, st, inFlight, closer, dtor>>
  PROVE  IInv'
<1>1. Core /\ Views /\ TypeOK
  BY TypedViews DEF IInv
<1>2. /\ req' \in [Requests -> RequestType]
      /\ Pc(r)' = "returned" /\ Bo(r)' = Bo(r) /\ Re(r)' = "refused" /\ To(r)' = To(r)
      /\ \A s \in Requests \ {r} : SameReq(s)
  BY RequestReturns
<1>3. /\ \A s \in Requests : SameConn(s)
      /\ \A q \in Pooleds : SamePool(q)
      /\ \A x \in Chans : SameChan(x)
      /\ SameIdle /\ SamePosted
  BY UnchangedViews
<1>4. \A s \in Requests : Started(s)' <=> Started(s)
  BY <1>2 DEF Started, SameReq
<1>5. \A q \in Pooleds : Doomed(q)' <=> Doomed(q)
  BY <1>3 DEF Doomed, SamePool, SamePosted
<1>6. RequestsGood'
  BY <1>1, <1>2, <1>3, <1>4 DEF Core, Views, RequestsGood, SameReq, SameConn, SameChan, SamePool
<1>7. ChannelsOwned'
  BY <1>1, <1>2, <1>3 DEF Core, Views, ChannelsOwned, SameConn, SameChan
<1>8. HandlersGood'
  BY <1>1, <1>2, <1>3, <1>4 DEF Core, Views, HandlersGood, SameConn, SameChan, SameTasks, SamePool
<1>9. TasksGood'
  BY <1>1, <1>2, <1>3, <1>4 DEF Core, Views, TasksGood, SameReq, SameConn, SameChan, SameTasks, SameIdle
<1>10. StepsGood'
  BY <1>1, <1>2, <1>3, <1>4 DEF Core, Views, StepsGood, Busy, SameConn, SameChan
<1>11. PostedGood'
  BY <1>1, <1>2, <1>3 DEF Core, Views, PostedGood, PoolGood, SamePosted, SameConn, SameChan, SamePool
<1>12. PoolGood'
  BY <1>1, <1>2, <1>3 DEF Core, Views, PoolGood, SameChan, SamePool
<1>13. IdleGood'
  BY <1>1, <1>2, <1>3 DEF Core, Views, IdleGood, PoolGood, SameIdle, SameChan, SamePool
<1>14. BorrowedGood'
  BY <1>1, <1>2, <1>3 DEF Core, Views, BorrowedGood, PoolGood, SameReq, SameChan, SamePool
<1>15. SharedGood'
  BY <1>1, <1>2, <1>3, <1>5 DEF Core, Views, SharedGood, SameReq, SameConn, SameChan, SameTasks, SamePool
<1>16. Core'
  BY <1>6, <1>7, <1>8, <1>9, <1>10, <1>11, <1>12, <1>13, <1>14, <1>15 DEF Core
<1>17. DtorGood'
  BY NoDtor DEF Pc
<1> QED  BY <1>2, <1>16, <1>17 DEF IInv, TypeOK

LEMMA InsertKeeps ==
  ASSUME IInv, NEW r \in Requests, Insert(r)
  PROVE  IInv'
<1>1. Pc(r) = "taken" /\ Bo(r) = req[r].borrowed /\ TypeOK
  BY DEF Insert, Pc, Bo, IInv
<1>2. CASE Bo(r) = NULL
  <2>1. CASE st.closing
    BY <1>1, <1>2, <2>1, RefusedKeeps DEF Insert
  <2>2. CASE ~st.closing
    BY <1>1, <1>2, <2>2, InsertFreshKeeps DEF Insert
  <2> QED  BY <2>1, <2>2
<1>3. CASE Bo(r) # NULL
  <2>1. PICK p \in Pooleds : p = Bo(r) /\ p = req[r].borrowed
    BY <1>3, Borrows
  <2>2. CASE ~st.closing
    BY <1>1, <1>3, <2>1, <2>2, InsertBorrowed DEF Insert
  <2>3. CASE st.closing
    <3>1. /\ chan' = Close(chan, pool[p].chan) /\ Release(p)
          /\ req' = [req EXCEPT ![r] = [@ EXCEPT !.pc = "returned", !.result = "refused",
                                                 !.borrowed = NULL]]
          /\ UNCHANGED <<conn, st, inFlight, closer, dtor>>
      BY <1>1, <1>3, <2>1, <2>3 DEF Insert
    <3>2. /\ req' \in [Requests -> RequestType]
          /\ Pc(r)' = "returned" /\ Bo(r)' = NULL /\ Re(r)' = "refused" /\ To(r)' = To(r)
          /\ \A s \in Requests \ {r} : SameReq(s)
      BY <3>1, PcReturns
    <3>3. chan' \in [Chans -> ChanType] /\ \A c \in Chans : SameChan(c)
      BY <1>1, <3>1, ClosingKeeps DEF Close
    <3>4. (\A s \in Requests : SameConn(s)) /\ SameIdle
      BY <3>1, UnchangedViews
    <3>5. Core' /\ pool' \in [Pooleds -> PooledType] /\ posted' \in Seq(DeathType)
      BY <1>1, <2>1, <3>1, <3>2, <3>3, <3>4, ReleaseCore
    <3>6. DtorGood'
      BY <1>1, <3>1, NoDtor
    <3> QED  BY <3>1, <3>2, <3>3, <3>5, <3>6 DEF IInv, TypeOK
  <2> QED  BY <2>2, <2>3
<1> QED  BY <1>2, <1>3

LEMMA ReinsertKeeps ==
  ASSUME IInv, NEW r \in Requests, Reinsert(r)
  PROVE  IInv'
<1>1. Pc(r) = "reinsert" /\ Bo(r) = NULL
  BY DEF Reinsert, Pc, IInv, Core, RequestsGood
<1>2. CASE st.closing
  BY <1>1, <1>2, RefusedKeeps DEF Reinsert
<1>3. CASE ~st.closing
  BY <1>1, <1>3, InsertFreshKeeps DEF Reinsert
<1> QED  BY <1>2, <1>3

LEMMA ConnGone ==
  ASSUME IInv, NEW r \in Requests, conn' = [conn EXCEPT ![r] = NoConn]
  PROVE  /\ conn' \in [Requests -> ConnType]
         /\ Wh(r)' = "none" /\ Ch(r)' = NULL /\ ~Dl(r)'
         /\ \A s \in Requests \ {r} : SameConn(s)
<1>1. NoConn \in ConnType /\ NoConn.where = "none" /\ NoConn.chan = NULL /\ ~NoConn.delivered
  BY DEF NoConn, ConnType
<1> QED  BY <1>1, ConnChanges DEF IInv

(* OnClosed, where the queue of idle channels is not touched.              *)
LEMMA NotifyIdle ==
  ASSUME IInv, NEW t \in Threads, NEW cn, NotifyIfDrained(t, cn, st)
  PROVE  /\ st' \in StateType /\ inFlight' \subseteq Threads /\ SameIdle
         /\ st'.idle = st.idle /\ st'.idleDestroying = st.idleDestroying
         /\ st'.closing = st.closing /\ st'.handler = st.handler /\ st'.abandoned = st.abandoned
         /\ st.notified => st'.notified
         /\ ~st.abandoned /\ st.closing /\ st.handler /\ AllDrainedLocked(cn, st') => st'.notified
         /\ st.notified \/ st.abandoned => inFlight' = inFlight
<1>1. st \in StateType /\ inFlight \subseteq Threads
  BY DEF IInv, TypeOK
<1>2. /\ st' \in StateType /\ inFlight' \subseteq Threads
      /\ st'.idle = st.idle /\ st'.idleDestroying = st.idleDestroying
      /\ st'.closing = st.closing /\ st'.handler = st.handler /\ st'.abandoned = st.abandoned
      /\ st.notified => st'.notified
      /\ ~st.abandoned /\ st.closing /\ st.handler /\ AllDrainedLocked(cn, st') => st'.notified
      /\ st.notified \/ st.abandoned => inFlight' = inFlight
  BY <1>1, NotifyKeeps
<1> QED  BY <1>2, UnchangedViews

LEMMA DisownKeeps ==
  ASSUME IInv, NEW r \in Requests, Disown(r)
  PROVE  IInv'
<1>1. Core /\ Views /\ Pc(r) = "disown" /\ ~Started(r)
  BY TypedViews DEF IInv, Disown, Pc, Started
<1>2. /\ conn' \in [Requests -> ConnType]
      /\ Wh(r)' = "none" /\ Ch(r)' = NULL /\ ~Dl(r)'
      /\ \A s \in Requests \ {r} : SameConn(s)
  BY ConnGone DEF Disown
<1>3. /\ req' \in [Requests -> RequestType]
      /\ Pc(r)' = "reclose" /\ Bo(r)' = Bo(r) /\ Re(r)' = Re(r) /\ To(r)' = To(r)
      /\ \A s \in Requests \ {r} : SameReq(s)
  BY PcMoves DEF Disown, Pcs
<1>4. /\ \A q \in Pooleds : SamePool(q)
      /\ \A x \in Chans : SameChan(x)
      /\ SamePosted
  BY UnchangedViews DEF Disown
<1>5. /\ st' \in StateType /\ inFlight' \subseteq Threads /\ SameIdle
      /\ st'.handler = st.handler /\ st'.abandoned = st.abandoned
  BY NotifyIdle DEF Disown, Threads
<1>6. \A s \in Requests : Started(s)' <=> Started(s)
  BY <1>1, <1>3 DEF Started, SameReq
<1>7. \A q \in Pooleds : Doomed(q)' <=> Doomed(q)
  BY <1>4 DEF Doomed, SamePool, SamePosted
<1>8. Wh(r) = "conns" /\ ~Queued("conn", r) /\ (\A x \in Chans : Hd(x) # r /\ ~Adopts(x, r) /\ (Busy(x) => Sr(x) # r))
  BY <1>1 DEF Core, RequestsGood, HandlersGood, TasksGood, StepsGood, PostedGood
<1>9. RequestsGood'
  BY <1>1, <1>2, <1>3, <1>4, <1>5, <1>8, <1>6 DEF Core, Views, RequestsGood, SameReq, SameConn, SameChan, SamePool
<1>10. ChannelsOwned'
  BY <1>1, <1>2, <1>3, <1>4, <1>5, <1>8 DEF Core, Views, ChannelsOwned, SameConn, SameChan
<1>11. HandlersGood'
  BY <1>1, <1>2, <1>3, <1>4, <1>5, <1>8, <1>6 DEF Core, Views, HandlersGood, SameConn, SameChan, SameTasks, SamePool
<1>12. TasksGood'
  BY <1>1, <1>2, <1>3, <1>4, <1>5, <1>8, <1>6 DEF Core, Views, TasksGood, SameReq, SameConn, SameChan, SameTasks, SameIdle
<1>13. StepsGood'
  BY <1>1, <1>2, <1>3, <1>4, <1>5, <1>8, <1>6 DEF Core, Views, StepsGood, Busy, SameConn, SameChan
<1>14. PostedGood'
  BY <1>1, <1>2, <1>3, <1>4, <1>5, <1>8 DEF Core, Views, PostedGood, PoolGood, SamePosted, SameConn, SameChan, SamePool
<1>15. PoolGood'
  BY <1>1, <1>2, <1>3, <1>4, <1>5, <1>8 DEF Core, Views, PoolGood, SameChan, SamePool
<1>16. IdleGood'
  BY <1>1, <1>2, <1>3, <1>4, <1>5, <1>8 DEF Core, Views, IdleGood, PoolGood, SameIdle, SameChan, SamePool
<1>17. BorrowedGood'
  BY <1>1, <1>2, <1>3, <1>4, <1>5, <1>8 DEF Core, Views, BorrowedGood, PoolGood, SameReq, SameChan, SamePool
<1>18. SharedGood'
  BY <1>1, <1>2, <1>3, <1>4, <1>5, <1>8, <1>7 DEF Core, Views, SharedGood, SameReq, SameConn, SameChan, SameTasks, SamePool
<1>19. Core'
  BY <1>9, <1>10, <1>11, <1>12, <1>13, <1>14, <1>15, <1>16, <1>17, <1>18 DEF Core
<1>20. DtorGood'
  BY <1>1, <1>5, NoDtor DEF Disown
<1> QED  BY <1>2, <1>3, <1>5, <1>19, <1>20 DEF IInv, TypeOK, Disown

(* A channel nobody refers to is deleted.                                  *)
LEMMA FreedViews ==
  ASSUME IInv, NEW c \in Chans, chan' = [chan EXCEPT ![c].phase = "freed"]
  PROVE  /\ chan' \in [Chans -> ChanType] /\ \A x \in Chans \ {c} : SameChan(x)
         /\ Ph(c)' = "freed" /\ Hd(c)' = Hd(c) /\ At(c)' = At(c) /\ Sr(c)' = Sr(c)
         /\ (\A s \in Requests : Adopts(c, s)' <=> Adopts(c, s)) /\ (Once(c) => Once(c)')
         /\ (Quiet(c)' <=> Quiet(c))
<1> DEFINE k == [chan[c] EXCEPT !.phase = "freed"]
<1>1. TypeOK /\ chan[c] \in ChanType /\ chan' = [chan EXCEPT ![c] = k]
  BY DEF IInv, TypeOK
<1>2. k \in ChanType
  BY <1>1, Zenon DEF ChanType
<1>3. /\ k.phase = "freed" /\ k.handler = Hd(c) /\ k.step.at = At(c) /\ k.step.r = Sr(c)
      /\ k.tasks = chan[c].tasks
  BY <1>1 DEF ChanType, Hd, At, Sr
<1> HIDE DEF k
<1>4. /\ chan' \in [Chans -> ChanType] /\ BecomesChan(c, k)
      /\ \A x \in Chans \ {c} : SameChan(x)
  BY <1>1, <1>2, ChanChanges
<1> QED  BY <1>3, <1>4 DEF BecomesChan, Adopts, Once, Quiet

LEMMA AbortKeeps ==
  ASSUME IInv, NEW r \in Requests, Abort(r)
  PROVE  IInv'
<1>1. Core /\ Views /\ Pc(r) = "failed" /\ ~Started(r)
  BY TypedViews DEF IInv, Abort, Pc, Started
<1>2. Ch(r) \in Chans /\ Ph(Ch(r)) = "new"
  BY <1>1 DEF Core, Views, RequestsGood
<1>3. PICK c \in Chans : c = Ch(r) /\ c = conn[r].chan
  BY <1>2 DEF Ch
<1>4. /\ conn' \in [Requests -> ConnType]
      /\ Wh(r)' = "none" /\ Ch(r)' = NULL /\ ~Dl(r)'
      /\ \A s \in Requests \ {r} : SameConn(s)
  BY ConnGone DEF Abort
<1>5. /\ req' \in [Requests -> RequestType]
      /\ Pc(r)' = "aborted" /\ Bo(r)' = Bo(r) /\ Re(r)' = Re(r) /\ To(r)' = To(r)
      /\ \A s \in Requests \ {r} : SameReq(s)
  BY PcMoves DEF Abort, Pcs
<1>6. /\ chan' \in [Chans -> ChanType] /\ \A x \in Chans \ {c} : SameChan(x)
      /\ Ph(c)' = "freed" /\ Hd(c)' = Hd(c) /\ At(c)' = At(c) /\ Sr(c)' = Sr(c)
      /\ (\A s \in Requests : Adopts(c, s)' <=> Adopts(c, s)) /\ (Once(c) => Once(c)')
      /\ (Quiet(c)' <=> Quiet(c))
  BY <1>3, FreedViews DEF Abort
<1>7. (\A q \in Pooleds : SamePool(q)) /\ SamePosted
  BY UnchangedViews DEF Abort
<1>8. /\ st' \in StateType /\ inFlight' \subseteq Threads /\ SameIdle
      /\ st'.handler = st.handler /\ st'.abandoned = st.abandoned
  BY NotifyIdle DEF Abort, Threads
<1>9. \A s \in Requests : Started(s)' <=> Started(s)
  BY <1>1, <1>5 DEF Started, SameReq
<1>10. \A q \in Pooleds : Doomed(q)' <=> Doomed(q)
  BY <1>7 DEF Doomed, SamePool, SamePosted
<1>11. Wh(r) = "conns" /\ ~Queued("conn", r) /\ (\A x \in Chans : Hd(x) # r /\ ~Adopts(x, r) /\ (Busy(x) => Sr(x) # r))
  BY <1>1 DEF Core, RequestsGood, HandlersGood, TasksGood, StepsGood, PostedGood
<1>12. /\ c # NULL /\ Ph(c) = "new" /\ Hd(c) = NULL /\ Quiet(c)
       /\ \A s \in Requests \ {r} : Ch(s) # c
       /\ \A q \in Pooleds : Li(q) = "live" => Pl(q) # c
  BY <1>1, <1>2, <1>3, ConnectorAssumption DEF Core, HandlersGood, ChannelsOwned, PoolGood
<1>13. RequestsGood'
  BY <1>1, <1>4, <1>5, <1>6, <1>7, <1>8, <1>11, <1>12, <1>9 DEF Core, Views, RequestsGood, SameReq, SameConn, SameChan, SamePool, PoolGood
<1>14. ChannelsOwned'
  BY <1>1, <1>4, <1>5, <1>6, <1>7, <1>8, <1>11, <1>12 DEF Core, Views, ChannelsOwned, SameConn, SameChan
<1>15. HandlersGood'
  BY <1>1, <1>4, <1>5, <1>6, <1>7, <1>8, <1>11, <1>12, <1>9 DEF Core, Views, HandlersGood, SameConn, SameChan, SameTasks, SamePool
<1>16. TasksGood'
  BY <1>1, <1>4, <1>5, <1>6, <1>7, <1>8, <1>11, <1>12, <1>9 DEF Core, Views, TasksGood, SameReq, SameConn, SameChan, SameTasks, SameIdle
<1>17. StepsGood'
  BY <1>1, <1>4, <1>5, <1>6, <1>7, <1>8, <1>11, <1>12, <1>9 DEF Core, Views, StepsGood, Busy, SameConn, SameChan
<1>18. PostedGood'
  BY <1>1, <1>4, <1>5, <1>6, <1>7, <1>8, <1>11, <1>12 DEF Core, Views, PostedGood, PoolGood, SamePosted, SameConn, SameChan, SamePool
<1>19. PoolGood'
  BY <1>1, <1>4, <1>5, <1>6, <1>7, <1>8, <1>11, <1>12 DEF Core, Views, PoolGood, SameChan, SamePool
<1>20. IdleGood'
  BY <1>1, <1>4, <1>5, <1>6, <1>7, <1>8, <1>11, <1>12 DEF Core, Views, IdleGood, PoolGood, SameIdle, SameChan, SamePool
<1>21. BorrowedGood'
  BY <1>1, <1>4, <1>5, <1>6, <1>7, <1>8, <1>11, <1>12 DEF Core, Views, BorrowedGood, PoolGood, SameReq, SameChan, SamePool
<1>22. SharedGood'
  BY <1>1, <1>4, <1>5, <1>6, <1>7, <1>8, <1>11, <1>12, <1>10, ConnectorAssumption DEF Core, Views, SharedGood, SameReq, SameConn, SameChan, SameTasks, SamePool
<1>23. Core'
  BY <1>13, <1>14, <1>15, <1>16, <1>17, <1>18, <1>19, <1>20, <1>21, <1>22 DEF Core
<1>24. DtorGood'
  BY <1>1, <1>8, NoDtor DEF Abort
<1> QED  BY <1>4, <1>5, <1>6, <1>8, <1>23, <1>24 DEF IInv, TypeOK, Abort

(* Adopt posts the request to the borrowed channel ...                     *)
LEMMA StartAdopts ==
  ASSUME IInv, NEW r \in Requests, NEW c \in Chans, NEW p \in Pooleds,
         Pc(r) = "inserted", Bo(r) = p, Ch(r) = c, Ph(c) \in {"parked", "down"},
         chan' = [chan EXCEPT ![c].tasks = Append(@, r)],
         req' = [req EXCEPT ![r].pc = "release"],
         UNCHANGED <<conn, pool, st, posted, inFlight, closer, dtor>>
  PROVE  IInv'
<1> DEFINE k == [chan[c] EXCEPT !.tasks = Append(@, r)]
<1>1. Core /\ Views /\ TypeOK /\ ~Started(r) /\ p # NULL /\ r \in TaskType
  BY TypedViews, ConnectorAssumption DEF IInv, Started, TaskType
<1>2. chan[c] \in ChanType /\ chan[c].tasks \in Seq(TaskType) /\ chan' = [chan EXCEPT ![c] = k]
  BY <1>1 DEF TypeOK, ChanType
<1>3. /\ Append(chan[c].tasks, r) \in Seq(TaskType) /\ Append(chan[c].tasks, r) # <<>>
      /\ \A x : Has(Append(chan[c].tasks, r), x) <=> Has(chan[c].tasks, x) \/ x = r
  BY <1>1, <1>2, AppendHas
<1>4. k \in ChanType
  BY <1>2, <1>3, Zenon DEF ChanType
<1>5. /\ k.phase = Ph(c) /\ k.handler = Hd(c) /\ k.step.at = At(c) /\ k.step.r = Sr(c)
      /\ k.tasks = Append(chan[c].tasks, r)
  BY <1>2 DEF ChanType, Ph, Hd, At, Sr
<1> HIDE DEF k
<1>6. /\ chan' \in [Chans -> ChanType] /\ BecomesChan(c, k)
      /\ \A x \in Chans \ {c} : SameChan(x)
  BY <1>1, <1>2, <1>4, ChanChanges
<1>7. ~Adopts(c, r) /\ Once(c)
  BY <1>1 DEF Core, TasksGood
<1>8. SingleIn(Append(chan[c].tasks, r))
  BY <1>1, <1>2, <1>7, AppendSingle DEF Adopts, Once
<1>9. /\ Ph(c)' = Ph(c) /\ Hd(c)' = Hd(c) /\ At(c)' = At(c) /\ Sr(c)' = Sr(c)
      /\ \A s \in Requests : Adopts(c, s)' <=> Adopts(c, s) \/ s = r
      /\ Once(c)' /\ ~Quiet(c)'
  BY <1>3, <1>5, <1>6, <1>8 DEF BecomesChan, Adopts
<1>10. /\ req' \in [Requests -> RequestType]
       /\ Pc(r)' = "release" /\ Bo(r)' = Bo(r) /\ Re(r)' = Re(r) /\ To(r)' = To(r)
       /\ \A s \in Requests \ {r} : SameReq(s)
  BY PcMoves DEF Pcs
<1>11. /\ \A s \in Requests : SameConn(s)
       /\ \A q \in Pooleds : SamePool(q)
       /\ SameIdle /\ SamePosted
  BY UnchangedViews
<1>12. Started(r)' /\ \A s \in Requests \ {r} : Started(s)' <=> Started(s)
  BY <1>10 DEF Started, SameReq
<1>13. \A q \in Pooleds : Doomed(q)' <=> Doomed(q)
  BY <1>11 DEF Doomed, SamePool, SamePosted
<1>14. /\ Pl(p) = c /\ He(p) /\ Hd(c) = p /\ ~InIdle(p) /\ Wh(r) = "conns"
       /\ \A s \in Requests : Bo(s) = p => s = r
       /\ \A s \in Requests : ~Adopts(c, s)
  <2>1. Pl(p) = c /\ He(p) /\ Wh(r) = "conns" /\ (\A s \in Requests : Bo(s) = p => s = r)
    BY <1>1 DEF Core, RequestsGood, BorrowedGood
  <2>2. Hd(c) = p
    BY <1>1, <2>1 DEF Core, BorrowedGood, PoolGood
  <2>3. ~InIdle(p)
    BY <1>1, <2>1 DEF Core, IdleGood
  <2>4. \A s \in Requests : ~Adopts(c, s)
    BY <1>1, <1>7, <2>2 DEF Core, TasksGood
  <2> QED  BY <2>1, <2>2, <2>3, <2>4
<1>15. RequestsGood'
  BY <1>1, <1>6, <1>9, <1>10, <1>11, <1>14, <1>12 DEF Core, Views, RequestsGood, SameReq, SameConn, SameChan, SamePool
<1>16. ChannelsOwned'
  BY <1>1, <1>6, <1>9, <1>10, <1>11, <1>14 DEF Core, Views, ChannelsOwned, SameConn, SameChan
<1>17. HandlersGood'
  BY <1>1, <1>6, <1>9, <1>10, <1>11, <1>14, <1>12 DEF Core, Views, HandlersGood, SameConn, SameChan, SameTasks, SamePool
<1>18. TasksGood'
  BY <1>1, <1>6, <1>9, <1>10, <1>11, <1>14, <1>12 DEF Core, Views, TasksGood, SameReq, SameConn, SameChan, SameTasks, SameIdle
<1>19. StepsGood'
  BY <1>1, <1>6, <1>9, <1>10, <1>11, <1>14, <1>12 DEF Core, Views, StepsGood, Busy, SameConn, SameChan
<1>20. PostedGood'
  BY <1>1, <1>6, <1>9, <1>10, <1>11, <1>14 DEF Core, Views, PostedGood, PoolGood, SamePosted, SameConn, SameChan, SamePool
<1>21. PoolGood'
  BY <1>1, <1>6, <1>9, <1>10, <1>11, <1>14 DEF Core, Views, PoolGood, SameChan, SamePool
<1>22. IdleGood'
  BY <1>1, <1>6, <1>9, <1>10, <1>11, <1>14 DEF Core, Views, IdleGood, PoolGood, SameIdle, SameChan, SamePool
<1>23. BorrowedGood'
  BY <1>1, <1>6, <1>9, <1>10, <1>11, <1>14 DEF Core, Views, BorrowedGood, PoolGood, SameReq, SameChan, SamePool
<1>24. SharedGood'
  BY <1>1, <1>6, <1>9, <1>10, <1>11, <1>14, <1>13 DEF Core, Views, SharedGood, SameReq, SameConn, SameChan, SameTasks, SamePool
<1>25. Core'
  BY <1>15, <1>16, <1>17, <1>18, <1>19, <1>20, <1>21, <1>22, <1>23, <1>24 DEF Core
<1>26. DtorGood'
  BY NoDtor
<1> QED  BY <1>6, <1>10, <1>25, <1>26 DEF IInv, TypeOK

(* ... or refuses it, or a new channel cannot be opened, ...               *)
LEMMA StartFails ==
  ASSUME IInv, NEW r \in Requests, Pc(r) = "inserted", NEW v,
         \/ Bo(r) # NULL /\ v = "disown"
         \/ Bo(r) = NULL /\ v = "failed",
         req' = [req EXCEPT ![r].pc = v],
         UNCHANGED <<chan, conn, pool, st, posted, inFlight, closer, dtor>>
  PROVE  IInv'
<1>1. Core /\ Views /\ TypeOK
  BY TypedViews DEF IInv
<1>2. /\ req' \in [Requests -> RequestType]
      /\ Pc(r)' = v /\ Bo(r)' = Bo(r) /\ Re(r)' = Re(r) /\ To(r)' = To(r)
      /\ \A s \in Requests \ {r} : SameReq(s)
  BY PcMoves DEF Pcs
<1>3. /\ \A s \in Requests : SameConn(s)
      /\ \A q \in Pooleds : SamePool(q)
      /\ \A x \in Chans : SameChan(x)
      /\ SameIdle /\ SamePosted
  BY UnchangedViews
<1>4. \A s \in Requests : Started(s)' <=> Started(s)
  BY <1>2 DEF Started, SameReq
<1>5. \A q \in Pooleds : Doomed(q)' <=> Doomed(q)
  BY <1>3 DEF Doomed, SamePool, SamePosted
<1>6. RequestsGood'
  BY <1>1, <1>2, <1>3, <1>4 DEF Core, Views, RequestsGood, SameReq, SameConn, SameChan, SamePool
<1>7. ChannelsOwned'
  BY <1>1, <1>2, <1>3 DEF Core, Views, ChannelsOwned, SameConn, SameChan
<1>8. HandlersGood'
  BY <1>1, <1>2, <1>3, <1>4 DEF Core, Views, HandlersGood, SameConn, SameChan, SameTasks, SamePool
<1>9. TasksGood'
  BY <1>1, <1>2, <1>3, <1>4 DEF Core, Views, TasksGood, SameReq, SameConn, SameChan, SameTasks, SameIdle
<1>10. StepsGood'
  BY <1>1, <1>2, <1>3, <1>4 DEF Core, Views, StepsGood, Busy, SameConn, SameChan
<1>11. PostedGood'
  BY <1>1, <1>2, <1>3 DEF Core, Views, PostedGood, PoolGood, SamePosted, SameConn, SameChan, SamePool
<1>12. PoolGood'
  BY <1>1, <1>2, <1>3 DEF Core, Views, PoolGood, SameChan, SamePool
<1>13. IdleGood'
  BY <1>1, <1>2, <1>3 DEF Core, Views, IdleGood, PoolGood, SameIdle, SameChan, SamePool
<1>14. BorrowedGood'
  BY <1>1, <1>2, <1>3 DEF Core, Views, BorrowedGood, PoolGood, SameReq, SameChan, SamePool
<1>15. SharedGood'
  BY <1>1, <1>2, <1>3, <1>5, ConnectorAssumption DEF Core, Views, SharedGood, SameReq, SameConn, SameChan, SameTasks, SamePool
<1>16. Core'
  BY <1>6, <1>7, <1>8, <1>9, <1>10, <1>11, <1>12, <1>13, <1>14, <1>15 DEF Core
<1>17. DtorGood'
  BY NoDtor
<1> QED  BY <1>2, <1>16, <1>17 DEF IInv, TypeOK

(* ... or it is opened.                                                    *)
LEMMA StartOpens ==
  ASSUME IInv, NEW r \in Requests, NEW c \in Chans, Pc(r) = "inserted", Bo(r) = NULL, Ch(r) = c,
         chan' = [chan EXCEPT ![c].phase = "opening", ![c].handler = r],
         req' = [req EXCEPT ![r].pc = "check"],
         UNCHANGED <<conn, pool, st, posted, inFlight, closer, dtor>>
  PROVE  IInv'
<1> DEFINE k == [chan[c] EXCEPT !.phase = "opening", !.handler = r]
<1>1. Core /\ Views /\ TypeOK /\ ~Started(r)
  BY TypedViews DEF IInv, Started
<1>2. /\ chan' = [chan EXCEPT ![c] = k] /\ k \in ChanType /\ k.phase = "opening" /\ k.handler = r
      /\ k.step = chan[c].step /\ k.tasks = chan[c].tasks
  <2>1. chan[c] \in ChanType /\ chan' = [chan EXCEPT ![c] = k]
    BY <1>1 DEF TypeOK
  <2>2. k \in ChanType
    BY <2>1, Zenon DEF ChanType
  <2> QED  BY <2>1, <2>2 DEF ChanType
<1> HIDE DEF k
<1>3. /\ chan' \in [Chans -> ChanType] /\ BecomesChan(c, k)
      /\ \A x \in Chans \ {c} : SameChan(x)
  BY <1>1, <1>2, ChanChanges
<1>4. /\ Ph(c)' = "opening" /\ Hd(c)' = r /\ At(c)' = At(c) /\ Sr(c)' = Sr(c)
      /\ (\A s \in Requests : Adopts(c, s)' <=> Adopts(c, s)) /\ (Once(c) => Once(c)')
      /\ (Quiet(c) => \A s \in Requests : Adopts(c, s)' <=> Adopts(c, s)) /\ (Quiet(c)' => Quiet(c))
  BY <1>2, <1>3 DEF BecomesChan, At, Sr, Adopts, Once, Quiet
<1>5. /\ req' \in [Requests -> RequestType]
      /\ Pc(r)' = "check" /\ Bo(r)' = Bo(r) /\ Re(r)' = Re(r) /\ To(r)' = To(r)
      /\ \A s \in Requests \ {r} : SameReq(s)
  BY PcMoves DEF Pcs
<1>6. /\ \A s \in Requests : SameConn(s)
      /\ \A q \in Pooleds : SamePool(q)
      /\ SameIdle /\ SamePosted
  BY UnchangedViews
<1>7. Started(r)' /\ \A s \in Requests \ {r} : Started(s)' <=> Started(s)
  BY <1>5 DEF Started, SameReq
<1>8. \A q \in Pooleds : Doomed(q)' <=> Doomed(q)
  BY <1>6 DEF Doomed, SamePool, SamePosted
<1>9. /\ c # NULL /\ r \notin Pooleds /\ r # NULL /\ Ph(c) = "new" /\ Hd(c) = NULL /\ Quiet(c) /\ Wh(r) = "conns"
      /\ ~Queued("conn", r)
      /\ \A s \in Requests \ {r} : Ch(s) # c
      /\ \A q \in Pooleds : Li(q) = "live" => Pl(q) # c
      /\ \A s \in Requests : ~Adopts(c, s)
      /\ \A x \in Chans : Busy(x) => Sr(x) # r
      /\ At(c) \notin {"park", "reopen", "closing", "giveUp", "recheck"}
  BY <1>1, ConnectorAssumption DEF Core, RequestsGood, HandlersGood, ChannelsOwned, PoolGood, TasksGood, StepsGood, PostedGood
<1>10. RequestsGood'
  BY <1>1, <1>3, <1>4, <1>5, <1>6, <1>9, <1>7 DEF Core, Views, RequestsGood, SameReq, SameConn, SameChan, SamePool
<1>11. ChannelsOwned'
  BY <1>1, <1>3, <1>4, <1>5, <1>6, <1>9 DEF Core, Views, ChannelsOwned, SameConn, SameChan
<1>12. HandlersGood'
  BY <1>1, <1>3, <1>4, <1>5, <1>6, <1>9, <1>7 DEF Core, Views, HandlersGood, SameConn, SameChan, SameTasks, SamePool
<1>13. TasksGood'
  BY <1>1, <1>3, <1>4, <1>5, <1>6, <1>9, <1>7 DEF Core, Views, TasksGood, SameReq, SameConn, SameChan, SameTasks, SameIdle
<1>14. StepsGood'
  BY <1>1, <1>3, <1>4, <1>5, <1>6, <1>9, <1>7 DEF Core, Views, StepsGood, Busy, SameConn, SameChan
<1>15. PostedGood'
  BY <1>1, <1>3, <1>4, <1>5, <1>6, <1>9 DEF Core, Views, PostedGood, PoolGood, SamePosted, SameConn, SameChan, SamePool
<1>16. PoolGood'
  BY <1>1, <1>3, <1>4, <1>5, <1>6, <1>9 DEF Core, Views, PoolGood, SameChan, SamePool
<1>17. IdleGood'
  BY <1>1, <1>3, <1>4, <1>5, <1>6, <1>9 DEF Core, Views, IdleGood, PoolGood, SameIdle, SameChan, SamePool
<1>18. BorrowedGood'
  BY <1>1, <1>3, <1>4, <1>5, <1>6, <1>9 DEF Core, Views, BorrowedGood, PoolGood, SameReq, SameChan, SamePool
<1>19. SharedGood'
  BY <1>1, <1>3, <1>4, <1>5, <1>6, <1>9, <1>8 DEF Core, Views, SharedGood, SameReq, SameConn, SameChan, SameTasks, SamePool, HandlersGood, PoolGood
<1>20. Core'
  BY <1>10, <1>11, <1>12, <1>13, <1>14, <1>15, <1>16, <1>17, <1>18, <1>19 DEF Core
<1>21. DtorGood'
  BY NoDtor
<1> QED  BY <1>3, <1>5, <1>20, <1>21 DEF IInv, TypeOK

LEMMA StartKeeps ==
  ASSUME IInv, NEW r \in Requests, Start(r)
  PROVE  IInv'
<1>1. /\ Pc(r) = "inserted" /\ Bo(r) = req[r].borrowed /\ Ch(r) = conn[r].chan
      /\ Core /\ Views
      /\ UNCHANGED <<conn, pool, st, posted, inFlight, closer, dtor>>
  BY TypedViews DEF Start, Pc, Bo, Ch, IInv
<1>2. Ch(r) \in Chans
  <2>1. Bo(r) # NULL => Ch(r) = Pl(Bo(r)) /\ He(Bo(r)) /\ Bo(r) \in Pooleds
    BY <1>1 DEF Core, Views, RequestsGood, BorrowedGood
  <2> QED  BY <1>1, <2>1 DEF Core, Views, RequestsGood, PoolGood
<1>3. PICK c \in Chans : c = Ch(r) /\ c = conn[r].chan
  BY <1>1, <1>2
<1>4. CASE /\ Bo(r) # NULL /\ chan[c].phase \in {"parked", "down"}
           /\ chan' = [chan EXCEPT ![c].tasks = Append(@, r)]
           /\ req' = [req EXCEPT ![r].pc = "release"]
  <2>1. PICK p \in Pooleds : p = Bo(r)
    BY <1>4, Borrows
  <2> QED  BY <1>1, <1>3, <1>4, <2>1, StartAdopts DEF Ph
<1>5. CASE Bo(r) # NULL /\ req' = [req EXCEPT ![r].pc = "disown"] /\ UNCHANGED chan
  BY <1>1, <1>5, StartFails
<1>6. CASE /\ Bo(r) = NULL /\ chan' = [chan EXCEPT ![c].phase = "opening", ![c].handler = r]
           /\ req' = [req EXCEPT ![r].pc = "check"]
  BY <1>1, <1>3, <1>6, StartOpens
<1>7. CASE Bo(r) = NULL /\ req' = [req EXCEPT ![r].pc = "failed"] /\ UNCHANGED chan
  BY <1>1, <1>7, StartFails
<1> QED  BY <1>1, <1>3, <1>4, <1>5, <1>6, <1>7 DEF Start
-----------------------------------------------------------------------------
(* The event queue of a channel.                                           *)

(* A channel comes up or goes down, or Adopt returns on it.                *)
LEMMA ChannelMoves ==
  ASSUME IInv, NEW c \in Chans,
         \A s \in Requests : SameReq(s) /\ SameConn(s), \A q \in Pooleds : SamePool(q),
         SameIdle, SamePosted, \A x \in Chans \ {c} : SameChan(x),
         Hd(c)' = Hd(c), At(c) \in {"idle", "recheck"}, At(c)' = "idle",
         \A s \in Requests : Adopts(c, s)' <=> Adopts(c, s), Once(c) => Once(c)',
         Quiet(c)' => \A s \in Requests : ~Adopts(c, s),
         \/ Ph(c) = "opening" /\ Ph(c)' = "up" /\ At(c) = "idle"
         \/ Ph(c) \in {"opening", "up", "parked", "down"} /\ Ph(c)' = "down"
  PROVE  Core'
<1>1. Core /\ Views
  BY TypedViews DEF IInv
<1>2. \A s \in Requests : Started(s)' <=> Started(s)
  BY DEF Started, SameReq
<1>3. \A q \in Pooleds : Doomed(q)' <=> Doomed(q)
  BY DEF Doomed, SamePool, SamePosted
<1>4. Hd(c) # NULL /\ ~Busy(c) /\ ~Busy(c)'
  BY <1>1, ConnectorAssumption DEF Core, HandlersGood, Busy
<1>5. RequestsGood'
  BY <1>1, <1>4, <1>2 DEF Core, Views, RequestsGood, SameReq, SameConn, SameChan, SamePool
<1>6. ChannelsOwned'
  BY <1>1, <1>4 DEF Core, Views, ChannelsOwned, SameConn, SameChan
<1>7. HandlersGood'
  BY <1>1, <1>4, <1>2 DEF Core, Views, HandlersGood, SameConn, SameChan, SameTasks, SamePool
<1>8. TasksGood'
  BY <1>1, <1>4, <1>2 DEF Core, Views, TasksGood, SameReq, SameConn, SameChan, SameTasks, SameIdle
<1>9. StepsGood'
  BY <1>1, <1>4, <1>2 DEF Core, Views, StepsGood, Busy, SameConn, SameChan
<1>10. PostedGood'
  BY <1>1, <1>4 DEF Core, Views, PostedGood, PoolGood, SamePosted, SameConn, SameChan, SamePool
<1>11. PoolGood'
  BY <1>1, <1>4 DEF Core, Views, PoolGood, SameChan, SamePool
<1>12. IdleGood'
  BY <1>1, <1>4 DEF Core, Views, IdleGood, PoolGood, SameIdle, SameChan, SamePool
<1>13. BorrowedGood'
  BY <1>1, <1>4 DEF Core, Views, BorrowedGood, PoolGood, SameReq, SameChan, SamePool
<1>14. SharedGood'
  BY <1>1, <1>4, <1>3 DEF Core, Views, SharedGood, SameReq, SameConn, SameChan, SameTasks, SamePool
<1>15. Core'
  BY <1>5, <1>6, <1>7, <1>8, <1>9, <1>10, <1>11, <1>12, <1>13, <1>14 DEF Core
<1> QED  BY <1>15

(* Only what the destructor does not look at changes.                      *)
LEMMA DtorUntouched ==
  ASSUME IInv, dtor' = dtor, st' = st, inFlight' = inFlight,
         \A r \in Requests : SameReq(r) /\ SameConn(r) /\ (Ha(r)' <=> Ha(r))
  PROVE  DtorGood'
<1>1. AllDrainedLocked(conn', st') => AllDrainedLocked(conn, st)
  BY DEF AllDrainedLocked, SameConn, Wh
<1> QED  BY <1>1, DtorKeeps DEF IInv, SameReq, SameConn

LEMMA ChannelFailsKeeps ==
  ASSUME IInv, NEW c \in Chans, ChannelFails(c)
  PROVE  IInv'
<1> DEFINE k == [chan[c] EXCEPT !.phase = "down"]
<1>1. TypeOK /\ chan[c] \in ChanType /\ chan' = [chan EXCEPT ![c] = k]
  BY DEF IInv, TypeOK, ChannelFails
<1>2. k \in ChanType
  BY <1>1, Zenon DEF ChanType
<1>3. /\ k.phase = "down" /\ k.handler = Hd(c) /\ k.step.at = At(c) /\ k.step.r = Sr(c)
      /\ k.tasks = chan[c].tasks
  BY <1>1 DEF ChanType, Hd, At, Sr
<1> HIDE DEF k
<1>4. /\ chan' \in [Chans -> ChanType] /\ BecomesChan(c, k)
      /\ \A x \in Chans \ {c} : SameChan(x)
  BY <1>1, <1>2, ChanChanges
<1>5. /\ Ph(c)' = "down" /\ Hd(c)' = Hd(c) /\ At(c)' = At(c)
      /\ (\A s \in Requests : Adopts(c, s)' <=> Adopts(c, s)) /\ (Once(c) => Once(c)')
      /\ (Quiet(c)' => Quiet(c))
  BY <1>3, <1>4 DEF BecomesChan, Adopts, Once, Quiet
<1>6. At(c) = "idle" /\ Ph(c) \in {"opening", "up", "parked"}
  BY DEF ChannelFails, QueueIdle, At, Ph
<1>7. Quiet(c) => \A s \in Requests : ~Adopts(c, s)
  BY DEF IInv, Core, TasksGood
<1>8. /\ \A s \in Requests : SameReq(s) /\ SameConn(s) /\ (Ha(s)' <=> Ha(s))
      /\ \A q \in Pooleds : SamePool(q)
      /\ SameIdle /\ SamePosted
  BY UnchangedViews DEF ChannelFails, Ha
<1>9. Core'
  BY <1>4, <1>5, <1>6, <1>7, <1>8, ChannelMoves
<1>10. DtorGood'
  BY <1>8, DtorUntouched DEF ChannelFails
<1> QED  BY <1>1, <1>4, <1>9, <1>10 DEF IInv, TypeOK, ChannelFails

LEMMA RunCloseKeeps ==
  ASSUME IInv, NEW c \in Chans, RunClose(c)
  PROVE  IInv'
<1> DEFINE q == chan[c].tasks
           k == [chan[c] EXCEPT !.tasks = Tail(@), !.phase = "down"]
<1>1. /\ TypeOK /\ chan[c] \in ChanType /\ chan' = [chan EXCEPT ![c] = k]
      /\ q \in Seq(TaskType) /\ q # <<>> /\ Head(q) = "close" /\ "close" \notin Requests
  BY ConnectorAssumption DEF IInv, TypeOK, RunClose, ChanType
<1>2. /\ Tail(q) \in Seq(TaskType)
      /\ \A x : Has(Tail(q), x) => Has(q, x)
      /\ \A x : Has(q, x) /\ x # "close" => Has(Tail(q), x)
  BY <1>1, TailFacts
<1>3. SingleIn(q) => SingleIn(Tail(q))
  BY <1>1, TailSingle
<1>4. k \in ChanType
  BY <1>1, <1>2, Zenon DEF ChanType
<1>5. /\ k.phase = "down" /\ k.handler = Hd(c) /\ k.step.at = At(c) /\ k.step.r = Sr(c)
      /\ k.tasks = Tail(q)
  BY <1>1 DEF ChanType, Hd, At, Sr
<1> HIDE DEF k
<1>6. /\ chan' \in [Chans -> ChanType] /\ BecomesChan(c, k)
      /\ \A x \in Chans \ {c} : SameChan(x)
  BY <1>1, <1>4, ChanChanges
<1>7. /\ Ph(c)' = "down" /\ Hd(c)' = Hd(c) /\ At(c)' = At(c)
      /\ (Once(c) => Once(c)') /\ (Quiet(c)' => \A s \in Requests : ~Adopts(c, s)')
  BY <1>3, <1>5, <1>6 DEF BecomesChan, Adopts, Once, Quiet, Has
<1>8. \A s \in Requests : Adopts(c, s)' <=> Adopts(c, s)
  BY <1>1, <1>2, <1>5, <1>6 DEF BecomesChan, Adopts
<1>9. At(c) = "idle" /\ Ph(c) \in {"opening", "up", "parked", "down"}
  <2>1. At(c) = "idle" /\ ~Quiet(c)
    BY <1>1 DEF RunClose, QueueIdle, At, Quiet
  <2> QED  BY <2>1, TypedViews DEF IInv, Core, HandlersGood, Views, Phases
<1>10. /\ \A s \in Requests : SameReq(s) /\ SameConn(s) /\ (Ha(s)' <=> Ha(s))
       /\ \A p \in Pooleds : SamePool(p)
       /\ SameIdle /\ SamePosted
  BY UnchangedViews DEF RunClose, Ha
<1>11. Core'
  BY <1>6, <1>7, <1>8, <1>9, <1>10, ChannelMoves
<1>12. DtorGood'
  BY <1>10, DtorUntouched DEF RunClose
<1> QED  BY <1>1, <1>6, <1>11, <1>12 DEF IInv, TypeOK, RunClose

LEMMA RecheckKeeps ==
  ASSUME IInv, NEW c \in Chans, Recheck(c)
  PROVE  IInv'
<1> DEFINE k == [chan[c] EXCEPT !.step = Idle, !.phase = "down"]
           ch == [chan EXCEPT ![c].step = Idle, ![c].phase = "down"]
<1>1. TypeOK /\ chan[c] \in ChanType
  BY DEF IInv, TypeOK
<1>2. ch = [chan EXCEPT ![c] = k]
  BY <1>1
<1>3. k \in ChanType
  BY <1>1, Zenon DEF ChanType, Idle
<1>4. /\ k.phase = "down" /\ k.handler = Hd(c) /\ k.step.at = "idle" /\ k.tasks = chan[c].tasks
  BY <1>1 DEF ChanType, Hd, Idle
<1>5. chan' = ch \/ \E S : chan' = CloseAll(ch, S)
  BY DEF Recheck, Close
<1> HIDE DEF k, ch
<1>6. /\ chan' \in [Chans -> ChanType] /\ BecomesChan(c, k)
      /\ \A x \in Chans \ {c} : SameChan(x)
  BY <1>1, <1>2, <1>3, <1>5, ChanChanges
<1>7. /\ Ph(c)' = "down" /\ Hd(c)' = Hd(c) /\ At(c)' = "idle"
      /\ (\A s \in Requests : Adopts(c, s)' <=> Adopts(c, s)) /\ (Once(c) => Once(c)')
      /\ (Quiet(c)' => Quiet(c))
  BY <1>4, <1>6 DEF BecomesChan, Adopts, Once, Quiet
<1>8. At(c) = "recheck"
  BY DEF Recheck, At
<1>9. /\ Ph(c) \in {"parked", "down"}
      /\ Quiet(c) => \A s \in Requests : ~Adopts(c, s)
  BY <1>8 DEF IInv, Core, TasksGood, StepsGood
<1>10. /\ \A s \in Requests : SameReq(s) /\ SameConn(s) /\ (Ha(s)' <=> Ha(s))
       /\ \A q \in Pooleds : SamePool(q)
       /\ SameIdle /\ SamePosted
  BY UnchangedViews DEF Recheck, Ha
<1>11. Core'
  BY <1>6, <1>7, <1>8, <1>9, <1>10, ChannelMoves
<1>12. DtorGood'
  BY <1>10, DtorUntouched DEF Recheck
<1> QED  BY <1>1, <1>6, <1>11, <1>12 DEF IInv, TypeOK, Recheck

(* The flags failed_ and done_ of a connection concern nobody else.        *)
LEMMA FlagsKeep ==
  ASSUME IInv, NEW r \in Requests,
         \/ conn' = conn
         \/ conn' = [conn EXCEPT ![r].failed = TRUE]
         \/ conn' = [conn EXCEPT ![r].done = TRUE]
  PROVE  /\ conn' \in [Requests -> ConnType]
         /\ \A s \in Requests : SameConn(s) /\ (Ha(s)' <=> Ha(s))
<1>1. TypeOK /\ conn[r] \in ConnType
  BY DEF IInv, TypeOK
<1>2. CASE conn' = conn
  BY <1>1, <1>2, UnchangedViews DEF TypeOK, Ha
<1>3. ASSUME NEW k \in ConnType, conn' = [conn EXCEPT ![r] = k], k.where = Wh(r), k.chan = Ch(r),
             k.delivered = conn[r].delivered, k.handler = conn[r].handler
      PROVE  /\ conn' \in [Requests -> ConnType]
             /\ \A s \in Requests : SameConn(s) /\ (Ha(s)' <=> Ha(s))
  BY <1>1, <1>3, ConnChanges DEF SameConn, Dl, Ha
<1>4. CASE conn' = [conn EXCEPT ![r].failed = TRUE]
  <2> DEFINE k == [conn[r] EXCEPT !.failed = TRUE]
  <2>1. k \in ConnType
    BY <1>1, Zenon DEF ConnType
  <2>2. /\ k.where = Wh(r) /\ k.chan = Ch(r) /\ k.delivered = conn[r].delivered
        /\ k.handler = conn[r].handler /\ conn' = [conn EXCEPT ![r] = k]
    BY <1>1, <1>4 DEF ConnType, Wh, Ch
  <2> HIDE DEF k
  <2> QED  BY <1>3, <2>1, <2>2
<1>5. CASE conn' = [conn EXCEPT ![r].done = TRUE]
  <2> DEFINE k == [conn[r] EXCEPT !.done = TRUE]
  <2>1. k \in ConnType
    BY <1>1, Zenon DEF ConnType
  <2>2. /\ k.where = Wh(r) /\ k.chan = Ch(r) /\ k.delivered = conn[r].delivered
        /\ k.handler = conn[r].handler /\ conn' = [conn EXCEPT ![r] = k]
    BY <1>1, <1>5 DEF ConnType, Wh, Ch
  <2> HIDE DEF k
  <2> QED  BY <1>3, <2>1, <2>2
<1> QED  BY <1>2, <1>4, <1>5

(* A response or a failure that ends in Close.                             *)
LEMMA FlaggedAndClosed ==
  ASSUME IInv, NEW c \in Chans, NEW r \in Requests, chan' = Close(chan, c),
         \/ conn' = [conn EXCEPT ![r].failed = TRUE]
         \/ conn' = [conn EXCEPT ![r].done = TRUE],
         UNCHANGED <<req, pool, st, posted, inFlight, closer, dtor>>
  PROVE  IInv'
<1>1. TypeOK /\ Core /\ Views
  BY TypedViews DEF IInv
<1>2. chan' \in [Chans -> ChanType] /\ \A x \in Chans : SameChan(x)
  BY <1>1, ClosingKeeps DEF Close
<1>3. /\ conn' \in [Requests -> ConnType]
      /\ \A s \in Requests : SameConn(s) /\ (Ha(s)' <=> Ha(s))
  BY FlagsKeep
<1>4. /\ \A s \in Requests : SameReq(s)
      /\ \A q \in Pooleds : SamePool(q)
      /\ SameIdle /\ SamePosted
  BY UnchangedViews
<1>5. Core'
  BY <1>1, <1>2, <1>3, <1>4, CoreStutters
<1>6. DtorGood'
  BY <1>3, <1>4, DtorUntouched
<1> QED  BY <1>1, <1>2, <1>3, <1>5, <1>6 DEF IInv, TypeOK

LEMMA HandlerKnown ==
  ASSUME IInv, NEW c \in Chans, Ph(c) \in {"opening", "up"}
  PROVE  \E r \in Requests : r = Hd(c) /\ r = chan[c].handler
BY DEF IInv, Core, HandlersGood, Hd

LEMMA OnRequestFailedKeeps ==
  ASSUME IInv, NEW c \in Chans, OnRequestFailed(c)
  PROVE  IInv'
<1>1. PICK r \in Requests : r = Hd(c) /\ r = chan[c].handler
  BY HandlerKnown DEF OnRequestFailed, Ph
<1> QED  BY <1>1, FlaggedAndClosed DEF OnRequestFailed

LEMMA OnChannelReadyKeeps ==
  ASSUME IInv, NEW c \in Chans, OnChannelReady(c)
  PROVE  IInv'
<1> DEFINE k == [chan[c] EXCEPT !.phase = "up"]
           ch == [chan EXCEPT ![c].phase = "up"]
<1>1. TypeOK /\ chan[c] \in ChanType /\ Ph(c) = "opening" /\ At(c) = "idle"
  BY DEF IInv, TypeOK, OnChannelReady, Ph, At, QueueIdle
<1>2. PICK r \in Requests : r = Hd(c) /\ r = chan[c].handler
  BY <1>1, HandlerKnown
<1>3. ch = [chan EXCEPT ![c] = k] /\ k \in ChanType
  <2>1. k \in ChanType
    BY <1>1, Zenon DEF ChanType
  <2> QED  BY <1>1, <2>1
<1>4. /\ k.phase = "up" /\ k.handler = Hd(c) /\ k.step.at = At(c) /\ k.step.r = Sr(c)
      /\ k.tasks = chan[c].tasks
  BY <1>1 DEF ChanType, Hd, At, Sr
<1>5. /\ chan' = ch \/ \E S : chan' = CloseAll(ch, S)
      /\ conn' = conn \/ conn' = [conn EXCEPT ![r].failed = TRUE]
  BY <1>2 DEF OnChannelReady, ChannelReady, Close
<1> HIDE DEF k, ch
<1>6. /\ chan' \in [Chans -> ChanType] /\ BecomesChan(c, k)
      /\ \A x \in Chans \ {c} : SameChan(x)
  BY <1>1, <1>3, <1>5, ChanChanges
<1>7. /\ Ph(c)' = "up" /\ Hd(c)' = Hd(c) /\ At(c)' = At(c)
      /\ (\A s \in Requests : Adopts(c, s)' <=> Adopts(c, s)) /\ (Once(c) => Once(c)')
      /\ (Quiet(c)' => Quiet(c))
  BY <1>4, <1>6 DEF BecomesChan, Adopts, Once, Quiet
<1>8. Quiet(c) => \A s \in Requests : ~Adopts(c, s)
  BY DEF IInv, Core, TasksGood
<1>9. /\ conn' \in [Requests -> ConnType]
      /\ \A s \in Requests : SameConn(s) /\ (Ha(s)' <=> Ha(s))
  BY <1>5, FlagsKeep
<1>10. /\ \A s \in Requests : SameReq(s)
       /\ \A q \in Pooleds : SamePool(q)
       /\ SameIdle /\ SamePosted
  BY UnchangedViews DEF OnChannelReady
<1>11. Core'
  BY <1>1, <1>6, <1>7, <1>8, <1>9, <1>10, ChannelMoves
<1>12. DtorGood'
  BY <1>9, <1>10, DtorUntouched DEF OnChannelReady
<1> QED  BY <1>1, <1>6, <1>9, <1>11, <1>12 DEF IInv, TypeOK, OnChannelReady

(* _DeliverOnce: a request is told when it was not told before, and not    *)
(* once the destructor has cut it off.                                     *)
LEMMA DeliverViews ==
  ASSUME IInv, NEW c \in Chans, NEW r \in Requests, NEW next, NEW ch,
         DeliverOnce(c, r, next, ch), Started(r), Wh(r) = "conns", st' = st, dtor' = dtor
  PROVE  /\ chan' = [ch EXCEPT ![c].step = [at |-> next, r |-> r]]
         /\ req' \in [Requests -> RequestType] /\ conn' \in [Requests -> ConnType]
         /\ inFlight' \subseteq Threads
         /\ \A s \in Requests \ {r} : SameReq(s) /\ SameConn(s)
         /\ Pc(r)' = Pc(r) /\ Bo(r)' = Bo(r) /\ Re(r)' = Re(r)
         /\ To(r)' = To(r) \/ (To(r) = 0 /\ To(r)' = 1)
         /\ Wh(r)' = Wh(r) /\ Ch(r)' = Ch(r) /\ Dl(r)'
         /\ DtorGood'
<1>1. TypeOK /\ conn[r] \in ConnType /\ req[r] \in RequestType /\ Core /\ DtorGood
  BY DEF IInv, TypeOK
<1>2. /\ conn' \in [Requests -> ConnType] /\ Wh(r)' = Wh(r) /\ Ch(r)' = Ch(r) /\ Dl(r)'
      /\ (Ha(r)' <=> Ha(r)) /\ \A s \in Requests \ {r} : SameConn(s) /\ (Ha(s)' <=> Ha(s))
  <2> DEFINE k == [conn[r] EXCEPT !.delivered = TRUE]
  <2>1. k \in ConnType
    BY <1>1, Zenon DEF ConnType
  <2>2. /\ k.where = Wh(r) /\ k.chan = Ch(r) /\ k.delivered /\ k.handler = conn[r].handler
        /\ conn' = [conn EXCEPT ![r] = k]
    BY <1>1 DEF ConnType, Wh, Ch, DeliverOnce
  <2> HIDE DEF k
  <2> QED  BY <1>1, <2>1, <2>2, ConnChanges DEF Ha
<1>3. CASE ~(~conn[r].delivered /\ conn[r].handler)
  <2>1. req' = req /\ inFlight' = inFlight
    BY <1>3 DEF DeliverOnce
  <2>2. \A s \in Requests : SameReq(s)
    BY <2>1, UnchangedViews
  <2>3. AllDrainedLocked(conn', st') => AllDrainedLocked(conn, st)
    BY <1>2 DEF AllDrainedLocked, SameConn, Wh
  <2>4. DtorGood'
    BY <1>1, <1>2, <2>1, <2>2, <2>3, DtorKeeps DEF SameReq, SameConn
  <2> QED  BY <1>1, <1>2, <2>1, <2>2, <2>4 DEF TypeOK, DeliverOnce, SameReq
<1>4. CASE ~conn[r].delivered /\ conn[r].handler
  <2>1. /\ req' = [req EXCEPT ![r].told = @ + 1] /\ inFlight' = inFlight \cup {c}
        /\ chan' = [ch EXCEPT ![c].step = [at |-> next, r |-> r]]
    BY <1>4 DEF DeliverOnce
  <2>2. To(r) = 0
    BY <1>1, <1>4 DEF Core, RequestsGood, Dl
  <2> DEFINE k == [req[r] EXCEPT !.told = @ + 1]
  <2>3. k \in RequestType /\ k.pc = Pc(r) /\ k.borrowed = Bo(r) /\ k.result = Re(r) /\ k.told = 1
    <3>1. req[r].told = 0 /\ 0 + 1 \in Nat /\ 0 + 1 = 1
      BY <2>2 DEF To
    <3>2. k \in RequestType
      BY <1>1, <3>1, Zenon DEF RequestType
    <3> QED  BY <1>1, <3>1, <3>2 DEF RequestType, Pc, Bo, Re
  <2>4. req' = [req EXCEPT ![r] = k]
    BY <2>1
  <2> HIDE DEF k
  <2>5. /\ req' \in [Requests -> RequestType]
        /\ Pc(r)' = Pc(r) /\ Bo(r)' = Bo(r) /\ Re(r)' = Re(r) /\ To(r)' = 1
        /\ \A s \in Requests \ {r} : SameReq(s)
    BY <1>1, <2>3, <2>4, ReqChanges
  <2>6. inFlight' \subseteq Threads
    BY <1>1, <2>1 DEF TypeOK, Threads
  <2>7. dtor.pc # "done"
    BY <1>1, <1>4 DEF DtorGood, Ha
  <2>8. AllDrainedLocked(conn', st') => AllDrainedLocked(conn, st)
    BY <1>2 DEF AllDrainedLocked, SameConn, Wh
  <2>9. DtorGood'
    BY <1>1, <1>2, <2>5, <2>7, <2>8, DtorKeeps DEF SameReq, SameConn
  <2> QED  BY <1>2, <2>1, <2>2, <2>5, <2>6, <2>9
<1> QED  BY <1>3, <1>4

(* The queue thread delivers, and goes on with the connection.             *)
LEMMA DeliverCore ==
  ASSUME IInv, NEW c \in Chans, NEW r \in Requests, Started(r), Wh(r) = "conns",
         \A s \in Requests \ {r} : SameReq(s) /\ SameConn(s),
         Pc(r)' = Pc(r), Bo(r)' = Bo(r), Re(r)' = Re(r),
         To(r)' = To(r) \/ (To(r) = 0 /\ To(r)' = 1),
         Wh(r)' = Wh(r), Ch(r)' = Ch(r), Dl(r)',
         \A q \in Pooleds : SamePool(q), SameIdle, SamePosted,
         \A x \in Chans \ {c} : SameChan(x), SameTasks(c), Sr(c)' = r,
         \/ /\ At(c) = "idle" /\ At(c)' = "park" /\ Hd(c) = r
            /\ Ph(c) = "up" /\ Ph(c)' = "up" /\ Hd(c)' = r
         \/ /\ At(c) = "idle" /\ At(c)' = "detach" /\ Hd(c) = r /\ Quiet(c)
            /\ Ph(c) = "down" /\ Ph(c)' = "over" /\ Hd(c)' = NULL
         \/ /\ At(c) \in {"reopen", "closing"} /\ At(c)' = "giveUp" /\ Sr(c) = r
            /\ Ph(c)' = Ph(c) /\ Hd(c)' = Hd(c)
  PROVE  Core'
<1>1. Core /\ Views /\ NULL \notin Requests \cup Pooleds /\ r \notin Pooleds
  BY TypedViews, ConnectorAssumption DEF IInv
<1>2. \A s \in Requests : Started(s)' <=> Started(s)
  BY DEF Started, SameReq
<1>3. \A q \in Pooleds : Doomed(q)' <=> Doomed(q)
  BY DEF Doomed, SamePool, SamePosted
<1>4. \A x \in Chans \ {c} : Busy(x) => Sr(x) # r
  <2> SUFFICES ASSUME NEW x \in Chans \ {c}, Busy(x), Sr(x) = r PROVE FALSE
    OBVIOUS
  <2>1. CASE At(c) \in {"reopen", "closing"}
    BY <1>1, <2>1 DEF Core, StepsGood, Busy
  <2>2. CASE At(c) = "idle"
    <3>1. Ch(r) = c /\ Hd(c) = r /\ Ph(c) \in {"up", "down"}
      BY <1>1, <2>2 DEF Core, HandlersGood
    <3>2. At(x) \in {"park", "discard", "detach", "giveUp", "closing", "reopen"}
      BY <1>1 DEF Busy, Views, Places
    <3>3. CASE At(x) = "park"
      BY <1>1, <3>1, <3>3 DEF Core, StepsGood, HandlersGood
    <3>4. CASE At(x) # "park"
      BY <1>1, <3>1, <3>2, <3>4, ConnectorAssumption DEF Core, StepsGood
    <3> QED  BY <3>3, <3>4
  <2> QED  BY <2>1, <2>2
<1>5. CASE At(c)' = "park"
  <2>5. RequestsGood'
    BY <1>1, <1>4, <1>5, <1>2 DEF Core, Views, RequestsGood, SameReq, SameConn, SameChan, SamePool
  <2>6. ChannelsOwned'
    BY <1>1, <1>4, <1>5 DEF Core, Views, ChannelsOwned, SameConn, SameChan
  <2>7. HandlersGood'
    BY <1>1, <1>4, <1>5, <1>2 DEF Core, Views, HandlersGood, SameConn, SameChan, SameTasks, SamePool
  <2>8. TasksGood'
    BY <1>1, <1>4, <1>5, <1>2 DEF Core, Views, TasksGood, SameReq, SameConn, SameChan, SameTasks, SameIdle
  <2>9. StepsGood'
    BY <1>1, <1>4, <1>5, <1>2 DEF Core, Views, StepsGood, Busy, SameConn, SameChan
  <2>10. PostedGood'
    BY <1>1, <1>4, <1>5 DEF Core, Views, PostedGood, PoolGood, SamePosted, SameConn, SameChan, SamePool
  <2>11. PoolGood'
    BY <1>1, <1>4, <1>5 DEF Core, Views, PoolGood, SameChan, SamePool
  <2>12. IdleGood'
    BY <1>1, <1>4, <1>5 DEF Core, Views, IdleGood, PoolGood, SameIdle, SameChan, SamePool
  <2>13. BorrowedGood'
    BY <1>1, <1>4, <1>5 DEF Core, Views, BorrowedGood, PoolGood, SameReq, SameChan, SamePool
  <2>14. SharedGood'
    BY <1>1, <1>4, <1>5, <1>3 DEF Core, Views, SharedGood, SameReq, SameConn, SameChan, SameTasks, SamePool
  <2>15. Core'
    BY <2>5, <2>6, <2>7, <2>8, <2>9, <2>10, <2>11, <2>12, <2>13, <2>14 DEF Core
  <2> QED  BY <2>15
<1>6. CASE At(c)' = "detach"
  <2>4. /\ Ch(r) = c /\ (\A s \in Requests \ {r} : Ch(s) # c) /\ ~Queued("conn", r)
        /\ (\A s \in Requests : ~Adopts(c, s)) /\ Quiet(c)'
        /\ \A q \in Pooleds : ~Doomed(q) \/ Pl(q) # c
    <3>1. Ch(r) = c /\ ~Queued("conn", r) /\ (\A s \in Requests : ~Adopts(c, s))
      BY <1>1, <1>6 DEF Core, HandlersGood, TasksGood, PostedGood
    <3>2. (\A s \in Requests \ {r} : Ch(s) # c) /\ Quiet(c)'
      BY <1>1, <1>6, <3>1, ConnectorAssumption DEF Core, ChannelsOwned, SameTasks
    <3> QED  BY <1>1, <1>6, <3>1, <3>2, DoomedOver
  <2>5. RequestsGood'
    BY <1>1, <1>4, <1>6, <2>4, <1>2 DEF Core, Views, RequestsGood, SameReq, SameConn, SameChan, SamePool
  <2>6. ChannelsOwned'
    BY <1>1, <1>4, <1>6, <2>4 DEF Core, Views, ChannelsOwned, SameConn, SameChan
  <2>7. HandlersGood'
    BY <1>1, <1>4, <1>6, <2>4, <1>2 DEF Core, Views, HandlersGood, SameConn, SameChan, SameTasks, SamePool
  <2>8. TasksGood'
    BY <1>1, <1>4, <1>6, <2>4, <1>2 DEF Core, Views, TasksGood, SameReq, SameConn, SameChan, SameTasks, SameIdle
  <2>9. StepsGood'
    BY <1>1, <1>4, <1>6, <2>4, <1>2 DEF Core, Views, StepsGood, Busy, SameConn, SameChan
  <2>10. PostedGood'
    BY <1>1, <1>4, <1>6, <2>4 DEF Core, Views, PostedGood, PoolGood, SamePosted, SameConn, SameChan, SamePool
  <2>11. PoolGood'
    BY <1>1, <1>4, <1>6, <2>4 DEF Core, Views, PoolGood, SameChan, SamePool
  <2>12. IdleGood'
    BY <1>1, <1>4, <1>6, <2>4 DEF Core, Views, IdleGood, PoolGood, SameIdle, SameChan, SamePool
  <2>13. BorrowedGood'
    BY <1>1, <1>4, <1>6, <2>4 DEF Core, Views, BorrowedGood, PoolGood, SameReq, SameChan, SamePool
  <2>14. SharedGood'
    BY <1>1, <1>4, <1>6, <2>4, <1>3 DEF Core, Views, SharedGood, SameReq, SameConn, SameChan, SameTasks, SamePool
  <2>15. Core'
    BY <2>5, <2>6, <2>7, <2>8, <2>9, <2>10, <2>11, <2>12, <2>13, <2>14 DEF Core
  <2> QED  BY <2>15
<1>7. CASE At(c)' = "giveUp"
  <2>5. RequestsGood'
    BY <1>1, <1>4, <1>7, <1>2 DEF Core, Views, RequestsGood, SameReq, SameConn, SameChan, SamePool
  <2>6. ChannelsOwned'
    BY <1>1, <1>4, <1>7 DEF Core, Views, ChannelsOwned, SameConn, SameChan
  <2>7. HandlersGood'
    BY <1>1, <1>4, <1>7, <1>2 DEF Core, Views, HandlersGood, SameConn, SameChan, SameTasks, SamePool
  <2>8. TasksGood'
    BY <1>1, <1>4, <1>7, <1>2 DEF Core, Views, TasksGood, SameReq, SameConn, SameChan, SameTasks, SameIdle
  <2>9. StepsGood'
    BY <1>1, <1>4, <1>7, <1>2 DEF Core, Views, StepsGood, Busy, SameConn, SameChan
  <2>10. PostedGood'
    BY <1>1, <1>4, <1>7 DEF Core, Views, PostedGood, PoolGood, SamePosted, SameConn, SameChan, SamePool
  <2>11. PoolGood'
    BY <1>1, <1>4, <1>7 DEF Core, Views, PoolGood, SameChan, SamePool
  <2>12. IdleGood'
    BY <1>1, <1>4, <1>7 DEF Core, Views, IdleGood, PoolGood, SameIdle, SameChan, SamePool
  <2>13. BorrowedGood'
    BY <1>1, <1>4, <1>7 DEF Core, Views, BorrowedGood, PoolGood, SameReq, SameChan, SamePool
  <2>14. SharedGood'
    BY <1>1, <1>4, <1>7, <1>3 DEF Core, Views, SharedGood, SameReq, SameConn, SameChan, SameTasks, SamePool
  <2>15. Core'
    BY <2>5, <2>6, <2>7, <2>8, <2>9, <2>10, <2>11, <2>12, <2>13, <2>14 DEF Core
  <2> QED  BY <2>15
<1> QED  BY <1>5, <1>6, <1>7

LEMMA OnResponseKeeps ==
  ASSUME IInv, NEW c \in Chans, OnResponse(c)
  PROVE  IInv'
<1>1. TypeOK /\ chan[c] \in ChanType /\ Ph(c) = "up" /\ At(c) = "idle"
  BY DEF IInv, TypeOK, OnResponse, Ph, At, QueueIdle
<1>2. PICK r \in Requests : r = Hd(c) /\ r = chan[c].handler
  BY <1>1, HandlerKnown
<1>3. CASE /\ conn' = [conn EXCEPT ![r].done = TRUE] /\ chan' = Close(chan, c)
           /\ UNCHANGED <<req, inFlight>>
  BY <1>3, FlaggedAndClosed DEF OnResponse
<1>4. CASE DeliverOnce(c, r, "park", chan)
  <2>1. Started(r) /\ Wh(r) = "conns"
    BY <1>2 DEF IInv, Core, HandlersGood
  <2>2. UNCHANGED <<pool, st, posted, closer, dtor>>
    BY DEF OnResponse
  <2>3. /\ chan' = [chan EXCEPT ![c].step = [at |-> "park", r |-> r]]
        /\ req' \in [Requests -> RequestType] /\ conn' \in [Requests -> ConnType]
        /\ inFlight' \subseteq Threads
        /\ \A s \in Requests \ {r} : SameReq(s) /\ SameConn(s)
        /\ Pc(r)' = Pc(r) /\ Bo(r)' = Bo(r) /\ Re(r)' = Re(r)
        /\ To(r)' = To(r) \/ (To(r) = 0 /\ To(r)' = 1)
        /\ Wh(r)' = Wh(r) /\ Ch(r)' = Ch(r) /\ Dl(r)'
        /\ DtorGood'
    BY <1>4, <2>1, <2>2, DeliverViews
  <2> DEFINE k == [chan[c] EXCEPT !.step = [at |-> "park", r |-> r]]
  <2>4. k \in ChanType
    BY <1>1, Zenon DEF ChanType
  <2>5. /\ k.phase = Ph(c) /\ k.handler = Hd(c) /\ k.step.at = "park" /\ k.step.r = r
        /\ k.tasks = chan[c].tasks /\ chan' = [chan EXCEPT ![c] = k]
    BY <1>1, <2>3 DEF ChanType, Hd, Ph
  <2> HIDE DEF k
  <2>6. /\ chan' \in [Chans -> ChanType] /\ BecomesChan(c, k)
        /\ \A x \in Chans \ {c} : SameChan(x)
    BY <1>1, <2>4, <2>5, ChanChanges
  <2>7. Ph(c)' = "up" /\ Hd(c)' = r /\ At(c)' = "park" /\ Sr(c)' = r /\ SameTasks(c)
    BY <1>1, <1>2, <2>5, <2>6 DEF BecomesChan, SameTasks, Adopts, Once, Quiet
  <2>8. (\A q \in Pooleds : SamePool(q)) /\ SameIdle /\ SamePosted
    BY <2>2, UnchangedViews
  <2>9. Core'
    BY <1>1, <1>2, <2>1, <2>3, <2>6, <2>7, <2>8, DeliverCore
  <2> QED  BY <1>1, <2>2, <2>3, <2>6, <2>9 DEF IInv, TypeOK
<1> QED  BY <1>2, <1>3, <1>4 DEF OnResponse

LEMMA OnConnClosedKeeps ==
  ASSUME IInv, NEW c \in Chans, OnConnClosed(c)
  PROVE  IInv'
<1> DEFINE ch == [chan EXCEPT ![c].phase = "over", ![c].handler = NULL]
<1>1. TypeOK /\ chan[c] \in ChanType /\ Ph(c) = "down" /\ At(c) = "idle" /\ Quiet(c)
  BY DEF IInv, TypeOK, OnConnClosed, Ph, At, QueueIdle, Quiet
<1>2. PICK r \in Requests : r = Hd(c) /\ r = chan[c].handler
  BY DEF OnConnClosed, Hd
<1>3. DeliverOnce(c, r, "detach", ch) /\ UNCHANGED <<pool, st, posted, closer, dtor>>
  BY <1>2 DEF OnConnClosed
<1>4. Started(r) /\ Wh(r) = "conns"
  BY <1>2 DEF IInv, Core, HandlersGood
<1>5. /\ chan' = [ch EXCEPT ![c].step = [at |-> "detach", r |-> r]]
      /\ req' \in [Requests -> RequestType] /\ conn' \in [Requests -> ConnType]
      /\ inFlight' \subseteq Threads
      /\ \A s \in Requests \ {r} : SameReq(s) /\ SameConn(s)
      /\ Pc(r)' = Pc(r) /\ Bo(r)' = Bo(r) /\ Re(r)' = Re(r)
      /\ To(r)' = To(r) \/ (To(r) = 0 /\ To(r)' = 1)
      /\ Wh(r)' = Wh(r) /\ Ch(r)' = Ch(r) /\ Dl(r)'
      /\ DtorGood'
  <2> HIDE DEF ch
  <2> QED  BY <1>3, <1>4, DeliverViews
<1> DEFINE k == [chan[c] EXCEPT !.phase = "over", !.handler = NULL, !.step = [at |-> "detach", r |-> r]]
<1>6. k \in ChanType
  BY <1>1, Zenon DEF ChanType
<1>7. /\ k.phase = "over" /\ k.handler = NULL /\ k.step.at = "detach" /\ k.step.r = r
      /\ k.tasks = chan[c].tasks /\ chan' = [chan EXCEPT ![c] = k]
  BY <1>1, <1>5 DEF ChanType
<1> HIDE DEF k, ch
<1>8. /\ chan' \in [Chans -> ChanType] /\ BecomesChan(c, k)
      /\ \A x \in Chans \ {c} : SameChan(x)
  BY <1>1, <1>6, <1>7, ChanChanges
<1>9. Ph(c)' = "over" /\ Hd(c)' = NULL /\ At(c)' = "detach" /\ Sr(c)' = r /\ SameTasks(c)
  BY <1>1, <1>7, <1>8 DEF BecomesChan, SameTasks, Adopts, Once, Quiet
<1>10. (\A q \in Pooleds : SamePool(q)) /\ SameIdle /\ SamePosted
  BY <1>3, UnchangedViews
<1>11. Core'
  BY <1>1, <1>2, <1>4, <1>5, <1>8, <1>9, <1>10, DeliverCore
<1> QED  BY <1>1, <1>3, <1>5, <1>8, <1>11 DEF IInv, TypeOK

(* A failed adoption: the queue of one channel opens another.              *)
LEMMA TwoChannels ==
  ASSUME TypeOK, NEW c \in Chans, NEW f \in Chans, c # f, NEW k \in ChanType, NEW j \in ChanType,
         NEW ch, ch = [chan EXCEPT ![f] = j], chan' = [ch EXCEPT ![c] = k]
  PROVE  /\ chan' \in [Chans -> ChanType] /\ BecomesChan(c, k) /\ BecomesChan(f, j)
         /\ \A x \in Chans \ {c, f} : SameChan(x)
<1>1. ch \in [Chans -> ChanType] /\ ch[f] = j /\ ch[c] = chan[c] /\ \A x \in Chans \ {f} : ch[x] = chan[x]
  BY DEF TypeOK
<1>2. /\ chan' \in [Chans -> ChanType] /\ chan'[c] = k /\ chan'[f] = j
      /\ \A x \in Chans \ {c, f} : chan'[x] = chan[x]
  BY <1>1
<1>3. BecomesChan(c, k) /\ BecomesChan(f, j)
  BY <1>2, ClosedViews DEF Closed
<1>4. \A x \in Chans \ {c, f} : SameChan(x)
  BY <1>2, SameByClosing DEF Closed
<1> QED  BY <1>2, <1>3, <1>4

LEMMA ReopenCore ==
  ASSUME IInv, NEW c \in Chans, NEW r \in Requests, NEW f \in Chans,
         At(c) = "reopen", Sr(c) = r, Ch(r) = f,
         \A x \in Chans \ {c, f} : SameChan(x),
         Ph(c)' = Ph(c), Hd(c)' = Hd(c), At(c)' = "recheck", Sr(c)' = r, SameTasks(c),
         Ph(f)' = "opening", Hd(f)' = r, At(f)' = At(f), Sr(f)' = Sr(f),
         \A s \in Requests : Adopts(f, s)' <=> Adopts(f, s), Once(f) => Once(f)', Quiet(f)' => Quiet(f),
         \A s \in Requests : SameReq(s) /\ SameConn(s), \A q \in Pooleds : SamePool(q),
         SameIdle, SamePosted
  PROVE  Core'
<1>1. Core /\ Views /\ NULL \notin Chans
  BY TypedViews, ConnectorAssumption DEF IInv
<1>2. /\ Ph(f) = "new" /\ Ph(c) \in {"parked", "down"} /\ Hd(c) \in Pooleds /\ c # f
      /\ Started(r) /\ Wh(r) = "conns"
  BY <1>1 DEF Core, StepsGood, Busy
<1>3. \A s \in Requests : Started(s)' <=> Started(s)
  BY DEF Started, SameReq
<1>4. \A q \in Pooleds : Doomed(q)' <=> Doomed(q)
  BY DEF Doomed, SamePool, SamePosted
<1>5. /\ Hd(f) = NULL /\ Quiet(f) /\ r \notin Pooleds /\ ~Queued("conn", r)
      /\ \A s \in Requests \ {r} : Ch(s) # f
      /\ \A q \in Pooleds : Li(q) = "live" => Pl(q) # f
      /\ \A s \in Requests : ~Adopts(f, s)
      /\ \A x \in Chans \ {c} : Busy(x) => Sr(x) # r
      /\ At(f) \notin {"park", "reopen", "closing", "giveUp", "recheck"}
  BY <1>1, <1>2, ConnectorAssumption DEF Core, HandlersGood, ChannelsOwned, PoolGood, TasksGood, StepsGood, PostedGood, Busy
<1>6. \A q \in Pooleds : Doomed(q) => Pl(q) # f
  BY <1>1, <1>2, DoomedOver
<1>7. /\ \A x \in Chans \ {f} : Ph(x)' = Ph(x)
      /\ Pc(r) \notin {"inserted", "disown", "failed"}
      /\ \A s \in Requests \ {r} : Ch(s) # NULL => Ph(Ch(s))' = Ph(Ch(s))
  <2>1. \A x \in Chans \ {f} : Ph(x)' = Ph(x)
    BY DEF SameChan
  <2>2. \A s \in Requests \ {r} : Ch(s) # NULL => Ph(Ch(s))' = Ph(Ch(s))
    BY <1>1, <1>5, <2>1 DEF Views, SameConn
  <2> QED  BY <1>2, <2>1, <2>2 DEF Started
<1>8. RequestsGood'
  BY <1>1, <1>2, <1>3, <1>5, <1>7 DEF Core, Views, RequestsGood, SameReq, SameConn, SamePool
<1>9. ChannelsOwned'
  BY <1>1, <1>2, <1>5, <1>6 DEF Core, Views, ChannelsOwned, SameConn, SameChan
<1>10. HandlersGood'
  BY <1>1, <1>2, <1>5, <1>6, <1>3 DEF Core, Views, HandlersGood, SameConn, SameChan, SameTasks, SamePool
<1>11. TasksGood'
  BY <1>1, <1>2, <1>5, <1>6, <1>3 DEF Core, Views, TasksGood, SameReq, SameConn, SameChan, SameTasks, SameIdle
<1>12. StepsGood'
  BY <1>1, <1>2, <1>5, <1>6, <1>3 DEF Core, Views, StepsGood, Busy, SameConn, SameChan
<1>13. PostedGood'
  BY <1>1, <1>2, <1>5, <1>6 DEF Core, Views, PostedGood, PoolGood, SamePosted, SameConn, SameChan, SamePool
<1>14. PoolGood'
  BY <1>1, <1>2, <1>5, <1>6 DEF Core, Views, PoolGood, SameChan, SamePool
<1>15. IdleGood'
  BY <1>1, <1>2, <1>5, <1>6 DEF Core, Views, IdleGood, PoolGood, SameIdle, SameChan, SamePool
<1>16. BorrowedGood'
  BY <1>1, <1>2, <1>5, <1>6 DEF Core, Views, BorrowedGood, PoolGood, SameReq, SameChan, SamePool
<1>17. SharedGood'
  BY <1>1, <1>2, <1>5, <1>6, <1>4 DEF Core, Views, SharedGood, SameReq, SameConn, SameChan, SameTasks, SamePool
<1>18. Core'
  BY <1>8, <1>9, <1>10, <1>11, <1>12, <1>13, <1>14, <1>15, <1>16, <1>17 DEF Core
<1> QED  BY <1>18

LEMMA ReopenKeeps ==
  ASSUME IInv, NEW c \in Chans, Reopen(c)
  PROVE  IInv'
<1>1. Core /\ Views /\ TypeOK /\ At(c) \in {"reopen", "closing"} /\ chan[c] \in ChanType
  BY TypedViews DEF IInv, TypeOK, Reopen, At
<1>2. /\ Sr(c) \in Requests /\ Started(Sr(c)) /\ Wh(Sr(c)) = "conns" /\ Ch(Sr(c)) \in Chans
      /\ Ph(c) \in {"parked", "down"}
  BY <1>1 DEF Core, Views, StepsGood, Busy
<1>3. PICK r \in Requests : r = Sr(c) /\ r = chan[c].step.r
  BY <1>2 DEF Sr
<1>4. PICK f \in Chans : f = Ch(r) /\ f = conn[r].chan
  BY <1>2, <1>3 DEF Ch
<1>5. UNCHANGED <<pool, st, posted, closer, dtor>>
  BY DEF Reopen
<1>6. CASE /\ At(c) = "reopen"
           /\ chan' = [[chan EXCEPT ![f].phase = "opening", ![f].handler = r]
                         EXCEPT ![c].step = [at |-> "recheck", r |-> r]]
           /\ UNCHANGED <<req, conn, inFlight>>
  <2> DEFINE k == [chan[c] EXCEPT !.step = [at |-> "recheck", r |-> r]]
             j == [chan[f] EXCEPT !.phase = "opening", !.handler = r]
             ch == [chan EXCEPT ![f].phase = "opening", ![f].handler = r]
  <2>1. chan[f] \in ChanType /\ c # f
    BY <1>1, <1>3, <1>4 DEF TypeOK, Core, StepsGood
  <2>2. ch = [chan EXCEPT ![f] = j] /\ ch[c] = chan[c]
    BY <1>1, <2>1 DEF TypeOK
  <2>3. chan' = [ch EXCEPT ![c] = k]
    BY <1>6, <2>2
  <2>4. k \in ChanType /\ j \in ChanType
    BY <1>1, <2>1, Zenon DEF ChanType
  <2>5. /\ k.phase = Ph(c) /\ k.handler = Hd(c) /\ k.step.at = "recheck" /\ k.step.r = r
        /\ k.tasks = chan[c].tasks
    BY <1>1 DEF ChanType, Ph, Hd
  <2>6. /\ j.phase = "opening" /\ j.handler = r /\ j.step.at = At(f) /\ j.step.r = Sr(f)
        /\ j.tasks = chan[f].tasks
    BY <2>1 DEF ChanType, At, Sr
  <2> HIDE DEF k, j, ch
  <2>7. /\ chan' \in [Chans -> ChanType] /\ BecomesChan(c, k) /\ BecomesChan(f, j)
        /\ \A x \in Chans \ {c, f} : SameChan(x)
    BY <1>1, <2>1, <2>2, <2>3, <2>4, TwoChannels
  <2>8. Ph(c)' = Ph(c) /\ Hd(c)' = Hd(c) /\ At(c)' = "recheck" /\ Sr(c)' = r /\ SameTasks(c)
    BY <2>5, <2>7 DEF BecomesChan, SameTasks, Adopts, Once, Quiet, Ph
  <2>9. /\ Ph(f)' = "opening" /\ Hd(f)' = r /\ At(f)' = At(f) /\ Sr(f)' = Sr(f)
        /\ (\A s \in Requests : Adopts(f, s)' <=> Adopts(f, s)) /\ (Once(f) => Once(f)')
        /\ (Quiet(f)' => Quiet(f))
    BY <2>6, <2>7 DEF BecomesChan, Adopts, Once, Quiet
  <2>10. /\ \A s \in Requests : SameReq(s) /\ SameConn(s) /\ (Ha(s)' <=> Ha(s))
         /\ \A q \in Pooleds : SamePool(q)
         /\ SameIdle /\ SamePosted
    BY <1>5, <1>6, UnchangedViews DEF Ha
  <2>11. Core'
    BY <1>3, <1>4, <1>6, <2>7, <2>8, <2>9, <2>10, ReopenCore
  <2>12. DtorGood'
    BY <1>5, <1>6, <2>10, DtorUntouched
  <2> QED  BY <1>1, <1>5, <1>6, <2>7, <2>11, <2>12 DEF IInv, TypeOK
<1>7. CASE DeliverOnce(c, r, "giveUp", chan)
  <2>1. /\ chan' = [chan EXCEPT ![c].step = [at |-> "giveUp", r |-> r]]
        /\ req' \in [Requests -> RequestType] /\ conn' \in [Requests -> ConnType]
        /\ inFlight' \subseteq Threads
        /\ \A s \in Requests \ {r} : SameReq(s) /\ SameConn(s)
        /\ Pc(r)' = Pc(r) /\ Bo(r)' = Bo(r) /\ Re(r)' = Re(r)
        /\ To(r)' = To(r) \/ (To(r) = 0 /\ To(r)' = 1)
        /\ Wh(r)' = Wh(r) /\ Ch(r)' = Ch(r) /\ Dl(r)'
        /\ DtorGood'
    BY <1>2, <1>3, <1>5, <1>7, DeliverViews
  <2> DEFINE k == [chan[c] EXCEPT !.step = [at |-> "giveUp", r |-> r]]
  <2>2. k \in ChanType
    BY <1>1, Zenon DEF ChanType
  <2>3. /\ k.phase = Ph(c) /\ k.handler = Hd(c) /\ k.step.at = "giveUp" /\ k.step.r = r
        /\ k.tasks = chan[c].tasks /\ chan' = [chan EXCEPT ![c] = k]
    BY <1>1, <2>1 DEF ChanType, Hd, Ph
  <2> HIDE DEF k
  <2>4. /\ chan' \in [Chans -> ChanType] /\ BecomesChan(c, k)
        /\ \A x \in Chans \ {c} : SameChan(x)
    BY <1>1, <2>2, <2>3, ChanChanges
  <2>5. Ph(c)' = Ph(c) /\ Hd(c)' = Hd(c) /\ At(c)' = "giveUp" /\ Sr(c)' = r /\ SameTasks(c)
    BY <2>3, <2>4 DEF BecomesChan, SameTasks, Adopts, Once, Quiet, Ph
  <2>6. (\A q \in Pooleds : SamePool(q)) /\ SameIdle /\ SamePosted
    BY <1>5, UnchangedViews
  <2>7. Core'
    BY <1>1, <1>2, <1>3, <2>1, <2>4, <2>5, <2>6, DeliverCore
  <2> QED  BY <1>1, <1>5, <2>1, <2>4, <2>7 DEF IInv, TypeOK
<1> QED  BY <1>3, <1>4, <1>6, <1>7 DEF Reopen, At

(* The connection changes its channel.                                     *)
LEMMA ChannelChanged ==
  ASSUME IInv, NEW r \in Requests, NEW f \in Chans \cup {NULL}, conn' = [conn EXCEPT ![r].chan = f]
  PROVE  /\ conn' \in [Requests -> ConnType]
         /\ Wh(r)' = Wh(r) /\ Ch(r)' = f /\ (Dl(r)' <=> Dl(r)) /\ (Ha(r)' <=> Ha(r))
         /\ \A s \in Requests \ {r} : SameConn(s) /\ (Ha(s)' <=> Ha(s))
<1> DEFINE k == [conn[r] EXCEPT !.chan = f]
<1>1. TypeOK /\ conn[r] \in ConnType
  BY DEF IInv, TypeOK
<1>2. k \in ConnType
  BY <1>1, Zenon DEF ConnType
<1>3. /\ k.where = Wh(r) /\ k.chan = f /\ k.delivered = conn[r].delivered
      /\ k.handler = conn[r].handler /\ conn' = [conn EXCEPT ![r] = k]
  BY <1>1 DEF ConnType, Wh
<1> HIDE DEF k
<1> QED  BY <1>1, <1>2, <1>3, ConnChanges DEF Dl, Ha

LEMMA AdoptFailedKeeps ==
  ASSUME IInv, NEW c \in Chans, AdoptFailed(c)
  PROVE  IInv'
<1>1. /\ Core /\ Views /\ TypeOK /\ chan[c] \in ChanType /\ NULL \notin Chans /\ At(c) = "idle"
      /\ chan[c].tasks \in Seq(TaskType) /\ chan[c].tasks # <<>>
      /\ UNCHANGED <<req, pool, st, posted, inFlight, closer, dtor>>
  BY TypedViews, ConnectorAssumption DEF IInv, TypeOK, AdoptFailed, ChanType, QueueIdle, At
<1>2. PICK r \in Requests : r = Head(chan[c].tasks)
  BY DEF AdoptFailed
<1>3. PICK v \in {"closing", "reopen"}, f \in Chans :
        /\ Ph(f) = "none" /\ conn' = [conn EXCEPT ![r].chan = f]
        /\ chan' = [[chan EXCEPT ![f].phase = "new"]
                      EXCEPT ![c].tasks = Tail(@), ![c].step = [at |-> v, r |-> r]]
  <2>1. PICK f \in FreshChan :
          /\ conn' = [conn EXCEPT ![r].chan = f]
          /\ LET ch == [chan EXCEPT ![f].phase = "new"]
             IN  chan' = [ch EXCEPT ![c].tasks = Tail(@),
                   ![c].step = [at |-> IF st.closing THEN "closing" ELSE "reopen", r |-> r]]
    BY <1>2 DEF AdoptFailed
  <2>2. f \in Chans /\ Ph(f) = "none"
    BY DEF FreshChan, Some, Ph
  <2>3. CASE st.closing
    BY <2>1, <2>2, <2>3
  <2>4. CASE ~st.closing
    BY <2>1, <2>2, <2>4
  <2> QED  BY <2>3, <2>4
<1> DEFINE k == [chan[c] EXCEPT !.tasks = Tail(@), !.step = [at |-> v, r |-> r]]
           j == [chan[f] EXCEPT !.phase = "new"]
           ch == [chan EXCEPT ![f].phase = "new"]
<1>4. /\ Has(chan[c].tasks, r) /\ Tail(chan[c].tasks) \in Seq(TaskType)
      /\ \A x : Has(Tail(chan[c].tasks), x) => Has(chan[c].tasks, x)
  BY <1>1, <1>2, TailFacts
<1>5. /\ Adopts(c, r) /\ ~Quiet(c) /\ Once(c) /\ Started(r) /\ Ch(r) = c /\ Wh(r) = "conns"
      /\ Hd(c) \in Pooleds
  BY <1>1, <1>4 DEF Core, TasksGood, Adopts, Quiet
<1>6. Ph(c) \in {"parked", "down"} /\ c # f /\ Hd(c) \notin Requests
  BY <1>1, <1>3, <1>5, ConnectorAssumption DEF Core, HandlersGood, Views, Phases
<1>7. SingleIn(Tail(chan[c].tasks)) /\ ~Has(Tail(chan[c].tasks), r)
  BY <1>1, <1>2, <1>5, TailSingle DEF Once
<1>8. \A s \in Requests : ~Has(Tail(chan[c].tasks), s)
  BY <1>1, <1>4, <1>5, <1>7 DEF Core, TasksGood, ChannelsOwned, Adopts
<1>9. chan[f] \in ChanType /\ ch = [chan EXCEPT ![f] = j] /\ ch[c] = chan[c]
  BY <1>1, <1>6 DEF TypeOK
<1>10. chan' = [ch EXCEPT ![c] = k]
  BY <1>3, <1>9
<1>11. k \in ChanType /\ j \in ChanType
  <2>1. k \in ChanType
    BY <1>1, <1>4, Zenon DEF ChanType
  <2>2. j \in ChanType
    BY <1>9, Zenon DEF ChanType
  <2> QED  BY <2>1, <2>2
<1>12. /\ k.phase = Ph(c) /\ k.handler = Hd(c) /\ k.step.at = v /\ k.step.r = r
       /\ k.tasks = Tail(chan[c].tasks)
  BY <1>1 DEF ChanType, Ph, Hd
<1>13. /\ j.phase = "new" /\ j.handler = Hd(f) /\ j.step.at = At(f) /\ j.step.r = Sr(f)
       /\ j.tasks = chan[f].tasks
  BY <1>9 DEF ChanType, Hd, At, Sr
<1> HIDE DEF k, j, ch
<1>14. /\ chan' \in [Chans -> ChanType] /\ BecomesChan(c, k) /\ BecomesChan(f, j)
       /\ \A x \in Chans \ {c, f} : SameChan(x)
  BY <1>1, <1>6, <1>9, <1>10, <1>11, TwoChannels
<1>15. /\ Ph(c)' = Ph(c) /\ Hd(c)' = Hd(c) /\ At(c)' = v /\ Sr(c)' = r
       /\ (\A s \in Requests : ~Adopts(c, s)') /\ Once(c)'
  BY <1>7, <1>8, <1>12, <1>14 DEF BecomesChan
<1>16. /\ Ph(f)' = "new" /\ Hd(f)' = Hd(f) /\ At(f)' = At(f) /\ Sr(f)' = Sr(f)
       /\ (\A s \in Requests : Adopts(f, s)' <=> Adopts(f, s)) /\ (Once(f) => Once(f)')
       /\ (Quiet(f)' <=> Quiet(f))
  BY <1>13, <1>14 DEF BecomesChan, Adopts, Once, Quiet
<1>17. /\ conn' \in [Requests -> ConnType]
       /\ Wh(r)' = Wh(r) /\ Ch(r)' = f /\ (Dl(r)' <=> Dl(r)) /\ (Ha(r)' <=> Ha(r))
       /\ \A s \in Requests \ {r} : SameConn(s) /\ (Ha(s)' <=> Ha(s))
  BY <1>3, ChannelChanged
<1>18. /\ \A s \in Requests : SameReq(s)
       /\ \A q \in Pooleds : SamePool(q)
       /\ SameIdle /\ SamePosted
  BY <1>1, UnchangedViews
<1>19. \A s \in Requests : Started(s)' <=> Started(s)
  BY <1>18 DEF Started, SameReq
<1>20. \A q \in Pooleds : Doomed(q)' <=> Doomed(q)
  BY <1>18 DEF Doomed, SamePool, SamePosted
<1>21. /\ Hd(f) = NULL /\ Quiet(f) /\ NULL \notin Pooleds /\ ~Queued("conn", r)
       /\ \A s \in Requests : Ch(s) # f
       /\ \A s \in Requests \ {r} : Ch(s) # c
       /\ \A q \in Pooleds : Li(q) = "live" => Pl(q) # f
       /\ \A s \in Requests : ~Adopts(f, s)
       /\ \A x \in Chans \ {c} : ~Adopts(x, r)
       /\ \A x \in Chans : Hd(x) # r
       /\ At(f) \notin {"park", "reopen", "closing", "giveUp", "recheck"}
  BY <1>1, <1>3, <1>5, <1>6, ConnectorAssumption DEF Core, HandlersGood, ChannelsOwned, PoolGood, TasksGood, StepsGood, PostedGood
<1>22. \A x \in Chans : Busy(x) => Sr(x) # r
  <2> SUFFICES ASSUME NEW x \in Chans, Busy(x), Sr(x) = r PROVE FALSE
    OBVIOUS
  <2>1. At(x) \in {"park", "discard", "detach", "giveUp", "closing", "reopen"}
    BY <1>1 DEF Busy, Views, Places
  <2>2. At(x) # "park"
    BY <1>1, <1>21 DEF Core, StepsGood
  <2> QED  BY <1>1, <1>5, <1>6, <2>1, <2>2 DEF Core, StepsGood
<1>23. \A q \in Pooleds : Doomed(q) => Pl(q) # f
  BY <1>1, <1>3, DoomedOver
<1>24. /\ \A x \in Chans \ {f} : Ph(x)' = Ph(x)
       /\ \A x \in Chans : Hd(x)' = Hd(x)
       /\ Pc(r) \notin {"inserted", "disown", "failed"}
       /\ \A s \in Requests \ {r} : Ch(s) # NULL => Ph(Ch(s))' = Ph(Ch(s))
  <2>1. (\A x \in Chans \ {f} : Ph(x)' = Ph(x)) /\ \A x \in Chans : Hd(x)' = Hd(x)
    BY <1>14, <1>15, <1>16 DEF SameChan
  <2>2. \A s \in Requests \ {r} : Ch(s) # NULL => Ph(Ch(s))' = Ph(Ch(s))
    BY <1>1, <1>17, <1>21, <2>1 DEF Views, SameConn
  <2> QED  BY <1>5, <2>1, <2>2 DEF Started
<1>25. RequestsGood'
  BY <1>1, <1>5, <1>17, <1>18, <1>19, <1>24 DEF Core, Views, RequestsGood, SameReq, SameConn, SamePool
<1>26. ChannelsOwned'
  BY <1>1, <1>3, <1>5, <1>6, <1>14, <1>15, <1>16, <1>17, <1>18, <1>21, <1>22, <1>23 DEF Core, Views, ChannelsOwned, SameConn, SameChan
<1>27. HandlersGood'
  <2> SUFFICES ASSUME NEW x \in Chans
               PROVE  /\ Ph(x)' \in {"none", "new", "over", "freed"} => Hd(x)' = NULL /\ Quiet(x)'
                      /\ Ph(x)' \in {"opening", "up"} => Hd(x)' \in Requests
                      /\ Ph(x)' = "parked" => Hd(x)' \in Pooleds
                      /\ Ph(x)' = "down" => Hd(x)' # NULL
                      /\ Hd(x) \in Requests => Ch(Hd(x))' = x /\ Wh(Hd(x))' = "conns" /\ Started(Hd(x))'
                      /\ Hd(x) \in Pooleds => Pl(Hd(x))' = x /\ Li(Hd(x))' = "live" /\ Pe(Hd(x))' = "none"
    BY <1>24 DEF HandlersGood
  <2>1. /\ Hd(x) \in Requests => Ch(Hd(x))' = x /\ Wh(Hd(x))' = "conns" /\ Started(Hd(x))'
        /\ Hd(x) \in Pooleds => Pl(Hd(x))' = x /\ Li(Hd(x))' = "live" /\ Pe(Hd(x))' = "none"
    BY <1>1, <1>17, <1>18, <1>19, <1>21, <1>24 DEF Core, HandlersGood, SameConn, SamePool
  <2>2. CASE x = c
    BY <1>5, <1>6, <1>15, <2>1, <2>2, ConnectorAssumption
  <2>3. CASE x = f
    BY <1>16, <1>21, <2>1, <2>3
  <2>4. CASE x \in Chans \ {c, f}
    BY <1>1, <1>14, <2>1, <2>4 DEF Core, HandlersGood, SameChan, SameTasks
  <2> QED  BY <2>2, <2>3, <2>4
<1>28. TasksGood'
  BY <1>1, <1>3, <1>5, <1>6, <1>14, <1>15, <1>16, <1>17, <1>18, <1>21, <1>22, <1>23, <1>19 DEF Core, Views, TasksGood, SameReq, SameConn, SameChan, SameTasks, SameIdle
<1>29. StepsGood'
  <2>1. \A x \in Chans \ {c} : At(x)' = At(x) /\ Sr(x)' = Sr(x) /\ (Busy(x)' <=> Busy(x))
    BY <1>14, <1>16 DEF SameChan, Busy
  <2>2. Busy(c)' /\ Sr(c)' = r
    BY <1>3, <1>15 DEF Busy
  <2>3. \A x, y \in Chans : Busy(x)' /\ Busy(y)' /\ Sr(x)' = Sr(y)' => x = y
    BY <1>1, <1>22, <2>1, <2>2 DEF Core, StepsGood
  <2>4. ASSUME NEW x \in Chans
        PROVE  /\ At(x)' # "idle" => Sr(x)' \in Requests
               /\ Busy(x)' => Started(Sr(x)) ' /\ Wh(Sr(x))' = "conns"
               /\ At(x)' = "park" => Ph(x)' = "up" /\ Hd(x)' = Sr(x)'
               /\ At(x)' \in {"detach", "discard"} =>
                    Ch(Sr(x))' = NULL \/ (Ch(Sr(x))' = x /\ Ph(x)' = "over")
               /\ At(x)' \in {"reopen", "closing", "giveUp"} =>
                    Ch(Sr(x))' # NULL /\ Ph(Ch(Sr(x)))' = "new"
               /\ At(x)' \in {"reopen", "closing", "giveUp", "recheck"} =>
                    Ph(x)' \in {"parked", "down"} /\ Hd(x)' \in Pooleds
    <3>1. CASE x = c
      BY <1>1, <1>3, <1>5, <1>6, <1>15, <1>16, <1>17, <1>19, <3>1
    <3>2. CASE x # c
      <4>1. /\ At(x)' = At(x) /\ Sr(x)' = Sr(x) /\ Hd(x)' = Hd(x) /\ (Busy(x) => Sr(x) # r)
            /\ (Busy(x)' <=> Busy(x)) /\ (Ph(x)' = Ph(x) \/ x = f)
        BY <1>22, <1>24, <2>1, <3>2
      <4>2. At(x) # "idle" => Sr(x) \in Requests
        BY <1>1 DEF Core, StepsGood
      <4>3. CASE ~Busy(x)
        BY <1>1, <1>21, <4>1, <4>2, <4>3 DEF Core, StepsGood, Busy
      <4>4. CASE Busy(x)
        <5>1. PICK s \in Requests \ {r} : s = Sr(x)
          BY <4>1, <4>2, <4>4 DEF Busy
        <5>2. Ch(s)' = Ch(s) /\ Wh(s)' = Wh(s) /\ (Started(s)' <=> Started(s))
          BY <1>17, <1>19, <5>1 DEF SameConn
        <5> QED  BY <1>1, <1>21, <1>24, <4>1, <4>4, <5>1, <5>2 DEF Core, StepsGood
      <4> QED  BY <4>3, <4>4
    <3> QED  BY <3>1, <3>2
  <2> QED  BY <2>3, <2>4 DEF StepsGood
<1>30. PostedGood'
  BY <1>1, <1>3, <1>5, <1>6, <1>14, <1>15, <1>16, <1>17, <1>18, <1>21, <1>22, <1>23 DEF Core, Views, PostedGood, PoolGood, SamePosted, SameConn, SameChan, SamePool
<1>31. PoolGood'
  BY <1>1, <1>3, <1>5, <1>6, <1>14, <1>15, <1>16, <1>17, <1>18, <1>21, <1>22, <1>23 DEF Core, Views, PoolGood, SameChan, SamePool
<1>32. IdleGood'
  BY <1>1, <1>3, <1>5, <1>6, <1>14, <1>15, <1>16, <1>17, <1>18, <1>21, <1>22, <1>23 DEF Core, Views, IdleGood, PoolGood, SameIdle, SameChan, SamePool
<1>33. BorrowedGood'
  BY <1>1, <1>3, <1>5, <1>6, <1>14, <1>15, <1>16, <1>17, <1>18, <1>21, <1>22, <1>23 DEF Core, Views, BorrowedGood, PoolGood, SameReq, SameChan, SamePool
<1>34. SharedGood'
  BY <1>1, <1>3, <1>5, <1>6, <1>14, <1>15, <1>16, <1>17, <1>18, <1>21, <1>22, <1>23, <1>20 DEF Core, Views, SharedGood, SameReq, SameConn, SameChan, SameTasks, SamePool
<1>35. Core'
  BY <1>25, <1>26, <1>27, <1>28, <1>29, <1>30, <1>31, <1>32, <1>33, <1>34 DEF Core
<1>36. DtorGood'
  <2>1. AllDrainedLocked(conn', st') => AllDrainedLocked(conn, st)
    BY <1>1, <1>17 DEF AllDrainedLocked, SameConn, Wh
  <2> QED  BY <1>1, <1>17, <1>18, <2>1, DtorKeeps DEF IInv, SameReq, SameConn
<1> QED  BY <1>1, <1>14, <1>17, <1>35, <1>36 DEF IInv, TypeOK

LEMMA AppendDistinct ==
  ASSUME NEW q \in Seq(Pooleds), NEW e \in Pooleds, Distinct(q), ~Has(q, e)
  PROVE  Distinct(Append(q, e))
<1>1. /\ DOMAIN Append(q, e) = 1..(Len(q) + 1) /\ DOMAIN q = 1..Len(q) /\ Len(q) \in Nat
      /\ Append(q, e)[Len(q) + 1] = e /\ \A i \in 1..Len(q) : Append(q, e)[i] = q[i]
  OBVIOUS
<1> QED  BY <1>1 DEF Distinct, Has

(* The response was delivered: the channel goes to the pool.               *)
LEMMA ReturnCore ==
  ASSUME IInv, NEW c \in Chans, NEW r \in Requests, NEW p \in Pooleds,
         At(c) = "park", Sr(c) = r, Li(p) = "none",
         \A s \in Requests : SameReq(s), \A s \in Requests \ {r} : SameConn(s),
         Wh(r)' = Wh(r), Ch(r)' = NULL, Dl(r)' <=> Dl(r),
         \A x \in Chans \ {c} : SameChan(x), SameTasks(c),
         Ph(c)' = "parked", Hd(c)' = p, At(c)' \in {"detach", "discard"}, Sr(c)' = r,
         \A q \in Pooleds \ {p} : SamePool(q), Pl(p)' = c, He(p)' <=> He(p), Pe(p)' = Pe(p),
         Li(p)' = "live", SamePosted, IdleOnce',
         \A q \in Pooleds : InIdle(q)' => InIdle(q) \/ q = p
  PROVE  Core'
<1>1. Core /\ Views /\ NULL \notin Chans \cup Requests \cup Pooleds /\ r \notin Pooleds /\ p \notin Requests
  BY TypedViews, ConnectorAssumption DEF IInv
<1>2. \A s \in Requests : Started(s)' <=> Started(s)
  BY DEF Started, SameReq
<1>3. /\ Ph(c) = "up" /\ Hd(c) = r /\ Ch(r) = c /\ Wh(r) = "conns" /\ Started(r)
      /\ ~He(p) /\ Pe(p) = "none" /\ ~Queued("closed", p) /\ ~Queued("detached", p) /\ ~InIdle(p)
      /\ ~Queued("conn", r)
  BY <1>1 DEF Core, StepsGood, HandlersGood, PoolGood, PostedGood, IdleGood
<1>4. /\ \A s \in Requests : Bo(s) # p
      /\ \A s \in Requests \ {r} : Ch(s) # c
      /\ \A s \in Requests : ~Adopts(c, s)
      /\ \A x \in Chans : Hd(x) # p /\ ~Adopts(x, r) /\ (x # c => Hd(x) # r)
      /\ \A q \in Pooleds : InIdle(q) => Pl(q) # c
      /\ \A s \in Requests : Bo(s) # NULL /\ Pc(s) # "release" => Pl(Bo(s)) # c
  <2>1. /\ \A s \in Requests : Bo(s) # p
        /\ \A s \in Requests \ {r} : Ch(s) # c
        /\ \A s \in Requests : ~Adopts(c, s)
        /\ \A x \in Chans : Hd(x) # p /\ (x # c => Hd(x) # r)
        /\ \A q \in Pooleds : InIdle(q) => Pl(q) # c
    BY <1>1, <1>3 DEF Core, BorrowedGood, ChannelsOwned, TasksGood, HandlersGood, IdleGood
  <2>2. \A x \in Chans : ~Adopts(x, r)
    BY <1>1, <1>3, <2>1 DEF Core, TasksGood
  <2>3. \A s \in Requests : Bo(s) # NULL /\ Pc(s) # "release" => Pl(Bo(s)) # c
    BY <1>1, <1>3 DEF Core, Views, BorrowedGood, PoolGood
  <2> QED  BY <2>1, <2>2, <2>3
<1>5. \A q \in Pooleds : (Doomed(q)' <=> Doomed(q)) /\ (Doomed(q) => q # p /\ Pl(q) # c)
  <2>1. ~Doomed(p) /\ ~Doomed(p)'
    BY <1>3 DEF Doomed, SamePosted
  <2>2. \A q \in Pooleds \ {p} : Doomed(q)' <=> Doomed(q)
    BY DEF Doomed, SamePool, SamePosted
  <2> QED  BY <1>1, <1>3, <2>1, <2>2, DoomedOver
<1>6. \A x \in Chans \ {c} : Busy(x) => Sr(x) # r
  BY <1>1 DEF Core, StepsGood, Busy
<1>7. RequestsGood'
  BY <1>1, <1>3, <1>4, <1>6, <1>2 DEF Core, Views, RequestsGood, SameReq, SameConn, SameChan, SamePool
<1>8. ChannelsOwned'
  BY <1>1, <1>3, <1>4, <1>6 DEF Core, Views, ChannelsOwned, SameConn, SameChan
<1>9. HandlersGood'
  BY <1>1, <1>3, <1>4, <1>6, <1>2 DEF Core, Views, HandlersGood, SameConn, SameChan, SameTasks, SamePool
<1>10. TasksGood'
  BY <1>1, <1>3, <1>4, <1>6, <1>2 DEF Core, Views, TasksGood, SameReq, SameConn, SameChan, SameTasks, SameIdle
<1>11. StepsGood'
  BY <1>1, <1>3, <1>4, <1>6, <1>2 DEF Core, Views, StepsGood, Busy, SameConn, SameChan
<1>12. PostedGood'
  BY <1>1, <1>3, <1>4, <1>6 DEF Core, Views, PostedGood, PoolGood, SamePosted, SameConn, SameChan, SamePool
<1>13. PoolGood'
  BY <1>1, <1>3, <1>4, <1>6 DEF Core, Views, PoolGood, SameChan, SamePool
<1>14. IdleGood'
  BY <1>1, <1>3, <1>4, <1>6 DEF Core, Views, IdleGood, PoolGood, SameIdle, SameChan, SamePool
<1>15. BorrowedGood'
  BY <1>1, <1>3, <1>4, <1>6 DEF Core, Views, BorrowedGood, PoolGood, SameReq, SameChan, SamePool
<1>16. SharedGood'
  BY <1>1, <1>3, <1>4, <1>6, <1>5 DEF Core, Views, SharedGood, SameReq, SameConn, SameChan, SameTasks, SamePool
<1>17. Core'
  BY <1>7, <1>8, <1>9, <1>10, <1>11, <1>12, <1>13, <1>14, <1>15, <1>16 DEF Core
<1> QED  BY <1>17

LEMMA ReturnToPoolKeeps ==
  ASSUME IInv, NEW c \in Chans, ReturnToPool(c)
  PROVE  IInv'
<1>1. Core /\ Views /\ TypeOK /\ At(c) = "park" /\ chan[c] \in ChanType /\ NULL \in Chans \cup {NULL}
  BY TypedViews DEF IInv, TypeOK, ReturnToPool, At
<1>2. PICK r \in Requests : r = Sr(c) /\ r = chan[c].step.r
  BY <1>1 DEF Core, StepsGood, Sr
<1>3. PICK p \in Pooleds, v \in {"detach", "discard"} :
        /\ Li(p) = "none"
        /\ pool' = [pool EXCEPT ![p].chan = c, ![p].life = "live"]
        /\ chan' = [chan EXCEPT ![c] = [@ EXCEPT !.phase = "parked", !.handler = p,
                                                 !.step = [at |-> v, r |-> r]]]
        /\ conn' = [conn EXCEPT ![r].chan = NULL]
        /\ st' = st \/ st' = [st EXCEPT !.idle = Append(@, p)]
  <2> DEFINE keep == ~st.closing /\ ~st.abandoned /\ Len(st.idle) < MaxIdle
  <2>1. PICK p \in FreshPooled :
          /\ pool' = [pool EXCEPT ![p].chan = c, ![p].life = "live"]
          /\ chan' = [chan EXCEPT ![c] = [@ EXCEPT !.phase = "parked", !.handler = p,
                        !.step = [at |-> IF keep THEN "detach" ELSE "discard", r |-> r]]]
          /\ conn' = [conn EXCEPT ![r].chan = NULL]
          /\ st' = IF keep THEN [st EXCEPT !.idle = Append(@, p)] ELSE st
    BY <1>2 DEF ReturnToPool
  <2> HIDE DEF keep
  <2>2. p \in Pooleds /\ Li(p) = "none"
    BY DEF FreshPooled, Some, Li
  <2>3. CASE keep
    BY <2>1, <2>2, <2>3
  <2>4. CASE ~keep
    BY <2>1, <2>2, <2>4
  <2> QED  BY <2>3, <2>4
<1> DEFINE k == [chan[c] EXCEPT !.phase = "parked", !.handler = p, !.step = [at |-> v, r |-> r]]
           d == [pool[p] EXCEPT !.chan = c, !.life = "live"]
<1>4. k \in ChanType
  BY <1>1, Zenon DEF ChanType
<1>5. /\ k.phase = "parked" /\ k.handler = p /\ k.step.at = v /\ k.step.r = r
      /\ k.tasks = chan[c].tasks /\ chan' = [chan EXCEPT ![c] = k]
  BY <1>1, <1>3 DEF ChanType
<1>6. pool[p] \in PooledType /\ pool' = [pool EXCEPT ![p] = d]
  BY <1>1, <1>3 DEF TypeOK
<1>7. d \in PooledType
  BY <1>6, Zenon DEF PooledType
<1>8. d.chan = c /\ d.held = pool[p].held /\ d.pending = Pe(p) /\ d.life = "live"
  BY <1>6 DEF PooledType, Pe
<1> HIDE DEF k, d
<1>9. /\ chan' \in [Chans -> ChanType] /\ BecomesChan(c, k)
      /\ \A x \in Chans \ {c} : SameChan(x)
  BY <1>1, <1>4, <1>5, ChanChanges
<1>10. Ph(c)' = "parked" /\ Hd(c)' = p /\ At(c)' = v /\ Sr(c)' = r /\ SameTasks(c)
  <2>1. Ph(c) = "up"
    BY <1>1 DEF Core, StepsGood
  <2> QED  BY <1>5, <1>9, <2>1 DEF BecomesChan, SameTasks, Adopts, Once, Quiet
<1>11. /\ pool' \in [Pooleds -> PooledType]
       /\ Pl(p)' = c /\ (He(p)' <=> He(p)) /\ Pe(p)' = Pe(p) /\ Li(p)' = "live"
       /\ \A q \in Pooleds \ {p} : SamePool(q)
  BY <1>1, <1>6, <1>7, <1>8, PoolChanges DEF He
<1>12. /\ conn' \in [Requests -> ConnType]
       /\ Wh(r)' = Wh(r) /\ Ch(r)' = NULL /\ (Dl(r)' <=> Dl(r)) /\ (Ha(r)' <=> Ha(r))
       /\ \A s \in Requests \ {r} : SameConn(s) /\ (Ha(s)' <=> Ha(s))
  BY <1>1, <1>3, ChannelChanged
<1>13. /\ st' \in StateType /\ IdleOnce' /\ (\A q \in Pooleds : InIdle(q)' => InIdle(q) \/ q = p)
       /\ st'.closing = st.closing /\ st'.handler = st.handler /\ st'.abandoned = st.abandoned
       /\ st'.notified = st.notified
  <2>1. st \in StateType /\ st.idle \in Seq(Pooleds) /\ Distinct(st.idle) /\ ~Has(st.idle, p)
    BY <1>1, <1>3 DEF TypeOK, StateType, Core, IdleGood, IdleOnce, InIdle
  <2>2. CASE st' = st
    BY <2>1, <2>2 DEF IdleOnce, InIdle
  <2>3. CASE st' = [st EXCEPT !.idle = Append(@, p)]
    <3>1. /\ Append(st.idle, p) \in Seq(Pooleds) /\ Distinct(Append(st.idle, p))
          /\ \A x : Has(Append(st.idle, p), x) <=> Has(st.idle, x) \/ x = p
      BY <2>1, AppendHas, AppendDistinct
    <3>2. st' \in StateType
      BY <2>1, <2>3, <3>1, Zenon DEF StateType
    <3>3. /\ st'.idle = Append(st.idle, p) /\ st'.notified = st.notified
          /\ st'.closing = st.closing /\ st'.handler = st.handler /\ st'.abandoned = st.abandoned
      BY <2>1, <2>3 DEF StateType
    <3> QED  BY <3>1, <3>2, <3>3 DEF IdleOnce, InIdle
  <2> QED  BY <1>3, <2>2, <2>3
<1>14. (\A s \in Requests : SameReq(s)) /\ SamePosted /\ UNCHANGED <<req, posted, inFlight, closer, dtor>>
  BY UnchangedViews DEF ReturnToPool
<1>15. Core'
  BY <1>1, <1>2, <1>3, <1>9, <1>10, <1>11, <1>12, <1>13, <1>14, ReturnCore
<1>16. DtorGood'
  <2>1. Wh(r) = "conns"
    BY <1>1, <1>2 DEF Core, StepsGood, Busy
  <2>2. ~AllDrainedLocked(conn', st')
    BY <1>12, <2>1 DEF AllDrainedLocked, Wh
  <2> QED  BY <1>12, <1>13, <1>14, <2>2, DtorKeeps DEF IInv, SameReq, SameConn
<1> QED  BY <1>1, <1>9, <1>11, <1>12, <1>13, <1>14, <1>15, <1>16 DEF IInv, TypeOK

(* A connection is posted for deletion.                                    *)
LEMMA ScheduleConn ==
  ASSUME IInv, NEW r \in Requests, ~Queued("conn", r),
         posted' = Append(posted, [kind |-> "conn", of |-> r])
  PROVE  /\ posted' \in Seq(DeathType) /\ (QueuedOnce => QueuedOnce')
         /\ \A k, x : Queued(k, x)' <=> Queued(k, x) \/ (k = "conn" /\ x = r)
<1> DEFINE e == [kind |-> "conn", of |-> r]
<1>1. posted \in Seq(DeathType) /\ e \in DeathType /\ posted' = Append(posted, e)
  BY DEF IInv, TypeOK, DeathType
<1>2. /\ posted' \in Seq(DeathType)
      /\ \A x : Has(posted', x) <=> Has(posted, x) \/ x = e
  BY <1>1, AppendHas
<1>3. ASSUME NEW i \in DOMAIN posted, posted[i].of = r PROVE FALSE
  <2>1. posted[i] \in DeathType
    BY <1>1
  <2>2. posted[i] \in [kind : {"conn"}, of : Requests]
    BY <1>3, <2>1, ConnectorAssumption DEF DeathType
  <2>3. posted[i] = e
    BY <1>3, <2>2
  <2> QED  BY <1>3, <2>3 DEF Queued, Has
<1>4. QueuedOnce => QueuedOnce'
  BY <1>1, <1>3, AppendDeaths DEF QueuedOnce
<1>5. \A k, x : [kind |-> k, of |-> x] = e <=> k = "conn" /\ x = r
  OBVIOUS
<1> QED  BY <1>2, <1>4, <1>5 DEF Queued

LEMMA DetachCore ==
  ASSUME IInv, NEW c \in Chans, NEW r \in Requests, At(c) \in {"detach", "discard", "giveUp"}, Sr(c) = r,
         \A s \in Requests : SameReq(s), \A s \in Requests \ {r} : SameConn(s),
         Wh(r)' = "destroying", Ch(r)' = Ch(r), Dl(r)' <=> Dl(r),
         \A x \in Chans \ {c} : SameChan(x), SameTasks(c), Hd(c)' = Hd(c), At(c)' = "idle",
         Ph(c)' = Ph(c) \/ (Ph(c)' = "down" /\ Ph(c) \in {"parked", "down"}),
         \A q \in Pooleds : SamePool(q), SameIdle, QueuedOnce',
         \A k, x : Queued(k, x)' <=> Queued(k, x) \/ (k = "conn" /\ x = r)
  PROVE  Core'
<1>1. Core /\ Views /\ NULL \notin Chans \cup Requests \cup Pooleds /\ r \notin Pooleds
  BY TypedViews, ConnectorAssumption DEF IInv
<1>2. \A s \in Requests : Started(s)' <=> Started(s)
  BY DEF Started, SameReq
<1>3. \A q \in Pooleds : (Doomed(q)' <=> Doomed(q)) /\ \A k \in {"closed", "detached"} : Queued(k, q)' <=> Queued(k, q)
  BY DEF Doomed, SamePool
<1>4. /\ Wh(r) = "conns" /\ Started(r) /\ ~Queued("conn", r) /\ Busy(c) /\ ~Busy(c)'
      /\ \A x \in Chans \ {c} : Busy(x) => Sr(x) # r
  BY <1>1 DEF Core, StepsGood, PostedGood, Busy
<1>5. /\ Ch(r) # NULL => Ph(Ch(r)) \in {"over", "new"}
      /\ \A x \in Chans : Hd(x) # r /\ ~Adopts(x, r)
  <2>1. Ch(r) # NULL => Ph(Ch(r)) \in {"over", "new"}
    BY <1>1 DEF Core, StepsGood
  <2>2. ASSUME NEW x \in Chans, Hd(x) = r \/ Adopts(x, r) PROVE FALSE
    <3>1. Ch(r) = x /\ Hd(x) # NULL
      BY <1>1, <2>2 DEF Core, HandlersGood, TasksGood
    <3> QED  BY <1>1, <2>1, <3>1 DEF Core, HandlersGood
  <2> QED  BY <2>1, <2>2
<1>6. \A x \in Chans : Ph(x)' = Ph(x) \/ (Ph(x)' = "down" /\ Ph(x) \in {"parked", "down"})
  BY DEF SameChan
<1>7. /\ Pc(r) \notin {"inserted", "disown", "failed"} /\ (Ph(c) = "parked" => Hd(c) # NULL)
  BY <1>1, <1>4 DEF Started, Core, HandlersGood
<1>8. RequestsGood'
  BY <1>1, <1>3, <1>4, <1>5, <1>6, <1>7, <1>2 DEF Core, Views, RequestsGood, SameReq, SameConn, SameChan, SamePool
<1>9. ChannelsOwned'
  BY <1>1, <1>3, <1>4, <1>5, <1>6, <1>7 DEF Core, Views, ChannelsOwned, SameConn, SameChan
<1>10. HandlersGood'
  BY <1>1, <1>3, <1>4, <1>5, <1>6, <1>7, <1>2 DEF Core, Views, HandlersGood, SameConn, SameChan, SameTasks, SamePool
<1>11. TasksGood'
  BY <1>1, <1>3, <1>4, <1>5, <1>6, <1>7, <1>2 DEF Core, Views, TasksGood, SameReq, SameConn, SameChan, SameTasks, SameIdle
<1>12. StepsGood'
  BY <1>1, <1>3, <1>4, <1>5, <1>6, <1>7, <1>2 DEF Core, Views, StepsGood, Busy, SameConn, SameChan
<1>13. PostedGood'
  BY <1>1, <1>3, <1>4, <1>5, <1>6, <1>7 DEF Core, Views, PostedGood, PoolGood, SamePosted, SameConn, SameChan, SamePool
<1>14. PoolGood'
  BY <1>1, <1>3, <1>4, <1>5, <1>6, <1>7 DEF Core, Views, PoolGood, SameChan, SamePool
<1>15. IdleGood'
  BY <1>1, <1>3, <1>4, <1>5, <1>6, <1>7 DEF Core, Views, IdleGood, PoolGood, SameIdle, SameChan, SamePool
<1>16. BorrowedGood'
  BY <1>1, <1>3, <1>4, <1>5, <1>6, <1>7 DEF Core, Views, BorrowedGood, PoolGood, SameReq, SameChan, SamePool
<1>17. SharedGood'
  BY <1>1, <1>3, <1>4, <1>5, <1>6, <1>7 DEF Core, Views, SharedGood, SameReq, SameConn, SameChan, SameTasks, SamePool
<1>18. Core'
  BY <1>8, <1>9, <1>10, <1>11, <1>12, <1>13, <1>14, <1>15, <1>16, <1>17 DEF Core
<1> QED  BY <1>18

LEMMA DetachAndScheduleDestroyKeeps ==
  ASSUME IInv, NEW c \in Chans, DetachAndScheduleDestroy(c)
  PROVE  IInv'
<1>1. /\ Core /\ Views /\ TypeOK /\ At(c) \in {"detach", "discard", "giveUp"} /\ chan[c] \in ChanType
      /\ UNCHANGED <<req, pool, st, inFlight, closer, dtor>>
  BY TypedViews DEF IInv, TypeOK, DetachAndScheduleDestroy, At
<1>2. PICK r \in Requests : r = Sr(c) /\ r = chan[c].step.r
  BY <1>1 DEF Core, StepsGood, Sr
<1>3. Wh(r) = "conns" /\ ~Queued("conn", r) /\ (At(c) = "giveUp" => Ph(c) \in {"parked", "down"})
  BY <1>1, <1>2 DEF Core, StepsGood, PostedGood, Busy
<1>4. /\ conn' = [conn EXCEPT ![r].where = "destroying"]
      /\ posted' = Append(posted, [kind |-> "conn", of |-> r])
  BY <1>2 DEF DetachAndScheduleDestroy
<1>5. /\ posted' \in Seq(DeathType) /\ QueuedOnce'
      /\ \A k, x : Queued(k, x)' <=> Queued(k, x) \/ (k = "conn" /\ x = r)
  BY <1>1, <1>3, <1>4, ScheduleConn DEF Core, PostedGood
<1>6. /\ conn' \in [Requests -> ConnType]
      /\ Wh(r)' = "destroying" /\ Ch(r)' = Ch(r) /\ (Dl(r)' <=> Dl(r)) /\ (Ha(r)' <=> Ha(r))
      /\ \A s \in Requests \ {r} : SameConn(s) /\ (Ha(s)' <=> Ha(s))
  <2> DEFINE k == [conn[r] EXCEPT !.where = "destroying"]
  <2>1. conn[r] \in ConnType
    BY <1>1 DEF TypeOK
  <2>2. k \in ConnType
    BY <2>1, Zenon DEF ConnType
  <2>3. /\ k.where = "destroying" /\ k.chan = Ch(r) /\ k.delivered = conn[r].delivered
        /\ k.handler = conn[r].handler /\ conn' = [conn EXCEPT ![r] = k]
    BY <1>4, <2>1 DEF ConnType, Ch
  <2> HIDE DEF k
  <2> QED  BY <1>1, <2>2, <2>3, ConnChanges DEF Dl, Ha
<1>7. /\ chan' \in [Chans -> ChanType] /\ (\A x \in Chans \ {c} : SameChan(x)) /\ SameTasks(c)
      /\ Hd(c)' = Hd(c) /\ At(c)' = "idle"
      /\ Ph(c)' = Ph(c) \/ (Ph(c)' = "down" /\ Ph(c) \in {"parked", "down"})
  <2> DEFINE ch == [chan EXCEPT ![c].step = Idle]
  <2>1. CASE At(c) # "giveUp"
    <3> DEFINE k == [chan[c] EXCEPT !.step = Idle]
    <3>1. k \in ChanType
      BY <1>1, Zenon DEF ChanType, Idle
    <3>2. /\ k.phase = Ph(c) /\ k.handler = Hd(c) /\ k.step.at = "idle" /\ k.tasks = chan[c].tasks
          /\ ch = [chan EXCEPT ![c] = k]
      BY <1>1 DEF ChanType, Hd, Ph, Idle
    <3>3. chan' = ch \/ \E S : chan' = CloseAll(ch, S)
      BY <1>1, <2>1 DEF DetachAndScheduleDestroy, Close, At
    <3> HIDE DEF k, ch
    <3>4. /\ chan' \in [Chans -> ChanType] /\ BecomesChan(c, k)
          /\ \A x \in Chans \ {c} : SameChan(x)
      BY <1>1, <3>1, <3>2, <3>3, ChanChanges
    <3> QED  BY <3>2, <3>4 DEF BecomesChan, SameTasks, Adopts, Once, Quiet, Ph
  <2>2. CASE At(c) = "giveUp"
    <3> DEFINE k == [chan[c] EXCEPT !.step = Idle, !.phase = "down"]
    <3>1. k \in ChanType
      BY <1>1, Zenon DEF ChanType, Idle
    <3>2. chan' = [ch EXCEPT ![c].phase = "down"]
      BY <2>2 DEF DetachAndScheduleDestroy, At
    <3>3. /\ k.phase = "down" /\ k.handler = Hd(c) /\ k.step.at = "idle" /\ k.tasks = chan[c].tasks
          /\ chan' = [chan EXCEPT ![c] = k]
      BY <1>1, <3>2 DEF ChanType, Hd, Idle
    <3> HIDE DEF k, ch
    <3>4. /\ chan' \in [Chans -> ChanType] /\ BecomesChan(c, k)
          /\ \A x \in Chans \ {c} : SameChan(x)
      BY <1>1, <3>1, <3>3, ChanChanges
    <3> QED  BY <1>3, <2>2, <3>3, <3>4 DEF BecomesChan, SameTasks, Adopts, Once, Quiet
  <2> QED  BY <2>1, <2>2
<1>8. (\A s \in Requests : SameReq(s)) /\ (\A q \in Pooleds : SamePool(q)) /\ SameIdle
  BY <1>1, UnchangedViews
<1>9. Core'
  BY <1>1, <1>2, <1>5, <1>6, <1>7, <1>8, DetachCore
<1>10. DtorGood'
  <2>1. ~AllDrainedLocked(conn', st')
    BY <1>6 DEF AllDrainedLocked, Wh
  <2> QED  BY <1>1, <1>6, <1>8, <2>1, DtorKeeps DEF IInv, SameReq, SameConn
<1> QED  BY <1>1, <1>5, <1>6, <1>7, <1>9, <1>10 DEF IInv, TypeOK

(* The last event of a pooled channel is noted while it is held, and acted *)
(* on otherwise.                                                           *)
LEMMA TerminalViews ==
  ASSUME IInv, NEW p \in Pooleds, NEW how \in {"closed", "detached"},
         ~Queued("closed", p), ~Queued("detached", p), Terminal(p, how)
  PROVE  /\ pool' \in [Pooleds -> PooledType]
         /\ Pl(p)' = Pl(p) /\ (He(p)' <=> He(p)) /\ Li(p)' = Li(p)
         /\ (He(p) => Pe(p)' = how) /\ (~He(p) => Pe(p)' = Pe(p))
         /\ \A q \in Pooleds \ {p} : SamePool(q)
         /\ posted' \in Seq(DeathType) /\ QueuedOnce'
         /\ \A k, x : Queued(k, x)' <=> Queued(k, x) \/ (~He(p) /\ k = how /\ x = p)
<1>1. TypeOK /\ pool[p] \in PooledType /\ QueuedOnce
  BY DEF IInv, TypeOK, Core, PostedGood
<1>2. CASE He(p)
  <2> DEFINE d == [pool[p] EXCEPT !.pending = how]
  <2>1. pool' = [pool EXCEPT ![p] = d] /\ posted' = posted
    BY <1>2 DEF Terminal, He
  <2>2. d \in PooledType
    BY <1>1, Zenon DEF PooledType
  <2>3. d.chan = Pl(p) /\ d.held = pool[p].held /\ d.pending = how /\ d.life = Li(p)
    BY <1>1 DEF PooledType, Pl, Li
  <2> HIDE DEF d
  <2>4. /\ pool' \in [Pooleds -> PooledType]
        /\ Pl(p)' = Pl(p) /\ (He(p)' <=> He(p)) /\ Pe(p)' = how /\ Li(p)' = Li(p)
        /\ \A q \in Pooleds \ {p} : SamePool(q)
    BY <1>1, <2>1, <2>2, <2>3, PoolChanges DEF He
  <2> QED  BY <1>1, <1>2, <2>1, <2>4 DEF TypeOK, Queued, QueuedOnce
<1>3. CASE ~He(p)
  <2>1. posted' = Schedule(posted, p, how) /\ pool' = pool
    BY <1>3 DEF Terminal, He
  <2>2. /\ posted' \in Seq(DeathType) /\ (QueuedOnce => QueuedOnce')
        /\ \A k, x : Queued(k, x)' <=> Queued(k, x) \/ (k = how /\ x = p)
    BY <2>1, ScheduleKeeps
  <2>3. \A q \in Pooleds : SamePool(q)
    BY <2>1, UnchangedViews
  <2> QED  BY <1>1, <1>3, <2>1, <2>2, <2>3 DEF TypeOK, SamePool
<1> QED  BY <1>2, <1>3

(* The hand-over of a pooled channel to a request.                         *)
LEMMA AdoptCore ==
  ASSUME IInv, NEW c \in Chans, NEW r \in Requests, NEW p \in Pooleds,
         At(c) = "idle", Ph(c) = "parked", Hd(c) = p, Adopts(c, r),
         \A s \in Requests : SameReq(s) /\ SameConn(s), SameIdle,
         \A x \in Chans \ {c} : SameChan(x), Ph(c)' = "up", Hd(c)' = r, At(c)' = "idle",
         \A s \in Requests : ~Adopts(c, s)', Once(c)',
         \A q \in Pooleds \ {p} : SamePool(q), Pl(p)' = Pl(p), He(p)' <=> He(p), Li(p)' = Li(p),
         He(p) => Pe(p)' = "detached", ~He(p) => Pe(p)' = Pe(p), QueuedOnce',
         \A k, x : Queued(k, x)' <=> Queued(k, x) \/ (~He(p) /\ k = "detached" /\ x = p)
  PROVE  Core'
<1>1. Core /\ Views /\ NULL \notin Chans \cup Requests \cup Pooleds /\ r \notin Pooleds /\ p \notin Requests
  BY TypedViews, ConnectorAssumption DEF IInv
<1>2. \A s \in Requests : Started(s)' <=> Started(s)
  BY DEF Started, SameReq
<1>3. /\ Started(r) /\ Ch(r) = c /\ Wh(r) = "conns" /\ ~InIdle(p)
      /\ Pl(p) = c /\ Li(p) = "live" /\ Pe(p) = "none"
      /\ \A s \in Requests : Bo(s) = p => s = r
  BY <1>1 DEF Core, TasksGood, HandlersGood
<1>4. /\ ~Queued("closed", p) /\ ~Queued("detached", p) /\ ~Queued("conn", r)
      /\ \A x \in Chans \ {c} : Hd(x) # p
      /\ \A q \in Pooleds : InIdle(q) => Pl(q) # c
      /\ \A s \in Requests \ {r} : Ch(s) # c
      /\ Bo(r) # NULL => Pc(r) = "release"
  <2>1. /\ ~Queued("closed", p) /\ ~Queued("detached", p) /\ ~Queued("conn", r)
    BY <1>1, <1>3 DEF Core, PostedGood
  <2>2. Bo(r) # NULL => Pc(r) = "release"
    BY <1>1, <1>3 DEF Core, RequestsGood, Started
  <2> QED  BY <1>1, <1>3, <2>1, <2>2 DEF Core, HandlersGood, IdleGood, ChannelsOwned
<1>5. \A q \in Pooleds : (Doomed(q)' <=> Doomed(q)) /\ (Doomed(q) => q # p /\ Pl(q) # c)
  <2>1. ~Doomed(p) /\ ~Doomed(p)'
    BY <1>3, <1>4 DEF Doomed
  <2>2. \A q \in Pooleds \ {p} : Doomed(q)' <=> Doomed(q)
    BY DEF Doomed, SamePool
  <2> QED  BY <1>1, <2>1, <2>2, DoomedOver
<1>6. \A s \in Requests \ {r} : Bo(s) # NULL /\ Pc(s) # "release" => Pl(Bo(s)) # c
  <2> SUFFICES ASSUME NEW s \in Requests \ {r}, Bo(s) # NULL, Pc(s) # "release", Pl(Bo(s)) = c PROVE FALSE
    OBVIOUS
  <2>1. Bo(s) \in Pooleds /\ Bo(s) # p
    BY <1>1, <1>3 DEF Views
  <2> QED  BY <1>1, <2>1 DEF Core, BorrowedGood, PoolGood
<1>7. RequestsGood'
  BY <1>1, <1>3, <1>4, <1>6, <1>2 DEF Core, Views, RequestsGood, SameReq, SameConn, SameChan, SamePool
<1>8. ChannelsOwned'
  BY <1>1, <1>3, <1>4, <1>6 DEF Core, Views, ChannelsOwned, SameConn, SameChan
<1>9. HandlersGood'
  BY <1>1, <1>3, <1>4, <1>6, <1>2 DEF Core, Views, HandlersGood, SameConn, SameChan, SameTasks, SamePool
<1>10. TasksGood'
  BY <1>1, <1>3, <1>4, <1>6, <1>2 DEF Core, Views, TasksGood, SameReq, SameConn, SameChan, SameTasks, SameIdle
<1>11. StepsGood'
  BY <1>1, <1>3, <1>4, <1>6, <1>2 DEF Core, Views, StepsGood, Busy, SameConn, SameChan
<1>12. PostedGood'
  BY <1>1, <1>3, <1>4, <1>6 DEF Core, Views, PostedGood, PoolGood, SamePosted, SameConn, SameChan, SamePool
<1>13. PoolGood'
  BY <1>1, <1>3, <1>4, <1>6 DEF Core, Views, PoolGood, SameChan, SamePool
<1>14. IdleGood'
  BY <1>1, <1>3, <1>4, <1>6 DEF Core, Views, IdleGood, PoolGood, SameIdle, SameChan, SamePool
<1>15. BorrowedGood'
  BY <1>1, <1>3, <1>4, <1>6 DEF Core, Views, BorrowedGood, PoolGood, SameReq, SameChan, SamePool
<1>16. SharedGood'
  BY <1>1, <1>3, <1>4, <1>6, <1>5 DEF Core, Views, SharedGood, SameReq, SameConn, SameChan, SameTasks, SamePool
<1>17. Core'
  BY <1>7, <1>8, <1>9, <1>10, <1>11, <1>12, <1>13, <1>14, <1>15, <1>16 DEF Core
<1> QED  BY <1>17

LEMMA RunAdoptKeeps ==
  ASSUME IInv, NEW c \in Chans, RunAdopt(c)
  PROVE  IInv'
<1>1. /\ Core /\ Views /\ TypeOK /\ chan[c] \in ChanType /\ At(c) = "idle" /\ Ph(c) = "parked"
      /\ chan[c].tasks \in Seq(TaskType) /\ chan[c].tasks # <<>>
      /\ UNCHANGED <<req, st, inFlight, closer, dtor>>
  BY TypedViews DEF IInv, TypeOK, RunAdopt, ChanType, QueueIdle, At, Usable, Ph
<1>2. PICK r \in Requests : r = Head(chan[c].tasks)
  BY DEF RunAdopt
<1>3. PICK p \in Pooleds : p = Hd(c) /\ p = chan[c].handler
  BY <1>1 DEF Core, HandlersGood, Hd
<1> DEFINE k == [chan[c] EXCEPT !.tasks = Tail(@), !.phase = "up", !.handler = r]
           ch == [chan EXCEPT ![c].tasks = Tail(@), ![c].phase = "up", ![c].handler = r]
<1>4. /\ Has(chan[c].tasks, r) /\ Tail(chan[c].tasks) \in Seq(TaskType)
      /\ \A x : Has(Tail(chan[c].tasks), x) => Has(chan[c].tasks, x)
  BY <1>1, <1>2, TailFacts
<1>5. Adopts(c, r) /\ Once(c) /\ Ch(r) = c
  BY <1>1, <1>4 DEF Core, TasksGood, Adopts
<1>6. SingleIn(Tail(chan[c].tasks)) /\ ~Has(Tail(chan[c].tasks), r)
  BY <1>1, <1>2, <1>5, TailSingle DEF Once
<1>7. \A s \in Requests : ~Has(Tail(chan[c].tasks), s)
  <2> SUFFICES ASSUME NEW s \in Requests, Has(Tail(chan[c].tasks), s) PROVE FALSE
    OBVIOUS
  <2>1. Ch(s) = c
    BY <1>1, <1>4 DEF Core, TasksGood, Adopts
  <2>2. s = r
    BY <1>1, <1>5, <2>1, ConnectorAssumption DEF Core, ChannelsOwned
  <2> QED  BY <1>6, <2>2
<1>8. ch = [chan EXCEPT ![c] = k]
  BY <1>1
<1>9. k \in ChanType
  BY <1>1, <1>4, Zenon DEF ChanType
<1>10. /\ k.phase = "up" /\ k.handler = r /\ k.step.at = At(c) /\ k.step.r = Sr(c)
       /\ k.tasks = Tail(chan[c].tasks)
  BY <1>1 DEF ChanType, At, Sr
<1>11. /\ chan' = ch \/ \E S : chan' = CloseAll(ch, S)
       /\ conn' = conn \/ conn' = [conn EXCEPT ![r].failed = TRUE]
  BY <1>2 DEF RunAdopt, ChannelReady, Close
<1> HIDE DEF k, ch
<1>12. /\ chan' \in [Chans -> ChanType] /\ BecomesChan(c, k)
       /\ \A x \in Chans \ {c} : SameChan(x)
  BY <1>1, <1>8, <1>9, <1>11, ChanChanges
<1>13. /\ Ph(c)' = "up" /\ Hd(c)' = r /\ At(c)' = "idle" /\ Once(c)'
       /\ \A s \in Requests : ~Adopts(c, s)'
  BY <1>1, <1>6, <1>7, <1>10, <1>12 DEF BecomesChan
<1>14. /\ conn' \in [Requests -> ConnType]
       /\ \A s \in Requests : SameConn(s) /\ (Ha(s)' <=> Ha(s))
  BY <1>11, FlagsKeep
<1>15. ~Queued("closed", p) /\ ~Queued("detached", p) /\ Terminal(p, "detached")
  BY <1>1, <1>3 DEF Core, PostedGood, HandlersGood, RunAdopt
<1>16. /\ pool' \in [Pooleds -> PooledType]
       /\ Pl(p)' = Pl(p) /\ (He(p)' <=> He(p)) /\ Li(p)' = Li(p)
       /\ (He(p) => Pe(p)' = "detached") /\ (~He(p) => Pe(p)' = Pe(p))
       /\ \A q \in Pooleds \ {p} : SamePool(q)
       /\ posted' \in Seq(DeathType) /\ QueuedOnce'
       /\ \A m, x : Queued(m, x)' <=> Queued(m, x) \/ (~He(p) /\ m = "detached" /\ x = p)
  BY <1>15, TerminalViews
<1>17. (\A s \in Requests : SameReq(s)) /\ SameIdle
  BY <1>1, UnchangedViews
<1>18. Core'
  BY <1>1, <1>3, <1>5, <1>12, <1>13, <1>14, <1>16, <1>17, AdoptCore
<1>19. DtorGood'
  BY <1>1, <1>14, <1>17, DtorUntouched
<1> QED  BY <1>1, <1>12, <1>14, <1>16, <1>18, <1>19 DEF IInv, TypeOK

(* An idle or borrowed channel ends.                                       *)
LEMMA PooledOverCore ==
  ASSUME IInv, NEW c \in Chans, NEW p \in Pooleds,
         At(c) = "idle", Ph(c) = "down", Quiet(c), Hd(c) = p,
         \A s \in Requests : SameReq(s) /\ SameConn(s),
         \A q \in Pooleds : InIdle(q)' <=> InIdle(q) /\ q # p, IdleOnce',
         \A x \in Chans \ {c} : SameChan(x), SameTasks(c), Ph(c)' = "over", Hd(c)' = NULL, At(c)' = "idle",
         \A q \in Pooleds \ {p} : SamePool(q), Pl(p)' = Pl(p), He(p)' <=> He(p), Li(p)' = Li(p),
         He(p) => Pe(p)' = "closed", ~He(p) => Pe(p)' = Pe(p), QueuedOnce',
         \A k, x : Queued(k, x)' <=> Queued(k, x) \/ (~He(p) /\ k = "closed" /\ x = p)
  PROVE  Core'
<1>1. Core /\ Views /\ NULL \notin Chans \cup Requests \cup Pooleds /\ p \notin Requests
  BY TypedViews, ConnectorAssumption DEF IInv
<1>2. \A s \in Requests : Started(s)' <=> Started(s)
  BY DEF Started, SameReq
<1>3. /\ Pl(p) = c /\ Li(p) = "live" /\ Pe(p) = "none" /\ Quiet(c)'
      /\ \A s \in Requests : ~Adopts(c, s)
  BY <1>1 DEF Core, TasksGood, HandlersGood, SameTasks
<1>4. /\ ~Queued("closed", p) /\ ~Queued("detached", p)
      /\ \A x \in Chans \ {c} : Hd(x) # p
      /\ \A q \in Pooleds \ {p} : InIdle(q) => Pl(q) # c
      /\ \A s \in Requests : Queued("conn", s) => Ch(s) # c
  BY <1>1, <1>3 DEF Core, PostedGood, HandlersGood, IdleGood
<1>5. /\ \A q \in Pooleds : (Doomed(q)' <=> Doomed(q) \/ q = p)
      /\ \A q \in Pooleds : Doomed(q) => q # p /\ Pl(q) # c
  <2>1. ~Doomed(p) /\ Doomed(p)'
    BY <1>3, <1>4 DEF Doomed
  <2>2. \A q \in Pooleds \ {p} : Doomed(q)' <=> Doomed(q)
    BY DEF Doomed, SamePool
  <2> QED  BY <1>1, <2>1, <2>2, DoomedOver
<1>6. \A s \in Requests : Bo(s) # NULL /\ Bo(s) # p /\ Pc(s) # "release" => Pl(Bo(s)) # c
  <2> SUFFICES ASSUME NEW s \in Requests, Bo(s) # NULL, Bo(s) # p, Pc(s) # "release", Pl(Bo(s)) = c PROVE FALSE
    OBVIOUS
  <2>1. Bo(s) \in Pooleds
    BY <1>1 DEF Views
  <2> QED  BY <1>1, <2>1 DEF Core, BorrowedGood, PoolGood
<1>7. RequestsGood'
  BY <1>1, <1>3, <1>4, <1>6, <1>2 DEF Core, Views, RequestsGood, SameReq, SameConn, SameChan, SamePool
<1>8. ChannelsOwned'
  BY <1>1, <1>3, <1>4, <1>6 DEF Core, Views, ChannelsOwned, SameConn, SameChan
<1>9. HandlersGood'
  BY <1>1, <1>3, <1>4, <1>6, <1>2 DEF Core, Views, HandlersGood, SameConn, SameChan, SameTasks, SamePool
<1>10. TasksGood'
  BY <1>1, <1>3, <1>4, <1>6, <1>2 DEF Core, Views, TasksGood, SameReq, SameConn, SameChan, SameTasks, SameIdle
<1>11. StepsGood'
  BY <1>1, <1>3, <1>4, <1>6, <1>2 DEF Core, Views, StepsGood, Busy, SameConn, SameChan
<1>12. PostedGood'
  BY <1>1, <1>3, <1>4, <1>6 DEF Core, Views, PostedGood, PoolGood, SamePosted, SameConn, SameChan, SamePool
<1>13. PoolGood'
  BY <1>1, <1>3, <1>4, <1>6 DEF Core, Views, PoolGood, SameChan, SamePool
<1>14. IdleGood'
  BY <1>1, <1>3, <1>4, <1>6 DEF Core, Views, IdleGood, PoolGood, SameIdle, SameChan, SamePool
<1>15. BorrowedGood'
  BY <1>1, <1>3, <1>4, <1>6 DEF Core, Views, BorrowedGood, PoolGood, SameReq, SameChan, SamePool
<1>16. SharedGood'
  BY <1>1, <1>3, <1>4, <1>6, <1>5 DEF Core, Views, SharedGood, SameReq, SameConn, SameChan, SameTasks, SamePool
<1>17. Core'
  BY <1>7, <1>8, <1>9, <1>10, <1>11, <1>12, <1>13, <1>14, <1>15, <1>16 DEF Core
<1> QED  BY <1>17

LEMMA OnPooledClosedKeeps ==
  ASSUME IInv, NEW c \in Chans, OnPooledClosed(c)
  PROVE  IInv'
<1>1. /\ Core /\ Views /\ TypeOK /\ chan[c] \in ChanType /\ At(c) = "idle" /\ Ph(c) = "down" /\ Quiet(c)
      /\ UNCHANGED <<req, conn, inFlight, closer, dtor>>
  BY TypedViews DEF IInv, TypeOK, OnPooledClosed, QueueIdle, At, Ph, Quiet
<1>2. PICK p \in Pooleds : p = Hd(c) /\ p = chan[c].handler
  BY DEF OnPooledClosed, Hd
<1> DEFINE k == [chan[c] EXCEPT !.phase = "over", !.handler = NULL]
<1>3. chan' = [chan EXCEPT ![c] = k]
  BY DEF OnPooledClosed
<1>4. k \in ChanType
  BY <1>1, Zenon DEF ChanType
<1>5. /\ k.phase = "over" /\ k.handler = NULL /\ k.step.at = At(c) /\ k.step.r = Sr(c)
      /\ k.tasks = chan[c].tasks
  BY <1>1 DEF ChanType, At, Sr
<1> HIDE DEF k
<1>6. /\ chan' \in [Chans -> ChanType] /\ BecomesChan(c, k)
      /\ \A x \in Chans \ {c} : SameChan(x)
  BY <1>1, <1>3, <1>4, ChanChanges
<1>7. Ph(c)' = "over" /\ Hd(c)' = NULL /\ At(c)' = "idle" /\ SameTasks(c)
  BY <1>1, <1>5, <1>6 DEF BecomesChan, SameTasks, Adopts, Once, Quiet
<1>8. ~Queued("closed", p) /\ ~Queued("detached", p) /\ Terminal(p, "closed")
  BY <1>1, <1>2 DEF Core, PostedGood, HandlersGood, OnPooledClosed
<1>9. /\ pool' \in [Pooleds -> PooledType]
      /\ Pl(p)' = Pl(p) /\ (He(p)' <=> He(p)) /\ Li(p)' = Li(p)
      /\ (He(p) => Pe(p)' = "closed") /\ (~He(p) => Pe(p)' = Pe(p))
      /\ \A q \in Pooleds \ {p} : SamePool(q)
      /\ posted' \in Seq(DeathType) /\ QueuedOnce'
      /\ \A m, x : Queued(m, x)' <=> Queued(m, x) \/ (~He(p) /\ m = "closed" /\ x = p)
  BY <1>8, TerminalViews
<1>10. /\ st' \in StateType /\ IdleOnce' /\ (\A q \in Pooleds : InIdle(q)' <=> InIdle(q) /\ q # p)
       /\ st'.closing = st.closing /\ st'.handler = st.handler /\ st'.abandoned = st.abandoned
       /\ st'.notified = st.notified /\ st'.idleDestroying # 0
  <2> DEFINE s == RemoveFromPoolLocked(st, p)
  <2>1. st \in StateType /\ st.idle \in Seq(Pooleds) /\ Distinct(st.idle) /\ st.idleDestroying \in Nat
    BY <1>1 DEF TypeOK, StateType, Core, IdleGood, IdleOnce
  <2>2. /\ Without(st.idle, p) \in Seq(Pooleds) /\ Distinct(Without(st.idle, p))
        /\ \A x : Has(Without(st.idle, p), x) <=> Has(st.idle, x) /\ x # p
    BY <2>1, WithoutHas
  <2>3. s \in StateType
    BY <2>1, <2>2, Zenon DEF StateType, RemoveFromPoolLocked
  <2>4. /\ s.idle = Without(st.idle, p) /\ s.idleDestroying = st.idleDestroying
        /\ s.closing = st.closing /\ s.handler = st.handler /\ s.abandoned = st.abandoned
        /\ s.notified = st.notified
    BY <2>1 DEF StateType, RemoveFromPoolLocked
  <2>5. st' = [s EXCEPT !.idleDestroying = @ + 1]
    BY <1>2 DEF OnPooledClosed
  <2> HIDE DEF s
  <2>6. s.idleDestroying + 1 \in Nat /\ s.idleDestroying + 1 # 0
    BY <2>1, <2>4
  <2>7. st' \in StateType
    BY <2>3, <2>5, <2>6, Zenon DEF StateType
  <2>8. /\ st'.idle = s.idle /\ st'.idleDestroying = s.idleDestroying + 1
        /\ st'.closing = s.closing /\ st'.handler = s.handler /\ st'.abandoned = s.abandoned
        /\ st'.notified = s.notified
    BY <2>3, <2>5 DEF StateType
  <2> QED  BY <2>2, <2>4, <2>6, <2>7, <2>8 DEF IdleOnce, InIdle
<1>11. \A s \in Requests : SameReq(s) /\ SameConn(s) /\ (Ha(s)' <=> Ha(s))
  BY <1>1, UnchangedViews DEF Ha
<1>12. Core'
  BY <1>1, <1>2, <1>6, <1>7, <1>9, <1>10, <1>11, PooledOverCore
<1>13. DtorGood'
  <2>1. ~AllDrainedLocked(conn', st')
    BY <1>10 DEF AllDrainedLocked
  <2> QED  BY <1>1, <1>10, <1>11, <2>1, DtorKeeps DEF IInv, SameReq, SameConn
<1> QED  BY <1>1, <1>6, <1>9, <1>10, <1>12, <1>13 DEF IInv, TypeOK
-----------------------------------------------------------------------------
(* The Runtime queue.                                                      *)

LEMMA PostedTail ==
  ASSUME IInv, posted # <<>>, posted' = Tail(posted), NEW e, e = Head(posted)
  PROVE  /\ e \in DeathType /\ Queued(e.kind, e.of)
         /\ posted' \in Seq(DeathType) /\ QueuedOnce'
         /\ \A k, x : Queued(k, x)' <=> Queued(k, x) /\ x # e.of
<1>1. posted \in Seq(DeathType) /\ QueuedOnce
  BY DEF IInv, TypeOK, Core, PostedGood
<1>2. /\ e \in DeathType /\ posted' \in Seq(DeathType) /\ Has(posted, e)
      /\ \A d : Has(posted', d) => Has(posted, d)
      /\ \A d : Has(posted, d) /\ d # e => Has(posted', d)
  BY <1>1, TailFacts
<1>3. QueuedOnce' /\ \A d : Has(posted', d) => d.of # e.of
  BY <1>1, TailDeaths DEF QueuedOnce
<1>4. e = [kind |-> e.kind, of |-> e.of]
  BY <1>2 DEF DeathType
<1>5. \A k, x : Queued(k, x)' <=> Queued(k, x) /\ x # e.of
  <2> TAKE k, x
  <2> DEFINE d == [kind |-> k, of |-> x]
  <2>1. d.of = x /\ (x # e.of => d # e)
    OBVIOUS
  <2>2. (Queued(k, x)' <=> Has(posted', d)) /\ (Queued(k, x) <=> Has(posted, d))
    BY DEF Queued
  <2> HIDE DEF d
  <2> QED  BY <1>2, <1>3, <2>1, <2>2
<1> QED  BY <1>2, <1>3, <1>4, <1>5 DEF Queued

(* Something was deleted, and OnClosed called if it was the last.          *)
LEMMA DtorAfterDelete ==
  ASSUME IInv, dtor' = dtor, st'.closing = st.closing, st'.handler = st.handler,
         st'.abandoned = st.abandoned, st.notified => st'.notified,
         \A r \in Requests : Pc(r)' = Pc(r),
         \A r \in Requests : Wh(r)' = "conns" => Wh(r) = "conns" /\ (Ha(r)' => Ha(r)),
         ~st.abandoned /\ st.closing /\ st.handler /\ AllDrainedLocked(conn', st') => st'.notified,
         st.notified \/ st.abandoned => inFlight' = inFlight
  PROVE  DtorGood'
<1>1. CASE dtor.pc = "none"
  BY <1>1, DtorIdle DEF IInv
<1>2. CASE dtor.pc # "none"
  BY <1>2, DtorKeeps DEF IInv, DtorGood
<1> QED  BY <1>1, <1>2

LEMMA DestroyConnCore ==
  ASSUME IInv, NEW r \in Requests, NEW c \in Chans \cup {NULL}, Queued("conn", r), Ch(r) = c,
         \A s \in Requests : SameReq(s), \A s \in Requests \ {r} : SameConn(s),
         Wh(r)' = "none", Ch(r)' = NULL, Dl(r)',
         \A x \in Chans \ {c} : SameChan(x),
         c # NULL => /\ Ph(c)' = "freed" /\ Hd(c)' = Hd(c) /\ At(c)' = At(c) /\ Sr(c)' = Sr(c)
                     /\ \A s \in Requests : Adopts(c, s)' <=> Adopts(c, s)
                     /\ Once(c) => Once(c)'
                     /\ Quiet(c)' <=> Quiet(c),
         \A q \in Pooleds : SamePool(q), SameIdle, QueuedOnce',
         \A k, x : Queued(k, x)' <=> Queued(k, x) /\ x # r
  PROVE  Core'
<1>1. Core /\ Views /\ NULL \notin Chans \cup Requests \cup Pooleds /\ r \notin Pooleds
  BY TypedViews, ConnectorAssumption DEF IInv
<1>2. \A s \in Requests : Started(s)' <=> Started(s)
  BY DEF Started, SameReq
<1>3. \A q \in Pooleds : Doomed(q)' <=> Doomed(q)
  BY <1>1 DEF Doomed, SamePool
<1>4. /\ Wh(r) = "destroying" /\ Started(r) /\ (c # NULL => Ph(c) \in {"over", "new"} /\ Hd(c) = NULL /\ Quiet(c))
      /\ \A x \in Chans : Hd(x) # r /\ ~Adopts(x, r) /\ (Busy(x) => Sr(x) # r)
  BY <1>1 DEF Core, PostedGood, RequestsGood, HandlersGood, TasksGood, StepsGood
<1>5. c # NULL => /\ \A s \in Requests \ {r} : Ch(s) # c
                  /\ \A q \in Pooleds : Doomed(q) => Pl(q) # c
                  /\ \A q \in Pooleds : InIdle(q) => Pl(q) # c
                  /\ At(c) \notin {"park", "reopen", "closing", "giveUp", "recheck"}
                  /\ \A s \in Requests : ~Adopts(c, s)
  <2> SUFFICES ASSUME c # NULL
               PROVE  /\ \A s \in Requests \ {r} : Ch(s) # c
                      /\ \A q \in Pooleds : Doomed(q) => Pl(q) # c
                      /\ \A q \in Pooleds : InIdle(q) => Pl(q) # c
                      /\ At(c) \notin {"park", "reopen", "closing", "giveUp", "recheck"}
                      /\ \A s \in Requests : ~Adopts(c, s)
    OBVIOUS
  <2>1. \A q \in Pooleds : Doomed(q) => Pl(q) # c
    BY <1>1, <1>4 DEF Core, SharedGood, Started
  <2> QED  BY <1>1, <1>4, <2>1 DEF Core, ChannelsOwned, IdleGood, StepsGood, TasksGood
<1>6. Pc(r) \notin {"inserted", "disown", "failed"} /\ \A x \in Chans \ {c} : Ph(x)' = Ph(x)
  BY <1>4 DEF Started, SameChan
<1>7. RequestsGood'
  BY <1>1, <1>4, <1>5, <1>6, <1>2 DEF Core, Views, RequestsGood, SameReq, SameConn, SameChan, SamePool
<1>8. ChannelsOwned'
  BY <1>1, <1>4, <1>5, <1>6 DEF Core, Views, ChannelsOwned, SameConn, SameChan
<1>9. HandlersGood'
  BY <1>1, <1>4, <1>5, <1>6, <1>2 DEF Core, Views, HandlersGood, SameConn, SameChan, SameTasks, SamePool
<1>10. TasksGood'
  BY <1>1, <1>4, <1>5, <1>6, <1>2 DEF Core, Views, TasksGood, SameReq, SameConn, SameChan, SameTasks, SameIdle
<1>11. StepsGood'
  BY <1>1, <1>4, <1>5, <1>6, <1>2 DEF Core, Views, StepsGood, Busy, SameConn, SameChan
<1>12. PostedGood'
  BY <1>1, <1>4, <1>5, <1>6, <1>3 DEF Core, Views, PostedGood, PoolGood, SamePosted, SameConn, SameChan, SamePool, Doomed
<1>13. PoolGood'
  BY <1>1, <1>4, <1>5, <1>6 DEF Core, Views, PoolGood, SameChan, SamePool, Doomed
<1>14. IdleGood'
  BY <1>1, <1>4, <1>5, <1>6 DEF Core, Views, IdleGood, PoolGood, SameIdle, SameChan, SamePool
<1>15. BorrowedGood'
  BY <1>1, <1>4, <1>5, <1>6 DEF Core, Views, BorrowedGood, PoolGood, SameReq, SameChan, SamePool
<1>16. SharedGood'
  BY <1>1, <1>4, <1>5, <1>6, <1>3 DEF Core, Views, SharedGood, SameReq, SameConn, SameChan, SameTasks, SamePool
<1>17. Core'
  BY <1>7, <1>8, <1>9, <1>10, <1>11, <1>12, <1>13, <1>14, <1>15, <1>16 DEF Core
<1> QED  BY <1>17

LEMMA DestroyConnKeeps ==
  ASSUME IInv, DestroyConn
  PROVE  IInv'
<1>1. /\ Core /\ Views /\ TypeOK /\ posted # <<>> /\ posted' = Tail(posted)
      /\ UNCHANGED <<req, pool, closer, dtor>>
  BY TypedViews DEF IInv, DestroyConn
<1>2. PICK e : e = Head(posted)
  OBVIOUS
<1>3. /\ e \in DeathType /\ Queued(e.kind, e.of) /\ e.kind = "conn"
      /\ posted' \in Seq(DeathType) /\ QueuedOnce'
      /\ \A k, x : Queued(k, x)' <=> Queued(k, x) /\ x # e.of
  BY <1>1, <1>2, PostedTail DEF DestroyConn
<1>4. PICK r \in Requests : r = e.of
  BY <1>3 DEF DeathType
<1>5. PICK c \in Chans \cup {NULL} : c = Ch(r) /\ c = conn[r].chan
  BY <1>1 DEF Views, Ch
<1>6. /\ chan' = IF c = NULL THEN chan ELSE [chan EXCEPT ![c].phase = "freed"]
      /\ conn' = [conn EXCEPT ![r] = [NoConn EXCEPT !.delivered = TRUE]]
      /\ NotifyIfDrained("runtime", conn', st)
  BY <1>2, <1>4, <1>5 DEF DestroyConn
<1>7. /\ conn' \in [Requests -> ConnType]
      /\ Wh(r)' = "none" /\ Ch(r)' = NULL /\ Dl(r)'
      /\ \A s \in Requests \ {r} : SameConn(s) /\ (Ha(s)' <=> Ha(s))
  <2> DEFINE k == [NoConn EXCEPT !.delivered = TRUE]
  <2>1. NoConn \in ConnType /\ NoConn.where = "none" /\ NoConn.chan = NULL
    BY DEF NoConn, ConnType
  <2>2. k \in ConnType
    BY <2>1, Zenon DEF ConnType
  <2>3. k.where = "none" /\ k.chan = NULL /\ k.delivered
    BY <2>1 DEF ConnType
  <2>4. conn' = [conn EXCEPT ![r] = k]
    BY <1>6
  <2> HIDE DEF k
  <2> QED  BY <1>1, <2>2, <2>3, <2>4, ConnChanges
<1>8. /\ chan' \in [Chans -> ChanType] /\ \A x \in Chans \ {c} : SameChan(x)
      /\ c # NULL => /\ Ph(c)' = "freed" /\ Hd(c)' = Hd(c) /\ At(c)' = At(c) /\ Sr(c)' = Sr(c)
                     /\ \A s \in Requests : Adopts(c, s)' <=> Adopts(c, s)
                     /\ Once(c) => Once(c)'
                     /\ Quiet(c)' <=> Quiet(c)
  <2>1. CASE c = NULL
    BY <1>1, <1>6, <2>1, UnchangedViews DEF TypeOK
  <2>2. CASE c # NULL
    <3>1. c \in Chans /\ chan' = [chan EXCEPT ![c].phase = "freed"]
      BY <1>6, <2>2
    <3> QED  BY <2>2, <3>1, FreedViews
  <2> QED  BY <2>1, <2>2
<1>9. /\ st' \in StateType /\ inFlight' \subseteq Threads /\ SameIdle
      /\ st'.closing = st.closing /\ st'.handler = st.handler /\ st'.abandoned = st.abandoned
      /\ st.notified => st'.notified
      /\ ~st.abandoned /\ st.closing /\ st.handler /\ AllDrainedLocked(conn', st') => st'.notified
      /\ st.notified \/ st.abandoned => inFlight' = inFlight
  <2>1. "runtime" \in Threads
    BY DEF Threads
  <2> QED  BY <1>6, <2>1, NotifyIdle
<1>10. (\A s \in Requests : SameReq(s)) /\ \A q \in Pooleds : SamePool(q)
  BY <1>1, UnchangedViews
<1>11. Core'
  BY <1>3, <1>4, <1>5, <1>7, <1>8, <1>9, <1>10, DestroyConnCore
<1>12. DtorGood'
  BY <1>1, <1>7, <1>9, <1>10, DtorAfterDelete DEF SameReq, SameConn
<1> QED  BY <1>1, <1>3, <1>7, <1>8, <1>9, <1>11, <1>12 DEF IInv, TypeOK

LEMMA DestroyPooledCore ==
  ASSUME IInv, NEW p \in Pooleds, NEW c \in Chans, Pl(p) = c,
         \A s \in Requests : SameReq(s) /\ SameConn(s),
         \A q \in Pooleds \ {p} : SamePool(q), Pl(p)' = c, He(p)' <=> He(p), Pe(p)' = Pe(p), Li(p)' = "dead",
         \/ Queued("detached", p) /\ \A x \in Chans : SameChan(x)
         \/ /\ Queued("closed", p)
            /\ \A x \in Chans \ {c} : SameChan(x)
            /\ Ph(c)' = "freed" /\ Hd(c)' = Hd(c) /\ At(c)' = At(c) /\ Sr(c)' = Sr(c)
            /\ \A s \in Requests : Adopts(c, s)' <=> Adopts(c, s)
            /\ Once(c) => Once(c)'
            /\ Quiet(c)' <=> Quiet(c),
         SameIdle, QueuedOnce',
         \A k, x : Queued(k, x)' <=> Queued(k, x) /\ x # p
  PROVE  Core'
<1>1. Core /\ Views /\ NULL \notin Chans \cup Requests \cup Pooleds /\ p \notin Requests
  BY TypedViews, ConnectorAssumption DEF IInv
<1>2. \A s \in Requests : Started(s)' <=> Started(s)
  BY DEF Started, SameReq
<1>3. /\ Li(p) = "live" /\ ~He(p) /\ Hd(c) # p /\ ~InIdle(p)
      /\ \A s \in Requests : Bo(s) # p
      /\ \A x \in Chans : Hd(x) # p
  <2>1. Li(p) = "live" /\ ~He(p) /\ Hd(c) # p
    BY <1>1 DEF Core, PostedGood
  <2> QED  BY <1>1, <2>1 DEF Core, IdleGood, BorrowedGood, HandlersGood
<1>4. \A q \in Pooleds : Doomed(q)' <=> Doomed(q) /\ q # p
  <2>1. ~Doomed(p)'
    BY <1>3 DEF Doomed
  <2>2. \A q \in Pooleds \ {p} : Doomed(q)' <=> Doomed(q)
    BY DEF Doomed, SamePool
  <2> QED  BY <2>1, <2>2
<1>5. CASE Queued("detached", p) /\ \A x \in Chans : SameChan(x)
  <2>1. RequestsGood'
    BY <1>1, <1>3, <1>5, <1>2 DEF Core, Views, RequestsGood, SameReq, SameConn, SameChan, SamePool
  <2>2. ChannelsOwned'
    BY <1>1, <1>3, <1>5 DEF Core, Views, ChannelsOwned, SameConn, SameChan
  <2>3. HandlersGood'
    BY <1>1, <1>3, <1>5, <1>2 DEF Core, Views, HandlersGood, SameConn, SameChan, SameTasks, SamePool
  <2>4. TasksGood'
    BY <1>1, <1>3, <1>5, <1>2 DEF Core, Views, TasksGood, SameReq, SameConn, SameChan, SameTasks, SameIdle
  <2>5. StepsGood'
    BY <1>1, <1>3, <1>5, <1>2 DEF Core, Views, StepsGood, Busy, SameConn, SameChan
  <2>6. PostedGood'
    BY <1>1, <1>3, <1>5 DEF Core, Views, PostedGood, PoolGood, SamePosted, SameConn, SameChan, SamePool
  <2>7. PoolGood'
    BY <1>1, <1>3, <1>5 DEF Core, Views, PoolGood, SameChan, SamePool
  <2>8. IdleGood'
    BY <1>1, <1>3, <1>5 DEF Core, Views, IdleGood, PoolGood, SameIdle, SameChan, SamePool
  <2>9. BorrowedGood'
    BY <1>1, <1>3, <1>5 DEF Core, Views, BorrowedGood, PoolGood, SameReq, SameChan, SamePool
  <2>10. SharedGood'
    BY <1>1, <1>3, <1>5, <1>4 DEF Core, Views, SharedGood, SameReq, SameConn, SameChan, SameTasks, SamePool
  <2>11. Core'
    BY <2>1, <2>2, <2>3, <2>4, <2>5, <2>6, <2>7, <2>8, <2>9, <2>10 DEF Core
  <2> QED  BY <2>11
<1>6. CASE /\ Queued("closed", p)
           /\ \A x \in Chans \ {c} : SameChan(x)
           /\ Ph(c)' = "freed" /\ Hd(c)' = Hd(c) /\ At(c)' = At(c) /\ Sr(c)' = Sr(c)
           /\ \A s \in Requests : Adopts(c, s)' <=> Adopts(c, s)
           /\ Once(c) => Once(c)'
           /\ Quiet(c)' <=> Quiet(c)
  <2>1. Doomed(p) /\ Ph(c) = "over" /\ Hd(c) = NULL /\ Quiet(c)
    BY <1>1, <1>6 DEF Doomed, Core, PostedGood, HandlersGood
  <2>2. \A q \in Pooleds \ {p} : Doomed(q) => Pl(q) # c
    BY <1>1, <2>1 DEF Core, SharedGood
  <2>3. \A s \in Requests : Ch(s) # c /\ ~Adopts(c, s)
    <3>1. \A s \in Requests : ~Adopts(c, s)
      BY <1>1, <2>1 DEF Core, TasksGood
    <3> QED  BY <1>1, <1>3, <2>1, <3>1 DEF Core, SharedGood
  <2>4. /\ \A q \in Pooleds : InIdle(q) => Pl(q) # c
        /\ At(c) \notin {"park", "reopen", "closing", "giveUp", "recheck"}
        /\ \A x \in Chans \ {c} : Ph(x)' = Ph(x)
    BY <1>1, <1>6, <2>1 DEF Core, IdleGood, StepsGood, SameChan
  <2>5. RequestsGood'
    BY <1>1, <1>3, <1>6, <2>1, <2>2, <2>3, <2>4, <1>2 DEF Core, Views, RequestsGood, SameReq, SameConn, SameChan, SamePool
  <2>6. ChannelsOwned'
    BY <1>1, <1>3, <1>6, <2>1, <2>2, <2>3, <2>4 DEF Core, Views, ChannelsOwned, SameConn, SameChan
  <2>7. HandlersGood'
    BY <1>1, <1>3, <1>6, <2>1, <2>2, <2>3, <2>4, <1>2 DEF Core, Views, HandlersGood, SameConn, SameChan, SameTasks, SamePool
  <2>8. TasksGood'
    BY <1>1, <1>3, <1>6, <2>1, <2>2, <2>3, <2>4, <1>2 DEF Core, Views, TasksGood, SameReq, SameConn, SameChan, SameTasks, SameIdle
  <2>9. StepsGood'
    BY <1>1, <1>3, <1>6, <2>1, <2>2, <2>3, <2>4, <1>2 DEF Core, Views, StepsGood, Busy, SameConn, SameChan
  <2>10. PostedGood'
    BY <1>1, <1>3, <1>6, <2>1, <2>2, <2>3, <2>4 DEF Core, Views, PostedGood, PoolGood, SamePosted, SameConn, SameChan, SamePool, Doomed
  <2>11. PoolGood'
    BY <1>1, <1>3, <1>6, <2>1, <2>2, <2>3, <2>4 DEF Core, Views, PoolGood, SameChan, SamePool, Doomed
  <2>12. IdleGood'
    BY <1>1, <1>3, <1>6, <2>1, <2>2, <2>3, <2>4 DEF Core, Views, IdleGood, PoolGood, SameIdle, SameChan, SamePool
  <2>13. BorrowedGood'
    BY <1>1, <1>3, <1>6, <2>1, <2>2, <2>3, <2>4 DEF Core, Views, BorrowedGood, PoolGood, SameReq, SameChan, SamePool
  <2>14. SharedGood'
    BY <1>1, <1>3, <1>6, <2>1, <2>2, <2>3, <2>4, <1>4 DEF Core, Views, SharedGood, SameReq, SameConn, SameChan, SameTasks, SamePool
  <2>15. Core'
    BY <2>5, <2>6, <2>7, <2>8, <2>9, <2>10, <2>11, <2>12, <2>13, <2>14 DEF Core
  <2> QED  BY <2>15
<1> QED  BY <1>5, <1>6

LEMMA DestroyPooledKeeps ==
  ASSUME IInv, DestroyPooled
  PROVE  IInv'
<1>1. /\ Core /\ Views /\ TypeOK /\ posted # <<>> /\ posted' = Tail(posted)
      /\ UNCHANGED <<req, conn, closer, dtor>>
  BY TypedViews DEF IInv, DestroyPooled
<1>2. PICK e : e = Head(posted)
  OBVIOUS
<1>3. /\ e \in DeathType /\ Queued(e.kind, e.of) /\ e.kind # "conn"
      /\ posted' \in Seq(DeathType) /\ QueuedOnce'
      /\ \A k, x : Queued(k, x)' <=> Queued(k, x) /\ x # e.of
  BY <1>1, <1>2, PostedTail DEF DestroyPooled
<1>4. e.kind \in {"closed", "detached"} /\ \E p \in Pooleds : p = e.of
  BY <1>3 DEF DeathType
<1>5. PICK p \in Pooleds : p = e.of
  BY <1>4
<1>6. PICK c \in Chans : c = Pl(p) /\ c = pool[p].chan
  <2>1. Queued("closed", p) \/ Queued("detached", p)
    BY <1>3, <1>4, <1>5
  <2> QED  BY <1>1, <2>1 DEF Core, Views, PostedGood, PoolGood, Pl
<1>7. /\ pool' \in [Pooleds -> PooledType]
      /\ Pl(p)' = c /\ (He(p)' <=> He(p)) /\ Pe(p)' = Pe(p) /\ Li(p)' = "dead"
      /\ \A q \in Pooleds \ {p} : SamePool(q)
  <2> DEFINE d == [pool[p] EXCEPT !.life = "dead"]
  <2>1. pool[p] \in PooledType /\ pool' = [pool EXCEPT ![p] = d]
    BY <1>1, <1>2, <1>5 DEF TypeOK, DestroyPooled
  <2>2. d \in PooledType
    BY <2>1, Zenon DEF PooledType
  <2>3. d.chan = c /\ d.held = pool[p].held /\ d.pending = Pe(p) /\ d.life = "dead"
    BY <1>6, <2>1 DEF PooledType, Pe
  <2> HIDE DEF d
  <2> QED  BY <1>1, <2>1, <2>2, <2>3, PoolChanges DEF He
<1>8. \A s \in Requests : SameReq(s) /\ SameConn(s) /\ (Ha(s)' <=> Ha(s))
  BY <1>1, UnchangedViews DEF Ha
<1>9. CASE e.kind = "detached"
  <2>1. UNCHANGED <<chan, st, inFlight>> /\ Queued("detached", p)
    BY <1>2, <1>3, <1>5, <1>9 DEF DestroyPooled
  <2>2. (\A x \in Chans : SameChan(x)) /\ SameIdle
    BY <2>1, UnchangedViews
  <2>3. Core'
    BY <1>3, <1>5, <1>6, <1>7, <1>8, <2>1, <2>2, DestroyPooledCore
  <2>4. DtorGood'
    BY <1>1, <1>8, <2>1, DtorUntouched
  <2> QED  BY <1>1, <1>3, <1>7, <2>1, <2>3, <2>4 DEF IInv, TypeOK
<1>10. CASE e.kind = "closed"
  <2> DEFINE s == [st EXCEPT !.idleDestroying = IF @ > 0 THEN @ - 1 ELSE 0]
  <2>1. /\ chan' = [chan EXCEPT ![c].phase = "freed"] /\ Queued("closed", p)
        /\ NotifyIfDrained("runtime", conn, s)
    BY <1>2, <1>3, <1>5, <1>6, <1>10 DEF DestroyPooled
  <2>2. /\ s \in StateType /\ s.idle = st.idle /\ s.closing = st.closing /\ s.handler = st.handler
        /\ s.abandoned = st.abandoned /\ s.notified = st.notified
    <3>1. st \in StateType /\ st.idleDestroying \in Nat
      BY <1>1 DEF TypeOK, StateType
    <3> DEFINE n == IF st.idleDestroying > 0 THEN st.idleDestroying - 1 ELSE 0
    <3>2. n \in Nat /\ s = [st EXCEPT !.idleDestroying = n]
      BY <3>1
    <3> HIDE DEF n, s
    <3>3. s \in StateType
      BY <3>1, <3>2, Zenon DEF StateType
    <3> QED  BY <3>1, <3>2, <3>3 DEF StateType
  <2> HIDE DEF s
  <2>3. "runtime" \in Threads /\ inFlight \subseteq Threads
    BY <1>1 DEF Threads, TypeOK
  <2>4. /\ st' \in StateType /\ inFlight' \subseteq Threads
        /\ st'.idle = s.idle
        /\ st'.closing = s.closing /\ st'.handler = s.handler /\ st'.abandoned = s.abandoned
        /\ s.notified => st'.notified
        /\ ~s.abandoned /\ s.closing /\ s.handler /\ AllDrainedLocked(conn, st') => st'.notified
        /\ s.notified \/ s.abandoned => inFlight' = inFlight
    BY <2>1, <2>2, <2>3, NotifyKeeps
  <2>5. SameIdle
    BY <2>2, <2>4, UnchangedViews
  <2>6. /\ chan' \in [Chans -> ChanType] /\ \A x \in Chans \ {c} : SameChan(x)
        /\ Ph(c)' = "freed" /\ Hd(c)' = Hd(c) /\ At(c)' = At(c) /\ Sr(c)' = Sr(c)
        /\ (\A r \in Requests : Adopts(c, r)' <=> Adopts(c, r)) /\ (Once(c) => Once(c)')
        /\ (Quiet(c)' <=> Quiet(c))
    BY <2>1, FreedViews
  <2>7. Core'
    BY <1>3, <1>5, <1>6, <1>7, <1>8, <2>1, <2>5, <2>6, DestroyPooledCore
  <2>8. DtorGood'
    BY <1>1, <1>8, <2>2, <2>4, DtorAfterDelete DEF SameReq, SameConn
  <2> QED  BY <1>1, <1>3, <1>7, <2>4, <2>6, <2>7, <2>8 DEF IInv, TypeOK
<1> QED  BY <1>4, <1>9, <1>10
-----------------------------------------------------------------------------
LEMMA InitGood == Init => IInv
<1> SUFFICES ASSUME Init PROVE IInv
  OBVIOUS
<1>1. TypeOK
  BY ConnectorAssumption DEF Init, TypeOK, RequestType, ConnType, PooledType, ChanType, StateType,
     TaskType, NoConn, Idle
<1>2. /\ \A r \in Requests : /\ Pc(r) = "idle" /\ Bo(r) = NULL /\ Re(r) = "none" /\ To(r) = 0
                             /\ Wh(r) = "none" /\ Ch(r) = NULL
      /\ \A p \in Pooleds : Li(p) = "none" /\ Pe(p) = "none" /\ ~He(p)
      /\ \A c \in Chans : Ph(c) = "none" /\ Hd(c) = NULL /\ At(c) = "idle" /\ Quiet(c)
  BY DEF Init, Pc, Bo, Re, To, Wh, Ch, Li, Pe, He, Ph, Hd, At, Quiet, NoConn, Idle
<1>3. /\ \A c \in Chans : Once(c) /\ \A r \in Requests : ~Adopts(c, r)
      /\ IdleOnce /\ (\A p \in Pooleds : ~InIdle(p))
      /\ QueuedOnce /\ (\A k, x : ~Queued(k, x))
  BY DEF Init, Once, SingleIn, Adopts, IdleOnce, Distinct, InIdle, QueuedOnce, Queued, Has
<1>4. /\ \A r \in Requests : ~Started(r)
      /\ \A c \in Chans : ~Busy(c)
      /\ \A p \in Pooleds : ~Doomed(p)
      /\ NULL \notin Requests \cup Pooleds
  BY <1>2, <1>3, ConnectorAssumption DEF Started, Busy, Doomed
<1>5. RequestsGood /\ ChannelsOwned /\ HandlersGood /\ TasksGood
  BY <1>2, <1>3, <1>4 DEF RequestsGood, ChannelsOwned, HandlersGood, TasksGood
<1>6. StepsGood /\ PostedGood /\ PoolGood
  BY <1>2, <1>3, <1>4 DEF StepsGood, PostedGood, PoolGood
<1>7. IdleGood /\ BorrowedGood /\ SharedGood
  BY <1>2, <1>3, <1>4 DEF IdleGood, BorrowedGood, SharedGood
<1>8. DtorGood
  BY DEF Init, DtorGood
<1> QED  BY <1>1, <1>5, <1>6, <1>7, <1>8 DEF IInv, Core

LEMMA NextKeeps == IInv /\ [Next]_vars => IInv'
<1> SUFFICES ASSUME IInv, [Next]_vars PROVE IInv'
  OBVIOUS
<1>1. CASE UNCHANGED vars
  <2>1. \A c \in Chans : SameChan(c)
    BY <1>1, UnchangedViews DEF vars
  <2>2. Core'
    BY <1>1, <2>1, CoreKept DEF vars
  <2>3. DtorGood'
    BY <1>1, UnchangedViews, DtorUntouched DEF vars, Ha
  <2> QED  BY <1>1, <2>2, <2>3 DEF IInv, TypeOK, vars
<1>2. ASSUME NEW r \in Requests, Request(r) \/ RequestStep(r) PROVE IInv'
  BY <1>2, RequestKeeps, InsertKeeps, StartKeeps, ReleaseBorrowedKeeps, DisownKeeps, CloseBorrowedKeeps,
     ReinsertKeeps, AbortKeeps, AbortedKeeps, CheckKeeps DEF RequestStep
<1>3. ASSUME NEW c \in Chans,
             \/ OnChannelReady(c) \/ OnResponse(c) \/ OnRequestFailed(c)
             \/ StrayData(c) \/ ChannelFails(c)
      PROVE  IInv'
  BY <1>3, OnChannelReadyKeeps, OnResponseKeeps, OnRequestFailedKeeps, StrayDataKeeps, ChannelFailsKeeps
<1>4. ASSUME NEW c \in Chans, QueueStep(c) PROVE IInv'
  BY <1>4, ReturnToPoolKeeps, DetachAndScheduleDestroyKeeps, RunCloseKeeps, RunAdoptKeeps,
     AdoptFailedKeeps, ReopenKeeps, RecheckKeeps, OnConnClosedKeeps, OnPooledClosedKeeps DEF QueueStep
<1>5. CASE RuntimeStep
  BY <1>5, DestroyConnKeeps, DestroyPooledKeeps DEF RuntimeStep
<1>6. CASE UserClose \/ UserNotify
  BY <1>6, UserCloseKeeps, UserNotifyKeeps
<1>7. ASSUME NEW on \in Threads \cup {NULL}, DtorBegin(on) PROVE IInv'
  BY <1>7, DtorBeginKeeps
<1>8. CASE DtorStep \/ DtorAbandon
  BY <1>8, DtorNotifyKeeps, DtorDrainedKeeps, DtorAbandonedKeeps, DtorAbandonKeeps DEF DtorStep
<1>9. ASSUME NEW t \in Threads, CallbackReturns(t) PROVE IInv'
  BY <1>9, CallbackReturnsKeeps
<1> QED  BY <1>1, <1>2, <1>3, <1>4, <1>5, <1>6, <1>7, <1>8, <1>9 DEF Next

(* The inductive invariant: types, who owns each channel and pooled        *)
(* object, what each thread of HttpConnector.cpp is in the middle of, and  *)
(* what ~HttpConnector has cut off.                                        *)
THEOREM Invariance == Spec => []IInv
BY InitGood, NextKeeps, PTL DEF Spec

(* Whatever the interleaving of Request, the channel queues, Close and the *)
(* destructor, _DeliverOnce tells a request at most once, and never one    *)
(* whose Request call returned an error.                                   *)
THEOREM OutcomeToldOnce == Spec => []ToldOnce
<1>1. IInv => ToldOnce
  <2> SUFFICES ASSUME IInv, NEW r \in Requests
               PROVE  To(r) <= 1 /\ (Re(r) = "refused" => To(r) = 0)
    BY DEF ToldOnce, To, Re
  <2>1. To(r) = 0 \/ (To(r) = 1 /\ Started(r))
    BY DEF IInv, Core, RequestsGood
  <2>2. Re(r) = "refused" => ~Started(r)
    BY DEF IInv, Core, RequestsGood, Started
  <2> QED  BY <2>1, <2>2
<1> QED  BY <1>1, Invariance, PTL

(* The pool, the connections, a Request thread with a borrowed channel and *)
(* the channels' handlers never refer to an object the Runtime queue has   *)
(* deleted (held_, DisownChannel, Park, OnChannelDetached).                *)
THEOREM PointersLive == Spec => []NoDangling
<1>1. IInv => NoDangling
  <2> SUFFICES ASSUME IInv PROVE NoDangling
    OBVIOUS
  <2>1. Core /\ Views /\ NULL \notin Requests \cup Pooleds /\ st.idle \in Seq(Pooleds)
    BY TypedViews, ConnectorAssumption DEF IInv, TypeOK, StateType
  <2>2. ASSUME NEW p \in Elems(st.idle)
        PROVE  pool[p].life = "live" /\ chan[pool[p].chan].handler = p
    <3>1. p \in Pooleds /\ InIdle(p)
      BY <2>1, <2>2 DEF Elems, InIdle, Has
    <3> QED  BY <2>1, <3>1 DEF Core, IdleGood, Li, Hd, Pl
  <2>3. ASSUME NEW r \in Requests
        PROVE  /\ conn[r].where = "conns" /\ conn[r].chan # NULL
                    => chan[conn[r].chan].phase # "freed"
               /\ req[r].borrowed # NULL
                    => /\ pool[req[r].borrowed].life = "live"
                       /\ req[r].pc # "release"
                            => chan[pool[req[r].borrowed].chan].phase # "freed"
    <3>1. Ch(r) # NULL => Ph(Ch(r)) # "freed"
      BY <2>1 DEF Core, ChannelsOwned
    <3>2. Bo(r) # NULL => Li(Bo(r)) = "live" /\ He(Bo(r)) /\ Bo(r) \in Pooleds /\ Pl(Bo(r)) \in Chans
      BY <2>1 DEF Core, Views, BorrowedGood, PoolGood
    <3>3. Bo(r) # NULL /\ Pc(r) # "release" => Ph(Pl(Bo(r))) # "freed"
      BY <2>1, <3>2 DEF Core, BorrowedGood, PoolGood, HandlersGood
    <3> QED  BY <3>1, <3>2, <3>3 DEF Ch, Ph, Bo, Li, Pl, Pc
  <2>4. ASSUME NEW c \in Chans
        PROVE  /\ chan[c].handler \in Requests => conn[chan[c].handler].chan = c
               /\ chan[c].handler \in Pooleds => pool[chan[c].handler].life = "live"
    BY <2>1 DEF Core, HandlersGood, Hd, Ch, Li
  <2> QED  BY <2>2, <2>3, <2>4 DEF NoDangling
<1> QED  BY <1>1, Invariance, PTL

(* When ~HttpConnector has returned, drained or having given up after      *)
(* drainTimeoutMs, no thread is in a callback into the application but the *)
(* one that destroyed the connector from inside it.                        *)
THEOREM SilentAfterDestruction == Spec => []NoCallbackAfterDestruction
<1>1. IInv => NoCallbackAfterDestruction
  BY DEF IInv, DtorGood, NoCallbackAfterDestruction, NobodyElseInCallback
<1> QED  BY <1>1, Invariance, PTL
=============================================================================
