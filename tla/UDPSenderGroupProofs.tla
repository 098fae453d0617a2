------------------------ MODULE UDPSenderGroupProofs ------------------------
(***************************************************************************)
(* Proofs about UDPSenderGroup, for any finite set of senders, any number  *)
(* of sends and restarts and any outcome of the socket operations.         *)
(*                                                                         *)
(* Good is what every call and callback of a sender keeps; there is one    *)
(* lemma per operator they are made of.                                    *)
(***************************************************************************)
EXTENDS UDPSenderGroup, FiniteSetTheorems, SequenceTheorems, TLAPS

ItemType == [k : {"RECVDONE", "SENDDONE", "CONNDONE", "CTRL", "SHUTDOWN"},
             r : Results \cup {"ok", "unreach", "transient"}, gen : Nat]
EventType == [t : {"START_RECV", "STOPWORK", "RESTART_WORK"}, h : Handles \cup {NULL}]

Sender ==
  [state : {INACTIVE, READY, READING}, newState : {FREED, INACTIVE, MAX},
   recv : Nat, send : Nat, restart : Nat, handle : Handles \cup {NULL},
   gen : Nat, opened : Nat, bound : BOOLEAN, list : Seq(EventType),
   taskq : Seq(ItemType), kRecv : Nat, kSend : Nat, detached : BOOLEAN,
   shut : BOOLEAN, openFailed : BOOLEAN, fault : BOOLEAN, posts : Seq({"restarted"})]

(* The completions in a task queue. *)
At(q, k) == {i \in DOMAIN q : q[i].k = k}
Count(q, k) == Cardinality(At(q, k))
IsDone(t) == t.k \in {"RECVDONE", "SENDDONE"}

Counted(b) ==
  /\ b.recv <= 1
  /\ b.recv = b.kRecv + Count(b.taskq, "RECVDONE")
  /\ b.send = b.kSend + Count(b.taskq, "SENDDONE")

Current(b) == \A i \in DOMAIN b.taskq : IsDone(b.taskq[i]) => b.taskq[i].gen = b.gen

(* The last item of a task queue is the shutdown, once the queue is        *)
(* detached; nothing follows it.                                           *)
Ending(b) ==
  /\ b.detached => b.state = INACTIVE /\ b.newState = FREED
  /\ \A i \in At(b.taskq, "SHUTDOWN") : i = Len(b.taskq) /\ b.detached /\ ~b.shut
  /\ b.shut => b.detached /\ b.taskq = <<>>

Idle(b) == b.recv = 0 /\ b.send = 0 /\ b.gen = 0

Good(b) ==
  b \in Sender /\ Counted(b) /\ Current(b) /\ Ending(b) /\ (b.state = INACTIVE => Idle(b))

Shut == {s \in Senders : snd[s].shut}
Told == \E i \in DOMAIN conn.q : conn.q[i] = "closed"

GrpType == [winner : Senders \cup {NULL}, closed : Nat]
ConnType == [owner : Owners, q : Seq({"restarted", "closed"}), started : BOOLEAN,
             restarts : Nat, closing : BOOLEAN, deleted : BOOLEAN]

IInv ==
  /\ snd \in [Senders -> Sender]
  /\ \A s \in Senders : Good(snd[s])
  /\ busy \in Senders \cup {NULL}
  /\ grp \in GrpType /\ grp.closed = Cardinality(Shut)
  /\ conn \in ConnType
  /\ Told \/ conn.deleted => Shut = Senders
  /\ conn.deleted => busy = NULL
-----------------------------------------------------------------------------
(* Task queues.                                                            *)

LEMMA AtFinite ==
  ASSUME NEW q \in Seq(ItemType), NEW k
  PROVE  IsFiniteSet(At(q, k)) /\ Count(q, k) \in Nat
<1>1. At(q, k) \subseteq 1..Len(q) /\ Len(q) \in Nat
  BY DEF At
<1>2. IsFiniteSet(1..Len(q))
  BY <1>1, FS_Interval
<1> QED
  BY <1>1, <1>2, FS_Subset, FS_CardinalityType DEF Count

LEMMA AppendAt ==
  ASSUME NEW q \in Seq(ItemType), NEW t \in ItemType
  PROVE  /\ Append(q, t) \in Seq(ItemType)
         /\ DOMAIN Append(q, t) = DOMAIN q \cup {Len(q) + 1} /\ Len(q) + 1 \notin DOMAIN q
         /\ \A i \in DOMAIN q : Append(q, t)[i] = q[i]
         /\ Append(q, t)[Len(q) + 1] = t
         /\ Len(Append(q, t)) = Len(q) + 1
         /\ \A k : Count(Append(q, t), k) = Count(q, k) + (IF t.k = k THEN 1 ELSE 0)
<1> DEFINE p == Append(q, t)
<1>1. /\ p \in Seq(ItemType) /\ Len(p) = Len(q) + 1
      /\ DOMAIN p = DOMAIN q \cup {Len(q) + 1} /\ Len(q) + 1 \notin DOMAIN q
      /\ \A i \in DOMAIN q : p[i] = q[i]
      /\ p[Len(q) + 1] = t
  OBVIOUS
<1>2. ASSUME NEW k PROVE Count(p, k) = Count(q, k) + (IF t.k = k THEN 1 ELSE 0)
  <2> HIDE DEF p
  <2>1. CASE t.k = k
    <3>1. At(p, k) = At(q, k) \cup {Len(q) + 1} /\ Len(q) + 1 \notin At(q, k)
      BY <1>1, <2>1 DEF At
    <3>2. Cardinality(At(q, k) \cup {Len(q) + 1}) = Cardinality(At(q, k)) + 1
      BY <3>1, AtFinite, FS_AddElement
    <3> QED BY <2>1, <3>1, <3>2 DEF Count
  <2>2. CASE t.k # k
    <3>1. At(p, k) = At(q, k)
      BY <1>1, <2>2 DEF At
    <3> QED BY <2>2, <3>1, AtFinite DEF Count
  <2> QED BY <2>1, <2>2
<1> QED BY <1>1, <1>2

LEMMA TailAt ==
  ASSUME NEW q \in Seq(ItemType), q # <<>>
  PROVE  /\ Tail(q) \in Seq(ItemType) /\ Head(q) \in ItemType
         /\ Len(q) \in Nat /\ Len(q) > 0 /\ Len(Tail(q)) = Len(q) - 1
         /\ Head(q) = q[1] /\ 1 \in DOMAIN q
         /\ \A i \in DOMAIN Tail(q) : i + 1 \in DOMAIN q /\ Tail(q)[i] = q[i + 1]
         /\ \A k : Count(q, k) = Count(Tail(q), k) + (IF Head(q).k = k THEN 1 ELSE 0)
<1> DEFINE p == Tail(q)
<1>1. /\ p \in Seq(ItemType) /\ Head(q) \in ItemType
      /\ Len(q) \in Nat /\ Len(q) > 0 /\ Len(p) = Len(q) - 1
      /\ Head(q) = q[1] /\ 1 \in DOMAIN q /\ DOMAIN q = 1..Len(q)
      /\ DOMAIN p = 1..(Len(q) - 1)
      /\ \A i \in DOMAIN p : i + 1 \in DOMAIN q /\ p[i] = q[i + 1]
  OBVIOUS
<1>2. ASSUME NEW k PROVE Count(q, k) = Count(p, k) + (IF Head(q).k = k THEN 1 ELSE 0)
  <2> HIDE DEF p
  <2> DEFINE f == [i \in At(p, k) |-> i + 1]
             R == At(q, k) \ {1}
  <2>1. f \in Bijection(At(p, k), R)
    <3>1. f \in [At(p, k) -> R]
      BY <1>1 DEF At
    <3>2. \A i, j \in At(p, k) : f[i] = f[j] => i = j
      BY <1>1 DEF At
    <3>3. \A j \in R : \E i \in At(p, k) : f[i] = j
      <4> TAKE j \in R
      <4>1. j - 1 \in At(p, k)
        BY <1>1 DEF At
      <4>2. j \in Int
        BY <1>1 DEF At
      <4>3. f[j - 1] = (j - 1) + 1
        BY <4>1
      <4> HIDE DEF f
      <4> QED BY <4>1, <4>2, <4>3
    <3> HIDE DEF f, R
    <3> QED
      BY <3>1, <3>2, <3>3 DEF Bijection, Injection, Surjection, IsInjective
  <2>2. ExistsBijection(At(p, k), R)
    BY <2>1 DEF ExistsBijection
  <2>3. IsFiniteSet(At(p, k)) /\ IsFiniteSet(At(q, k)) /\ Count(p, k) \in Nat /\ Count(q, k) \in Nat
    BY <1>1, AtFinite
  <2>4. Cardinality(R) = Count(p, k)
    BY <2>2, <2>3, FS_Bijection DEF Count
  <2>5. CASE Head(q).k = k
    <3>1. 1 \in At(q, k)
      BY <1>1, <2>5 DEF At
    <3>2. Cardinality(At(q, k) \ {1}) = Cardinality(At(q, k)) - 1
      BY <2>3, <3>1, FS_RemoveElement
    <3> QED BY <2>3, <2>4, <2>5, <3>2 DEF Count
  <2>6. CASE Head(q).k # k
    <3>1. R = At(q, k)
      BY <1>1, <2>6 DEF At
    <3>2. Cardinality(At(q, k)) = Count(p, k)
      BY <2>4, <3>1
    <3> HIDE DEF R
    <3> QED BY <2>3, <2>6, <3>2 DEF Count
  <2> QED BY <2>5, <2>6
<1> QED BY <1>1, <1>2

(* n completions of one kind at the end of a queue, as Cancel posts them.  *)
Repeated(q, t, n) == q \o [i \in 1..n |-> t]

LEMMA RepeatAt ==
  ASSUME NEW q \in Seq(ItemType), NEW t \in ItemType, NEW n \in Nat
  PROVE  /\ Repeated(q, t, n) \in Seq(ItemType)
         /\ DOMAIN q \subseteq DOMAIN Repeated(q, t, n)
         /\ \A i \in DOMAIN q : Repeated(q, t, n)[i] = q[i]
         /\ \A i \in DOMAIN Repeated(q, t, n) : i \in DOMAIN q \/ Repeated(q, t, n)[i] = t
         /\ Count(Repeated(q, t, n), t.k) = Count(q, t.k) + n
         /\ \A k : k # t.k => Count(Repeated(q, t, n), k) = Count(q, k)
<1> DEFINE p == Repeated(q, t, n)
           r == [i \in 1..n |-> t]
           N == (Len(q) + 1)..(Len(q) + n)
<1>1. /\ r \in Seq(ItemType) /\ Len(r) = n /\ \A i \in 1..n : r[i] = t
  OBVIOUS
<1> DEFINE w == q \o r
<1>6. p = w
  BY DEF Repeated
<1> HIDE DEF r, p
<1>7. /\ w \in Seq(ItemType) /\ Len(q) \in Nat /\ DOMAIN q = 1..Len(q)
      /\ DOMAIN w = 1..(Len(q) + n)
      /\ \A i \in 1..Len(q) : w[i] = q[i]
      /\ \A i \in N : w[i] = r[i - Len(q)]
  BY <1>1
<1> HIDE DEF w
<1>2. /\ p \in Seq(ItemType) /\ Len(q) \in Nat /\ DOMAIN q = 1..Len(q)
      /\ DOMAIN p = 1..(Len(q) + n)
      /\ \A i \in 1..Len(q) : p[i] = q[i]
      /\ \A i \in N : p[i] = r[i - Len(q)]
  BY <1>6, <1>7
<1>3. /\ DOMAIN p = DOMAIN q \cup N /\ DOMAIN q \cap N = {}
      /\ \A i \in N : p[i] = t
  <2>1. \A i \in N : i - Len(q) \in 1..n
    BY <1>2
  <2> QED BY <1>1, <1>2, <2>1
<1>4. IsFiniteSet(N) /\ Cardinality(N) = n
  <2>1. PICK a \in Int : a = Len(q) + 1
    BY <1>2
  <2>2. PICK z \in Int : z = Len(q) + n
    BY <1>2
  <2>3. IsFiniteSet(a..z) /\ Cardinality(a..z) = IF a > z THEN 0 ELSE z - a + 1
    BY FS_Interval
  <2> QED BY <1>2, <2>1, <2>2, <2>3
<1> HIDE DEF N
<1>5. ASSUME NEW k PROVE /\ t.k = k => Count(p, k) = Count(q, k) + n
                         /\ t.k # k => Count(p, k) = Count(q, k)
  <2>1. IsFiniteSet(At(q, k)) /\ Count(q, k) \in Nat
    BY AtFinite
  <2>2. CASE t.k = k
    <3>1. At(p, k) = At(q, k) \cup N /\ At(q, k) \cap N = {}
      BY <1>2, <1>3, <2>2 DEF At
    <3>2. Cardinality(At(q, k) \cup N)
            = Cardinality(At(q, k)) + Cardinality(N) - Cardinality(At(q, k) \cap N)
      BY <1>4, <2>1, FS_Union
    <3>3. Cardinality({}) = 0
      BY FS_EmptySet
    <3>4. Count(p, k) = Count(q, k) + n - 0
      BY <1>4, <3>1, <3>2, <3>3 DEF Count
    <3> QED BY <2>1, <2>2, <3>4
  <2>3. CASE t.k # k
    <3>1. At(p, k) = At(q, k)
      BY <1>2, <1>3, <2>3 DEF At
    <3> QED BY <2>1, <2>3, <3>1 DEF Count
  <2> QED BY <2>2, <2>3
<1> QED
  BY <1>2, <1>3, <1>5 DEF p

LEMMA NoneAt ==
  ASSUME NEW q \in Seq(ItemType), NEW k, Count(q, k) = 0
  PROVE  \A i \in DOMAIN q : q[i].k # k
<1>1. At(q, k) = {}
  BY AtFinite, FS_EmptySet DEF Count
<1> QED BY <1>1 DEF At

LEMMA EmptyAt == \A k : At(<<>>, k) = {} /\ Count(<<>>, k) = 0
<1>1. \A k : At(<<>>, k) = {}
  BY DEF At
<1> QED BY <1>1, FS_EmptySet DEF Count
-----------------------------------------------------------------------------
(* The operators a sender is made of.                                      *)

SameIo(b, d) ==
  /\ d.recv = b.recv /\ d.send = b.send /\ d.kRecv = b.kRecv /\ d.kSend = b.kSend
  /\ d.gen = b.gen /\ d.taskq = b.taskq
SameEnd(b, d) == d.state = b.state /\ d.detached = b.detached /\ d.shut = b.shut

Keeps(b, d) == Good(d) /\ d.shut = b.shut

LEMMA SameGood ==
  ASSUME NEW b, Good(b), NEW d \in Sender, SameIo(b, d), SameEnd(b, d),
         d.newState = b.newState \/ d.newState = FREED \/ ~b.detached
  PROVE  Keeps(b, d)
<1>1. b \in Sender /\ Counted(b) /\ Current(b) /\ Ending(b) /\ (b.state = INACTIVE => Idle(b))
  BY DEF Good
<1>2. Counted(d) /\ Current(d) /\ (d.state = INACTIVE => Idle(d))
  BY <1>1 DEF Counted, Current, Idle, SameIo, SameEnd
<1>3. Ending(d)
  BY <1>1 DEF Ending, SameIo, SameEnd
<1> QED
  BY <1>2, <1>3 DEF Good, Keeps, SameEnd

LEMMA CtrlType == CTRL \in ItemType /\ SHUTDOWN \in ItemType /\ CTRL.k = "CTRL" /\ SHUTDOWN.k = "SHUTDOWN"
BY DEF CTRL, SHUTDOWN, Item, ItemType

(* An item that is no shutdown is queued while the queue is not detached.  *)
LEMMA QueueGood ==
  ASSUME NEW b, Good(b), ~b.detached, NEW d \in Sender, NEW t \in ItemType,
         t.k \in {"CTRL", "CONNDONE"}, d.taskq = Append(b.taskq, t),
         d.recv = b.recv, d.send = b.send, d.kRecv = b.kRecv, d.kSend = b.kSend,
         d.gen = b.gen, d.newState = b.newState, SameEnd(b, d)
  PROVE  Keeps(b, d)
<1>1. b \in Sender /\ Counted(b) /\ Current(b) /\ Ending(b) /\ (b.state = INACTIVE => Idle(b))
  BY DEF Good
<1>2. b.taskq \in Seq(ItemType)
  BY <1>1 DEF Sender
<1>3. /\ DOMAIN d.taskq = DOMAIN b.taskq \cup {Len(b.taskq) + 1}
      /\ \A i \in DOMAIN b.taskq : d.taskq[i] = b.taskq[i]
      /\ d.taskq[Len(b.taskq) + 1] = t
      /\ \A k : Count(d.taskq, k) = Count(b.taskq, k) + (IF t.k = k THEN 1 ELSE 0)
  BY <1>2, AppendAt
<1>4. Counted(d)
  <2>1. /\ Count(d.taskq, "RECVDONE") = Count(b.taskq, "RECVDONE") + 0
        /\ Count(d.taskq, "SENDDONE") = Count(b.taskq, "SENDDONE") + 0
    BY <1>3
  <2>2. Count(b.taskq, "RECVDONE") \in Nat /\ Count(b.taskq, "SENDDONE") \in Nat
    BY <1>2, AtFinite
  <2> QED BY <1>1, <2>1, <2>2 DEF Counted
<1>5. Current(d)
  BY <1>1, <1>3 DEF Current, IsDone
<1>6. Ending(d)
  <2>1. At(d.taskq, "SHUTDOWN") = {}
    BY <1>1, <1>3 DEF Ending, At
  <2> QED BY <1>1, <2>1 DEF Ending, SameEnd
<1> QED
  BY <1>1, <1>4, <1>5, <1>6 DEF Good, Keeps, SameEnd, Idle

LEMMA PostKeeps ==
  ASSUME NEW b, Good(b), NEW e \in EventType, NEW draining \in BOOLEAN
  PROVE  Keeps(b, Post(b, e, draining)) /\ Post(b, e, draining).posts = b.posts
<1> DEFINE d == Post(b, e, draining)
           q == IF b.detached \/ Ctrls(b) \/ draining THEN b.taskq ELSE Append(b.taskq, CTRL)
<1>1. b \in Sender /\ b.taskq \in Seq(ItemType) /\ Append(b.list, e) \in Seq(EventType)
  BY DEF Good, Sender
<1>2. q \in Seq(ItemType)
  BY <1>1, CtrlType
<1>3. d = [b EXCEPT !.list = Append(b.list, e), !.taskq = q]
  BY Zenon DEF Post
<1>4. q = b.taskq \/ (~b.detached /\ q = Append(b.taskq, CTRL))
  OBVIOUS
<1>9. d = Post(b, e, draining)
  OBVIOUS
<1> HIDE DEF d, q
<1>5. d \in Sender
  BY <1>1, <1>2, <1>3, ZenonT(60) DEF Sender
<1>6. /\ d.taskq = q /\ d.recv = b.recv /\ d.send = b.send /\ d.kRecv = b.kRecv
      /\ d.kSend = b.kSend /\ d.gen = b.gen /\ d.newState = b.newState /\ SameEnd(b, d)
      /\ d.posts = b.posts
  BY <1>1, <1>3, ZenonT(60) DEF Sender, SameEnd
<1>7. CASE q = b.taskq
  BY <1>5, <1>6, <1>7, <1>9, SameGood DEF SameIo
<1>8. CASE ~b.detached /\ q = Append(b.taskq, CTRL)
  <2> CTRL \in ItemType /\ CTRL.k \in {"CTRL", "CONNDONE"}
    BY CtrlType
  <2> QED BY <1>5, <1>6, <1>8, <1>9, QueueGood
<1> QED BY <1>4, <1>7, <1>8

LEMMA DetachKeeps ==
  ASSUME NEW b, Good(b), b.state = INACTIVE, b.newState = FREED
  PROVE  Keeps(b, Detach(b))
<1>1. CASE b.detached
  BY <1>1 DEF Detach, Keeps
<1>2. CASE ~b.detached
  <2> DEFINE d == [b EXCEPT !.detached = TRUE, !.taskq = Append(@, SHUTDOWN)]
  <2>1. b \in Sender /\ Counted(b) /\ Current(b) /\ Ending(b) /\ Idle(b)
    BY DEF Good
  <2>2. b.taskq \in Seq(ItemType) /\ Append(b.taskq, SHUTDOWN) \in Seq(ItemType)
    BY <2>1, CtrlType DEF Sender
  <2>3. Detach(b) = d
    BY <1>2 DEF Detach
  <2>4. d \in Sender
    BY <2>1, <2>2, ZenonT(60) DEF Sender
  <2>5. /\ d.taskq = Append(b.taskq, SHUTDOWN) /\ d.recv = b.recv /\ d.send = b.send
        /\ d.kRecv = b.kRecv /\ d.kSend = b.kSend /\ d.gen = b.gen
        /\ d.newState = b.newState /\ d.state = b.state /\ d.detached /\ d.shut = b.shut
    BY <2>1, ZenonT(60) DEF Sender
  <2> HIDE DEF d
  <2>6. /\ DOMAIN d.taskq = DOMAIN b.taskq \cup {Len(b.taskq) + 1}
        /\ \A i \in DOMAIN b.taskq : d.taskq[i] = b.taskq[i]
        /\ d.taskq[Len(b.taskq) + 1] = SHUTDOWN /\ Len(d.taskq) = Len(b.taskq) + 1
        /\ \A k : Count(d.taskq, k) = Count(b.taskq, k) + (IF SHUTDOWN.k = k THEN 1 ELSE 0)
    BY <2>2, <2>5, CtrlType, AppendAt
  <2>7. Counted(d)
    <3>1. /\ Count(d.taskq, "RECVDONE") = Count(b.taskq, "RECVDONE") + 0
          /\ Count(d.taskq, "SENDDONE") = Count(b.taskq, "SENDDONE") + 0
      BY <2>6, CtrlType
    <3>2. Count(b.taskq, "RECVDONE") \in Nat /\ Count(b.taskq, "SENDDONE") \in Nat
      BY <2>2, AtFinite
    <3> QED BY <2>1, <2>5, <3>1, <3>2 DEF Counted
  <2>8. Current(d)
    BY <2>1, <2>5, <2>6, CtrlType DEF Current, IsDone
  <2>9. Ending(d)
    <3>1. ~b.shut
      BY <1>2, <2>1 DEF Ending
    <3>2. \A i \in At(d.taskq, "SHUTDOWN") : i = Len(b.taskq) + 1
      BY <1>2, <2>1, <2>6 DEF Ending, At
    <3> QED BY <2>5, <2>6, <3>1, <3>2 DEF Ending
  <2> QED
    BY <2>1, <2>3, <2>4, <2>5, <2>7, <2>8, <2>9 DEF Good, Keeps, Idle
<1> QED BY <1>1, <1>2

(* Cancel turns what the kernel holds into completions of the same socket. *)
LEMMA StopReadingKeeps ==
  ASSUME NEW b, Good(b)
  PROVE  LET d == StopReading(b) IN
         /\ Keeps(b, d) /\ d.state \in {INACTIVE, READY} /\ (d.state = INACTIVE <=> b.state = INACTIVE)
         /\ d.newState = b.newState /\ d.detached = b.detached /\ d.restart = b.restart
<1>1. b \in Sender /\ Counted(b) /\ Current(b) /\ Ending(b) /\ (b.state = INACTIVE => Idle(b))
  BY DEF Good
<1>2. CASE b.state # READING
  BY <1>1, <1>2 DEF StopReading, Keeps, Sender
<1>3. CASE b.state = READING
  <2> DEFINE x == Item("RECVDONE", "transient", b.gen)
             y == Item("SENDDONE", "transient", b.gen)
             p == Repeated(b.taskq, x, b.kRecv)
             q == Repeated(p, y, b.kSend)
             c == Cancel(b)
             d == [c EXCEPT !.state = READY]
  <2>1. StopReading(b) = d
    BY <1>3 DEF StopReading
  <2>2. c = [b EXCEPT !.taskq = q, !.kRecv = 0, !.kSend = 0]
    BY DEF Cancel, Repeated
  <2>3. /\ b.taskq \in Seq(ItemType) /\ b.kRecv \in Nat /\ b.kSend \in Nat /\ b.gen \in Nat
        /\ b.recv \in Nat /\ b.send \in Nat
    BY <1>1 DEF Sender
  <2>4. /\ x \in ItemType /\ x.k = "RECVDONE" /\ x.gen = b.gen
        /\ y \in ItemType /\ y.k = "SENDDONE" /\ y.gen = b.gen
    BY <2>3 DEF Item, ItemType
  <2> HIDE DEF x, y, c, p, q
  <2>5. /\ p \in Seq(ItemType) /\ DOMAIN b.taskq \subseteq DOMAIN p
        /\ \A i \in DOMAIN b.taskq : p[i] = b.taskq[i]
        /\ \A i \in DOMAIN p : i \in DOMAIN b.taskq \/ p[i] = x
        /\ Count(p, "RECVDONE") = Count(b.taskq, "RECVDONE") + b.kRecv
        /\ Count(p, "SENDDONE") = Count(b.taskq, "SENDDONE")
    <3>1. /\ p \in Seq(ItemType) /\ DOMAIN b.taskq \subseteq DOMAIN p
          /\ \A i \in DOMAIN b.taskq : p[i] = b.taskq[i]
          /\ \A i \in DOMAIN p : i \in DOMAIN b.taskq \/ p[i] = x
          /\ Count(p, x.k) = Count(b.taskq, x.k) + b.kRecv
          /\ \A k : k # x.k => Count(p, k) = Count(b.taskq, k)
      BY <2>3, <2>4, RepeatAt, ZenonT(60) DEF p
    <3> QED BY <2>4, <3>1
  <2>6. /\ q \in Seq(ItemType) /\ DOMAIN p \subseteq DOMAIN q
        /\ \A i \in DOMAIN p : q[i] = p[i]
        /\ \A i \in DOMAIN q : i \in DOMAIN p \/ q[i] = y
        /\ Count(q, "SENDDONE") = Count(p, "SENDDONE") + b.kSend
        /\ Count(q, "RECVDONE") = Count(p, "RECVDONE")
    <3>1. /\ q \in Seq(ItemType) /\ DOMAIN p \subseteq DOMAIN q
          /\ \A i \in DOMAIN p : q[i] = p[i]
          /\ \A i \in DOMAIN q : i \in DOMAIN p \/ q[i] = y
          /\ Count(q, y.k) = Count(p, y.k) + b.kSend
          /\ \A k : k # y.k => Count(q, k) = Count(p, k)
      <4>1. PICK a \in Seq(ItemType) : a = p
        BY <2>5
      <4>2. b.kSend \in Nat /\ y \in ItemType
        BY <2>3, <2>4
      <4> DEFINE w == Repeated(a, y, b.kSend)
      <4>3. /\ w \in Seq(ItemType) /\ DOMAIN a \subseteq DOMAIN w
            /\ \A i \in DOMAIN a : w[i] = a[i]
            /\ \A i \in DOMAIN w : i \in DOMAIN a \/ w[i] = y
        BY <4>2, RepeatAt, ZenonT(60)
      <4>5. Count(w, y.k) = Count(a, y.k) + b.kSend
        BY <4>2, RepeatAt, ZenonT(60)
      <4>6. \A k : k # y.k => Count(w, k) = Count(a, k)
        BY <4>2, RepeatAt, ZenonT(60)
      <4>4. q = w
        BY <4>1 DEF q
      <4> HIDE DEF w
      <4> QED BY <4>1, <4>3, <4>4, <4>5, <4>6
    <3> QED BY <2>4, <3>1
  <2>7. c \in Sender
    <3> 0 \in Nat
      OBVIOUS
    <3> QED BY <1>1, <2>2, <2>6, ZenonT(60) DEF Sender
  <2>8. d \in Sender
    BY <2>7, ZenonT(60) DEF Sender
  <2>9. /\ d.taskq = q /\ d.recv = b.recv /\ d.send = b.send
        /\ d.kRecv = 0 /\ d.kSend = 0 /\ d.gen = b.gen /\ d.restart = b.restart
        /\ d.newState = b.newState /\ d.state = READY /\ d.detached = b.detached
        /\ d.shut = b.shut
    BY <1>1, <2>2, ZenonT(60) DEF Sender
  <2> HIDE DEF d
  <2>10. Counted(d)
    <3>1. Count(b.taskq, "RECVDONE") \in Nat /\ Count(b.taskq, "SENDDONE") \in Nat
      BY <2>3, AtFinite
    <3> QED BY <1>1, <2>3, <2>5, <2>6, <2>9, <3>1 DEF Counted
  <2>11. Current(d)
    <3> SUFFICES ASSUME NEW i \in DOMAIN q, IsDone(q[i]) PROVE q[i].gen = b.gen
      BY <2>9 DEF Current
    <3>1. CASE i \in DOMAIN b.taskq
      BY <1>1, <2>5, <2>6, <3>1 DEF Current
    <3>2. CASE i \in DOMAIN p \ DOMAIN b.taskq
      BY <2>4, <2>5, <2>6, <3>2
    <3>3. CASE i \in DOMAIN q \ DOMAIN p
      BY <2>4, <2>6, <3>3
    <3> QED BY <3>1, <3>2, <3>3
  <2>12. ~b.detached /\ ~b.shut
    BY <1>1, <1>3 DEF Ending, INACTIVE, READING
  <2>13. At(q, "SHUTDOWN") = {}
    BY <1>1, <2>4, <2>5, <2>6, <2>12 DEF Ending, At
  <2>14. Ending(d)
    BY <2>9, <2>12, <2>13 DEF Ending
  <2> QED
    BY <1>3, <2>1, <2>8, <2>9, <2>10, <2>11, <2>14 DEF Good, Keeps, INACTIVE, READY, READING
<1> QED BY <1>2, <1>3
(* With nothing in progress the socket may be closed, and the sender       *)
(* declared inactive.                                                      *)
LEMMA ClosedGood ==
  ASSUME NEW c, Good(c), c.recv + c.send = 0, NEW d \in Sender,
         d.recv = c.recv, d.send = c.send, d.kRecv = c.kRecv, d.kSend = c.kSend,
         d.taskq = c.taskq, d.detached = c.detached, d.shut = c.shut,
         d.state = INACTIVE => d.gen = 0, c.detached => d.state = INACTIVE /\ d.newState = FREED
  PROVE  Keeps(c, d)
<1>1. c \in Sender /\ Counted(c) /\ Current(c) /\ Ending(c)
  BY DEF Good
<1>2. /\ c.taskq \in Seq(ItemType) /\ c.recv \in Nat /\ c.send \in Nat
      /\ c.kRecv \in Nat /\ c.kSend \in Nat
  BY <1>1 DEF Sender
<1>3. Count(c.taskq, "RECVDONE") \in Nat /\ Count(c.taskq, "SENDDONE") \in Nat
  BY <1>2, AtFinite
<1>4. c.recv = 0 /\ c.send = 0 /\ Count(c.taskq, "RECVDONE") = 0 /\ Count(c.taskq, "SENDDONE") = 0
  <2>1. c.recv = 0 /\ c.send = 0
    BY <1>2
  <2>2. /\ 0 = c.kRecv + Count(c.taskq, "RECVDONE")
        /\ 0 = c.kSend + Count(c.taskq, "SENDDONE")
    BY <1>1, <2>1 DEF Counted
  <2> QED BY <1>2, <1>3, <2>1, <2>2
<1>5. \A i \in DOMAIN d.taskq : ~IsDone(d.taskq[i])
  BY <1>2, <1>4, NoneAt DEF IsDone
<1>6. Current(d)
  BY <1>5 DEF Current
<1>7. Counted(d)
  BY <1>1 DEF Counted
<1>8. Ending(d)
  BY <1>1 DEF Ending
<1>9. d.state = INACTIVE => Idle(d)
  BY <1>4 DEF Idle
<1> QED
  BY <1>6, <1>7, <1>8, <1>9 DEF Good, Keeps

LEMMA OutcomeType ==
  ASSUME NEW o \in Outcomes
  PROVE  o.open \in BOOLEAN /\ o.pin \in BOOLEAN
<1> DEFINE B == IF OpenMayFail THEN BOOLEAN ELSE {TRUE}
<1>1. o \in [open : B, pin : Pins]
  BY DEF Outcomes
<1>2. B \subseteq BOOLEAN /\ Pins \subseteq BOOLEAN
  BY GroupAssumption
<1> HIDE DEF B
<1>3. o.open \in B /\ o.pin \in Pins
  BY <1>1
<1> QED BY <1>2, <1>3

(* _Restart opens another socket, or leaves none. *)
LEMMA ReopenFields ==
  ASSUME NEW b \in Sender, b.restart > 0, NEW o \in Outcomes
  PROVE  LET d == Reopen(b, o) IN
         /\ d \in Sender
         /\ d.recv = b.recv /\ d.send = b.send /\ d.kRecv = b.kRecv /\ d.kSend = b.kSend
         /\ d.taskq = b.taskq /\ d.detached = b.detached /\ d.shut = b.shut
         /\ d.newState = b.newState /\ d.state = b.state
<1> DEFINE c == InitSocket(b, o)
           posts == IF o.open THEN Append(c.posts, "restarted") ELSE c.posts
           d == Reopen(b, o)
<1>1. o.open \in BOOLEAN /\ o.pin \in BOOLEAN
  BY OutcomeType
<1>2. c \in Sender
  <2>1. b.opened + 1 \in Nat /\ 0 \in Nat
    BY DEF Sender
  <2>2. CASE o.open
    <3>1. c = [b EXCEPT !.gen = b.opened + 1, !.opened = b.opened + 1, !.bound = o.pin]
      BY <2>2 DEF InitSocket
    <3> HIDE DEF c
    <3> QED BY <1>1, <2>1, <3>1, ZenonT(60) DEF Sender
  <2>3. CASE ~o.open
    <3>1. c = [b EXCEPT !.gen = 0, !.bound = FALSE, !.openFailed = TRUE]
      BY <2>3 DEF InitSocket
    <3> HIDE DEF c
    <3> QED BY <2>1, <3>1, ZenonT(60) DEF Sender
  <2> QED BY <1>1, <2>2, <2>3
<1>3. /\ c.recv = b.recv /\ c.send = b.send /\ c.kRecv = b.kRecv /\ c.kSend = b.kSend
      /\ c.taskq = b.taskq /\ c.detached = b.detached /\ c.shut = b.shut
      /\ c.newState = b.newState /\ c.state = b.state /\ c.restart = b.restart
  BY ZenonT(60) DEF InitSocket, Sender
<1>4. d = [c EXCEPT !.restart = c.restart - 1, !.posts = posts]
  BY Zenon DEF Reopen
<1>7. d = Reopen(b, o)
  OBVIOUS
<1> HIDE DEF c, d
<1>5. c.restart - 1 \in Nat /\ posts \in Seq({"restarted"})
  BY <1>2, <1>3 DEF Sender
<1> HIDE DEF posts
<1>6. d \in Sender
  BY <1>2, <1>4, <1>5, ZenonT(60) DEF Sender
<1>8. /\ d.recv = c.recv /\ d.send = c.send /\ d.kRecv = c.kRecv /\ d.kSend = c.kSend
      /\ d.taskq = c.taskq /\ d.detached = c.detached /\ d.shut = c.shut
      /\ d.newState = c.newState /\ d.state = c.state
  BY <1>2, <1>4, ZenonT(60) DEF Sender
<1> QED BY <1>3, <1>6, <1>7, <1>8

LEMMA AfterKeeps ==
  ASSUME NEW b, Good(b), NEW o \in Outcomes
  PROVE  /\ Keeps(b, After(b, o))
         /\ ~Exiting(b, o) => ~After(b, o).detached
<1> DEFINE c == StopReading(b)
           d == CloseSocket(c)
           e == [d EXCEPT !.state = INACTIVE]
           f == [Reopen(e, o) EXCEPT !.state = READING, !.newState = MAX]
<1>1. b \in Sender /\ Ending(b) /\ (b.state = INACTIVE => Idle(b))
  BY DEF Good
<1>2. b.state \in {INACTIVE, READY, READING} /\ b.newState \in {FREED, INACTIVE, MAX}
  BY <1>1 DEF Sender
<1>3. CASE b.state <= b.newState
  <2>1. ExitCheck(b, o) = <<FALSE, b>>
    BY <1>3 DEF ExitCheck
  <2>2. ~b.detached
    BY <1>1, <1>3 DEF Ending, INACTIVE, FREED
  <2> QED BY <2>1, <2>2 DEF After, Exiting, Keeps
<1>4. CASE ~(b.state <= b.newState) /\ b.state = INACTIVE
  <2>1. ExitCheck(b, o) = <<TRUE, Detach(b)>>
    BY <1>4 DEF ExitCheck
  <2>2. b.newState = FREED
    BY <1>2, <1>4 DEF INACTIVE, FREED, MAX
  <2> QED BY <1>4, <2>1, <2>2, DetachKeeps DEF After, Exiting
<1>5. CASE ~(b.state <= b.newState) /\ b.state # INACTIVE
  <2>1. /\ Keeps(b, c) /\ c.state = READY /\ c.newState = b.newState
        /\ c.detached = b.detached /\ c.restart = b.restart
    BY <1>5, StopReadingKeeps
  <2>2. c \in Sender /\ c.recv \in Nat /\ c.send \in Nat
    BY <2>1 DEF Keeps, Good, Sender
  <2>3. ~b.detached
    BY <1>1, <1>5 DEF Ending
  <2>4. CASE c.recv + c.send > 0
    <3>1. ExitCheck(b, o) = <<TRUE, c>>
      BY <1>5, <2>4 DEF ExitCheck
    <3> HIDE DEF c
    <3> QED BY <2>1, <3>1 DEF After, Exiting
  <2>5. CASE ~(c.recv + c.send > 0)
    <3>1. c.recv + c.send = 0
      BY <2>2, <2>5
    <3>2. ExitCheck(b, o) =
            IF Ctrls(d) THEN <<TRUE, d>>
            ELSE IF b.newState = INACTIVE THEN <<FALSE, IF e.restart > 0 THEN f ELSE e>>
            ELSE <<TRUE, Detach(e)>>
      BY <1>5, <2>5, Zenon DEF ExitCheck
    <3> HIDE DEF c
    <3>3. d \in Sender
      <4> 0 \in Nat
        OBVIOUS
      <4> QED BY <2>2, ZenonT(60) DEF CloseSocket, Sender
    <3>4. /\ d.recv = c.recv /\ d.send = c.send /\ d.kRecv = c.kRecv /\ d.kSend = c.kSend
          /\ d.taskq = c.taskq /\ d.detached = c.detached /\ d.shut = c.shut
          /\ d.newState = c.newState /\ d.state = c.state /\ d.gen = 0 /\ d.restart = c.restart
      BY <2>2, ZenonT(60) DEF CloseSocket, Sender
    <3> HIDE DEF d
    <3>5. Keeps(c, d)
      BY <2>1, <2>3, <3>1, <3>3, <3>4, ClosedGood DEF Keeps
    <3>6. e \in Sender
      BY <3>3, ZenonT(60) DEF Sender
    <3>7. /\ e.recv = d.recv /\ e.send = d.send /\ e.kRecv = d.kRecv /\ e.kSend = d.kSend
          /\ e.taskq = d.taskq /\ e.detached = d.detached /\ e.shut = d.shut
          /\ e.newState = d.newState /\ e.state = INACTIVE /\ e.gen = d.gen /\ e.restart = d.restart
      BY <3>3, ZenonT(60) DEF Sender
    <3> HIDE DEF e
    <3>8. Keeps(c, e)
      BY <2>1, <2>3, <3>1, <3>4, <3>6, <3>7, ClosedGood DEF Keeps
    <3>9. e.restart > 0 => Keeps(c, f) /\ f.detached = e.detached
      <4> SUFFICES ASSUME e.restart > 0 PROVE Keeps(c, f) /\ f.detached = e.detached
        OBVIOUS
      <4> DEFINE g == Reopen(e, o)
      <4>1. /\ g \in Sender
            /\ g.recv = e.recv /\ g.send = e.send /\ g.kRecv = e.kRecv /\ g.kSend = e.kSend
            /\ g.taskq = e.taskq /\ g.detached = e.detached /\ g.shut = e.shut
        BY <3>6, ReopenFields
      <4> HIDE DEF g
      <4>2. f = [g EXCEPT !.state = READING, !.newState = MAX]
        BY DEF g
      <4> HIDE DEF f
      <4>3. f \in Sender
        BY <4>1, <4>2, ZenonT(60) DEF Sender
      <4>4. /\ f.recv = g.recv /\ f.send = g.send /\ f.kRecv = g.kRecv /\ f.kSend = g.kSend
            /\ f.taskq = g.taskq /\ f.detached = g.detached /\ f.shut = g.shut
            /\ f.state = READING
        BY <4>1, <4>2, ZenonT(60) DEF Sender
      <4>5. f.state # INACTIVE
        BY <4>4 DEF INACTIVE, READING
      <4>6. /\ f.recv = c.recv /\ f.send = c.send /\ f.kRecv = c.kRecv /\ f.kSend = c.kSend
            /\ f.taskq = c.taskq /\ f.detached = c.detached /\ f.shut = c.shut
        BY <3>4, <3>7, <4>1, <4>4
      <4>7. Good(c) /\ ~c.detached
        BY <2>1, <2>3 DEF Keeps
      <4>8. Keeps(c, f)
        BY <3>1, <4>3, <4>5, <4>6, <4>7, ClosedGood
      <4> QED
        BY <3>4, <3>7, <4>6, <4>8
    <3> HIDE DEF f
    <3>10. b.newState # INACTIVE => Keeps(c, Detach(e))
      <4>1. b.newState # INACTIVE => e.newState = FREED
        BY <1>2, <1>5, <2>1, <3>4, <3>7 DEF INACTIVE, READY, READING, FREED, MAX
      <4> QED BY <3>7, <3>8, <4>1, DetachKeeps DEF Keeps
    <3>11. CASE Ctrls(d)
      BY <2>1, <3>2, <3>5, <3>11 DEF After, Exiting, Keeps
    <3>12. CASE ~Ctrls(d) /\ b.newState = INACTIVE
      <4>1. After(b, o) \in {e, f} /\ (After(b, o) = f => e.restart > 0 \/ e = f)
        BY <3>2, <3>12 DEF After
      <4> QED BY <2>1, <2>3, <3>4, <3>7, <3>8, <3>9, <4>1 DEF Keeps
    <3>13. CASE ~Ctrls(d) /\ b.newState # INACTIVE
      BY <2>1, <3>2, <3>10, <3>13 DEF After, Exiting, Keeps
    <3> QED BY <3>11, <3>12, <3>13
  <2> QED BY <2>4, <2>5
<1> QED BY <1>3, <1>4, <1>5
-----------------------------------------------------------------------------
(* What the events and the completions do.                                 *)

LEMMA RecvChunkKeeps ==
  ASSUME NEW b, Good(b), NEW o \in Outcomes
  PROVE  Keeps(b, RecvChunk(b, o))
<1> DEFINE c == After(b, o)
           e == [c EXCEPT !.fault = TRUE]
           d == [c EXCEPT !.recv = @ + 1, !.kRecv = @ + 1]
<1>1. Keeps(b, c)
  BY AfterKeeps
<1>2. c \in Sender /\ Counted(c) /\ Current(c) /\ Ending(c) /\ (c.state = INACTIVE => Idle(c))
  BY <1>1 DEF Keeps, Good
<1>3. RecvChunk(b, o) = IF Exiting(b, o) \/ c.recv > 0 THEN c
                        ELSE IF c.gen = 0 THEN e ELSE After(d, o)
  BY Zenon DEF RecvChunk
<1> HIDE DEF c
<1>4. Keeps(c, e)
  <2>1. e \in Sender
    BY <1>2, ZenonT(60) DEF Sender
  <2>2. SameIo(c, e) /\ SameEnd(c, e) /\ e.newState = c.newState
    BY <1>2, ZenonT(60) DEF Sender, SameIo, SameEnd
  <2> HIDE DEF e
  <2> QED BY <1>1, <2>1, <2>2, SameGood DEF Keeps
<1>5. ASSUME ~(c.recv > 0), c.gen # 0 PROVE Keeps(c, d)
  <2>1. c.recv = 0 /\ c.recv + 1 \in Nat /\ c.kRecv + 1 \in Nat /\ c.kRecv \in Nat
    BY <1>2, <1>5 DEF Sender
  <2>2. d \in Sender
    BY <1>2, <2>1, ZenonT(60) DEF Sender
  <2>3. /\ d.recv = c.recv + 1 /\ d.send = c.send /\ d.kRecv = c.kRecv + 1 /\ d.kSend = c.kSend
        /\ d.taskq = c.taskq /\ d.gen = c.gen /\ SameEnd(c, d) /\ d.newState = c.newState
    BY <1>2, ZenonT(60) DEF Sender, SameEnd
  <2> HIDE DEF d
  <2>4. Counted(d)
    <3>1. c.taskq \in Seq(ItemType)
      BY <1>2 DEF Sender
    <3>2. Count(c.taskq, "RECVDONE") \in Nat
      BY <3>1, AtFinite
    <3> QED BY <1>2, <2>1, <2>3, <3>2 DEF Counted
  <2>5. Current(d) /\ Ending(d)
    BY <1>2, <2>3 DEF Current, Ending, SameEnd
  <2>6. d.state # INACTIVE
    BY <1>2, <1>5, <2>3 DEF Idle, SameEnd
  <2> QED
    BY <2>2, <2>3, <2>4, <2>5, <2>6 DEF Good, Keeps, SameEnd
<1> HIDE DEF d, e
<1>6. ASSUME ~(c.recv > 0), c.gen # 0 PROVE Keeps(c, After(d, o))
  BY <1>5, <1>6, AfterKeeps DEF Keeps
<1> QED
  BY <1>1, <1>3, <1>4, <1>6 DEF Keeps

LEMMA OnEventKeeps ==
  ASSUME NEW b, Good(b), NEW e \in EventType, NEW o \in Outcomes
  PROVE  Keeps(b, OnEvent(b, e, o))
<1> DEFINE c == After(b, o)
           d == Dispatch(c, e, o)
<1>1. Keeps(b, c) /\ (~Exiting(b, o) => ~c.detached)
  BY AfterKeeps
<1>2. OnEvent(b, e, o) = IF Exiting(b, o) THEN c ELSE After(d, o)
  BY Zenon DEF OnEvent
<1> HIDE DEF c
<1>3. Good(c) /\ c \in Sender
  BY <1>1 DEF Keeps, Good
<1>4. e.t \in {"START_RECV", "STOPWORK", "RESTART_WORK"} /\ e.h \in Handles \cup {NULL}
  BY DEF EventType
<1>5. ASSUME ~c.detached PROVE Keeps(c, d)
  <2>1. CASE e.t = "START_RECV"
    BY <1>3, <2>1, RecvChunkKeeps DEF Dispatch
  <2>2. CASE e.t = "STOPWORK"
    <3> DEFINE f == [c EXCEPT !.newState = FREED]
    <3>1. d = f
      BY <2>2 DEF Dispatch
    <3> HIDE DEF d
    <3>2. f \in Sender
      BY <1>3, ZenonT(60) DEF Sender
    <3>3. SameIo(c, f) /\ SameEnd(c, f) /\ f.newState = FREED
      BY <1>3, ZenonT(60) DEF Sender, SameIo, SameEnd
    <3> HIDE DEF f
    <3> QED BY <1>3, <3>1, <3>2, <3>3, SameGood
  <2>3. CASE e.t = "RESTART_WORK"
    <3> DEFINE n == IF c.restart = 0 THEN INACTIVE ELSE c.newState
               f == [c EXCEPT !.newState = n, !.restart = c.restart + 1, !.handle = e.h]
    <3>1. d = f
      BY <2>3 DEF Dispatch
    <3> HIDE DEF d
    <3>2. n \in {FREED, INACTIVE, MAX} /\ c.restart + 1 \in Nat
      BY <1>3 DEF Sender
    <3> HIDE DEF n
    <3>3. f \in Sender
      BY <1>3, <1>4, <3>2, ZenonT(60) DEF Sender
    <3>4. SameIo(c, f) /\ SameEnd(c, f)
      BY <1>3, ZenonT(60) DEF Sender, SameIo, SameEnd
    <3> HIDE DEF f
    <3> QED BY <1>3, <1>5, <3>1, <3>3, <3>4, SameGood
  <2> QED BY <1>4, <2>1, <2>2, <2>3
<1> HIDE DEF d
<1>6. ASSUME ~c.detached PROVE Keeps(c, After(d, o))
  BY <1>5, <1>6, AfterKeeps DEF Keeps
<1> QED
  BY <1>1, <1>2, <1>6 DEF Keeps

LEMMA ClearBindingKeeps ==
  ASSUME NEW b, Good(b)
  PROVE  Keeps(b, ClearBinding(b)) /\ SameIo(b, ClearBinding(b))
<1> DEFINE d == [b EXCEPT !.bound = FALSE]
<1>1. b \in Sender
  BY DEF Good
<1>2. ClearBinding(b) \in {b, d}
  BY DEF ClearBinding
<1>3. d \in Sender
  BY <1>1, ZenonT(60) DEF Sender
<1>4. SameIo(b, d) /\ SameEnd(b, d) /\ d.newState = b.newState /\ SameIo(b, b)
  BY <1>1, ZenonT(60) DEF Sender, SameIo, SameEnd
<1> HIDE DEF d
<1>5. Keeps(b, d) /\ Keeps(b, b)
  BY <1>3, <1>4, SameGood DEF Keeps
<1> QED BY <1>2, <1>4, <1>5

LEMMA OnIoErrorKeeps ==
  ASSUME NEW b, Good(b), NEW r
  PROVE  Keeps(b, OnIoError(b, r)) /\ Keeps(b, OnSendError(b, r))
<1> DEFINE d == [b EXCEPT !.newState = FREED]
<1>1. b \in Sender
  BY DEF Good
<1>2. OnIoError(b, r) \in {b, d}
  BY DEF OnIoError
<1>3. d \in Sender
  BY <1>1, ZenonT(60) DEF Sender
<1>4. SameIo(b, d) /\ SameEnd(b, d) /\ d.newState = FREED
  BY <1>1, ZenonT(60) DEF Sender, SameIo, SameEnd
<1> HIDE DEF d
<1>5. Keeps(b, d) /\ Keeps(b, b)
  BY <1>3, <1>4, SameGood DEF Keeps
<1> QED BY <1>2, <1>5, ClearBindingKeeps DEF OnSendError
(* The item at the head of the queue is taken off, and a completion is     *)
(* counted off.                                                            *)
LEMMA PopGood ==
  ASSUME NEW b, Good(b), b.taskq # <<>>, NEW d \in Sender, d.taskq = Tail(b.taskq),
         Head(b.taskq).k # "SHUTDOWN",
         Head(b.taskq).k = "RECVDONE" => d.recv = b.recv - 1,
         Head(b.taskq).k # "RECVDONE" => d.recv = b.recv,
         Head(b.taskq).k = "SENDDONE" => d.send = b.send - 1,
         Head(b.taskq).k # "SENDDONE" => d.send = b.send,
         d.kRecv = b.kRecv, d.kSend = b.kSend, d.gen = b.gen,
         d.newState = b.newState, SameEnd(b, d)
  PROVE  Keeps(b, d)
<1> DEFINE t == Head(b.taskq)
<1>1. b \in Sender /\ Counted(b) /\ Current(b) /\ Ending(b) /\ (b.state = INACTIVE => Idle(b))
  BY DEF Good
<1>2. /\ b.taskq \in Seq(ItemType) /\ b.recv \in Nat /\ b.send \in Nat
      /\ b.kRecv \in Nat /\ b.kSend \in Nat /\ d.recv \in Nat /\ d.send \in Nat
  BY <1>1 DEF Sender
<1>3. /\ t = b.taskq[1] /\ d.taskq \in Seq(ItemType) /\ Len(d.taskq) = Len(b.taskq) - 1
      /\ Len(b.taskq) \in Nat
      /\ \A i \in DOMAIN d.taskq : i + 1 \in DOMAIN b.taskq /\ d.taskq[i] = b.taskq[i + 1]
      /\ \A k : Count(b.taskq, k) = Count(d.taskq, k) + (IF t.k = k THEN 1 ELSE 0)
  BY <1>2, TailAt
<1> HIDE DEF t
<1>4. /\ Count(b.taskq, "RECVDONE") = Count(d.taskq, "RECVDONE") + (IF t.k = "RECVDONE" THEN 1 ELSE 0)
      /\ Count(b.taskq, "SENDDONE") = Count(d.taskq, "SENDDONE") + (IF t.k = "SENDDONE" THEN 1 ELSE 0)
  BY <1>3
<1>5. Count(d.taskq, "RECVDONE") \in Nat /\ Count(d.taskq, "SENDDONE") \in Nat
  BY <1>3, AtFinite
<1>6. Counted(d)
  <2>1. d.recv = d.kRecv + Count(d.taskq, "RECVDONE")
    <3>1. b.recv = b.kRecv + Count(b.taskq, "RECVDONE")
      BY <1>1 DEF Counted
    <3>2. CASE t.k = "RECVDONE"
      <4>1. d.recv = b.recv - 1
        BY <3>2 DEF t
      <4>2. Count(b.taskq, "RECVDONE") = Count(d.taskq, "RECVDONE") + 1
        BY <1>4, <3>2
      <4>3. PICK x \in Nat : x = Count(d.taskq, "RECVDONE")
        BY <1>5
      <4>4. b.recv = b.kRecv + (x + 1)
        BY <3>1, <4>2, <4>3
      <4>5. b.recv - 1 = b.kRecv + x
        BY <1>2, <4>4
      <4> QED BY <4>1, <4>3, <4>5
    <3>3. CASE t.k # "RECVDONE"
      <4>1. d.recv = b.recv
        BY <3>3 DEF t
      <4>2. Count(b.taskq, "RECVDONE") = Count(d.taskq, "RECVDONE") + 0
        BY <1>4, <3>3
      <4> QED BY <1>2, <1>5, <3>1, <4>1, <4>2
    <3> QED BY <3>2, <3>3
  <2>2. d.send = d.kSend + Count(d.taskq, "SENDDONE")
    <3>1. b.send = b.kSend + Count(b.taskq, "SENDDONE")
      BY <1>1 DEF Counted
    <3>2. CASE t.k = "SENDDONE"
      <4>1. d.send = b.send - 1
        BY <3>2 DEF t
      <4>2. Count(b.taskq, "SENDDONE") = Count(d.taskq, "SENDDONE") + 1
        BY <1>4, <3>2
      <4> QED BY <1>2, <1>5, <3>1, <4>1, <4>2
    <3>3. CASE t.k # "SENDDONE"
      <4>1. d.send = b.send
        BY <3>3 DEF t
      <4>2. Count(b.taskq, "SENDDONE") = Count(d.taskq, "SENDDONE") + 0
        BY <1>4, <3>3
      <4> QED BY <1>2, <1>5, <3>1, <4>1, <4>2
    <3> QED BY <3>2, <3>3
  <2>3. d.recv <= 1
    BY <1>1, <1>2 DEF Counted
  <2> QED BY <2>1, <2>2, <2>3 DEF Counted
<1>7. Current(d)
  BY <1>1, <1>3 DEF Current
<1>8. Ending(d)
  <2>1. ~b.shut
    BY <1>1 DEF Ending
  <2>2. \A i \in At(d.taskq, "SHUTDOWN") : i = Len(d.taskq) /\ b.detached
    <3> TAKE i \in At(d.taskq, "SHUTDOWN")
    <3>1. i \in DOMAIN d.taskq /\ d.taskq[i].k = "SHUTDOWN"
      BY DEF At
    <3>2. i + 1 \in At(b.taskq, "SHUTDOWN")
      BY <1>3, <3>1 DEF At
    <3>3. i \in Int
      BY <1>3, <3>1
    <3> QED BY <1>1, <1>3, <3>2, <3>3 DEF Ending
  <2> QED BY <1>1, <2>1, <2>2 DEF Ending, SameEnd
<1>9. d.state = INACTIVE => Idle(d)
  <2>1. b.recv - 1 \in Nat \/ Head(b.taskq).k # "RECVDONE"
    BY <1>2
  <2>2. b.send - 1 \in Nat \/ Head(b.taskq).k # "SENDDONE"
    BY <1>2
  <2> QED BY <1>1, <1>2, <2>1, <2>2 DEF Idle, SameEnd
<1> QED
  BY <1>2, <1>6, <1>7, <1>8, <1>9 DEF Good, Keeps, SameEnd

PoppedOf(b) == [b EXCEPT !.taskq = Tail(@)]

LEMMA PoppedKeeps ==
  ASSUME NEW b, Good(b), b.taskq # <<>>, Head(b.taskq).k \in {"CTRL", "CONNDONE"}
  PROVE  Keeps(b, PoppedOf(b))
<1> DEFINE d == PoppedOf(b)
<1>1. b \in Sender /\ Tail(b.taskq) \in Seq(ItemType)
  BY DEF Good, Sender
<1>2. d \in Sender
  BY <1>1, ZenonT(60) DEF Sender, PoppedOf
<1>3. /\ d.taskq = Tail(b.taskq) /\ d.recv = b.recv /\ d.send = b.send /\ d.kRecv = b.kRecv
      /\ d.kSend = b.kSend /\ d.gen = b.gen /\ d.newState = b.newState /\ SameEnd(b, d)
  BY <1>1, ZenonT(60) DEF Sender, SameEnd, PoppedOf
<1>4. d = PoppedOf(b)
  OBVIOUS
<1> HIDE DEF d
<1> QED BY <1>2, <1>3, <1>4, PopGood

LEMMA HeadCounted ==
  ASSUME NEW b, Good(b), b.taskq # <<>>
  PROVE  /\ Head(b.taskq).k = "RECVDONE" => b.recv - 1 \in Nat
         /\ Head(b.taskq).k = "SENDDONE" => b.send - 1 \in Nat /\ b.send > 0
<1>1. b \in Sender /\ Counted(b)
  BY DEF Good
<1>2. b.taskq \in Seq(ItemType) /\ b.kRecv \in Nat /\ b.kSend \in Nat /\ b.recv \in Nat /\ b.send \in Nat
  BY <1>1 DEF Sender
<1>3. Tail(b.taskq) \in Seq(ItemType)
  BY <1>2
<1>4. Count(Tail(b.taskq), "RECVDONE") \in Nat /\ Count(Tail(b.taskq), "SENDDONE") \in Nat
  BY <1>3, AtFinite
<1>5. \A k : Count(b.taskq, k) = Count(Tail(b.taskq), k) + (IF Head(b.taskq).k = k THEN 1 ELSE 0)
  BY <1>2, TailAt
<1>6. /\ Head(b.taskq).k = "RECVDONE" => Count(b.taskq, "RECVDONE") = Count(Tail(b.taskq), "RECVDONE") + 1
      /\ Head(b.taskq).k = "SENDDONE" => Count(b.taskq, "SENDDONE") = Count(Tail(b.taskq), "SENDDONE") + 1
  BY <1>5
<1> QED BY <1>1, <1>2, <1>4, <1>6 DEF Counted

LEMMA RecvDoneKeeps ==
  ASSUME NEW b, Good(b), b.taskq # <<>>, Head(b.taskq).k = "RECVDONE", NEW r, NEW o \in Outcomes
  PROVE  Keeps(b, RecvDone(PoppedOf(b), r, o))
<1> DEFINE p == PoppedOf(b)
           d == [p EXCEPT !.recv = @ - 1]
           e == RecvFailed(p, r)
           c == After(e, o)
<1>1. b \in Sender /\ Tail(b.taskq) \in Seq(ItemType) /\ b.recv - 1 \in Nat
  BY HeadCounted DEF Good, Sender
<1>2. d \in Sender
  BY <1>1, ZenonT(60) DEF Sender, PoppedOf
<1>3. /\ d.taskq = Tail(b.taskq) /\ d.recv = b.recv - 1 /\ d.send = b.send /\ d.kRecv = b.kRecv
      /\ d.kSend = b.kSend /\ d.gen = b.gen /\ d.newState = b.newState /\ SameEnd(b, d)
  BY <1>1, ZenonT(60) DEF Sender, SameEnd, PoppedOf
<1>4. e = OnIoError(d, r)
  BY DEF RecvFailed
<1>9. RecvDone(p, r, o) = IF Heard(p, r, o) THEN After(RecvChunk(c, o), o) ELSE c
  BY Zenon DEF RecvDone
<1> HIDE DEF d, e
<1>5. Keeps(b, d)
  BY <1>2, <1>3, PopGood
<1>6. Keeps(b, e)
  BY <1>4, <1>5, OnIoErrorKeeps DEF Keeps
<1>7. Keeps(b, c)
  BY <1>6, AfterKeeps DEF Keeps
<1> HIDE DEF c
<1>8. Keeps(b, After(RecvChunk(c, o), o))
  BY <1>7, AfterKeeps, RecvChunkKeeps DEF Keeps
<1> QED BY <1>7, <1>8, <1>9

LEMMA SendDoneKeeps ==
  ASSUME NEW b, Good(b), b.taskq # <<>>, Head(b.taskq).k = "SENDDONE", NEW r, NEW o \in Outcomes
  PROVE  Keeps(b, SendDone(PoppedOf(b), r, o))
<1> DEFINE p == PoppedOf(b)
           n == IF p.send > 0 THEN p.send - 1 ELSE p.send
           d == [p EXCEPT !.send = n]
           c == OnSendError(d, r)
<1>1. b \in Sender /\ Tail(b.taskq) \in Seq(ItemType) /\ b.send - 1 \in Nat /\ b.send > 0
  BY HeadCounted DEF Good, Sender
<1>9. SendDone(p, r, o) = After(After(c, o), o)
  BY Zenon DEF SendDone
<1>10. p \in Sender /\ p.send = b.send
  BY <1>1, ZenonT(60) DEF Sender, PoppedOf
<1>2. n = b.send - 1 /\ n \in Nat
  BY <1>1, <1>10
<1> HIDE DEF n
<1>3. d \in Sender
  BY <1>1, <1>2, ZenonT(60) DEF Sender, PoppedOf
<1>4. /\ d.taskq = Tail(b.taskq) /\ d.recv = b.recv /\ d.send = n /\ d.kRecv = b.kRecv
      /\ d.kSend = b.kSend /\ d.gen = b.gen /\ d.newState = b.newState /\ SameEnd(b, d)
  BY <1>1, ZenonT(60) DEF Sender, SameEnd, PoppedOf
<1> HIDE DEF d
<1>5. Keeps(b, d)
  BY <1>2, <1>3, <1>4, PopGood
<1>6. Keeps(b, c)
  BY <1>5, OnIoErrorKeeps DEF Keeps
<1> HIDE DEF c
<1>7. Keeps(b, After(c, o))
  BY <1>6, AfterKeeps DEF Keeps
<1> QED BY <1>7, <1>9, AfterKeeps DEF Keeps

LEMMA ConnectDoneKeeps ==
  ASSUME NEW b, Good(b), b.taskq # <<>>, Head(b.taskq).k = "CONNDONE", NEW r, NEW o \in Outcomes
  PROVE  Keeps(b, ConnectDone(PoppedOf(b), r, o))
<1> DEFINE p == PoppedOf(b)
           c == IF r = "unreach" /\ ~ForcePhysical THEN ClearBinding(p) ELSE p
<1>1. ConnectDone(p, r, o) = After(c, o)
  BY Zenon DEF ConnectDone
<1>2. Keeps(b, p)
  BY PoppedKeeps
<1> HIDE DEF p
<1>3. Keeps(b, c)
  BY <1>2, ClearBindingKeeps DEF Keeps
<1> HIDE DEF c
<1>4. Keeps(b, After(c, o))
  BY <1>3, AfterKeeps DEF Keeps
<1> QED BY <1>1, <1>4 DEF p

LEMMA SendOnKeeps ==
  ASSUME NEW b, Good(b), NEW o \in Outcomes
  PROVE  Keeps(b, SendOn(b, o))
<1> DEFINE c == After(b, o)
           e == [c EXCEPT !.fault = TRUE]
           d == [c EXCEPT !.send = @ + 1, !.kSend = @ + 1]
<1>1. Keeps(b, c)
  BY AfterKeeps
<1>2. c \in Sender /\ Counted(c) /\ Current(c) /\ Ending(c) /\ (c.state = INACTIVE => Idle(c))
  BY <1>1 DEF Keeps, Good
<1>3. SendOn(b, o) = IF Exiting(b, o) THEN c ELSE IF c.gen = 0 THEN e ELSE d
  BY Zenon DEF SendOn
<1> HIDE DEF c
<1>4. Keeps(c, e)
  <2>1. e \in Sender
    BY <1>2, ZenonT(60) DEF Sender
  <2>2. SameIo(c, e) /\ SameEnd(c, e) /\ e.newState = c.newState
    BY <1>2, ZenonT(60) DEF Sender, SameIo, SameEnd
  <2> HIDE DEF e
  <2> QED BY <1>1, <2>1, <2>2, SameGood DEF Keeps
<1>5. ASSUME c.gen # 0 PROVE Keeps(c, d)
  <2>1. c.send + 1 \in Nat /\ c.kSend + 1 \in Nat /\ c.kSend \in Nat /\ c.send \in Nat
    BY <1>2 DEF Sender
  <2>2. d \in Sender
    BY <1>2, <2>1, ZenonT(60) DEF Sender
  <2>3. /\ d.recv = c.recv /\ d.send = c.send + 1 /\ d.kRecv = c.kRecv /\ d.kSend = c.kSend + 1
        /\ d.taskq = c.taskq /\ d.gen = c.gen /\ SameEnd(c, d) /\ d.newState = c.newState
    BY <1>2, ZenonT(60) DEF Sender, SameEnd
  <2> HIDE DEF d
  <2>4. Counted(d)
    <3>1. c.taskq \in Seq(ItemType)
      BY <1>2 DEF Sender
    <3>2. Count(c.taskq, "SENDDONE") \in Nat
      BY <3>1, AtFinite
    <3> QED BY <1>2, <2>1, <2>3, <3>2 DEF Counted
  <2>5. Current(d) /\ Ending(d)
    BY <1>2, <2>3 DEF Current, Ending, SameEnd
  <2>6. d.state # INACTIVE
    BY <1>2, <1>5, <2>3 DEF Idle, SameEnd
  <2> QED
    BY <2>2, <2>3, <2>4, <2>5, <2>6 DEF Good, Keeps, SameEnd
<1> HIDE DEF d, e
<1> QED
  BY <1>1, <1>3, <1>4, <1>5 DEF Keeps

LEMMA ConnectSocketKeeps ==
  ASSUME NEW b, Good(b), NEW c \in ConnEnvs, NEW o \in Outcomes
  PROVE  Keeps(b, ConnectSocket(b, c, o))
<1> DEFINE a == After(b, o)
           u == IF c.unpin /\ a.bound /\ ~ForcePhysical /\ Recheck THEN ClearBinding(a) ELSE a
           t == Item("CONNDONE", c.r, u.gen)
           d == [u EXCEPT !.taskq = Append(@, t)]
<1>1. Keeps(b, a) /\ (~Exiting(b, o) => ~a.detached)
  BY AfterKeeps
<1>2. ConnectSocket(b, c, o) = IF Exiting(b, o) \/ a.gen = 0 THEN a ELSE d
  BY Zenon DEF ConnectSocket
<1> HIDE DEF a
<1>3. Keeps(b, u) /\ u.gen = a.gen
  BY <1>1, ClearBindingKeeps DEF Keeps, SameIo
<1> HIDE DEF u
<1>4. u \in Sender /\ Ending(u) /\ (u.state = INACTIVE => Idle(u))
  BY <1>3 DEF Keeps, Good
<1>5. t \in ItemType /\ t.k = "CONNDONE"
  <2>1. u.gen \in Nat /\ c.r \in {"ok", "unreach", "transient"}
    BY <1>4 DEF Sender, ConnEnvs
  <2> QED BY <2>1 DEF Item, ItemType
<1> HIDE DEF t
<1>6. ASSUME a.gen # 0 PROVE Keeps(u, d)
  <2>1. ~u.detached
    BY <1>3, <1>4, <1>6 DEF Ending, Idle
  <2>2. Append(u.taskq, t) \in Seq(ItemType)
    BY <1>4, <1>5 DEF Sender
  <2>3. d \in Sender
    BY <1>4, <2>2, ZenonT(60) DEF Sender
  <2>4. /\ d.taskq = Append(u.taskq, t) /\ d.recv = u.recv /\ d.send = u.send /\ d.kRecv = u.kRecv
        /\ d.kSend = u.kSend /\ d.gen = u.gen /\ d.newState = u.newState /\ SameEnd(u, d)
    BY <1>4, ZenonT(60) DEF Sender, SameEnd
  <2> HIDE DEF d
  <2> QED BY <1>3, <1>5, <2>1, <2>3, <2>4, QueueGood DEF Keeps
<1> HIDE DEF d
<1> QED BY <1>1, <1>2, <1>3, <1>6 DEF Keeps
(* The shutdown is the last item, and the sender is not shut before it.    *)
ShutOf(b) == [PoppedOf(b) EXCEPT !.shut = TRUE, !.list = <<>>]

LEMMA ShutdownGood ==
  ASSUME NEW b, Good(b), b.taskq # <<>>, Head(b.taskq).k = "SHUTDOWN"
  PROVE  Good(ShutOf(b)) /\ ShutOf(b).shut /\ ~b.shut /\ ShutOf(b).posts = b.posts
<1> DEFINE d == ShutOf(b)
<1>1. b \in Sender /\ Counted(b) /\ Current(b) /\ Ending(b) /\ (b.state = INACTIVE => Idle(b))
  BY DEF Good
<1>2. b.taskq \in Seq(ItemType) /\ Tail(b.taskq) \in Seq(ItemType)
  BY <1>1 DEF Sender
<1>3. /\ Head(b.taskq) = b.taskq[1] /\ 1 \in DOMAIN b.taskq
      /\ Len(b.taskq) \in Nat /\ Len(Tail(b.taskq)) = Len(b.taskq) - 1
      /\ \A k : Count(b.taskq, k) = Count(Tail(b.taskq), k) + (IF Head(b.taskq).k = k THEN 1 ELSE 0)
  BY <1>2, TailAt
<1>4. 1 \in At(b.taskq, "SHUTDOWN")
  BY <1>3 DEF At
<1>5. Len(b.taskq) = 1 /\ b.detached /\ ~b.shut
  BY <1>1, <1>4 DEF Ending
<1>6. Tail(b.taskq) = <<>>
  <2>1. Len(Tail(b.taskq)) = 0
    BY <1>3, <1>5
  <2> QED BY <1>2, <2>1, EmptySeq
<1>7. <<>> \in Seq(EventType)
  OBVIOUS
<1>8. d \in Sender
  BY <1>1, <1>2, <1>7, ZenonT(60) DEF Sender, PoppedOf, ShutOf
<1>9. /\ d.taskq = Tail(b.taskq) /\ d.recv = b.recv /\ d.send = b.send /\ d.kRecv = b.kRecv
      /\ d.kSend = b.kSend /\ d.gen = b.gen /\ d.newState = b.newState /\ d.state = b.state
      /\ d.detached = b.detached /\ d.shut = TRUE /\ d.posts = b.posts
  BY <1>1, ZenonT(60) DEF Sender, PoppedOf, ShutOf
<1>10. d = ShutOf(b)
  OBVIOUS
<1> HIDE DEF d
<1>11. Counted(d)
  <2>1. /\ Count(b.taskq, "RECVDONE") = Count(d.taskq, "RECVDONE") + 0
        /\ Count(b.taskq, "SENDDONE") = Count(d.taskq, "SENDDONE") + 0
    BY <1>3, <1>9
  <2>2. Count(d.taskq, "RECVDONE") \in Nat /\ Count(d.taskq, "SENDDONE") \in Nat
    BY <1>2, <1>9, AtFinite
  <2> QED BY <1>1, <1>9, <2>1, <2>2 DEF Counted
<1>12. Current(d)
  BY <1>6, <1>9 DEF Current
<1>13. Ending(d)
  <2>1. At(d.taskq, "SHUTDOWN") = {}
    BY <1>6, <1>9, EmptyAt
  <2> QED BY <1>1, <1>5, <1>6, <1>9, <2>1 DEF Ending
<1> QED
  BY <1>1, <1>5, <1>8, <1>9, <1>10, <1>11, <1>12, <1>13 DEF Good, Idle

(* Delivering the callbacks of a step leaves the sender as it is.          *)
Delivered(b) == [b EXCEPT !.posts = <<>>]

LEMMA DeliveredKeeps ==
  ASSUME NEW b, Good(b)
  PROVE  Keeps(b, Delivered(b)) /\ b.posts \in Seq({"restarted"})
<1> DEFINE d == Delivered(b)
<1>1. b \in Sender
  BY DEF Good
<1>2. <<>> \in Seq({"restarted"}) /\ b.posts \in Seq({"restarted"})
  BY <1>1 DEF Sender
<1>3. d \in Sender
  BY <1>1, <1>2, ZenonT(60) DEF Sender, Delivered
<1>4. SameIo(b, d) /\ SameEnd(b, d) /\ d.newState = b.newState
  BY <1>1, ZenonT(60) DEF Sender, SameIo, SameEnd, Delivered
<1> HIDE DEF d
<1>5. Keeps(b, d)
  BY <1>3, <1>4, SameGood
<1> QED BY <1>2, <1>5 DEF d

(* A completion is queued for what the kernel held.                        *)
LEMMA CompletionGood ==
  ASSUME NEW b, Good(b), NEW d \in Sender, NEW t \in ItemType, IsDone(t), t.gen = b.gen,
         d.taskq = Append(b.taskq, t), d.recv = b.recv, d.send = b.send,
         t.k = "RECVDONE" => b.kRecv > 0 /\ d.kRecv = b.kRecv - 1 /\ d.kSend = b.kSend,
         t.k = "SENDDONE" => b.kSend > 0 /\ d.kSend = b.kSend - 1 /\ d.kRecv = b.kRecv,
         d.gen = b.gen, d.newState = b.newState, SameEnd(b, d)
  PROVE  Keeps(b, d)
<1>1. b \in Sender /\ Counted(b) /\ Current(b) /\ Ending(b) /\ (b.state = INACTIVE => Idle(b))
  BY DEF Good
<1>2. /\ b.taskq \in Seq(ItemType) /\ b.recv \in Nat /\ b.send \in Nat /\ b.kRecv \in Nat
      /\ b.kSend \in Nat /\ d.kRecv \in Nat /\ d.kSend \in Nat
  BY <1>1 DEF Sender
<1>3. /\ DOMAIN d.taskq = DOMAIN b.taskq \cup {Len(b.taskq) + 1}
      /\ \A i \in DOMAIN b.taskq : d.taskq[i] = b.taskq[i]
      /\ d.taskq[Len(b.taskq) + 1] = t
      /\ \A k : Count(d.taskq, k) = Count(b.taskq, k) + (IF t.k = k THEN 1 ELSE 0)
  BY <1>2, AppendAt
<1>4. PICK x \in Nat : x = Count(b.taskq, "RECVDONE")
  BY <1>2, AtFinite
<1>5. PICK y \in Nat : y = Count(b.taskq, "SENDDONE")
  BY <1>2, AtFinite
<1>6. b.recv = b.kRecv + x /\ b.send = b.kSend + y /\ b.recv <= 1
  BY <1>1, <1>4, <1>5 DEF Counted
<1>7. Counted(d)
  <2>1. CASE t.k = "RECVDONE"
    <3>1. Count(d.taskq, "RECVDONE") = x + 1 /\ Count(d.taskq, "SENDDONE") = y + 0
      BY <1>3, <1>4, <1>5, <2>1
    <3>2. b.recv = (b.kRecv - 1) + (x + 1) /\ b.send = b.kSend + (y + 0)
      BY <1>2, <1>6
    <3> QED BY <1>6, <2>1, <3>1, <3>2 DEF Counted
  <2>2. CASE t.k = "SENDDONE"
    <3>1. Count(d.taskq, "RECVDONE") = x + 0 /\ Count(d.taskq, "SENDDONE") = y + 1
      BY <1>3, <1>4, <1>5, <2>2
    <3>2. b.send = (b.kSend - 1) + (y + 1) /\ b.recv = b.kRecv + (x + 0)
      BY <1>2, <1>6
    <3> QED BY <1>6, <2>2, <3>1, <3>2 DEF Counted
  <2> QED BY <2>1, <2>2 DEF IsDone
<1>8. b.recv > 0 \/ b.send > 0
  <2>1. CASE t.k = "RECVDONE"
    <3>1. b.kRecv > 0
      BY <2>1
    <3> QED BY <1>2, <1>6, <3>1
  <2>2. CASE t.k = "SENDDONE"
    <3>1. b.kSend > 0
      BY <2>2
    <3> QED BY <1>2, <1>6, <3>1
  <2> QED BY <2>1, <2>2 DEF IsDone
<1>9. b.state # INACTIVE /\ ~b.detached
  <2>1. ~Idle(b)
    BY <1>8 DEF Idle
  <2> QED BY <1>1, <2>1 DEF Ending
<1>10. Current(d)
  BY <1>1, <1>3 DEF Current
<1>11. Ending(d)
  <2>1. At(d.taskq, "SHUTDOWN") = {}
    BY <1>1, <1>3, <1>9 DEF Ending, At, IsDone
  <2> QED BY <1>1, <1>9, <2>1 DEF Ending, SameEnd
<1> QED
  BY <1>7, <1>9, <1>10, <1>11 DEF Good, Keeps, SameEnd
-----------------------------------------------------------------------------
(* The group and its owner.                                                *)

(* What a step leaves of the invariant when no sender shuts down.          *)
LEMMA NoneShuts ==
  ASSUME IInv, snd' \in [Senders -> Sender], \A s \in Senders : Keeps(snd[s], snd'[s])
  PROVE  Shut' = Shut /\ \A s \in Senders : Good(snd'[s])
BY DEF Keeps, Shut

(* What an owner's queue gains from restarts is no message of closing.     *)
LEMMA QueueTold ==
  ASSUME NEW q \in Seq({"restarted", "closed"}), NEW p \in Seq({"restarted"})
  PROVE  /\ q \o p \in Seq({"restarted", "closed"})
         /\ (\E i \in DOMAIN (q \o p) : (q \o p)[i] = "closed") => \E i \in DOMAIN q : q[i] = "closed"
<1>1. p \in Seq({"restarted", "closed"})
  <2>1. {"restarted"} \subseteq {"restarted", "closed"}
    OBVIOUS
  <2> QED BY <2>1, SeqMonotonic, Zenon
<1> DEFINE w == q \o p
<1>2. /\ w \in Seq({"restarted", "closed"}) /\ Len(q) \in Nat /\ Len(p) \in Nat
      /\ DOMAIN q = 1..Len(q) /\ DOMAIN p = 1..Len(p) /\ DOMAIN w = 1..(Len(q) + Len(p))
      /\ \A i \in 1..Len(q) : w[i] = q[i]
      /\ \A i \in (Len(q) + 1)..(Len(q) + Len(p)) : w[i] = p[i - Len(q)]
  BY <1>1
<1>3. \A i \in DOMAIN p : p[i] = "restarted"
  OBVIOUS
<1> HIDE DEF w
<1>4. ASSUME NEW i \in DOMAIN w, w[i] = "closed" PROVE i \in DOMAIN q /\ q[i] = "closed"
  <2>1. i \in Int /\ (i \in 1..Len(q) \/ i \in (Len(q) + 1)..(Len(q) + Len(p)))
    BY <1>2
  <2>2. CASE i \in 1..Len(q)
    BY <1>2, <1>4, <2>2
  <2>3. CASE i \in (Len(q) + 1)..(Len(q) + Len(p))
    <3>1. i - Len(q) \in DOMAIN p
      BY <1>2, <2>1, <2>3
    <3>2. w[i] = p[i - Len(q)]
      BY <1>2, <2>3
    <3> QED BY <1>3, <1>4, <3>1, <3>2
  <2> QED BY <2>1, <2>2, <2>3
<1> QED BY <1>2, <1>4 DEF w

LEMMA NotifyKeeps ==
  ASSUME IInv, NEW s \in Senders, NEW b, b.posts \in Seq({"restarted"}), NotifyOf(s, b, <<>>)
  PROVE  /\ conn' \in ConnType /\ (Told' => Told) /\ conn'.deleted = conn.deleted
<1> DEFINE p == IF grp.winner \in {NULL, s} THEN b.posts ELSE <<>>
           q == conn.q \o p
           r == q \o <<>>
<1>1. p \in Seq({"restarted"}) /\ <<>> \in Seq({"restarted"})
  OBVIOUS
<1>2. conn \in ConnType /\ conn.q \in Seq({"restarted", "closed"})
  BY DEF IInv, ConnType
<1>3. conn' = [conn EXCEPT !.q = r]
  BY Zenon DEF NotifyOf
<1> HIDE DEF p
<1>4. /\ q \in Seq({"restarted", "closed"})
      /\ (\E i \in DOMAIN q : q[i] = "closed") => \E i \in DOMAIN conn.q : conn.q[i] = "closed"
  BY <1>1, <1>2, QueueTold
<1> HIDE DEF q
<1>5. /\ r \in Seq({"restarted", "closed"})
      /\ (\E i \in DOMAIN r : r[i] = "closed") => \E i \in DOMAIN q : q[i] = "closed"
  BY <1>1, <1>4, QueueTold
<1> HIDE DEF r
<1>6. conn' \in ConnType
  BY <1>2, <1>3, <1>5, Zenon DEF ConnType
<1>7. conn'.q = r /\ conn'.deleted = conn.deleted
  BY <1>2, <1>3, Zenon DEF ConnType
<1> QED BY <1>4, <1>5, <1>6, <1>7 DEF Told

(* One sender of the group takes a step of its own.                        *)
LEMMA SetSenderKeeps ==
  ASSUME IInv, NEW s \in Senders, NEW b, Keeps(snd[s], b), SetSender(s, b)
  PROVE  /\ snd' \in [Senders -> Sender] /\ \A t \in Senders : Good(snd'[t])
         /\ Shut' = Shut /\ b.posts \in Seq({"restarted"})
<1> DEFINE d == Delivered(b)
<1>1. Keeps(b, d) /\ b.posts \in Seq({"restarted"}) /\ Good(b)
  BY DeliveredKeeps DEF Keeps
<1>2. snd' = [snd EXCEPT ![s] = d]
  BY DEF SetSender, Delivered
<1> HIDE DEF d
<1>3. snd \in [Senders -> Sender] /\ d \in Sender
  BY <1>1 DEF IInv, Keeps, Good
<1>4. snd' \in [Senders -> Sender]
  BY <1>2, <1>3
<1>5. \A t \in Senders : Keeps(snd[t], snd'[t])
  BY <1>1, <1>2, <1>3 DEF IInv, Keeps
<1> QED BY <1>1, <1>4, <1>5, NoneShuts

(* The invariant's parts put together for a step that shuts nothing down.  *)
LEMMA StepKeeps ==
  ASSUME IInv, snd' \in [Senders -> Sender], \A s \in Senders : Good(snd'[s]), Shut' = Shut,
         busy' \in Senders \cup {NULL}, grp' \in GrpType, grp'.closed = grp.closed,
         conn' \in ConnType, Told' => Told,
         conn'.deleted => (conn.deleted \/ Told) /\ busy' = NULL
  PROVE  IInv'
BY DEF IInv

LEMMA SenderStep ==
  ASSUME IInv, NEW s \in Senders, NEW b, Keeps(snd[s], b), SetSender(s, b), NotifyOf(s, b, <<>>),
         busy' = busy, grp' = grp \/ Converge(s)
  PROVE  IInv'
<1>1. /\ snd' \in [Senders -> Sender] /\ \A t \in Senders : Good(snd'[t])
      /\ Shut' = Shut /\ b.posts \in Seq({"restarted"})
  BY SetSenderKeeps
<1>2. conn' \in ConnType /\ (Told' => Told) /\ conn'.deleted = conn.deleted
  BY <1>1, NotifyKeeps
<1>3. grp' \in GrpType /\ grp'.closed = grp.closed
  <2> DEFINE w == IF grp.winner = NULL THEN s ELSE grp.winner
  <2>1. grp \in GrpType
    BY DEF IInv
  <2>2. w \in Senders \cup {NULL}
    BY <2>1 DEF GrpType
  <2>3. grp' = grp \/ grp' = [grp EXCEPT !.winner = w]
    BY DEF Converge
  <2> HIDE DEF w
  <2> QED BY <2>1, <2>2, <2>3 DEF GrpType
<1> QED BY <1>1, <1>2, <1>3, StepKeeps DEF IInv
-----------------------------------------------------------------------------
(* The actions.                                                            *)

LEMMA EventTypes ==
  ASSUME NEW h \in Handles
  PROVE  /\ Event("START_RECV", NULL) \in EventType /\ Event("STOPWORK", NULL) \in EventType
         /\ Event("RESTART_WORK", h) \in EventType
BY DEF Event, EventType

LEMMA StopType == Event("START_RECV", NULL) \in EventType /\ Event("STOPWORK", NULL) \in EventType
BY DEF Event, EventType

(* Every sender of the group is given an event.                            *)
LEMMA PostAllKeeps ==
  ASSUME IInv, NEW e \in EventType, PostAll(e)
  PROVE  snd' \in [Senders -> Sender] /\ (\A t \in Senders : Good(snd'[t])) /\ Shut' = Shut
<1>1. \A t \in Senders : Keeps(snd[t], Post(snd[t], e, FALSE))
  BY PostKeeps DEF IInv
<1>2. \A t \in Senders : Post(snd[t], e, FALSE) \in Sender
  BY <1>1 DEF Keeps, Good
<1>3. snd' \in [Senders -> Sender] /\ \A t \in Senders : snd'[t] = Post(snd[t], e, FALSE)
  BY <1>2 DEF PostAll
<1> QED BY <1>1, <1>3, NoneShuts

(* What the owner's own steps change of conn.                              *)
LEMMA ConnKeeps ==
  ASSUME IInv, conn' \in ConnType, conn'.q = conn.q, conn'.deleted = conn.deleted,
         snd' \in [Senders -> Sender], \A t \in Senders : Good(snd'[t]), Shut' = Shut,
         UNCHANGED <<busy, grp>>
  PROVE  IInv'
BY StepKeeps DEF IInv, Told

LEMMA StartRecvIInv ==
  ASSUME IInv, StartRecv PROVE IInv'
<1>1. conn' = [conn EXCEPT !.started = TRUE] /\ conn \in ConnType /\ UNCHANGED <<busy, grp>>
  BY DEF StartRecv, IInv
<1>2. conn' \in ConnType /\ conn'.q = conn.q /\ conn'.deleted = conn.deleted
  BY <1>1, Zenon DEF ConnType
<1>3. PICK e \in EventType : PostAll(e)
  BY StopType DEF StartRecv
<1>4. snd' \in [Senders -> Sender] /\ (\A t \in Senders : Good(snd'[t])) /\ Shut' = Shut
  BY <1>3, PostAllKeeps
<1> QED BY <1>1, <1>2, <1>4, ConnKeeps

LEMMA CloseIInv ==
  ASSUME IInv, Close PROVE IInv'
<1>1. conn' = [conn EXCEPT !.closing = TRUE] /\ conn \in ConnType /\ UNCHANGED <<busy, grp>>
  BY DEF Close, IInv
<1>2. conn' \in ConnType /\ conn'.q = conn.q /\ conn'.deleted = conn.deleted
  BY <1>1, Zenon DEF ConnType
<1>3. PICK e \in EventType : PostAll(e)
  BY StopType DEF Close
<1>4. snd' \in [Senders -> Sender] /\ (\A t \in Senders : Good(snd'[t])) /\ Shut' = Shut
  BY <1>3, PostAllKeeps
<1> QED BY <1>1, <1>2, <1>4, ConnKeeps

LEMMA RestartIInv ==
  ASSUME IInv, NEW h \in Handles, Restart(h) PROVE IInv'
<1>1. conn' = [conn EXCEPT !.restarts = @ + 1] /\ conn \in ConnType /\ UNCHANGED <<busy, grp>>
  BY DEF Restart, IInv
<1>2. conn.restarts + 1 \in Nat
  BY <1>1 DEF ConnType
<1>3. conn' \in ConnType /\ conn'.q = conn.q /\ conn'.deleted = conn.deleted
  BY <1>1, <1>2, Zenon DEF ConnType
<1>4. PICK e \in EventType : PostAll(e)
  BY EventTypes DEF Restart
<1>5. snd' \in [Senders -> Sender] /\ (\A t \in Senders : Good(snd'[t])) /\ Shut' = Shut
  BY <1>4, PostAllKeeps
<1> QED BY <1>1, <1>3, <1>5, ConnKeeps

LEMMA SendIInv ==
  ASSUME IInv, NEW o \in Outcomes, Send(o) PROVE IInv'
<1> DEFINE F(s) == IF s \in SendTargets THEN SendOn(snd[s], o) ELSE snd[s]
<1>1. \A s \in Senders : Keeps(snd[s], F(s))
  BY SendOnKeeps DEF IInv, Keeps
<1>2. \A s \in Senders : F(s) \in Sender
  BY <1>1 DEF Keeps, Good
<1>3. snd' = [s \in Senders |-> F(s)]
  BY DEF Send
<1> HIDE DEF F
<1>4. snd' \in [Senders -> Sender] /\ \A s \in Senders : snd'[s] = F(s)
  BY <1>2, <1>3
<1>5. Shut' = Shut /\ \A s \in Senders : Good(snd'[s])
  BY <1>1, <1>4, NoneShuts
<1>6. UNCHANGED <<busy, grp, conn>>
  BY DEF Send
<1> QED BY <1>4, <1>5, <1>6, ConnKeeps DEF IInv

(* Taking a task off the owner's queue.                                    *)
LEMMA TailTold ==
  ASSUME NEW q \in Seq({"restarted", "closed"}), q # <<>>
  PROVE  /\ Tail(q) \in Seq({"restarted", "closed"})
         /\ (\E i \in DOMAIN Tail(q) : Tail(q)[i] = "closed") => \E i \in DOMAIN q : q[i] = "closed"
         /\ Head(q) = "closed" => \E i \in DOMAIN q : q[i] = "closed"
<1> DEFINE p == Tail(q)
<1>1. /\ p \in Seq({"restarted", "closed"}) /\ \A i \in DOMAIN p : i + 1 \in DOMAIN q /\ p[i] = q[i + 1]
      /\ Head(q) = q[1] /\ 1 \in DOMAIN q
  OBVIOUS
<1> HIDE DEF p
<1>2. (\E i \in DOMAIN p : p[i] = "closed") => \E i \in DOMAIN q : q[i] = "closed"
  BY <1>1
<1>3. Head(q) = "closed" => \E i \in DOMAIN q : q[i] = "closed"
  BY <1>1
<1> QED BY <1>1, <1>2, <1>3 DEF p

LEMMA OnRestartIInv ==
  ASSUME IInv, NEW o \in Outcomes, NEW cs \in [Senders -> ConnEnvs], OnRestart(o, cs) PROVE IInv'
<1> DEFINE c(s) == ConnectSocket(snd[s], cs[s], o)
           F(s) == IF conn.closing THEN snd[s] ELSE Post(c(s), Event("START_RECV", NULL), FALSE)
<1>1. \A s \in Senders : Keeps(snd[s], c(s))
  BY ConnectSocketKeeps DEF IInv
<1>7. snd' = IF conn.closing THEN snd
             ELSE [s \in Senders |-> Post(c(s), Event("START_RECV", NULL), FALSE)]
  BY DEF OnRestart
<1> HIDE DEF c
<1>2. \A s \in Senders : Keeps(snd[s], F(s))
  BY <1>1, StopType, PostKeeps DEF IInv, Keeps
<1>3. \A s \in Senders : F(s) \in Sender
  BY <1>2 DEF Keeps, Good
<1>4. snd' \in [Senders -> Sender] /\ \A s \in Senders : snd'[s] = F(s)
  BY <1>3, <1>7 DEF IInv
<1> HIDE DEF F
<1>5. Shut' = Shut /\ \A s \in Senders : Good(snd'[s])
  BY <1>2, <1>4, NoneShuts
<1>6. conn \in ConnType /\ conn.q \in Seq({"restarted", "closed"})
  BY DEF IInv, ConnType
<1>8. conn' = [conn EXCEPT !.q = Tail(conn.q)] /\ UNCHANGED <<busy, grp>> /\ conn.q # <<>>
  BY DEF OnRestart
<1>9. /\ Tail(conn.q) \in Seq({"restarted", "closed"})
      /\ (\E i \in DOMAIN Tail(conn.q) : Tail(conn.q)[i] = "closed") => Told
  BY <1>6, <1>8, TailTold DEF Told
<1>10. conn' \in ConnType /\ conn'.q = Tail(conn.q) /\ conn'.deleted = conn.deleted
  BY <1>6, <1>8, <1>9, Zenon DEF ConnType
<1>11. Told' => Told
  BY <1>9, <1>10 DEF Told
<1> QED BY <1>4, <1>5, <1>8, <1>10, <1>11, StepKeeps DEF IInv

LEMMA OnUdpClosedIInv ==
  ASSUME IInv, OnUdpClosed PROVE IInv'
<1>1. conn \in ConnType /\ conn.q \in Seq({"restarted", "closed"})
  BY DEF IInv, ConnType
<1>2. /\ conn' = [conn EXCEPT !.q = Tail(conn.q), !.deleted = TRUE] /\ UNCHANGED <<busy, grp, snd>>
      /\ conn.q # <<>> /\ Head(conn.q) = "closed" /\ busy = NULL
  BY DEF OnUdpClosed, WorkerFree
<1>3. /\ Tail(conn.q) \in Seq({"restarted", "closed"})
      /\ (\E i \in DOMAIN Tail(conn.q) : Tail(conn.q)[i] = "closed") => Told
      /\ Told
  BY <1>1, <1>2, TailTold DEF Told
<1>4. conn' \in ConnType /\ conn'.q = Tail(conn.q)
  BY <1>1, <1>2, <1>3, Zenon DEF ConnType
<1>5. Told' => Told
  BY <1>3
<1>6. Shut' = Shut
  BY <1>2 DEF Shut
<1> QED BY <1>2, <1>3, <1>4, <1>5, <1>6, StepKeeps DEF IInv
LEMMA EventCallbackIInv ==
  ASSUME IInv, NEW s \in Senders, EventCallback(s) PROVE IInv'
<1>1. /\ SetSender(s, PoppedOf(snd[s])) /\ busy' = s /\ UNCHANGED <<grp, conn>>
      /\ snd[s].taskq # <<>> /\ Head(snd[s].taskq).k = "CTRL" /\ ~conn.deleted
  BY DEF EventCallback, Next1, WorkerFree, Popped, PoppedOf
<1>2. Keeps(snd[s], PoppedOf(snd[s]))
  BY <1>1, PoppedKeeps DEF IInv
<1>3. snd' \in [Senders -> Sender] /\ (\A t \in Senders : Good(snd'[t])) /\ Shut' = Shut
  BY <1>1, <1>2, SetSenderKeeps
<1>4. conn' \in ConnType /\ (Told' => Told) /\ ~conn'.deleted /\ grp' \in GrpType /\ grp'.closed = grp.closed
  BY <1>1 DEF IInv, Told
<1> QED BY <1>1, <1>3, <1>4, StepKeeps

LEMMA OnEventProcessIInv ==
  ASSUME IInv, NEW s \in Senders, NEW o \in Outcomes, OnEventProcess(s, o) PROVE IInv'
<1> DEFINE c == [snd[s] EXCEPT !.list = Tail(@)]
           b == OnEvent(c, Head(snd[s].list), o)
<1>1. /\ SetSender(s, b) /\ NotifyOf(s, b, <<>>) /\ UNCHANGED <<busy, grp>> /\ snd[s].list # <<>>
  BY DEF OnEventProcess
<1>2. snd[s] \in Sender /\ Good(snd[s])
  BY DEF IInv
<1>3. snd[s].list \in Seq(EventType)
  BY <1>2 DEF Sender
<1>4. Tail(snd[s].list) \in Seq(EventType) /\ Head(snd[s].list) \in EventType
  BY <1>1, <1>3
<1>5. c \in Sender
  BY <1>2, <1>4, ZenonT(60) DEF Sender
<1>6. SameIo(snd[s], c) /\ SameEnd(snd[s], c) /\ c.newState = snd[s].newState
  BY <1>2, ZenonT(60) DEF Sender, SameIo, SameEnd
<1> HIDE DEF c
<1>7. Keeps(snd[s], c)
  BY <1>2, <1>5, <1>6, SameGood
<1>8. Keeps(c, b)
  BY <1>4, <1>7, OnEventKeeps DEF Keeps
<1> HIDE DEF b
<1>9. Keeps(snd[s], b)
  BY <1>7, <1>8 DEF Keeps
<1> QED BY <1>1, <1>9, SenderStep

LEMMA EventsDrainedIInv ==
  ASSUME IInv, NEW s \in Senders, EventsDrained(s) PROVE IInv'
<1>1. busy' = NULL /\ UNCHANGED <<snd, grp, conn>>
  BY DEF EventsDrained
<1>2. Shut' = Shut /\ (Told' => Told)
  BY <1>1 DEF Shut, Told
<1> QED BY <1>1, <1>2, StepKeeps DEF IInv

LEMMA RecvDoneCallbackIInv ==
  ASSUME IInv, NEW s \in Senders, NEW o \in Outcomes, RecvDoneCallback(s, o) PROVE IInv'
<1> DEFINE r == Head(snd[s].taskq).r
           b == RecvDone(PoppedOf(snd[s]), r, o)
<1>1. /\ SetSender(s, b) /\ NotifyOf(s, b, <<>>) /\ busy' = busy
      /\ snd[s].taskq # <<>> /\ Head(snd[s].taskq).k = "RECVDONE" /\ (grp' = grp \/ Converge(s))
  BY DEF RecvDoneCallback, Next1, Popped, PoppedOf
<1>2. Keeps(snd[s], b)
  BY <1>1, RecvDoneKeeps DEF IInv
<1> HIDE DEF b
<1> QED BY <1>1, <1>2, SenderStep

LEMMA SendDoneCallbackIInv ==
  ASSUME IInv, NEW s \in Senders, NEW o \in Outcomes, SendDoneCallback(s, o) PROVE IInv'
<1> DEFINE r == Head(snd[s].taskq).r
           b == SendDone(PoppedOf(snd[s]), r, o)
<1>1. /\ SetSender(s, b) /\ NotifyOf(s, b, <<>>) /\ busy' = busy /\ grp' = grp
      /\ snd[s].taskq # <<>> /\ Head(snd[s].taskq).k = "SENDDONE"
  BY DEF SendDoneCallback, Next1, Popped, PoppedOf
<1>2. Keeps(snd[s], b)
  BY <1>1, SendDoneKeeps DEF IInv
<1> HIDE DEF b
<1> QED BY <1>1, <1>2, SenderStep

LEMMA ConnectDoneCBIInv ==
  ASSUME IInv, NEW s \in Senders, NEW o \in Outcomes, ConnectDoneCB(s, o) PROVE IInv'
<1> DEFINE r == Head(snd[s].taskq).r
           b == ConnectDone(PoppedOf(snd[s]), r, o)
<1>1. /\ SetSender(s, b) /\ NotifyOf(s, b, <<>>) /\ busy' = busy /\ grp' = grp
      /\ snd[s].taskq # <<>> /\ Head(snd[s].taskq).k = "CONNDONE"
  BY DEF ConnectDoneCB, Next1, Popped, PoppedOf
<1>2. Keeps(snd[s], b)
  BY <1>1, ConnectDoneKeeps DEF IInv
<1> HIDE DEF b
<1> QED BY <1>1, <1>2, SenderStep

(* The last sender to shut down, and no other, has the owner told.         *)
LEMMA ShutdownIInv ==
  ASSUME IInv, NEW s \in Senders, OnEventProcShutdown(s) PROVE IInv'
<1> DEFINE b == ShutOf(snd[s])
           d == Delivered(b)
           m == IF conn.owner = "connection" /\ AllClosed THEN <<"closed">> ELSE <<>>
           p == IF grp.winner \in {NULL, s} THEN snd[s].posts ELSE <<>>
           q == conn.q \o p
           r == q \o m
<1>1. /\ snd[s].taskq # <<>> /\ Head(snd[s].taskq).k = "SHUTDOWN" /\ busy = NULL /\ ~conn.deleted
      /\ SetSender(s, b) /\ grp' = [grp EXCEPT !.closed = @ + 1] /\ busy' = busy
      /\ NotifyOf(s, snd[s], m)
  BY DEF OnEventProcShutdown, Next1, WorkerFree, Popped, PoppedOf, ShutOf
<1>2. Good(snd[s]) /\ snd[s] \in Sender /\ snd \in [Senders -> Sender]
  BY DEF IInv
<1>3. Good(b) /\ b.shut /\ ~snd[s].shut
  BY <1>1, <1>2, ShutdownGood
<1>4. snd' = [snd EXCEPT ![s] = d]
  BY <1>1 DEF SetSender, Delivered
<1> HIDE DEF b
<1>5. Keeps(b, d)
  BY <1>3, DeliveredKeeps
<1> HIDE DEF d
<1>6. d \in Sender /\ Good(d) /\ d.shut
  BY <1>3, <1>5 DEF Keeps, Good
<1>7. snd' \in [Senders -> Sender] /\ \A t \in Senders : Good(snd'[t])
  BY <1>2, <1>4, <1>6 DEF IInv
<1>8. Shut' = Shut \cup {s} /\ s \notin Shut
  BY <1>2, <1>3, <1>4, <1>6 DEF Shut
<1>9. IsFiniteSet(Shut) /\ IsFiniteSet(Shut') /\ Shut' \subseteq Senders /\ IsFiniteSet(Senders)
  <2>1. Shut \subseteq Senders /\ Shut' \subseteq Senders
    BY DEF Shut
  <2> QED BY <2>1, GroupAssumption, FS_Subset
<1>10. Cardinality(Shut') = Cardinality(Shut) + 1
  BY <1>8, <1>9, FS_AddElement
<1>11. grp \in GrpType /\ grp.closed \in Nat /\ grp.closed = Cardinality(Shut)
  BY DEF IInv, GrpType
<1>12. grp' \in GrpType /\ grp'.closed = grp.closed + 1
  <2>1. grp.closed + 1 \in Nat
    BY <1>11
  <2> QED BY <1>1, <1>11, <2>1 DEF GrpType
<1>13. AllClosed => Shut' = Senders
  <2> SUFFICES ASSUME AllClosed PROVE Shut' = Senders
    OBVIOUS
  <2>1. Cardinality(Shut') >= Cardinality(Senders)
    BY <1>10, <1>11 DEF AllClosed
  <2>2. Cardinality(Shut') <= Cardinality(Senders) /\ Cardinality(Shut') \in Nat /\ Cardinality(Senders) \in Nat
    BY <1>9, FS_Subset, FS_CardinalityType
  <2>3. Cardinality(Shut') = Cardinality(Senders)
    BY <2>1, <2>2
  <2> QED BY <1>9, <2>3, FS_Subset
<1>14. /\ p \in Seq({"restarted"}) /\ conn \in ConnType /\ conn.q \in Seq({"restarted", "closed"})
  BY <1>2 DEF Sender, IInv, ConnType
<1>15. conn' = [conn EXCEPT !.q = r]
  BY <1>1, Zenon DEF NotifyOf
<1>19. m = <<"closed">> => AllClosed
  OBVIOUS
<1>20. m \in Seq({"restarted", "closed"}) /\ (m = <<>> \/ m = <<"closed">>)
  <2>1. m = <<>> \/ m = <<"closed">>
    OBVIOUS
  <2>2. <<>> \in Seq({"restarted", "closed"}) /\ <<"closed">> \in Seq({"restarted", "closed"})
    OBVIOUS
  <2> HIDE DEF m
  <2> QED BY <2>1, <2>2, Zenon
<1> HIDE DEF p, m
<1>16. /\ q \in Seq({"restarted", "closed"})
       /\ (\E i \in DOMAIN q : q[i] = "closed") => Told
  BY <1>14, QueueTold DEF Told
<1> HIDE DEF q
<1>17. r \in Seq({"restarted", "closed"})
  BY <1>16, <1>20
<1>18. m = <<>> => ((\E i \in DOMAIN r : r[i] = "closed") => \E i \in DOMAIN q : q[i] = "closed")
  BY <1>16
<1> HIDE DEF r
<1>21. conn' \in ConnType /\ conn'.q = r /\ conn'.deleted = conn.deleted
  BY <1>14, <1>15, <1>17, Zenon DEF ConnType
<1>22. Shut = Senders => Shut' = Senders
  BY <1>8
<1>23. Told' => Shut' = Senders
  <2>1. CASE m = <<>>
    BY <1>16, <1>18, <1>21, <1>22, <2>1 DEF Told, IInv
  <2>2. CASE m = <<"closed">>
    BY <1>13, <1>19, <2>2
  <2> QED BY <1>20, <2>1, <2>2
<1> QED
  BY <1>1, <1>7, <1>10, <1>11, <1>12, <1>21, <1>23 DEF IInv
(* A step of one sender alone, of the kernel or of the destroying thread.  *)
LEMMA LoneStep ==
  ASSUME IInv, NEW s \in Senders, NEW b, Keeps(snd[s], b), snd' = [snd EXCEPT ![s] = b],
         UNCHANGED <<busy, grp, conn>>
  PROVE  IInv'
<1>1. snd \in [Senders -> Sender] /\ b \in Sender
  BY DEF IInv, Keeps, Good
<1>2. snd' \in [Senders -> Sender]
  BY <1>1
<1>3. \A t \in Senders : Keeps(snd[t], snd'[t])
  BY <1>1 DEF IInv, Keeps
<1>4. Shut' = Shut /\ \A t \in Senders : Good(snd'[t])
  BY <1>2, <1>3, NoneShuts
<1> QED BY <1>2, <1>4, ConnKeeps DEF IInv

LEMMA RecvCompletesIInv ==
  ASSUME IInv, NEW s \in Senders, NEW r \in Results, RecvCompletes(s, r) PROVE IInv'
<1> DEFINE b == snd[s]
           t == Item("RECVDONE", r, b.gen)
           d == [b EXCEPT !.kRecv = 0, !.taskq = Append(b.taskq, t)]
<1>1. b.kRecv > 0 /\ UNCHANGED <<busy, grp, conn>> /\ snd' = [snd EXCEPT ![s] = d]
  BY DEF RecvCompletes
<1>2. b \in Sender /\ Good(b) /\ Counted(b)
  BY DEF IInv, Good
<1> HIDE DEF b
<1>3. /\ b.taskq \in Seq(ItemType) /\ b.kRecv \in Nat /\ b.recv \in Nat /\ b.gen \in Nat
  BY <1>2 DEF Sender
<1>4. t \in ItemType /\ t.k = "RECVDONE" /\ t.gen = b.gen
  BY <1>3 DEF Item, ItemType
<1> HIDE DEF t
<1>5. b.kRecv = 1
  <2>1. Count(b.taskq, "RECVDONE") \in Nat
    BY <1>3, AtFinite
  <2> QED BY <1>1, <1>2, <1>3, <2>1 DEF Counted
<1>6. Append(b.taskq, t) \in Seq(ItemType) /\ 0 \in Nat
  BY <1>3, <1>4
<1>7. d \in Sender
  BY <1>2, <1>6, ZenonT(60) DEF Sender
<1>8. /\ d.taskq = Append(b.taskq, t) /\ d.recv = b.recv /\ d.send = b.send /\ d.kRecv = 0
      /\ d.kSend = b.kSend /\ d.gen = b.gen /\ d.newState = b.newState /\ SameEnd(b, d)
  BY <1>2, ZenonT(60) DEF Sender, SameEnd
<1> HIDE DEF d
<1>9. IsDone(t) /\ d.kRecv = b.kRecv - 1 /\ t.k # "SENDDONE"
  BY <1>4, <1>5, <1>8 DEF IsDone
<1>10. Keeps(b, d)
  BY <1>1, <1>2, <1>4, <1>7, <1>8, <1>9, CompletionGood
<1> QED BY <1>1, <1>10, LoneStep DEF b

LEMMA SendCompletesIInv ==
  ASSUME IInv, NEW s \in Senders, NEW r \in Results, SendCompletes(s, r) PROVE IInv'
<1> DEFINE b == snd[s]
           t == Item("SENDDONE", r, b.gen)
           d == [b EXCEPT !.kSend = b.kSend - 1, !.taskq = Append(b.taskq, t)]
<1>1. b.kSend > 0 /\ UNCHANGED <<busy, grp, conn>> /\ snd' = [snd EXCEPT ![s] = d]
  BY DEF SendCompletes
<1>2. b \in Sender /\ Good(b)
  BY DEF IInv, Good
<1> HIDE DEF b
<1>3. /\ b.taskq \in Seq(ItemType) /\ b.kSend \in Nat /\ b.gen \in Nat
  BY <1>2 DEF Sender
<1>4. t \in ItemType /\ t.k = "SENDDONE" /\ t.gen = b.gen
  BY <1>3 DEF Item, ItemType
<1> HIDE DEF t
<1>6. Append(b.taskq, t) \in Seq(ItemType) /\ b.kSend - 1 \in Nat
  BY <1>1, <1>3, <1>4
<1>7. d \in Sender
  BY <1>2, <1>6, ZenonT(60) DEF Sender
<1>8. /\ d.taskq = Append(b.taskq, t) /\ d.recv = b.recv /\ d.send = b.send /\ d.kSend = b.kSend - 1
      /\ d.kRecv = b.kRecv /\ d.gen = b.gen /\ d.newState = b.newState /\ SameEnd(b, d)
  BY <1>2, ZenonT(60) DEF Sender, SameEnd
<1> HIDE DEF d
<1>9. IsDone(t) /\ t.k # "RECVDONE"
  BY <1>4 DEF IsDone
<1>10. Keeps(b, d)
  BY <1>1, <1>2, <1>4, <1>7, <1>8, <1>9, CompletionGood
<1> QED BY <1>1, <1>10, LoneStep DEF b

LEMMA DestroyerIInv ==
  ASSUME IInv, Destroyer PROVE IInv'
<1>1. CASE DestroyWait \/ DestroyDone
  <2>1. UNCHANGED <<snd, busy, grp, conn>>
    BY <1>1 DEF DestroyWait, DestroyDone
  <2>2. Shut' = Shut
    BY <2>1 DEF Shut
  <2> QED BY <2>1, <2>2, ConnKeeps DEF IInv
<1>2. ASSUME NEW s \in Senders, DestroyPost(s) PROVE IInv'
  <2> DEFINE b == Post(snd[s], Event("STOPWORK", NULL), busy = s)
  <2>1. snd' = [snd EXCEPT ![s] = b] /\ UNCHANGED <<busy, grp, conn>>
    BY <1>2 DEF DestroyPost
  <2>2. Keeps(snd[s], b)
    BY StopType, PostKeeps DEF IInv
  <2> HIDE DEF b
  <2> QED BY <2>1, <2>2, LoneStep
<1> QED BY <1>1, <1>2 DEF Destroyer
-----------------------------------------------------------------------------
LEMMA InitIInv == ASSUME Init PROVE IInv
<1>1. PICK pins \in [Senders -> Pins] : snd = [s \in Senders |-> Created(pins[s])]
  BY DEF Init
<1>2. ASSUME NEW s \in Senders PROVE Good(snd[s]) /\ ~snd[s].shut
  <2> DEFINE b == Created(pins[s])
  <2>1. pins[s] \in BOOLEAN
    BY <1>1, GroupAssumption
  <2>2. <<>> \in Seq(EventType) /\ <<>> \in Seq(ItemType) /\ <<>> \in Seq({"restarted"})
    OBVIOUS
  <2>3. b \in Sender
    BY <2>1, <2>2 DEF Created, Sender
  <2>4. /\ b.recv = 0 /\ b.send = 0 /\ b.kRecv = 0 /\ b.kSend = 0 /\ b.taskq = <<>>
        /\ b.state = READING /\ ~b.detached /\ ~b.shut
    BY DEF Created
  <2> HIDE DEF b
  <2>5. Counted(b)
    BY <2>4, EmptyAt DEF Counted
  <2>6. Current(b)
    BY <2>4 DEF Current
  <2>7. Ending(b)
    BY <2>4, EmptyAt DEF Ending
  <2>8. b.state # INACTIVE
    BY <2>4 DEF READING, INACTIVE
  <2>9. snd[s] = b
    BY <1>1 DEF b
  <2> QED BY <2>3, <2>4, <2>5, <2>6, <2>7, <2>8, <2>9 DEF Good
<1>3. snd \in [Senders -> Sender]
  BY <1>1, <1>2 DEF Good
<1>4. Shut = {} /\ Cardinality({}) = 0
  BY <1>2, FS_EmptySet DEF Shut
<1>5. grp \in GrpType /\ grp.closed = 0
  BY DEF Init, GrpType
<1>6. conn \in ConnType /\ ~Told /\ ~conn.deleted
  <2>1. PICK o \in Owners :
          conn = [owner |-> o, q |-> <<>>, started |-> FALSE, restarts |-> 0,
                  closing |-> FALSE, deleted |-> FALSE]
    BY DEF Init
  <2>2. <<>> \in Seq({"restarted", "closed"})
    OBVIOUS
  <2>3. conn \in ConnType /\ conn.q = <<>> /\ ~conn.deleted
    BY <2>1, <2>2 DEF ConnType
  <2> QED BY <2>3 DEF Told
<1>7. busy \in Senders \cup {NULL}
  BY DEF Init
<1> QED BY <1>2, <1>3, <1>4, <1>5, <1>6, <1>7 DEF IInv

LEMMA StutterIInv == ASSUME IInv, UNCHANGED vars PROVE IInv'
<1>1. UNCHANGED <<snd, busy, grp, conn>>
  BY DEF vars
<1>2. Shut' = Shut
  BY <1>1 DEF Shut
<1> QED BY <1>1, <1>2, ConnKeeps DEF IInv

LEMMA NextIInv == ASSUME IInv, [Next]_vars PROVE IInv'
<1>1. CASE OwnerStep
  BY <1>1, StartRecvIInv, CloseIInv, RestartIInv, SendIInv DEF OwnerStep
<1>2. CASE OwnerTask
  BY <1>2, OnUdpClosedIInv, OnRestartIInv DEF OwnerTask
<1>3. CASE Destroyer
  BY <1>3, DestroyerIInv
<1>4. ASSUME NEW s \in Senders, SenderTask(s) PROVE IInv'
  BY <1>4, EventCallbackIInv, EventsDrainedIInv, ShutdownIInv, OnEventProcessIInv,
     RecvDoneCallbackIInv, SendDoneCallbackIInv, ConnectDoneCBIInv DEF SenderTask
<1>5. ASSUME NEW s \in Senders, Kernel(s) PROVE IInv'
  BY <1>5, RecvCompletesIInv, SendCompletesIInv DEF Kernel
<1> QED BY <1>1, <1>2, <1>3, <1>4, <1>5, StutterIInv DEF Next

(* In every reachable state each sender's counters, queue and life cycle   *)
(* agree, and the group has counted the senders that have shut down.       *)
THEOREM Invariance == Spec => []IInv
BY InitIInv, NextIInv, PTL DEF Spec

(* The counters _ExitCheck waits on are exact and every completion that is *)
(* queued belongs to the socket the sender has now, so no completion of a  *)
(* socket that a restart closed is counted against the one that replaced   *)
(* it, and nothing is pending on a sender that has detached.               *)
THEOREM CompletionsMatch == Spec => []CompletionsMatchSocket
<1>1. IInv => CompletionsMatchSocket
  <2> SUFFICES ASSUME IInv, NEW s \in Senders
               PROVE  LET b == snd[s] IN
                      /\ b.recv = b.kRecv + Cardinality(Queued(b, "RECVDONE"))
                      /\ b.send = b.kSend + Cardinality(Queued(b, "SENDDONE"))
                      /\ \A i \in Queued(b, "RECVDONE") \cup Queued(b, "SENDDONE") :
                           b.taskq[i].gen = b.gen
                      /\ b.detached => b.recv + b.send + b.gen = 0
    BY DEF CompletionsMatchSocket
  <2> DEFINE b == snd[s]
  <2>1. Good(b)
    BY DEF IInv
  <2> HIDE DEF b
  <2>2. \A k : Queued(b, k) = At(b.taskq, k)
    BY DEF Queued, At
  <2>3. /\ b.recv = b.kRecv + Cardinality(Queued(b, "RECVDONE"))
        /\ b.send = b.kSend + Cardinality(Queued(b, "SENDDONE"))
    BY <2>1, <2>2 DEF Good, Counted, Count
  <2>4. \A i \in Queued(b, "RECVDONE") \cup Queued(b, "SENDDONE") : b.taskq[i].gen = b.gen
    BY <2>1, <2>2 DEF Good, Current, IsDone, At
  <2>5. b.detached => b.recv + b.send + b.gen = 0
    BY <2>1 DEF Good, Ending, Idle
  <2> QED BY <2>3, <2>4, <2>5 DEF b
<1> QED BY <1>1, Invariance, PTL

(* ~UDPSenderGroup, which the owner's OnUdpClosed task runs, deletes the   *)
(* senders when the worker is in none of them and none of them has a task  *)
(* or a socket operation left.                                             *)
THEOREM SafeDelete == Spec => []DeleteIsSafe
<1>1. IInv => DeleteIsSafe
  <2> SUFFICES ASSUME IInv, conn.deleted
               PROVE  /\ busy = NULL
                      /\ \A s \in Senders : snd[s].shut /\ snd[s].taskq = <<>>
                                            /\ snd[s].kRecv + snd[s].kSend = 0
    BY DEF DeleteIsSafe
  <2>1. busy = NULL /\ Shut = Senders
    BY DEF IInv
  <2>2. ASSUME NEW s \in Senders
        PROVE  snd[s].shut /\ snd[s].taskq = <<>> /\ snd[s].kRecv + snd[s].kSend = 0
    <3> DEFINE b == snd[s]
    <3>1. Good(b) /\ b.shut
      BY <2>1 DEF IInv, Shut
    <3> HIDE DEF b
    <3>2. b.taskq = <<>> /\ b.recv = 0 /\ b.send = 0
      BY <3>1 DEF Good, Ending, Idle
    <3>3. b.kRecv \in Nat /\ b.kSend \in Nat
      BY <3>1 DEF Good, Sender
    <3>4. 0 = b.kRecv + 0 /\ 0 = b.kSend + 0
      BY <3>1, <3>2, EmptyAt DEF Good, Counted
    <3>5. b.kRecv + b.kSend = 0
      BY <3>3, <3>4
    <3> QED BY <3>1, <3>2, <3>5 DEF b
  <2> QED BY <2>1, <2>2
<1> QED BY <1>1, Invariance, PTL
=============================================================================
