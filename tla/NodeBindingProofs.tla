------------------------- MODULE NodeBindingProofs -------------------------
(***************************************************************************)
(* Proofs about NodeBinding, for any sets of requests and connections and  *)
(* any number of closes and messages: no event meets a wrap that was       *)
(* collected, and every step is one that the contract of index.js allows.  *)
(***************************************************************************)
EXTENDS NodeBinding, FiniteSetTheorems, SequenceTheorems, TLAPS

ConnKinds == {"RESOLVE", "REJECT", "DATA", "CLOSED"}

EventType == [h : Wraps, kind : ConnKinds \cup {"RESULT", "CLOSE"}, id : Tasks \cup Conns \cup {"none"}]
ExType == [list : Seq(EventType), ctrls : {0, 1}, running : BOOLEAN]
JsType == [pc : {"idle", "loop", "settle", "http", "wraps", "ws"}, todo : SUBSET Conns]
WrapType ==
  [alive : BOOLEAN, held : BOOLEAN, native : {"open", "closing", "drained", "gone"},
   pending : BOOLEAN, refs : Int, closeRefs : Int, waiting : Int, asked : Int, told : Int]
TaskType == [st : {"none", "inflight", "posted", "done"}, told : Nat]
ConnType ==
  [wrap : {"none", "live", "gone"}, held : BOOLEAN, called : BOOLEAN, callback : BOOLEAN,
   settled : BOOLEAN, upgraded : BOOLEAN, closedSeen : BOOLEAN, pinned : BOOLEAN,
   sink : BOOLEAN, native : {"none", "connecting", "open", "closed"},
   says : {"none", "pending", "open", "rejected", "closed"}, messages : Nat, sent : Nat]

(* Where the events of a connection, and those of the WSConnector's end,   *)
(* are in the list.                                                        *)
At(l, c, K) == {i \in DOMAIN l : l[i].h = "ws" /\ l[i].id = c /\ l[i].kind \in K}
Closes(l) == {i \in DOMAIN l : l[i].h = "ws" /\ l[i].kind = "CLOSE"}

(* A request is counted as answered when it leaves the map.                *)
TaskOK(r) == r.told \in {0, 1} /\ (r.st # "done" => r.told = 0)

Up(k) == k.upgraded /\ ~k.closedSeen
Resolving(k) == ~k.settled /\ ~k.closedSeen

(* What the native connection has posted, and in which order.              *)
Queued(l, k, c) ==
  /\ ~k.called => k.native = "none" /\ At(l, c, ConnKinds) = {}
  /\ k.native \in {"none", "connecting"} => At(l, c, {"DATA", "CLOSED"}) = {}
  /\ k.native = "connecting" => At(l, c, ConnKinds) = {}
  /\ k.native = "open" => At(l, c, {"REJECT", "CLOSED"}) = {}
  /\ \A i \in At(l, c, {"DATA"}) : /\ At(l, c, {"REJECT"}) = {}
                                   /\ \A j \in At(l, c, {"CLOSED"}) \cup Closes(l) : i < j

(* What the wrap has told the application, before and after its sink is    *)
(* detached.                                                               *)
Told(k) ==
  /\ ~k.called => ~k.settled /\ ~k.upgraded /\ ~k.callback /\ k.says = "none"
  /\ k.callback => k.says = "pending"
  /\ k.wrap = "none" => ~k.called /\ ~k.closedSeen
  /\ k.sink /\ ~k.called => ~k.closedSeen
  /\ k.wrap = "live" => (k.called /\ ~k.settled => k.callback) /\ (Up(k) => k.says = "open")

(* A message that is on its way finds the connection reported open.        *)
Ready(l, k, c) ==
  k.wrap = "live" =>
    /\ \A i \in At(l, c, {"DATA"}) : Up(k) \/ (Resolving(k) /\ \E j \in At(l, c, {"RESOLVE"}) : j < i)
    /\ k.sink /\ k.native = "open" => Up(k) \/ (Resolving(k) /\ At(l, c, {"RESOLVE"}) # {})
    /\ k.sink /\ k.native = "connecting" => Resolving(k)

ConnOK(l, k, c) == Queued(l, k, c) /\ Told(k) /\ Ready(l, k, c)

TypeInv ==
  /\ ex \in ExType /\ js \in JsType /\ wrap \in [Wraps -> WrapType]
  /\ task \in [Tasks -> TaskType] /\ conn \in [Conns -> ConnType]

(* The end of the WSConnector: after its last event no sink posts, and     *)
(* while the wraps are told, no message is left.                           *)
Ended == wrap["ws"].native \in {"drained", "gone"}

EndInv ==
  /\ Closes(ex.list) # {} => Ended
  /\ Ended => \A c \in Conns : ~conn[c].sink \/ conn[c].native \in {"none", "closed"}
  /\ wrap["ws"].native \in {"closing", "drained"} => wrap["ws"].pending
  /\ js.pc \in {"wraps", "ws"} => wrap["ws"].native = "gone"
  /\ js.pc = "wraps" => \A c \in Conns : ~conn[c].sink /\ At(ex.list, c, {"DATA"}) = {}
  /\ js.pc # "wraps" => js.todo = {}
  /\ \A c \in js.todo : conn[c].wrap = "live"

IInv ==
  /\ TypeInv /\ NoEventForDeadWrap /\ EndInv
  /\ \A h \in Wraps : wrap[h].native = "closing" => wrap[h].alive
  /\ \A t \in Tasks : TaskOK(task[t])
  /\ \A c \in Conns : ConnOK(ex.list, conn[c], c)
-----------------------------------------------------------------------------
(* Lists of events.                                                        *)

Own(e, c) == e.h = "ws" /\ e.id = c /\ e.kind \in ConnKinds

LEMMA AppendAt ==
  ASSUME NEW l \in Seq(EventType), NEW e \in EventType
  PROVE  /\ Append(l, e) \in Seq(EventType) /\ Len(l) \in Nat
         /\ DOMAIN l = 1..Len(l) /\ DOMAIN Append(l, e) = 1..(Len(l) + 1)
         /\ \A i \in DOMAIN l : Append(l, e)[i] = l[i]
         /\ Append(l, e)[Len(l) + 1] = e
OBVIOUS

LEMMA AppendOther ==
  ASSUME NEW l \in Seq(EventType), NEW e \in EventType, NEW k, NEW c, ~Own(e, c), ConnOK(l, k, c)
  PROVE  ConnOK(Append(l, e), k, c)
<1> DEFINE m == Append(l, e)
<1>1. /\ Len(l) \in Nat /\ DOMAIN l = 1..Len(l) /\ DOMAIN m = 1..(Len(l) + 1)
      /\ \A i \in DOMAIN l : m[i] = l[i]
      /\ m[Len(l) + 1] = e
  BY AppendAt
<1> HIDE DEF m
<1>2. \A K \in SUBSET ConnKinds : At(m, c, K) = At(l, c, K)
  BY <1>1 DEF At, Own
<1>3. /\ At(m, c, ConnKinds) = At(l, c, ConnKinds)
      /\ At(m, c, {"DATA", "CLOSED"}) = At(l, c, {"DATA", "CLOSED"})
      /\ At(m, c, {"REJECT", "CLOSED"}) = At(l, c, {"REJECT", "CLOSED"})
      /\ At(m, c, {"DATA"}) = At(l, c, {"DATA"}) /\ At(m, c, {"REJECT"}) = At(l, c, {"REJECT"})
      /\ At(m, c, {"CLOSED"}) = At(l, c, {"CLOSED"}) /\ At(m, c, {"RESOLVE"}) = At(l, c, {"RESOLVE"})
  BY <1>2 DEF ConnKinds
<1>4. \A i \in At(l, c, {"DATA"}) : \A j \in Closes(m) : j \in Closes(l) \/ i < j
  BY <1>1 DEF At, Closes
<1>5. Queued(m, k, c)
  BY <1>3, <1>4 DEF Queued, ConnOK
<1>6. Ready(m, k, c)
  BY <1>3 DEF Ready, ConnOK
<1> QED BY <1>5, <1>6 DEF ConnOK, m

(* m is l without some events, none of them of connection c.               *)
Embeds(m, l, f, c) ==
  /\ f \in [DOMAIN m -> DOMAIN l]
  /\ \A j \in DOMAIN m : m[j] = l[f[j]]
  /\ \A i, j \in DOMAIN m : i < j => f[i] < f[j]
  /\ \A i \in At(l, c, ConnKinds) : \E j \in DOMAIN m : f[j] = i

LEMMA EmbedOther ==
  ASSUME NEW l \in Seq(EventType), NEW m \in Seq(EventType), NEW f, NEW k, NEW c,
         Embeds(m, l, f, c), ConnOK(l, k, c)
  PROVE  ConnOK(m, k, c)
<1>1. /\ f \in [DOMAIN m -> DOMAIN l]
      /\ \A j \in DOMAIN m : m[j] = l[f[j]]
      /\ \A i, j \in DOMAIN m : i < j => f[i] < f[j]
      /\ \A i \in At(l, c, ConnKinds) : \E j \in DOMAIN m : f[j] = i
  BY DEF Embeds
<1>2. DOMAIN m \subseteq Int /\ DOMAIN l \subseteq Int
  OBVIOUS
<1>3. \A i, j \in DOMAIN m : f[i] < f[j] => i < j
  <2> TAKE i, j \in DOMAIN m
  <2>1. i \in Int /\ j \in Int /\ f[i] \in Int /\ f[j] \in Int
    BY <1>1, <1>2
  <2>2. j < i => f[j] < f[i]
    BY <1>1
  <2> QED BY <2>1, <2>2
<1>4. \A K, j : j \in At(m, c, K) <=> j \in DOMAIN m /\ f[j] \in At(l, c, K)
  BY <1>1 DEF At
<1>5. \A K : At(l, c, K) = {} => At(m, c, K) = {}
  BY <1>4
<1>6. \A j \in Closes(m) : j \in DOMAIN m /\ f[j] \in Closes(l)
  BY <1>1 DEF Closes
<1>7. Queued(m, k, c)
  <2>0. Queued(l, k, c)
    BY DEF ConnOK
  <2>1. ASSUME NEW i \in At(m, c, {"DATA"})
        PROVE  At(m, c, {"REJECT"}) = {} /\ \A j \in At(m, c, {"CLOSED"}) \cup Closes(m) : i < j
    <3>1. i \in DOMAIN m /\ f[i] \in At(l, c, {"DATA"})
      BY <1>4
    <3>2. At(l, c, {"REJECT"}) = {} /\ \A j \in At(l, c, {"CLOSED"}) \cup Closes(l) : f[i] < j
      BY <2>0, <3>1 DEF Queued
    <3>3. \A j \in At(m, c, {"CLOSED"}) \cup Closes(m) :
            j \in DOMAIN m /\ f[j] \in At(l, c, {"CLOSED"}) \cup Closes(l)
      BY <1>4, <1>6
    <3> QED BY <1>3, <1>5, <3>1, <3>2, <3>3
  <2> QED BY <1>5, <2>0, <2>1 DEF Queued
<1>8. Ready(m, k, c)
  <2>0. Ready(l, k, c)
    BY DEF ConnOK
  <2>1. \A i \in At(l, c, {"RESOLVE"}) : i \in At(l, c, ConnKinds)
    BY DEF At, ConnKinds
  <2>2. \A i \in At(l, c, {"RESOLVE"}) : \E j \in At(m, c, {"RESOLVE"}) : f[j] = i
    BY <1>1, <1>4, <2>1
  <2>3. \A i \in At(m, c, {"DATA"}) :
          (\E j \in At(l, c, {"RESOLVE"}) : j < f[i]) => \E j \in At(m, c, {"RESOLVE"}) : j < i
    BY <1>3, <1>4, <2>2
  <2>4. At(l, c, {"RESOLVE"}) # {} => At(m, c, {"RESOLVE"}) # {}
    BY <2>2
  <2> QED BY <1>4, <2>0, <2>3, <2>4 DEF Ready
<1> QED BY <1>7, <1>8 DEF ConnOK

LEMMA TailAt ==
  ASSUME NEW l \in Seq(EventType), l # <<>>
  PROVE  /\ Tail(l) \in Seq(EventType) /\ Head(l) \in EventType /\ Head(l) = l[1]
         /\ Len(l) \in Nat /\ DOMAIN l = 1..Len(l) /\ 1 \in DOMAIN l
         /\ DOMAIN Tail(l) = 1..(Len(l) - 1)
         /\ \A i \in DOMAIN Tail(l) : i + 1 \in DOMAIN l /\ Tail(l)[i] = l[i + 1]
OBVIOUS

LEMMA TailOther ==
  ASSUME NEW l \in Seq(EventType), l # <<>>, NEW k, NEW c, ~Own(Head(l), c), ConnOK(l, k, c)
  PROVE  ConnOK(Tail(l), k, c)
<1> DEFINE m == Tail(l)
           f == [j \in DOMAIN m |-> j + 1]
<1>1. /\ m \in Seq(EventType) /\ Head(l) = l[1] /\ Len(l) \in Nat /\ DOMAIN l = 1..Len(l)
      /\ DOMAIN m = 1..(Len(l) - 1)
      /\ \A i \in DOMAIN m : i + 1 \in DOMAIN l /\ m[i] = l[i + 1]
  BY TailAt
<1> HIDE DEF m
<1>2. f \in [DOMAIN m -> DOMAIN l] /\ \A j \in DOMAIN m : f[j] = j + 1
  BY <1>1
<1> HIDE DEF f
<1>3. \A i \in At(l, c, ConnKinds) : i \in DOMAIN l /\ i # 1
  BY <1>1 DEF At, Own
<1>4. \A i \in At(l, c, ConnKinds) : i - 1 \in DOMAIN m /\ f[i - 1] = i
  BY <1>1, <1>2, <1>3
<1>5. Embeds(m, l, f, c)
  BY <1>1, <1>2, <1>4 DEF Embeds
<1> QED BY <1>1, <1>5, EmbedOther DEF m
(* Rank numbers the members of a finite set of integers.                   *)
LEMMA RankOrder ==
  ASSUME NEW n \in Nat, NEW K \in SUBSET (1..n)
  PROVE  /\ IsFiniteSet(K) /\ Cardinality(K) \in Nat
         /\ \A i \in K : Rank(K, i) \in 1..Cardinality(K)
         /\ \A i, k \in K : i < k => Rank(K, i) < Rank(K, k)
<1> DEFINE B(i) == {k \in K : k <= i}
<1>0. IsFiniteSet(1..n) /\ \A q \in K : q \in Int
  BY FS_Interval
<1>1. IsFiniteSet(K) /\ Cardinality(K) \in Nat
  BY <1>0, FS_Subset, FS_CardinalityType
<1>2. ASSUME NEW i \in K PROVE Rank(K, i) \in 1..Cardinality(K) /\ IsFiniteSet(B(i))
  <2>1. B(i) \in SUBSET K /\ B(i) # {}
    BY <1>2
  <2>2. IsFiniteSet(B(i)) /\ Cardinality(B(i)) <= Cardinality(K)
    BY <1>1, <2>1, FS_Subset
  <2>3. Cardinality(B(i)) \in Nat /\ Cardinality(B(i)) # 0
    BY <2>1, <2>2, FS_CardinalityType, FS_EmptySet
  <2> QED BY <1>1, <2>2, <2>3 DEF Rank
<1>3. ASSUME NEW i \in K, NEW k \in K, i < k PROVE Rank(K, i) < Rank(K, k)
  <2>1. B(i) \in SUBSET B(k) /\ B(i) # B(k)
    <3>1. k \in B(k) /\ k \notin B(i)
      BY <1>3
    <3>2. \A q \in K : q <= i => q <= k
      BY <1>0, <1>3
    <3> QED BY <3>1, <3>2
  <2>2. IsFiniteSet(B(k))
    BY <1>2
  <2>3. Cardinality(B(i)) <= Cardinality(B(k)) /\ Cardinality(B(i)) # Cardinality(B(k))
    BY <2>1, <2>2, FS_Subset
  <2>4. Rank(K, i) = Cardinality(B(i)) /\ Rank(K, k) = Cardinality(B(k))
    BY DEF Rank
  <2>5. Rank(K, i) \in Int /\ Rank(K, k) \in Int
    <3>1. Rank(K, i) \in 1..Cardinality(K) /\ Rank(K, k) \in 1..Cardinality(K)
      BY <1>2
    <3> QED BY <1>1, <3>1
  <2> QED BY <2>3, <2>4, <2>5
<1> QED BY <1>1, <1>2, <1>3

LEMMA NthRank ==
  ASSUME NEW n \in Nat, NEW K \in SUBSET (1..n)
  PROVE  /\ \A j \in 1..Cardinality(K) : Nth(K, j) \in K /\ Rank(K, Nth(K, j)) = j
         /\ \A i \in K : Nth(K, Rank(K, i)) = i
<1> DEFINE f == [i \in K |-> Rank(K, i)]
           J == 1..Cardinality(K)
<1>1. /\ IsFiniteSet(K) /\ Cardinality(K) \in Nat
      /\ \A i \in K : Rank(K, i) \in J
      /\ \A i, k \in K : i < k => Rank(K, i) < Rank(K, k)
  BY RankOrder
<1>2. \A i, k \in K : Rank(K, i) = Rank(K, k) => i = k
  <2> TAKE i, k \in K
  <2>1. i \in Int /\ k \in Int /\ Rank(K, i) \in Int /\ Rank(K, k) \in Int
    BY <1>1
  <2> QED BY <1>1, <2>1
<1>3. f \in [K -> J] /\ \A i, k \in K : f[i] = f[k] => i = k
  BY <1>1, <1>2
<1>4. IsFiniteSet(J) /\ Cardinality(J) = Cardinality(K)
  <2>1. IsFiniteSet(1..Cardinality(K))
        /\ Cardinality(1..Cardinality(K))
             = IF 1 > Cardinality(K) THEN 0 ELSE Cardinality(K) - 1 + 1
    BY <1>1, FS_Interval
  <2> QED BY <1>1, <2>1
<1> HIDE DEF J, f
<1>5. f \in Injection(K, J)
  BY <1>3 DEF Injection, IsInjective
<1>6. f \in Surjection(K, J)
  BY <1>4, <1>5, FS_Injection
<1>7. ASSUME NEW j \in J PROVE Nth(K, j) \in K /\ Rank(K, Nth(K, j)) = j
  <2>1. \E i \in K : f[i] = j
    BY <1>6 DEF Surjection
  <2>2. \E i \in K : Rank(K, i) = j
    BY <2>1 DEF f
  <2> QED BY <2>2 DEF Nth
<1>8. ASSUME NEW i \in K PROVE Nth(K, Rank(K, i)) = i
  <2>1. Rank(K, i) \in J
    BY <1>1
  <2>2. Nth(K, Rank(K, i)) \in K /\ Rank(K, Nth(K, Rank(K, i))) = Rank(K, i)
    BY <1>7, <2>1
  <2> QED BY <1>2, <2>2
<1> QED BY <1>7, <1>8 DEF J

(* RemoveEventByHandler leaves the events of the other handler, in order.  *)
LEMMA RemoveKeeps ==
  ASSUME NEW x \in ExType, NEW h
  PROVE  LET y == RemoveEventByHandler(x, h) IN
         /\ y \in ExType
         /\ \A j \in DOMAIN y.list : \E i \in DOMAIN x.list : y.list[j] = x.list[i] /\ x.list[i].h # h
         /\ h = "http" => \A c : \E f : Embeds(y.list, x.list, f, c)
<1> DEFINE l == x.list
           K == Kept(l, h)
           N == Cardinality(K)
           m == [j \in 1..N |-> l[Nth(K, j)]]
           y == RemoveEventByHandler(x, h)
           f == [j \in 1..N |-> Nth(K, j)]
<1>1. l \in Seq(EventType) /\ Len(l) \in Nat /\ DOMAIN l = 1..Len(l)
  BY DEF ExType
<1>2. y = [x EXCEPT !.list = m]
  BY DEF RemoveEventByHandler
<1>3. K \in SUBSET (1..Len(l)) /\ (\A i \in K : l[i].h # h)
      /\ \A i \in DOMAIN l : l[i].h # h => i \in K
  BY <1>1 DEF Kept
<1>10. y = RemoveEventByHandler(x, h)
  OBVIOUS
<1> HIDE DEF l, K, y
<1>4. /\ N \in Nat
      /\ \A i \in K : Rank(K, i) \in 1..N
      /\ \A i, k \in K : i < k => Rank(K, i) < Rank(K, k)
  BY <1>1, <1>3, RankOrder
<1>5. /\ \A j \in 1..N : Nth(K, j) \in K /\ Rank(K, Nth(K, j)) = j
      /\ \A i \in K : Nth(K, Rank(K, i)) = i
  BY <1>1, <1>3, NthRank
<1> HIDE DEF N
<1>6. /\ m \in Seq(EventType) /\ DOMAIN m = 1..N /\ \A j \in 1..N : m[j] = l[Nth(K, j)]
  <2>1. \A i \in DOMAIN l : l[i] \in EventType
    BY <1>1
  <2>2. \A j \in 1..N : Nth(K, j) \in DOMAIN l
    BY <1>1, <1>3, <1>5
  <2>3. \A j \in 1..N : l[Nth(K, j)] \in EventType
    BY <2>1, <2>2
  <2> QED BY <1>4, <2>3
<1>7. f \in [1..N -> DOMAIN l] /\ \A j \in 1..N : f[j] = Nth(K, j)
  BY <1>1, <1>3, <1>5
<1> HIDE DEF m, f
<1>8. y \in ExType /\ y.list = m
  BY <1>2, <1>6, Zenon DEF ExType
<1>9. \A j \in DOMAIN m : \E i \in DOMAIN l : m[j] = l[i] /\ l[i].h # h
  BY <1>1, <1>3, <1>5, <1>6
<1>11. ASSUME NEW c, h = "http" PROVE Embeds(m, l, f, c)
  <2>1. \A i, j \in DOMAIN m : i < j => f[i] < f[j]
    <3> SUFFICES ASSUME NEW i \in 1..N, NEW j \in 1..N, i < j PROVE f[i] < f[j]
      BY <1>6
    <3>1. /\ Nth(K, i) \in K /\ Nth(K, j) \in K /\ Rank(K, Nth(K, i)) = i /\ Rank(K, Nth(K, j)) = j
      BY <1>5
    <3>2. Nth(K, i) \in Int /\ Nth(K, j) \in Int
      <4>1. \A q \in K : q \in Int
        BY <1>1, <1>3
      <4> QED BY <3>1, <4>1
    <3>3. Nth(K, j) < Nth(K, i) => j < i
      BY <1>4, <3>1
    <3>4. Nth(K, j) = Nth(K, i) => j = i
      BY <3>1
    <3>5. Nth(K, i) < Nth(K, j)
      BY <3>2, <3>3, <3>4
    <3> QED BY <1>7, <3>5
  <2>2. \A i \in At(l, c, ConnKinds) : i \in K
    BY <1>3, <1>11 DEF At
  <2>3. \A i \in K : Rank(K, i) \in DOMAIN m /\ f[Rank(K, i)] = i
    BY <1>4, <1>5, <1>6, <1>7
  <2> QED BY <1>6, <1>7, <2>1, <2>2, <2>3 DEF Embeds
<1> QED
  BY <1>8, <1>9, <1>10, <1>11 DEF l
-----------------------------------------------------------------------------
(* The events of a list, as a set.                                         *)

El(l) == {l[i] : i \in DOMAIN l}

LEMMA ElAt ==
  ASSUME NEW l
  PROVE  /\ \A c, K : At(l, c, K) = {} <=> \A e \in El(l) : ~(e.h = "ws" /\ e.id = c /\ e.kind \in K)
         /\ Closes(l) = {} <=> \A e \in El(l) : ~(e.h = "ws" /\ e.kind = "CLOSE")
         /\ (\A i \in DOMAIN l : wrap[l[i].h].alive) <=> \A e \in El(l) : wrap[e.h].alive
         /\ (\A i \in DOMAIN l : wrap'[l[i].h].alive) <=> \A e \in El(l) : wrap'[e.h].alive
BY DEF El, At, Closes

LEMMA ElAppend ==
  ASSUME NEW l \in Seq(EventType), NEW e \in EventType
  PROVE  El(Append(l, e)) = El(l) \cup {e}
<1> DEFINE m == Append(l, e)
<1>1. /\ Len(l) \in Nat /\ DOMAIN l = 1..Len(l) /\ DOMAIN m = 1..(Len(l) + 1)
      /\ \A i \in DOMAIN l : m[i] = l[i]
      /\ m[Len(l) + 1] = e
  BY AppendAt
<1> HIDE DEF m
<1>2. Len(l) + 1 \in DOMAIN m /\ DOMAIN l \subseteq DOMAIN m
      /\ \A i \in DOMAIN m : i \in DOMAIN l \/ i = Len(l) + 1
  BY <1>1
<1>3. El(m) = El(l) \cup {e}
  BY <1>1, <1>2 DEF El
<1> QED BY <1>3 DEF m

LEMMA ElTail ==
  ASSUME NEW l \in Seq(EventType), l # <<>>
  PROVE  El(Tail(l)) \subseteq El(l) /\ Head(l) \in El(l) /\ El(l) \subseteq EventType
<1>1. /\ Head(l) = l[1] /\ 1 \in DOMAIN l
      /\ \A i \in DOMAIN Tail(l) : i + 1 \in DOMAIN l /\ Tail(l)[i] = l[i + 1]
  BY TailAt
<1>2. \A i \in DOMAIN l : l[i] \in EventType
  OBVIOUS
<1> QED BY <1>1, <1>2 DEF El

LEMMA ElRemove ==
  ASSUME NEW x \in ExType, NEW h
  PROVE  LET y == RemoveEventByHandler(x, h) IN \A e \in El(y.list) : e \in El(x.list) /\ e.h # h
<1> DEFINE y == RemoveEventByHandler(x, h)
<1>1. \A j \in DOMAIN y.list : \E i \in DOMAIN x.list : y.list[j] = x.list[i] /\ x.list[i].h # h
  BY RemoveKeeps
<1> HIDE DEF y
<1>2. \A e \in El(y.list) : e \in El(x.list) /\ e.h # h
  BY <1>1 DEF El
<1> QED BY <1>2 DEF y
-----------------------------------------------------------------------------
(* Steps that change no connection.                                        *)

Foreign(e) == e \in EventType /\ \A c \in Conns : ~Own(e, c)
PostsForeign(e) == Foreign(e) /\ wrap[e.h].alive /\ ex'.list = Append(ex.list, e)
PopsForeign == ex.list # <<>> /\ Foreign(Head(ex.list)) /\ ex'.list = Tail(ex.list)
ListKept == ex'.list = ex.list

LEMMA ListConns ==
  ASSUME IInv, conn' = conn, ListKept \/ PopsForeign \/ \E e : PostsForeign(e)
  PROVE  /\ \A c \in Conns : ConnOK(ex'.list, conn'[c], c)
         /\ \A c \in Conns : At(ex.list, c, {"DATA"}) = {} => At(ex'.list, c, {"DATA"}) = {}
<1>1. ex.list \in Seq(EventType) /\ \A c \in Conns : ConnOK(ex.list, conn[c], c)
  BY DEF IInv, TypeInv, ExType
<1>2. CASE ListKept
  BY <1>1, <1>2 DEF ListKept
<1>3. CASE PopsForeign
  <2>1. \A c \in Conns : ConnOK(Tail(ex.list), conn[c], c)
    BY <1>1, <1>3, TailOther DEF PopsForeign, Foreign
  <2>2. El(ex'.list) \subseteq El(ex.list)
    BY <1>1, <1>3, ElTail DEF PopsForeign
  <2>3. \A c \in Conns : At(ex.list, c, {"DATA"}) = {} => At(ex'.list, c, {"DATA"}) = {}
    BY <2>2, ElAt
  <2> QED BY <1>3, <2>1, <2>3 DEF PopsForeign
<1>4. ASSUME NEW e, PostsForeign(e)
      PROVE  /\ \A c \in Conns : ConnOK(ex'.list, conn'[c], c)
             /\ \A c \in Conns : At(ex.list, c, {"DATA"}) = {} => At(ex'.list, c, {"DATA"}) = {}
  <2>1. \A c \in Conns : ConnOK(Append(ex.list, e), conn[c], c)
    BY <1>1, <1>4, AppendOther DEF PostsForeign, Foreign
  <2>2. El(ex'.list) = El(ex.list) \cup {e} /\ \A c \in Conns : ~Own(e, c)
    BY <1>1, <1>4, ElAppend DEF PostsForeign, Foreign
  <2>3. \A c \in Conns : ~(e.h = "ws" /\ e.id = c /\ e.kind \in {"DATA"})
    BY <2>2 DEF Own, ConnKinds
  <2>4. \A c \in Conns : At(ex.list, c, {"DATA"}) = {} => At(ex'.list, c, {"DATA"}) = {}
    BY <2>2, <2>3, ElAt
  <2> QED BY <1>4, <2>1, <2>4 DEF PostsForeign
<1> QED BY <1>2, <1>3, <1>4

LEMMA ListAlive ==
  ASSUME IInv, ListKept \/ PopsForeign \/ \E e : PostsForeign(e),
         \A h \in Wraps : wrap'[h].alive = wrap[h].alive
  PROVE  \A i \in DOMAIN ex'.list : wrap'[ex'.list[i].h].alive
<1>1. ex.list \in Seq(EventType) /\ \A e \in El(ex.list) : wrap[e.h].alive
  BY ElAt DEF IInv, TypeInv, ExType, NoEventForDeadWrap
<1>2. \A e \in EventType : e.h \in Wraps
  BY DEF EventType
<1>3. El(ex.list) \subseteq EventType
  <2>1. \A i \in DOMAIN ex.list : ex.list[i] \in EventType
    BY <1>1
  <2> QED BY <2>1 DEF El
<1>4. CASE ListKept
  BY <1>1, <1>2, <1>3, <1>4, ElAt DEF ListKept
<1>5. CASE PopsForeign
  <2>1. El(ex'.list) \subseteq El(ex.list)
    BY <1>1, <1>5, ElTail DEF PopsForeign
  <2> QED BY <1>1, <1>2, <1>3, <2>1, ElAt
<1>6. ASSUME NEW e, PostsForeign(e) PROVE \A i \in DOMAIN ex'.list : wrap'[ex'.list[i].h].alive
  <2>1. El(ex'.list) = El(ex.list) \cup {e} /\ e \in EventType /\ wrap[e.h].alive
    BY <1>1, <1>6, ElAppend DEF PostsForeign, Foreign
  <2> QED BY <1>1, <1>2, <1>3, <2>1, ElAt
<1> QED BY <1>4, <1>5, <1>6

(* The last events of the WSConnector come only from where it ends.        *)
LEMMA ListCloses ==
  ASSUME IInv, ListKept \/ PopsForeign \/ \E e : PostsForeign(e) /\ ~(e.h = "ws" /\ e.kind = "CLOSE")
  PROVE  Closes(ex'.list) # {} => Closes(ex.list) # {}
<1>1. ex.list \in Seq(EventType)
  BY DEF IInv, TypeInv, ExType
<1>2. CASE ListKept
  BY <1>2 DEF ListKept
<1>3. CASE PopsForeign
  <2>1. El(ex'.list) \subseteq El(ex.list)
    BY <1>1, <1>3, ElTail DEF PopsForeign
  <2> QED BY <2>1, ElAt
<1>4. ASSUME NEW e, PostsForeign(e), ~(e.h = "ws" /\ e.kind = "CLOSE")
      PROVE  Closes(ex'.list) # {} => Closes(ex.list) # {}
  <2>1. El(ex'.list) = El(ex.list) \cup {e}
    BY <1>1, <1>4, ElAppend DEF PostsForeign, Foreign
  <2> QED BY <1>4, <2>1, ElAt
<1> QED BY <1>2, <1>3, <1>4

SameWs == wrap'["ws"].native = wrap["ws"].native /\ wrap'["ws"].pending = wrap["ws"].pending
SamePc == (js'.pc \in {"wraps", "ws"} <=> js.pc \in {"wraps", "ws"}) /\ (js'.pc = "wraps" <=> js.pc = "wraps") /\ js'.todo = js.todo

LEMMA QuietEnd ==
  ASSUME IInv, conn' = conn, SameWs, SamePc,
         ListKept \/ PopsForeign \/ \E e : PostsForeign(e) /\ ~(e.h = "ws" /\ e.kind = "CLOSE")
  PROVE  EndInv'
<1>1. /\ Closes(ex'.list) # {} => Closes(ex.list) # {}
      /\ \A c \in Conns : At(ex.list, c, {"DATA"}) = {} => At(ex'.list, c, {"DATA"}) = {}
  BY ListCloses, ListConns
<1>2. Ended' <=> Ended
  BY DEF Ended, SameWs
<1> QED BY <1>1, <1>2 DEF IInv, EndInv, SameWs, SamePc

LEMMA QuietIInv ==
  ASSUME IInv, TypeInv', EndInv', conn' = conn,
         ListKept \/ PopsForeign \/ \E e : PostsForeign(e),
         \A h \in Wraps : wrap'[h].alive = wrap[h].alive,
         \A h \in Wraps : wrap'[h].native = "closing" => wrap'[h].alive,
         \A t \in Tasks : TaskOK(task'[t]) /\ (task'[t].st = "inflight" => wrap["http"].alive)
  PROVE  IInv'
<1>1. \A c \in Conns : ConnOK(ex'.list, conn'[c], c)
  BY ListConns
<1>2. \A i \in DOMAIN ex'.list : wrap'[ex'.list[i].h].alive
  BY ListAlive
<1>3. NoEventForDeadWrap'
  BY <1>2 DEF NoEventForDeadWrap, IInv, Wraps
<1> QED BY <1>1, <1>3 DEF IInv
-----------------------------------------------------------------------------
(* The contract: what a step looks like through the refinement mapping.    *)

Req(r) ==
  CASE r.told = 1 -> "settled"
    [] r.told = 0 -> IF r.st = "none" THEN "none" ELSE "pending"
    [] OTHER -> "again"

CStep == [Contract!CNext]_(Contract!cvars)

LEMMA SameContract ==
  ASSUME \A t \in Tasks : Req(task'[t]) = Req(task[t]),
         \A c \in Conns : conn'[c].says = conn[c].says /\ conn'[c].messages = conn[c].messages
  PROVE  CStep
<1>1. UNCHANGED Contract!cvars
  BY DEF Contract!cvars, Req
<1> QED BY <1>1 DEF CStep

LEMMA RequestContract ==
  ASSUME NEW t \in Tasks, \A u \in Tasks \ {t} : Req(task'[u]) = Req(task[u]), UNCHANGED conn,
         \/ Req(task[t]) = "none" /\ Req(task'[t]) = "pending"
         \/ Req(task[t]) = "pending" /\ Req(task'[t]) = "settled"
  PROVE  CStep
<1>1. ASSUME NEW a, NEW b, Req(task[t]) = a, Req(task'[t]) = b PROVE Contract!Move(t, a, b)
  <2> DEFINE F == [u \in Tasks |-> Req(task[u])]
             G == [u \in Tasks |-> Req(task'[u])]
  <2>1. F[t] = a /\ G = [F EXCEPT ![t] = b]
    <3>1. \A u \in Tasks : G[u] = [F EXCEPT ![t] = b][u]
      BY <1>1
    <3> QED BY <1>1, <3>1
  <2>2. UNCHANGED <<[c \in Conns |-> conn[c].says], [c \in Conns |-> conn[c].messages]>>
    OBVIOUS
  <2> QED BY <2>1, <2>2, Zenon DEF Contract!Move, Req
<1>2. Contract!Request(t) \/ Contract!Settle(t)
  BY <1>1 DEF Contract!Request, Contract!Settle
<1> QED BY <1>2 DEF CStep, Contract!CNext

LEMMA ConnectContract ==
  ASSUME NEW c \in Conns, \A d \in Conns \ {c} : conn'[d] = conn[d], UNCHANGED task,
         conn'[c].messages = conn[c].messages,
         \/ conn[c].says = "none" /\ conn'[c].says = "pending"
         \/ conn[c].says = "pending" /\ conn'[c].says \in {"open", "rejected"}
         \/ conn[c].says = "open" /\ conn'[c].says = "closed"
  PROVE  CStep
<1>1. ASSUME NEW a, NEW b, conn[c].says = a, conn'[c].says = b PROVE Contract!Turn(c, a, b)
  <2> DEFINE F == [d \in Conns |-> conn[d].says]
             G == [d \in Conns |-> conn'[d].says]
  <2>1. F[c] = a /\ G = [F EXCEPT ![c] = b]
    <3>1. \A d \in Conns : G[d] = [F EXCEPT ![c] = b][d]
      BY <1>1
    <3> QED BY <1>1, <3>1
  <2>2. \A d \in Conns : conn'[d].messages = conn[d].messages
    OBVIOUS
  <2>3. UNCHANGED <<[d \in Conns |-> conn[d].messages]>>
    BY <2>2
  <2> QED BY <2>1, <2>3 DEF Contract!Turn
<1>2. Contract!Connect(c) \/ Contract!Answer(c) \/ Contract!Closed(c)
  BY <1>1 DEF Contract!Connect, Contract!Answer, Contract!Closed
<1> QED BY <1>2 DEF CStep, Contract!CNext

LEMMA MessageContract ==
  ASSUME NEW c \in Conns, \A d \in Conns \ {c} : conn'[d] = conn[d], UNCHANGED task,
         conn'[c].messages = conn[c].messages + 1, conn[c].says = "open", conn'[c].says = "open"
  PROVE  CStep
<1>1. Contract!Message(c)
  <2> DEFINE F == [d \in Conns |-> conn[d].messages]
             G == [d \in Conns |-> conn'[d].messages]
  <2>1. G = [F EXCEPT ![c] = F[c] + 1]
    <3>1. \A d \in Conns : G[d] = [F EXCEPT ![c] = F[c] + 1][d]
      OBVIOUS
    <3> QED BY <3>1
  <2>2. \A d \in Conns : conn'[d].says = conn[d].says
    OBVIOUS
  <2>3. UNCHANGED <<[d \in Conns |-> conn[d].says]>>
    BY <2>2
  <2> QED BY <2>1, <2>3 DEF Contract!Message
<1> QED BY <1>1 DEF CStep, Contract!CNext
-----------------------------------------------------------------------------
(* The pieces of a step.                                                   *)

LEMMA Types ==
  ASSUME IInv
  PROVE  /\ ex \in ExType /\ js \in JsType /\ wrap \in [Wraps -> WrapType]
         /\ task \in [Tasks -> TaskType] /\ conn \in [Conns -> ConnType]
         /\ wrap["http"] \in WrapType /\ wrap["ws"] \in WrapType
         /\ ex.list \in Seq(EventType)
BY DEF IInv, TypeInv, Wraps, ExType

LEMMA PostKeeps ==
  ASSUME IInv, NEW e \in EventType, Post(e)
  PROVE  ex' \in ExType /\ ex'.list = Append(ex.list, e)
<1> DEFINE n == IF ex.ctrls = 0 /\ ~ex.running THEN 1 ELSE ex.ctrls
<1>1. ex \in ExType /\ Append(ex.list, e) \in Seq(EventType)
  BY Types
<1>2. n \in {0, 1}
  BY <1>1 DEF ExType
<1>3. ex' = [ex EXCEPT !.list = Append(ex.list, e), !.ctrls = n]
  BY Zenon DEF Post, QueueEvent
<1> HIDE DEF n
<1> QED BY <1>1, <1>2, <1>3, Zenon DEF ExType

LEMMA PopKeeps ==
  ASSUME IInv, NEW h, NEW kind, Pop(h, kind)
  PROVE  /\ ex' \in ExType /\ ex.list # <<>> /\ ex'.list = Tail(ex.list)
         /\ Head(ex.list) \in EventType /\ Head(ex.list).h = h /\ Head(ex.list).kind = kind
         /\ js.pc = "loop"
<1>1. ex \in ExType /\ ex.list # <<>> /\ ex' = [ex EXCEPT !.list = Tail(ex.list)]
  BY Types DEF Pop
<1>2. Tail(ex.list) \in Seq(EventType) /\ Head(ex.list) \in EventType
  BY <1>1, Types, TailAt
<1>3. ex' \in ExType /\ ex'.list = Tail(ex.list)
  BY <1>1, <1>2, Zenon DEF ExType
<1> QED BY <1>1, <1>2, <1>3 DEF Pop

LEMMA SetWrap ==
  ASSUME IInv, NEW h \in Wraps, NEW w \in WrapType, wrap' = [wrap EXCEPT ![h] = w]
  PROVE  /\ wrap' \in [Wraps -> WrapType] /\ wrap'[h] = w
         /\ \A g \in Wraps : g # h => wrap'[g] = wrap[g]
BY Types

LEMMA SetTask ==
  ASSUME IInv, NEW t \in Tasks, NEW r \in TaskType, task' = [task EXCEPT ![t] = r]
  PROVE  /\ task' \in [Tasks -> TaskType] /\ task'[t] = r
         /\ \A u \in Tasks : u # t => task'[u] = task[u]
BY Types

LEMMA SetConn ==
  ASSUME IInv, NEW c \in Conns, NEW k \in ConnType, conn' = [conn EXCEPT ![c] = k]
  PROVE  /\ conn' \in [Conns -> ConnType] /\ conn'[c] = k
         /\ \A d \in Conns : d # c => conn'[d] = conn[d]
BY Types

LEMMA Events ==
  ASSUME NEW t \in Tasks, NEW h \in Wraps
  PROVE  Foreign(Event("http", "RESULT", t)) /\ Foreign(Event(h, "CLOSE", "none"))
         /\ Event(h, "CLOSE", "none").h = h
         /\ ~(Event("http", "RESULT", t).h = "ws") /\ Event("http", "RESULT", t).h = "http"
BY DEF Event, EventType, Wraps, Foreign, Own, ConnKinds

LEMMA CloseEvent ==
  ASSUME NEW h \in Wraps
  PROVE  Foreign(Event(h, "CLOSE", "none")) /\ Event(h, "CLOSE", "none").h = h
BY DEF Event, EventType, Wraps, Foreign, Own, ConnKinds

(* A task that is not in the map keeps what the contract sees of it.       *)
LEMMA TaskSame ==
  ASSUME IInv, UNCHANGED task
  PROVE  /\ task' \in [Tasks -> TaskType] /\ \A t \in Tasks : Req(task'[t]) = Req(task[t])
         /\ \A t \in Tasks : TaskOK(task'[t]) /\ (task'[t].st = "inflight" => wrap["http"].alive)
BY Types DEF IInv, NoEventForDeadWrap
-----------------------------------------------------------------------------
(* The event loop, and the HTTP side.                                      *)

LEMMA WakeOK == ASSUME IInv, Wake PROVE IInv' /\ CStep
<1>1. /\ ex' = [ex EXCEPT !.ctrls = 0, !.running = TRUE] /\ js' = [js EXCEPT !.pc = "loop"]
      /\ js.pc = "idle" /\ UNCHANGED <<wrap, task, conn>>
  BY DEF Wake
<1>2. ex' \in ExType /\ ex'.list = ex.list
  BY <1>1, Types, Zenon DEF ExType
<1>3. js' \in JsType /\ js'.pc = "loop" /\ js'.todo = js.todo
  BY <1>1, Types DEF JsType
<1>4. TypeInv'
  BY <1>1, <1>2, <1>3, Types DEF TypeInv
<1>5. EndInv'
  BY <1>1, <1>2, <1>3, QuietEnd DEF SameWs, SamePc, ListKept
<1> QED BY <1>1, <1>2, <1>4, <1>5, QuietIInv, TaskSame, SameContract DEF ListKept, IInv

LEMMA LoopEndsOK == ASSUME IInv, LoopEnds PROVE IInv' /\ CStep
<1>1. /\ ex' = [ex EXCEPT !.running = FALSE] /\ js' = [js EXCEPT !.pc = "idle"]
      /\ js.pc = "loop" /\ UNCHANGED <<wrap, task, conn>>
  BY DEF LoopEnds
<1>2. ex' \in ExType /\ ex'.list = ex.list
  BY <1>1, Types, Zenon DEF ExType
<1>3. js' \in JsType /\ js'.pc = "idle" /\ js'.todo = js.todo
  BY <1>1, Types DEF JsType
<1>4. TypeInv'
  BY <1>1, <1>2, <1>3, Types DEF TypeInv
<1>5. EndInv'
  BY <1>1, <1>2, <1>3, QuietEnd DEF SameWs, SamePc, ListKept
<1> QED BY <1>1, <1>2, <1>4, <1>5, QuietIInv, TaskSame, SameContract DEF ListKept, IInv

(* A step that changes an HTTP task and the references of its wrap.        *)
LEMMA TaskStep ==
  ASSUME IInv, NEW t \in Tasks, NEW r \in TaskType, TaskOK(r), r.st = "inflight" => wrap["http"].alive,
         task' = [task EXCEPT ![t] = r],
         NEW w \in WrapType, w.alive = wrap["http"].alive, w.native = wrap["http"].native,
         wrap' = [wrap EXCEPT !["http"] = w],
         UNCHANGED <<js, conn>>, ex' \in ExType,
         ListKept \/ PopsForeign \/ \E e : PostsForeign(e) /\ ~(e.h = "ws" /\ e.kind = "CLOSE"),
         \/ Req(task[t]) = "none" /\ Req(r) = "pending"
         \/ Req(task[t]) = "pending" /\ Req(r) \in {"settled", "pending"}
  PROVE  IInv' /\ CStep
<1>1. "http" \in Wraps /\ "ws" \in Wraps /\ "http" # "ws"
  BY DEF Wraps
<1>2. /\ wrap' \in [Wraps -> WrapType] /\ wrap'["http"] = w /\ wrap'["ws"] = wrap["ws"]
  BY <1>1, SetWrap
<1>3. /\ task' \in [Tasks -> TaskType] /\ task'[t] = r
      /\ \A u \in Tasks : u # t => task'[u] = task[u]
  BY SetTask
<1>4. TypeInv'
  BY <1>2, <1>3, Types DEF TypeInv
<1>5. EndInv'
  BY <1>2, QuietEnd DEF SameWs, SamePc
<1>6. \A u \in Tasks : TaskOK(task'[u]) /\ (task'[u].st = "inflight" => wrap["http"].alive)
  BY <1>3 DEF IInv, NoEventForDeadWrap
<1>7. \A h \in Wraps : wrap'[h].alive = wrap[h].alive /\ wrap'[h].native = wrap[h].native
  BY <1>2 DEF Wraps
<1>8. IInv'
  BY <1>4, <1>5, <1>6, <1>7, QuietIInv DEF IInv
<1>9. CStep
  <2>1. CASE Req(r) = Req(task[t])
    BY <1>3, <2>1, SameContract
  <2>2. CASE Req(r) # Req(task[t])
    BY <1>3, <2>2, RequestContract
  <2> QED BY <2>1, <2>2
<1> QED BY <1>8, <1>9

LEMMA RequestOK == ASSUME IInv, NEW t \in Tasks, Request(t) PROVE IInv' /\ CStep
<1> DEFINE w == [wrap["http"] EXCEPT !.refs = @ + 1]
           r(s) == [task[t] EXCEPT !.st = s]
<1>1. /\ wrap["http"].alive /\ task[t].st = "none" /\ wrap' = [wrap EXCEPT !["http"] = w]
      /\ UNCHANGED <<js, conn>>
  BY DEF Request, AppRuns
<1>2. \/ task' = [task EXCEPT ![t] = r("inflight")] /\ UNCHANGED ex
      \/ task' = [task EXCEPT ![t] = r("posted")] /\ Post(Event("http", "RESULT", t))
  BY DEF Request
<1>3. wrap["http"] \in WrapType /\ task[t] \in TaskType /\ TaskOK(task[t])
  BY Types DEF IInv
<1>4. wrap["http"].refs + 1 \in Int
  BY <1>3 DEF WrapType
<1>5. w \in WrapType /\ w.alive = wrap["http"].alive /\ w.native = wrap["http"].native
  BY <1>3, <1>4, Zenon DEF WrapType
<1>6. task[t].told = 0 /\ Req(task[t]) = "none"
  BY <1>1, <1>3 DEF TaskOK, Req
<1>7. ASSUME NEW s \in {"inflight", "posted"}
      PROVE  r(s) \in TaskType /\ r(s).st = s /\ TaskOK(r(s)) /\ Req(r(s)) = "pending"
  <2>1. r(s) \in TaskType /\ r(s).st = s /\ r(s).told = 0
    BY <1>3, <1>6 DEF TaskType
  <2> HIDE DEF r
  <2> QED BY <2>1 DEF TaskOK, Req
<1> HIDE DEF w, r
<1>8. CASE task' = [task EXCEPT ![t] = r("inflight")] /\ UNCHANGED ex
  <2>1. ListKept /\ ex' \in ExType
    BY <1>8, Types DEF ListKept
  <2>2. r("inflight") \in TaskType /\ r("inflight").st = "inflight" /\ TaskOK(r("inflight"))
        /\ Req(r("inflight")) = "pending"
    BY <1>7
  <2> QED BY <1>1, <1>5, <1>6, <1>8, <2>1, <2>2, TaskStep
<1>9. CASE task' = [task EXCEPT ![t] = r("posted")] /\ Post(Event("http", "RESULT", t))
  <2>1. /\ PostsForeign(Event("http", "RESULT", t)) /\ Event("http", "RESULT", t).h # "ws"
        /\ ex' \in ExType
    <3>1. "http" \in Wraps
      BY DEF Wraps
    <3>2. Foreign(Event("http", "RESULT", t)) /\ Event("http", "RESULT", t).h = "http"
      BY <3>1, Events
    <3> QED BY <1>1, <1>9, <3>2, PostKeeps DEF PostsForeign, Foreign
  <2>2. r("posted") \in TaskType /\ r("posted").st = "posted" /\ TaskOK(r("posted"))
        /\ Req(r("posted")) = "pending"
    BY <1>7
  <2> QED BY <1>1, <1>5, <1>6, <1>9, <2>1, <2>2, TaskStep
<1> QED BY <1>2, <1>8, <1>9
LEMMA ResultOK == ASSUME IInv, NEW t \in Tasks, OnHttpResult(t) PROVE IInv' /\ CStep
<1> DEFINE r == [task[t] EXCEPT !.st = "posted"]
<1>1. /\ task[t].st = "inflight" /\ task' = [task EXCEPT ![t] = r] /\ UNCHANGED <<js, wrap, conn>>
      /\ Post(Event("http", "RESULT", t))
  BY DEF OnHttpResult
<1>2. wrap["http"].alive /\ task[t] \in TaskType /\ TaskOK(task[t])
  BY <1>1, Types DEF IInv, NoEventForDeadWrap
<1>3. task[t].told = 0 /\ Req(task[t]) = "pending"
  BY <1>1, <1>2 DEF TaskOK, Req
<1>4. r \in TaskType /\ r.st = "posted" /\ r.told = 0
  BY <1>2, <1>3 DEF TaskType
<1> HIDE DEF r
<1>5. TaskOK(r) /\ Req(r) = "pending"
  BY <1>4 DEF TaskOK, Req
<1>6. /\ PostsForeign(Event("http", "RESULT", t)) /\ Event("http", "RESULT", t).h # "ws"
      /\ ex' \in ExType
  <2>1. "http" \in Wraps
    BY DEF Wraps
  <2>2. Foreign(Event("http", "RESULT", t)) /\ Event("http", "RESULT", t).h = "http"
    BY <2>1, Events
  <2> QED BY <1>1, <1>2, <2>2, PostKeeps DEF PostsForeign, Foreign
<1>7. wrap["http"] \in WrapType /\ wrap' = [wrap EXCEPT !["http"] = wrap["http"]]
  BY <1>1, Types
<1> QED BY <1>1, <1>3, <1>4, <1>5, <1>6, <1>7, TaskStep

LEMMA AnswerOK ==
  ASSUME IInv, NEW t \in Tasks, InMap(t), Answer(t), UNCHANGED <<js, conn>>, ex' \in ExType,
         ListKept \/ PopsForeign
  PROVE  IInv' /\ CStep
<1> DEFINE r == [task[t] EXCEPT !.st = "done", !.told = @ + 1]
           w == [wrap["http"] EXCEPT !.refs = @ - 1]
<1>1. task' = [task EXCEPT ![t] = r] /\ wrap' = [wrap EXCEPT !["http"] = w]
  BY DEF Answer
<1>2. /\ task[t] \in TaskType /\ TaskOK(task[t]) /\ task[t].st \in {"inflight", "posted"}
      /\ wrap["http"] \in WrapType
  BY Types DEF IInv, InMap
<1>3. task[t].told = 0 /\ Req(task[t]) = "pending"
  BY <1>2 DEF TaskOK, Req
<1>8. task[t].told + 1 = 1 /\ task[t].told + 1 \in Nat
  BY <1>3
<1>9. r \in TaskType /\ r.st = "done" /\ r.told = task[t].told + 1
  BY <1>2, <1>8, Zenon DEF TaskType
<1>4. r \in TaskType /\ r.st = "done" /\ r.told = 1
  BY <1>8, <1>9
<1>5. wrap["http"].refs - 1 \in Int
  BY <1>2 DEF WrapType
<1>6. w \in WrapType /\ w.alive = wrap["http"].alive /\ w.native = wrap["http"].native
  BY <1>2, <1>5, Zenon DEF WrapType
<1> HIDE DEF r, w
<1>7. TaskOK(r) /\ Req(r) = "settled"
  BY <1>4 DEF TaskOK, Req
<1> QED BY <1>1, <1>3, <1>4, <1>6, <1>7, TaskStep

(* A step that changes one connector's wrap, and no task or connection.    *)
LEMMA WrapStep ==
  ASSUME IInv, NEW h \in Wraps, NEW w \in WrapType, wrap' = [wrap EXCEPT ![h] = w],
         w.alive = wrap[h].alive, w.native = "closing" => w.alive,
         UNCHANGED <<task, conn>>, ex' \in ExType, js' \in JsType,
         ListKept \/ PopsForeign \/ \E e : PostsForeign(e), EndInv'
  PROVE  IInv' /\ CStep
<1>1. /\ wrap' \in [Wraps -> WrapType] /\ wrap'[h] = w
      /\ \A g \in Wraps : g # h => wrap'[g] = wrap[g]
  BY SetWrap
<1>2. TypeInv'
  BY <1>1, Types DEF TypeInv
<1>3. \A g \in Wraps : wrap'[g].alive = wrap[g].alive /\ (wrap'[g].native = "closing" => wrap'[g].alive)
  BY <1>1 DEF IInv
<1>4. IInv'
  BY <1>2, <1>3, QuietIInv, TaskSame
<1>5. CStep
  BY TaskSame, SameContract
<1> QED BY <1>4, <1>5

LEMMA HttpWrapEnd ==
  ASSUME IInv, NEW w, wrap' = [wrap EXCEPT !["http"] = w] PROVE SameWs
<1>1. wrap'["ws"] = wrap["ws"]
  BY Types DEF Wraps
<1> QED BY <1>1 DEF SameWs

LEMMA JsResultOK == ASSUME IInv, NEW t \in Tasks, OnJsResult(t) PROVE IInv' /\ CStep
<1>1. Pop("http", "RESULT") /\ UNCHANGED <<js, conn>>
  BY DEF OnJsResult
<1>2. ex' \in ExType /\ PopsForeign
  BY <1>1, PopKeeps DEF PopsForeign, Foreign, Own
<1>3. CASE InMap(t)
  BY <1>1, <1>2, <1>3, AnswerOK DEF OnJsResult
<1>4. CASE ~InMap(t)
  <2>1. UNCHANGED <<task, wrap>>
    BY <1>4 DEF OnJsResult
  <2>2. wrap["http"] \in WrapType /\ wrap' = [wrap EXCEPT !["http"] = wrap["http"]] /\ "http" \in Wraps
    BY <2>1, Types DEF Wraps
  <2>3. EndInv'
    BY <1>1, <1>2, <2>1, QuietEnd DEF SameWs, SamePc
  <2> QED BY <1>1, <1>2, <2>1, <2>2, <2>3, Types, WrapStep DEF IInv
<1> QED BY <1>3, <1>4

LEMMA SettleOK == ASSUME IInv, NEW t \in Tasks, SettlePendingTask(t) PROVE IInv' /\ CStep
<1>1. InMap(t) /\ Answer(t) /\ UNCHANGED <<ex, js, conn>>
  BY DEF SettlePendingTask
<1>2. ex' \in ExType /\ ListKept
  BY <1>1, Types DEF ListKept
<1> QED BY <1>1, <1>2, AnswerOK

LEMMA JsClosedHttpOK == ASSUME IInv, OnJsClosedHttp PROVE IInv' /\ CStep
<1>1. Pop("http", "CLOSE") /\ js' = [js EXCEPT !.pc = "settle"] /\ UNCHANGED <<wrap, task, conn>>
  BY DEF OnJsClosedHttp
<1>2. ex' \in ExType /\ PopsForeign /\ js.pc = "loop"
  BY <1>1, PopKeeps DEF PopsForeign, Foreign, Own
<1>3. js' \in JsType /\ js'.pc = "settle" /\ js'.todo = js.todo
  BY <1>1, Types DEF JsType
<1>4. EndInv'
  BY <1>1, <1>2, <1>3, QuietEnd DEF SameWs, SamePc
<1>5. wrap["http"] \in WrapType /\ wrap' = [wrap EXCEPT !["http"] = wrap["http"]] /\ "http" \in Wraps
  BY <1>1, Types DEF Wraps
<1> QED BY <1>1, <1>2, <1>3, <1>4, <1>5, WrapStep DEF IInv

LEMMA SettledOK == ASSUME IInv, Settled PROVE IInv' /\ CStep
<1> DEFINE w == [wrap["http"] EXCEPT !.native = "gone", !.told = @ + wrap["http"].waiting, !.waiting = 0]
<1>1. /\ js.pc = "settle" /\ js' = [js EXCEPT !.pc = "http"] /\ UNCHANGED <<ex, task, conn>>
      /\ wrap' = [wrap EXCEPT !["http"] = w]
  BY DEF Settled, CallCloseCallbacks
<1>2. wrap["http"] \in WrapType /\ "http" \in Wraps
  BY Types DEF Wraps
<1>3. wrap["http"].told + wrap["http"].waiting \in Int /\ 0 \in Int
  BY <1>2 DEF WrapType
<1>4. w \in WrapType /\ w.alive = wrap["http"].alive /\ w.native = "gone"
  BY <1>2, <1>3, Zenon DEF WrapType
<1> HIDE DEF w
<1>5. js' \in JsType /\ js'.pc = "http" /\ js'.todo = js.todo
  BY <1>1, Types DEF JsType
<1>6. EndInv'
  BY <1>1, <1>5, QuietEnd, HttpWrapEnd DEF SamePc, ListKept
<1> QED BY <1>1, <1>2, <1>4, <1>5, <1>6, Types, WrapStep DEF ListKept

LEMMA ClosedHttpOK == ASSUME IInv, ClosedHttp PROVE IInv' /\ CStep
<1> DEFINE n == IF wrap["http"].pending THEN wrap["http"].refs - 1 ELSE wrap["http"].refs
           w == [wrap["http"] EXCEPT !.pending = FALSE, !.refs = n]
<1>1. /\ js.pc = "http" /\ js' = [js EXCEPT !.pc = "loop"] /\ UNCHANGED <<ex, task, conn>>
      /\ wrap' = [wrap EXCEPT !["http"] = w]
  BY DEF ClosedHttp
<1>2. wrap["http"] \in WrapType /\ "http" \in Wraps
  BY Types DEF Wraps
<1>3. n \in Int
  BY <1>2 DEF WrapType
<1> HIDE DEF n
<1>4. w \in WrapType /\ w.alive = wrap["http"].alive /\ w.native = wrap["http"].native
  BY <1>2, <1>3, Zenon DEF WrapType
<1> HIDE DEF w
<1>5. js' \in JsType /\ js'.pc = "loop" /\ js'.todo = js.todo
  BY <1>1, Types DEF JsType
<1>6. EndInv'
  BY <1>1, <1>5, QuietEnd, HttpWrapEnd DEF SamePc, ListKept
<1> QED BY <1>1, <1>2, <1>4, <1>5, <1>6, Types, WrapStep DEF ListKept, IInv
-----------------------------------------------------------------------------
(* Closing a connector.                                                    *)

(* EndInv of a step of the WSConnector's wrap that leaves what it ended.   *)
LEMMA WsEnd ==
  ASSUME IInv, NEW w \in WrapType, wrap' = [wrap EXCEPT !["ws"] = w], UNCHANGED conn,
         ListKept \/ PopsForeign \/ \E e : PostsForeign(e),
         Closes(ex'.list) # {} => w.native \in {"drained", "gone"},
         w.native \in {"drained", "gone"} =>
           \A c \in Conns : ~conn[c].sink \/ conn[c].native \in {"none", "closed"},
         w.native \in {"closing", "drained"} => w.pending,
         js'.pc \in {"wraps", "ws"} => w.native = "gone",
         js'.pc = "wraps" => js.pc = "wraps", js'.pc # "wraps" => js'.todo = {}, js'.todo \subseteq js.todo
  PROVE  EndInv'
<1>1. wrap'["ws"] = w
  BY Types DEF Wraps
<1>2. \A c \in Conns : At(ex.list, c, {"DATA"}) = {} => At(ex'.list, c, {"DATA"}) = {}
  BY ListConns
<1>3. js.todo \subseteq Conns
  BY Types DEF JsType
<1> QED BY <1>1, <1>2, <1>3 DEF IInv, EndInv, Ended
LEMMA CloseOK == ASSUME IInv, NEW h \in Wraps, Close(h) PROVE IInv' /\ CStep
<1> DEFINE v == wrap[h]
           w == [v EXCEPT !.asked = @ + 1, !.waiting = @ + 1]
           n == IF h = "ws" THEN w.closeRefs + 1 ELSE w.closeRefs
           a == [w EXCEPT !.pending = TRUE, !.refs = @ + 1, !.native = "closing", !.closeRefs = n]
           z == [w EXCEPT !.refs = @ + 1, !.closeRefs = @ + 1]
           y == IF h = "ws" THEN z ELSE w
<1>1. UNCHANGED <<js, task, conn>> /\ v.alive
  BY DEF Close, AppRuns
<1>2. \/ NeedsClose(w) /\ wrap' = [wrap EXCEPT ![h] = a] /\ UNCHANGED ex
      \/ w.pending /\ wrap' = [wrap EXCEPT ![h] = w] /\ UNCHANGED ex
      \/ w.native = "gone" /\ wrap' = [wrap EXCEPT ![h] = y] /\ Post(Event(h, "CLOSE", "none"))
  BY DEF Close
<1>3. v \in WrapType /\ js \in JsType /\ ex \in ExType
  BY Types
<1>21. v.native = "closing" => v.alive
  BY DEF IInv
<1>22. h = "ws" => v = wrap["ws"]
  OBVIOUS
<1> HIDE DEF v
<1>4. v.asked + 1 \in Int /\ v.waiting + 1 \in Int /\ v.refs + 1 \in Int /\ v.closeRefs + 1 \in Int
      /\ v.closeRefs \in Int
  BY <1>3 DEF WrapType
<1>5. /\ w \in WrapType /\ w.alive = v.alive /\ w.native = v.native /\ w.pending = v.pending
      /\ w.refs = v.refs /\ w.closeRefs = v.closeRefs
  BY <1>3, <1>4, Zenon DEF WrapType
<1> HIDE DEF w
<1>6. n \in Int
  BY <1>4, <1>5
<1> HIDE DEF n
<1>7. a \in WrapType /\ a.alive = v.alive /\ a.native = "closing" /\ a.pending
  <2>1. w.refs + 1 \in Int
    BY <1>4, <1>5
  <2>2. a \in WrapType /\ a.alive = w.alive /\ a.native = "closing" /\ a.pending = TRUE
    BY <1>5, <1>6, <2>1, Zenon DEF WrapType
  <2> QED BY <1>5, <2>2
<1>8. z \in WrapType /\ z.alive = v.alive /\ z.native = v.native /\ z.pending = v.pending
  <2>1. w.refs + 1 \in Int /\ w.closeRefs + 1 \in Int
    BY <1>4, <1>5
  <2>2. z \in WrapType /\ z.alive = w.alive /\ z.native = w.native /\ z.pending = w.pending
    BY <1>5, <2>1, Zenon DEF WrapType
  <2> QED BY <1>5, <2>2
<1> HIDE DEF a, z
<1>9. y \in WrapType /\ y.alive = v.alive /\ y.native = v.native /\ y.pending = v.pending
  BY <1>5, <1>8
<1> HIDE DEF y
<1>10. h = "http" \/ h = "ws"
  BY DEF Wraps
<1>20. /\ Closes(ex.list) # {} => wrap["ws"].native \in {"drained", "gone"}
       /\ wrap["ws"].native \in {"drained", "gone"} =>
            \A c \in Conns : ~conn[c].sink \/ conn[c].native \in {"none", "closed"}
       /\ wrap["ws"].native \in {"closing", "drained"} => wrap["ws"].pending
       /\ js.pc \in {"wraps", "ws"} => wrap["ws"].native = "gone"
       /\ js.pc # "wraps" => js.todo = {}
  BY DEF IInv, EndInv, Ended
<1>11. CASE NeedsClose(w) /\ wrap' = [wrap EXCEPT ![h] = a] /\ UNCHANGED ex
  <2>1. ListKept /\ ex' \in ExType /\ js' \in JsType /\ v.native # "gone" /\ ~v.pending
    BY <1>1, <1>3, <1>5, <1>11 DEF ListKept, NeedsClose
  <2>2. EndInv'
    <3>1. CASE h = "http"
      BY <1>1, <1>11, <2>1, <3>1, HttpWrapEnd, QuietEnd DEF SamePc
    <3>2. CASE h = "ws"
      <4>1. Closes(ex'.list) = {} /\ js'.pc \notin {"wraps", "ws"} /\ js'.todo = {}
        BY <1>1, <1>11, <1>20, <1>22, <2>1, <3>2
      <4> QED BY <1>1, <1>7, <1>11, <2>1, <3>2, <4>1, WsEnd
    <3> QED BY <1>10, <3>1, <3>2
  <2> QED BY <1>1, <1>7, <1>11, <2>1, <2>2, WrapStep DEF v
<1>12. ASSUME NEW x \in WrapType, x.alive = v.alive, x.native = v.native, x.pending = v.pending,
              wrap' = [wrap EXCEPT ![h] = x],
              ex' \in ExType, ListKept \/ (v.native = "gone" /\ \E e : PostsForeign(e) /\ e.h = h)
       PROVE  IInv' /\ CStep
  <2>1. EndInv'
    <3>1. CASE h = "http"
      BY <1>1, <1>12, <3>1, HttpWrapEnd, QuietEnd DEF SamePc
    <3>2. CASE h = "ws"
      <4>1. Closes(ex'.list) # {} => x.native \in {"drained", "gone"}
        BY <1>12, <1>20, <1>22, <3>2 DEF ListKept
      <4> QED BY <1>1, <1>12, <1>20, <1>22, <3>2, <4>1, WsEnd
    <3> QED BY <1>10, <3>1, <3>2
  <2> QED BY <1>1, <1>3, <1>12, <1>21, <2>1, WrapStep DEF v
<1>13. CASE w.pending /\ wrap' = [wrap EXCEPT ![h] = w] /\ UNCHANGED ex
  BY <1>3, <1>5, <1>12, <1>13 DEF ListKept
<1>14. CASE w.native = "gone" /\ wrap' = [wrap EXCEPT ![h] = y] /\ Post(Event(h, "CLOSE", "none"))
  <2>1. PostsForeign(Event(h, "CLOSE", "none")) /\ Event(h, "CLOSE", "none").h = h /\ ex' \in ExType
    BY <1>1, <1>14, CloseEvent, PostKeeps DEF PostsForeign, Foreign, v
  <2> QED BY <1>5, <1>9, <1>12, <1>14, <2>1
<1> QED BY <1>2, <1>11, <1>13, <1>14

LEMMA OnClosedOK == ASSUME IInv, NEW h \in Wraps, OnClosed(h) PROVE IInv' /\ CStep
<1> DEFINE w == [wrap[h] EXCEPT !.native = "drained"]
<1>1. /\ wrap[h].native = "closing" /\ wrap' = [wrap EXCEPT ![h] = w] /\ UNCHANGED <<js, task, conn>>
      /\ Post(Event(h, "CLOSE", "none"))
      /\ h = "ws" => \A c \in Conns : conn[c].native \in {"none", "closed"}
  BY DEF OnClosed, Wraps
<1>2. wrap[h] \in WrapType /\ wrap[h].alive /\ js \in JsType
  BY <1>1, Types DEF IInv
<1>3. w \in WrapType /\ w.alive = wrap[h].alive /\ w.native = "drained" /\ w.pending = wrap[h].pending
  BY <1>2, Zenon DEF WrapType
<1> HIDE DEF w
<1>4. PostsForeign(Event(h, "CLOSE", "none")) /\ Event(h, "CLOSE", "none").h = h /\ ex' \in ExType
  BY <1>1, <1>2, CloseEvent, PostKeeps DEF PostsForeign, Foreign
<1>5. EndInv'
  <2>1. CASE h = "http"
    BY <1>1, <1>4, <2>1, HttpWrapEnd, QuietEnd DEF SamePc
  <2>2. CASE h = "ws"
    <3>1. w.pending /\ js.pc \notin {"wraps", "ws"} /\ js.todo = {}
      BY <1>1, <1>3, <2>2 DEF IInv, EndInv
    <3> QED BY <1>1, <1>3, <1>4, <2>2, <3>1, WsEnd
  <2> QED BY <2>1, <2>2 DEF Wraps
<1> QED BY <1>1, <1>2, <1>3, <1>4, <1>5, WrapStep

LEMMA WrapsToldOK == ASSUME IInv, WrapsTold PROVE IInv' /\ CStep
<1> DEFINE w == [wrap["ws"] EXCEPT !.native = "gone", !.told = @ + wrap["ws"].waiting, !.waiting = 0]
<1>1. /\ js.pc = "wraps" /\ js.todo = {} /\ js' = [js EXCEPT !.pc = "ws"] /\ UNCHANGED <<ex, task, conn>>
      /\ wrap' = [wrap EXCEPT !["ws"] = w]
  BY DEF WrapsTold, CallCloseCallbacks
<1>2. wrap["ws"] \in WrapType /\ "ws" \in Wraps
  BY Types DEF Wraps
<1>3. wrap["ws"].told + wrap["ws"].waiting \in Int /\ 0 \in Int
  BY <1>2 DEF WrapType
<1>4. w \in WrapType /\ w.alive = wrap["ws"].alive /\ w.native = "gone"
  BY <1>2, <1>3, Zenon DEF WrapType
<1> HIDE DEF w
<1>5. js' \in JsType /\ js'.pc = "ws" /\ js'.todo = {}
  BY <1>1, Types DEF JsType
<1>6. \A c \in Conns : ~conn[c].sink
  BY <1>1 DEF IInv, EndInv
<1>7. ListKept /\ ex' \in ExType
  BY <1>1, Types DEF ListKept
<1>8. EndInv'
  BY <1>1, <1>4, <1>5, <1>6, <1>7, WsEnd
<1> QED BY <1>1, <1>2, <1>4, <1>5, <1>7, <1>8, WrapStep

LEMMA ClosedWsOK == ASSUME IInv, ClosedWs PROVE IInv' /\ CStep
<1> DEFINE v == wrap["ws"]
           n == IF v.closeRefs > 0 THEN v.closeRefs - 1 ELSE v.closeRefs
           m == IF v.closeRefs > 0 THEN v.refs - 1 ELSE v.refs
           w == [v EXCEPT !.pending = FALSE, !.closeRefs = n, !.refs = m]
<1>1. /\ js.pc = "ws" /\ js' = [js EXCEPT !.pc = "loop"] /\ UNCHANGED <<ex, task, conn>>
      /\ wrap' = [wrap EXCEPT !["ws"] = w]
  BY DEF ClosedWs
<1>2. v \in WrapType /\ "ws" \in Wraps
  BY Types DEF Wraps
<1>3. n \in Int /\ m \in Int
  BY <1>2 DEF WrapType
<1> HIDE DEF n, m
<1>4. w \in WrapType /\ w.alive = v.alive /\ w.native = v.native
  BY <1>2, <1>3, Zenon DEF WrapType
<1> HIDE DEF w
<1>5. js' \in JsType /\ js'.pc = "loop" /\ js'.todo = js.todo
  BY <1>1, Types DEF JsType
<1>6. /\ w.native = "gone" /\ js.todo = {}
      /\ \A c \in Conns : ~conn[c].sink \/ conn[c].native \in {"none", "closed"}
  BY <1>1, <1>4 DEF IInv, EndInv, Ended
<1>7. ListKept /\ ex' \in ExType
  BY <1>1, Types DEF ListKept
<1>8. EndInv'
  BY <1>1, <1>4, <1>5, <1>6, <1>7, WsEnd
<1> QED BY <1>1, <1>2, <1>4, <1>5, <1>6, <1>7, <1>8, WrapStep
-----------------------------------------------------------------------------
(* Steps of one connection.                                                *)

PostsOwn(c, e) ==
  e \in EventType /\ Own(e, c) /\ ex'.list = Append(ex.list, e) /\ conn[c].sink
PopsOwn(c) == ex.list # <<>> /\ Own(Head(ex.list), c) /\ ex'.list = Tail(ex.list)

LEMMA ConnStep ==
  ASSUME IInv, NEW c \in Conns, NEW k \in ConnType, conn' = [conn EXCEPT ![c] = k],
         UNCHANGED <<wrap, task>>, ex' \in ExType, js' \in JsType,
         ListKept \/ PopsOwn(c) \/ \E e : PostsOwn(c, e),
         ConnOK(ex'.list, k, c),
         k.sink => wrap["ws"].alive, k.sink => conn[c].sink \/ wrap["ws"].native = "open",
         k.sink => k.native \in {"none", "closed"} \/ ~Ended,
         js'.pc = js.pc, js'.todo \subseteq js.todo,
         c \in js'.todo => k.wrap = "live"
  PROVE  IInv'
<1>1. /\ conn' \in [Conns -> ConnType] /\ conn'[c] = k
      /\ \A d \in Conns : d # c => conn'[d] = conn[d]
  BY SetConn
<1>2. TypeInv'
  BY <1>1, Types DEF TypeInv
<1>3. ex.list \in Seq(EventType) /\ \A d \in Conns : ConnOK(ex.list, conn[d], d)
  BY Types DEF IInv
<1>4. ASSUME NEW d \in Conns, d # c PROVE ConnOK(ex'.list, conn'[d], d)
  <2>1. CASE ListKept
    BY <1>1, <1>3, <1>4, <2>1 DEF ListKept
  <2>2. CASE PopsOwn(c)
    <3>1. ~Own(Head(ex.list), d)
      BY <1>4, <2>2 DEF PopsOwn, Own
    <3> QED BY <1>1, <1>3, <1>4, <2>2, <3>1, TailOther DEF PopsOwn
  <2>3. ASSUME NEW e, PostsOwn(c, e) PROVE ConnOK(ex'.list, conn'[d], d)
    <3>1. ~Own(e, d)
      BY <1>4, <2>3 DEF PostsOwn, Own
    <3> QED BY <1>1, <1>3, <1>4, <2>3, <3>1, AppendOther DEF PostsOwn
  <2> QED BY <2>1, <2>2, <2>3
<1>5. \A d \in Conns : ConnOK(ex'.list, conn'[d], d)
  BY <1>1, <1>4
<1>6. /\ \A e \in El(ex'.list) : e \in El(ex.list) \/ (conn[c].sink /\ Own(e, c))
      /\ \A e \in El(ex.list) : e.h \in Wraps
  <2>0. \A i \in DOMAIN ex.list : ex.list[i] \in EventType
    BY <1>3
  <2>1. \A i \in DOMAIN ex.list : ex.list[i].h \in Wraps
    BY <2>0 DEF EventType
  <2>2. CASE ListKept
    BY <2>1, <2>2 DEF ListKept, El
  <2>3. CASE PopsOwn(c)
    <3>1. El(ex'.list) \subseteq El(ex.list)
      BY <1>3, <2>3, ElTail DEF PopsOwn
    <3> QED BY <2>1, <3>1 DEF El
  <2>4. ASSUME NEW e, PostsOwn(c, e) PROVE El(ex'.list) = El(ex.list) \cup {e}
    BY <1>3, <2>4, ElAppend DEF PostsOwn
  <2>5. ASSUME NEW e, PostsOwn(c, e) PROVE \A f \in El(ex'.list) : f \in El(ex.list) \/ (conn[c].sink /\ Own(f, c))
    BY <2>4, <2>5 DEF PostsOwn
  <2>6. \A e \in El(ex.list) : e.h \in Wraps
    BY <2>1 DEF El
  <2> QED BY <2>2, <2>3, <2>5, <2>6
<1>7. NoEventForDeadWrap'
  <2>1. \A e \in El(ex.list) : wrap[e.h].alive
    BY ElAt DEF IInv, NoEventForDeadWrap
  <2>2. conn[c].sink => wrap["ws"].alive
    BY DEF IInv, NoEventForDeadWrap
  <2>3. \A e \in El(ex'.list) : wrap'[e.h].alive
    BY <1>6, <2>1, <2>2 DEF Own
  <2>4. \A i \in DOMAIN ex'.list : wrap'[ex'.list[i].h].alive
    BY <2>3, ElAt
  <2>5. \A t \in Tasks : task'[t].st = "inflight" => wrap'["http"].alive
    BY DEF IInv, NoEventForDeadWrap
  <2>6. \A d \in Conns : conn'[d].sink => wrap'["ws"].alive
    BY <1>1, <2>2 DEF IInv, NoEventForDeadWrap
  <2> QED BY <2>4, <2>5, <2>6 DEF NoEventForDeadWrap
<1>8. EndInv'
  <2>0. EndInv
    BY DEF IInv
  <2>1. Closes(ex'.list) # {} => Closes(ex.list) # {}
    BY <1>6, ElAt DEF Own, ConnKinds
  <2>2. Ended' <=> Ended
    BY DEF Ended
  <2>3. Ended' => \A d \in Conns : ~conn'[d].sink \/ conn'[d].native \in {"none", "closed"}
    BY <1>1, <2>0, <2>2 DEF EndInv
  <2>4. js'.pc = "wraps" => \A d \in Conns : ~conn'[d].sink /\ At(ex'.list, d, {"DATA"}) = {}
    <3> SUFFICES ASSUME js.pc = "wraps", NEW d \in Conns
                 PROVE  ~conn'[d].sink /\ At(ex'.list, d, {"DATA"}) = {}
      OBVIOUS
    <3>1. ~conn[c].sink /\ ~conn[d].sink /\ At(ex.list, d, {"DATA"}) = {} /\ wrap["ws"].native = "gone"
      BY <2>0 DEF EndInv
    <3>2. El(ex'.list) \subseteq El(ex.list)
      BY <1>6, <3>1
    <3>3. At(ex'.list, d, {"DATA"}) = {}
      BY <3>1, <3>2, ElAt
    <3> QED BY <1>1, <3>1, <3>3
  <2>5. \A d \in js'.todo : conn'[d].wrap = "live"
    <3>1. js'.todo \subseteq Conns
      BY DEF JsType
    <3>2. \A d \in js.todo : conn[d].wrap = "live"
      BY <2>0 DEF EndInv
    <3>3. ASSUME NEW d \in js'.todo PROVE conn'[d].wrap = "live"
      <4>1. d \in Conns /\ d \in js.todo /\ conn[d].wrap = "live"
        BY <3>1, <3>2
      <4>2. CASE d = c
        BY <1>1, <4>2
      <4>3. CASE d # c
        BY <1>1, <4>1, <4>3
      <4> QED BY <4>2, <4>3
    <3> QED BY <3>3
  <2>6. js'.pc # "wraps" => js'.todo = {}
    BY <2>0 DEF EndInv
  <2> QED BY <2>0, <2>1, <2>2, <2>3, <2>4, <2>5, <2>6 DEF EndInv
<1>9. (\A h \in Wraps : wrap'[h].native = "closing" => wrap'[h].alive) /\ \A t \in Tasks : TaskOK(task'[t])
  BY DEF IInv
<1> QED BY <1>2, <1>5, <1>7, <1>8, <1>9 DEF IInv

(* ConnOK reads these fields only.                                         *)
LEMMA ConnSame ==
  ASSUME NEW l, NEW k, NEW m, NEW c, ConnOK(l, k, c),
         m.wrap = k.wrap, m.called = k.called, m.callback = k.callback, m.settled = k.settled,
         m.upgraded = k.upgraded, m.closedSeen = k.closedSeen, m.native = k.native, m.says = k.says,
         m.sink = k.sink \/ m.sink = FALSE
  PROVE  ConnOK(l, m, c)
<1>1. Queued(l, m, c)
  BY DEF ConnOK, Queued
<1>2. Told(m)
  BY DEF ConnOK, Told, Up
<1>3. Ready(l, m, c)
  BY DEF ConnOK, Ready, Up, Resolving
<1> QED BY <1>1, <1>2, <1>3 DEF ConnOK

LEMMA DropOK == ASSUME IInv, Drop PROVE IInv' /\ CStep
<1>1. UNCHANGED <<ex, js, task>>
  BY DEF Drop
<1>2. ListKept /\ ex' \in ExType /\ js' \in JsType
  BY <1>1, Types DEF ListKept
<1>3. ASSUME NEW h \in Wraps, wrap' = [wrap EXCEPT ![h].held = FALSE], UNCHANGED conn
      PROVE  IInv' /\ CStep
  <2> DEFINE w == [wrap[h] EXCEPT !.held = FALSE]
  <2>1. wrap' = [wrap EXCEPT ![h] = w]
    BY <1>3
  <2>2. wrap[h] \in WrapType
    BY Types
  <2>3. /\ w \in WrapType /\ w.alive = wrap[h].alive /\ w.native = wrap[h].native
        /\ w.pending = wrap[h].pending
    BY <2>2, Zenon DEF WrapType
  <2> HIDE DEF w
  <2>4. wrap'[h] = w /\ \A g \in Wraps : g # h => wrap'[g] = wrap[g]
    BY <2>1, <2>3, SetWrap
  <2>5. SameWs
    BY <2>3, <2>4 DEF SameWs, Wraps
  <2>6. EndInv'
    BY <1>1, <1>2, <1>3, <2>5, QuietEnd DEF SamePc
  <2> QED BY <1>1, <1>2, <1>3, <2>1, <2>3, <2>6, WrapStep DEF IInv
<1>4. ASSUME NEW c \in Conns, conn' = [conn EXCEPT ![c].held = FALSE], UNCHANGED wrap
      PROVE  IInv' /\ CStep
  <2> DEFINE k == [conn[c] EXCEPT !.held = FALSE]
  <2>1. conn' = [conn EXCEPT ![c] = k]
    BY <1>4
  <2>2. conn[c] \in ConnType
    BY Types
  <2>3. /\ k \in ConnType /\ k.wrap = conn[c].wrap /\ k.called = conn[c].called
        /\ k.callback = conn[c].callback /\ k.settled = conn[c].settled
        /\ k.upgraded = conn[c].upgraded /\ k.closedSeen = conn[c].closedSeen
        /\ k.native = conn[c].native /\ k.says = conn[c].says /\ k.sink = conn[c].sink
        /\ k.messages = conn[c].messages
    BY <2>2, Zenon DEF ConnType
  <2> HIDE DEF k
  <2>4. ConnOK(ex.list, k, c)
    <3>1. ConnOK(ex.list, conn[c], c)
      BY DEF IInv
    <3> QED BY <2>3, <3>1, ConnSame
  <2>5. /\ k.sink => wrap["ws"].alive /\ conn[c].sink
        /\ k.sink => k.native \in {"none", "closed"} \/ ~Ended
        /\ c \in js.todo => k.wrap = "live"
    BY <2>3 DEF IInv, EndInv, NoEventForDeadWrap
  <2>6. IInv'
    BY <1>1, <1>2, <1>4, <2>1, <2>3, <2>4, <2>5, ConnStep
  <2>7. conn'[c] = k /\ \A d \in Conns : d # c => conn'[d] = conn[d]
    BY <2>1, <2>3, SetConn
  <2>8. CStep
    BY <1>1, <2>3, <2>7, SameContract, TaskSame
  <2> QED BY <2>6, <2>8
<1> QED BY <1>3, <1>4 DEF Drop

LEMMA CreateConnectionOK == ASSUME IInv, NEW c \in Conns, CreateConnection(c) PROVE IInv' /\ CStep
<1> DEFINE k == [conn[c] EXCEPT !.wrap = "live", !.held = TRUE, !.sink = TRUE, !.native = "none"]
<1>1. /\ conn[c].wrap = "none" /\ conn' = [conn EXCEPT ![c] = k] /\ UNCHANGED <<ex, js, wrap, task>>
      /\ wrap["ws"].alive /\ wrap["ws"].native = "open"
  BY DEF CreateConnection, AppRuns
<1>2. ListKept /\ ex' \in ExType /\ js' \in JsType /\ conn[c] \in ConnType
  BY <1>1, Types DEF ListKept
<1>3. /\ k \in ConnType /\ k.wrap = "live" /\ k.called = conn[c].called
      /\ k.callback = conn[c].callback /\ k.settled = conn[c].settled
      /\ k.upgraded = conn[c].upgraded /\ k.closedSeen = conn[c].closedSeen
      /\ k.native = "none" /\ k.says = conn[c].says /\ k.sink = TRUE
      /\ k.messages = conn[c].messages
  BY <1>2, Zenon DEF ConnType
<1> HIDE DEF k
<1>4. ConnOK(ex.list, conn[c], c)
  BY DEF IInv
<1>5. /\ ~k.called /\ ~k.closedSeen /\ ~k.settled /\ ~k.upgraded /\ ~k.callback /\ k.says = "none"
      /\ At(ex.list, c, ConnKinds) = {}
  BY <1>1, <1>3, <1>4 DEF ConnOK, Queued, Told
<1>6. /\ At(ex.list, c, {"DATA"}) = {} /\ At(ex.list, c, {"DATA", "CLOSED"}) = {}
  BY <1>5 DEF At, ConnKinds
<1>7. Queued(ex.list, k, c)
  BY <1>3, <1>5, <1>6 DEF Queued
<1>8. Told(k) /\ Ready(ex.list, k, c)
  BY <1>3, <1>5, <1>6 DEF Told, Ready, Up
<1>9. IInv'
  BY <1>1, <1>2, <1>3, <1>7, <1>8, ConnStep DEF ConnOK
<1>10. conn'[c] = k /\ \A d \in Conns : d # c => conn'[d] = conn[d]
  BY <1>1, <1>3, SetConn
<1>11. CStep
  BY <1>1, <1>3, <1>10, SameContract, TaskSame
<1> QED BY <1>9, <1>11

LEMMA CollectConnOK == ASSUME IInv, NEW c \in Conns, CollectConn(c) PROVE IInv' /\ CStep
<1> DEFINE k == [conn[c] EXCEPT !.wrap = "gone", !.callback = FALSE]
<1>1. /\ js.pc = "idle" /\ conn[c].wrap = "live" /\ conn' = [conn EXCEPT ![c] = k]
      /\ UNCHANGED <<ex, js, wrap, task>>
  BY DEF CollectConn
<1>2. ListKept /\ ex' \in ExType /\ js' \in JsType /\ conn[c] \in ConnType
  BY <1>1, Types DEF ListKept
<1>3. /\ k \in ConnType /\ k.wrap = "gone" /\ k.called = conn[c].called
      /\ k.callback = FALSE /\ k.settled = conn[c].settled
      /\ k.upgraded = conn[c].upgraded /\ k.closedSeen = conn[c].closedSeen
      /\ k.native = conn[c].native /\ k.says = conn[c].says /\ k.sink = conn[c].sink
      /\ k.messages = conn[c].messages
  BY <1>2, Zenon DEF ConnType
<1> HIDE DEF k
<1>4. ConnOK(ex.list, conn[c], c)
  BY DEF IInv
<1>5. Queued(ex.list, k, c)
  BY <1>3, <1>4 DEF ConnOK, Queued
<1>6. Told(k) /\ Ready(ex.list, k, c)
  BY <1>3, <1>4 DEF ConnOK, Told, Ready
<1>7. /\ k.sink => wrap["ws"].alive /\ conn[c].sink
      /\ k.sink => k.native \in {"none", "closed"} \/ ~Ended
      /\ c \notin js.todo
  BY <1>1, <1>3 DEF IInv, EndInv, NoEventForDeadWrap
<1>8. IInv'
  BY <1>1, <1>2, <1>3, <1>5, <1>6, <1>7, ConnStep DEF ConnOK
<1>9. conn'[c] = k /\ \A d \in Conns : d # c => conn'[d] = conn[d]
  BY <1>1, <1>3, SetConn
<1>10. CStep
  BY <1>1, <1>3, <1>9, SameContract, TaskSame
<1> QED BY <1>8, <1>10
-----------------------------------------------------------------------------
(* Posting an event of a connection.                                       *)

LEMMA OwnAppend ==
  ASSUME NEW l \in Seq(EventType), NEW e \in EventType, NEW c, Own(e, c)
  PROVE  \E n \in Nat :
           /\ Closes(Append(l, e)) = Closes(l)
           /\ \A K : e.kind \in K => At(Append(l, e), c, K) = At(l, c, K) \cup {n}
           /\ \A K : e.kind \notin K => At(Append(l, e), c, K) = At(l, c, K)
           /\ \A K : \A i \in At(l, c, K) : i < n
<1> DEFINE m == Append(l, e)
           n == Len(l) + 1
<1>1. /\ Len(l) \in Nat /\ DOMAIN l = 1..Len(l) /\ DOMAIN m = 1..(Len(l) + 1)
      /\ \A i \in DOMAIN l : m[i] = l[i]
      /\ m[Len(l) + 1] = e
  BY AppendAt
<1> HIDE DEF m
<1>2. /\ n \in Nat /\ n \in DOMAIN m /\ n \notin DOMAIN l /\ DOMAIN l \subseteq DOMAIN m
      /\ \A i \in DOMAIN m : i \in DOMAIN l \/ i = n
      /\ \A i \in DOMAIN l : i < n
      /\ m[n] = e
  BY <1>1
<1> HIDE DEF n
<1>3. Closes(m) = Closes(l)
  BY <1>1, <1>2 DEF Closes, Own, ConnKinds
<1>4. ASSUME NEW K, e.kind \in K PROVE At(m, c, K) = At(l, c, K) \cup {n}
  BY <1>1, <1>2, <1>4 DEF At, Own
<1>5. ASSUME NEW K, e.kind \notin K PROVE At(m, c, K) = At(l, c, K)
  BY <1>1, <1>2, <1>5 DEF At, Own
<1>6. \A K : \A i \in At(l, c, K) : i < n
  BY <1>2 DEF At
<1> QED BY <1>2, <1>3, <1>4, <1>5, <1>6 DEF m

LEMMA NoneOf ==
  ASSUME NEW l, NEW c, At(l, c, ConnKinds) = {}
  PROVE  /\ At(l, c, {"DATA"}) = {} /\ At(l, c, {"DATA", "CLOSED"}) = {}
         /\ At(l, c, {"REJECT"}) = {} /\ At(l, c, {"REJECT", "CLOSED"}) = {}
         /\ At(l, c, {"CLOSED"}) = {} /\ At(l, c, {"RESOLVE"}) = {}
BY DEF At, ConnKinds

LEMMA ConnEvent ==
  ASSUME IInv, NEW c \in Conns, NEW q \in ConnKinds, Post(Event("ws", q, c)), conn[c].sink
  PROVE  /\ ex' \in ExType /\ ex'.list = Append(ex.list, Event("ws", q, c))
         /\ PostsOwn(c, Event("ws", q, c)) /\ Event("ws", q, c) \in EventType
         /\ Own(Event("ws", q, c), c) /\ Event("ws", q, c).kind = q
<1>1. Event("ws", q, c) \in EventType /\ Own(Event("ws", q, c), c) /\ Event("ws", q, c).kind = q
  BY DEF Event, EventType, Own, Wraps
<1>2. ex' \in ExType /\ ex'.list = Append(ex.list, Event("ws", q, c))
  BY <1>1, PostKeeps
<1> QED BY <1>1, <1>2 DEF PostsOwn

LEMMA ConnectOK == ASSUME IInv, NEW c \in Conns, Connect(c) PROVE IInv' /\ CStep
<1> DEFINE k == [conn[c] EXCEPT !.called = TRUE, !.callback = TRUE, !.pinned = TRUE, !.says = "pending"]
           j == [k EXCEPT !.native = "connecting"]
<1>1. /\ conn[c].wrap = "live" /\ ~conn[c].called /\ conn[c].sink /\ UNCHANGED <<js, wrap, task>>
      /\ \/ wrap["ws"].native = "open" /\ conn' = [conn EXCEPT ![c] = j] /\ UNCHANGED ex
         \/ conn' = [conn EXCEPT ![c] = k] /\ Post(Event("ws", "REJECT", c))
  BY DEF Connect
<1>2. js' \in JsType /\ conn[c] \in ConnType /\ ex.list \in Seq(EventType)
  BY <1>1, Types
<1>3. /\ k \in ConnType /\ k.wrap = conn[c].wrap /\ k.called = TRUE
      /\ k.callback = TRUE /\ k.settled = conn[c].settled
      /\ k.upgraded = conn[c].upgraded /\ k.closedSeen = conn[c].closedSeen
      /\ k.native = conn[c].native /\ k.says = "pending" /\ k.sink = conn[c].sink
      /\ k.messages = conn[c].messages
  BY <1>2, Zenon DEF ConnType
<1> HIDE DEF k
<1>4. /\ j \in ConnType /\ j.wrap = k.wrap /\ j.called = k.called
      /\ j.callback = k.callback /\ j.settled = k.settled
      /\ j.upgraded = k.upgraded /\ j.closedSeen = k.closedSeen
      /\ j.native = "connecting" /\ j.says = k.says /\ j.sink = k.sink
      /\ j.messages = k.messages
  BY <1>3, Zenon DEF ConnType
<1> HIDE DEF j
<1>5. ConnOK(ex.list, conn[c], c)
  BY DEF IInv
<1>6. /\ ~conn[c].closedSeen /\ ~conn[c].settled /\ ~conn[c].upgraded /\ conn[c].says = "none"
      /\ conn[c].native = "none" /\ At(ex.list, c, ConnKinds) = {}
  BY <1>1, <1>5 DEF ConnOK, Queued, Told
<1>7. Told(k) /\ Told(j)
  BY <1>1, <1>3, <1>4, <1>6 DEF Told, Up
<1>8. wrap["ws"].alive
  BY <1>1 DEF IInv, NoEventForDeadWrap
<1>9. c \in js'.todo => k.wrap = "live"
  BY <1>1, <1>3
<1>10. ASSUME NEW x \in ConnType, conn' = [conn EXCEPT ![c] = x],
              x.says = "pending", x.messages = conn[c].messages
       PROVE  CStep
  <2>1. conn'[c] = x /\ \A d \in Conns : d # c => conn'[d] = conn[d]
    BY <1>10, SetConn
  <2> QED BY <1>1, <1>6, <1>10, <2>1, ConnectContract
<1>11. CASE wrap["ws"].native = "open" /\ conn' = [conn EXCEPT ![c] = j] /\ UNCHANGED ex
  <2>1. ex' \in ExType /\ ListKept
    BY <1>11, Types DEF ListKept
  <2>2. /\ At(ex.list, c, {"DATA"}) = {} /\ At(ex.list, c, {"DATA", "CLOSED"}) = {}
    BY <1>6, NoneOf
  <2>3. Queued(ex.list, j, c)
    BY <1>3, <1>4, <1>6, <2>2 DEF Queued
  <2>4. Ready(ex.list, j, c)
    BY <1>3, <1>4, <1>6, <2>2 DEF Ready, Resolving
  <2>5. ~Ended
    BY <1>11 DEF Ended
  <2>6. IInv'
    BY <1>1, <1>2, <1>3, <1>4, <1>7, <1>8, <1>11, <2>1, <2>3, <2>4, <2>5, ConnStep DEF ConnOK, ListKept
  <2> QED BY <1>3, <1>4, <1>10, <1>11, <2>6
<1>12. CASE conn' = [conn EXCEPT ![c] = k] /\ Post(Event("ws", "REJECT", c))
  <2> DEFINE e == Event("ws", "REJECT", c)
  <2>0. "REJECT" \in ConnKinds
    BY DEF ConnKinds
  <2>1. /\ ex' \in ExType /\ ex'.list = Append(ex.list, e) /\ PostsOwn(c, e) /\ e \in EventType
        /\ Own(e, c) /\ e.kind = "REJECT"
    BY <1>1, <1>12, <2>0, ConnEvent
  <2> HIDE DEF e
  <2>2. /\ At(ex.list, c, {"DATA"}) = {} /\ At(ex.list, c, {"DATA", "CLOSED"}) = {}
    BY <1>6, NoneOf
  <2>3. At(ex'.list, c, {"DATA"}) = {} /\ At(ex'.list, c, {"DATA", "CLOSED"}) = {}
    BY <1>2, <2>1, <2>2, OwnAppend
  <2>4. Queued(ex'.list, k, c)
    BY <1>3, <1>6, <2>3 DEF Queued
  <2>5. Ready(ex'.list, k, c)
    BY <1>3, <1>6, <2>3 DEF Ready
  <2>6. IInv'
    BY <1>1, <1>2, <1>3, <1>6, <1>7, <1>8, <1>12, <2>1, <2>4, <2>5, ConnStep DEF ConnOK
  <2> QED BY <1>3, <1>10, <1>12, <2>6
<1> QED BY <1>1, <1>11, <1>12

(* The callbacks of a sink, as the connection goes from one state to the   *)
(* next.                                                                   *)
LEMMA SinkOK ==
  ASSUME IInv, NEW c \in Conns, NEW from, NEW to, NEW q, Sink(c, from, to, q),
         \/ from = "connecting" /\ to = "open" /\ q = "RESOLVE"
         \/ from = "connecting" /\ to = "closed" /\ q = "REJECT"
         \/ from = "open" /\ to = "open" /\ q = "DATA"
         \/ from = "open" /\ to = "closed" /\ q = "CLOSED"
  PROVE  IInv' /\ CStep
<1> DEFINE n == IF q = "DATA" THEN conn[c].sent + 1 ELSE conn[c].sent
           k == [conn[c] EXCEPT !.native = to, !.sent = n]
           e == Event("ws", q, c)
<1>1. /\ conn[c].native = from /\ conn[c].sink /\ UNCHANGED <<js, wrap, task>> /\ Post(e)
      /\ conn' = [conn EXCEPT ![c] = k]
  BY DEF Sink
<1>2. js' \in JsType /\ conn[c] \in ConnType /\ ex.list \in Seq(EventType)
  BY <1>1, Types
<1>3. n \in Nat
  BY <1>2 DEF ConnType
<1> HIDE DEF n
<1>4. /\ k \in ConnType /\ k.wrap = conn[c].wrap /\ k.called = conn[c].called
      /\ k.callback = conn[c].callback /\ k.settled = conn[c].settled
      /\ k.upgraded = conn[c].upgraded /\ k.closedSeen = conn[c].closedSeen
      /\ k.native = to /\ k.says = conn[c].says /\ k.sink = conn[c].sink
      /\ k.messages = conn[c].messages
  <2>1. to \in {"none", "connecting", "open", "closed"}
    OBVIOUS
  <2> QED BY <1>2, <1>3, <2>1, Zenon DEF ConnType
<1> HIDE DEF k
<1>5. q \in ConnKinds
  BY DEF ConnKinds
<1>6. /\ ex' \in ExType /\ ex'.list = Append(ex.list, e) /\ PostsOwn(c, e) /\ e \in EventType
      /\ Own(e, c) /\ e.kind = q
  BY <1>1, <1>5, ConnEvent
<1> HIDE DEF e
<1>7. PICK p \in Nat :
        /\ Closes(ex'.list) = Closes(ex.list)
        /\ \A K : q \in K => At(ex'.list, c, K) = At(ex.list, c, K) \cup {p}
        /\ \A K : q \notin K => At(ex'.list, c, K) = At(ex.list, c, K)
        /\ \A K : \A i \in At(ex.list, c, K) : i < p
  BY <1>2, <1>6, OwnAppend
<1>8. Queued(ex.list, conn[c], c) /\ Told(conn[c]) /\ Ready(ex.list, conn[c], c)
  BY DEF IInv, ConnOK
<1>9. conn[c].called
  BY <1>1, <1>8 DEF Queued
<1>10. ~Ended /\ Closes(ex.list) = {} /\ wrap["ws"].alive
  BY <1>1 DEF IInv, EndInv, NoEventForDeadWrap
<1>11. Told(k)
  BY <1>4, <1>8 DEF Told, Up
<1>12. ConnOK(ex'.list, k, c)
  <2>1. CASE from = "connecting"
    <3>1. At(ex.list, c, ConnKinds) = {}
      BY <1>1, <1>8, <2>1 DEF Queued
    <3>2. /\ At(ex.list, c, {"DATA"}) = {} /\ At(ex.list, c, {"REJECT", "CLOSED"}) = {}
      BY <3>1, NoneOf
    <3>3. At(ex'.list, c, {"DATA"}) = {} /\ (q = "RESOLVE" => At(ex'.list, c, {"REJECT", "CLOSED"}) = {})
          /\ (q = "RESOLVE" => At(ex'.list, c, {"RESOLVE"}) # {})
      BY <1>7, <2>1, <3>2
    <3>4. Queued(ex'.list, k, c)
      BY <1>4, <1>9, <2>1, <3>3 DEF Queued
    <3>5. conn[c].wrap = "live" => Resolving(conn[c])
      BY <1>1, <1>8, <2>1 DEF Ready
    <3>6. Ready(ex'.list, k, c)
      BY <1>4, <2>1, <3>3, <3>5 DEF Ready, Resolving
    <3> QED BY <1>11, <3>4, <3>6 DEF ConnOK
  <2>2. CASE from = "open"
    <3>1. At(ex.list, c, {"REJECT", "CLOSED"}) = {}
      BY <1>1, <1>8, <2>2 DEF Queued
    <3>2. At(ex.list, c, {"REJECT"}) = {} /\ At(ex.list, c, {"CLOSED"}) = {}
      BY <3>1 DEF At
    <3>3. conn[c].wrap = "live" =>
            Up(conn[c]) \/ (Resolving(conn[c]) /\ At(ex.list, c, {"RESOLVE"}) # {})
      BY <1>1, <1>8, <2>2 DEF Ready
    <3>4. At(ex'.list, c, {"REJECT"}) = {} /\ At(ex'.list, c, {"RESOLVE"}) = At(ex.list, c, {"RESOLVE"})
          /\ Closes(ex'.list) = {}
      BY <1>7, <1>10, <2>2, <3>2
    <3>5. CASE q = "DATA"
      <4>1. At(ex'.list, c, {"DATA"}) = At(ex.list, c, {"DATA"}) \cup {p}
            /\ At(ex'.list, c, {"REJECT", "CLOSED"}) = {} /\ At(ex'.list, c, {"CLOSED"}) = {}
        BY <1>7, <3>1, <3>2, <3>5
      <4>2. Queued(ex'.list, k, c)
        BY <1>4, <1>9, <2>2, <3>4, <3>5, <4>1 DEF Queued
      <4>3. At(ex.list, c, {"RESOLVE"}) # {} => \E i \in At(ex'.list, c, {"RESOLVE"}) : i < p
        BY <1>7, <3>4
      <4>4. Ready(ex'.list, k, c)
        <5>1. Up(k) = Up(conn[c]) /\ Resolving(k) = Resolving(conn[c])
          BY <1>4 DEF Up, Resolving
        <5>2. conn[c].wrap = "live" => \A i \in At(ex.list, c, {"DATA"}) :
                Up(conn[c]) \/ (Resolving(conn[c]) /\ \E j \in At(ex.list, c, {"RESOLVE"}) : j < i)
          BY <1>8 DEF Ready
        <5>3. conn[c].wrap = "live" => \A i \in At(ex'.list, c, {"DATA"}) :
                Up(conn[c]) \/ (Resolving(conn[c]) /\ \E j \in At(ex'.list, c, {"RESOLVE"}) : j < i)
          BY <3>3, <3>4, <4>1, <4>3, <5>2
        <5> QED BY <1>4, <2>2, <3>3, <3>4, <3>5, <5>1, <5>3 DEF Ready
      <4> QED BY <1>11, <4>2, <4>4 DEF ConnOK
    <3>6. CASE q = "CLOSED"
      <4>1. At(ex'.list, c, {"DATA"}) = At(ex.list, c, {"DATA"})
            /\ At(ex'.list, c, {"CLOSED"}) = At(ex.list, c, {"CLOSED"}) \cup {p}
        BY <1>7, <3>6
      <4>2. \A i \in At(ex.list, c, {"DATA"}) : i < p
        BY <1>7
      <4>3. Queued(ex'.list, k, c)
        BY <1>4, <1>9, <2>2, <3>2, <3>4, <3>6, <4>1, <4>2 DEF Queued
      <4>4. Ready(ex'.list, k, c)
        BY <1>4, <1>8, <2>2, <3>4, <3>6, <4>1 DEF Ready, Up, Resolving
      <4> QED BY <1>11, <4>3, <4>4 DEF ConnOK
    <3> QED BY <2>2, <3>5, <3>6
  <2> QED BY <2>1, <2>2
<1>13. c \in js'.todo => k.wrap = "live"
  BY <1>1, <1>4 DEF IInv, EndInv
<1>14. IInv'
  BY <1>1, <1>2, <1>4, <1>6, <1>10, <1>12, <1>13, ConnStep
<1>15. conn'[c] = k /\ \A d \in Conns : d # c => conn'[d] = conn[d]
  BY <1>1, <1>4, SetConn
<1>16. CStep
  BY <1>1, <1>4, <1>15, SameContract, TaskSame
<1> QED BY <1>14, <1>16
-----------------------------------------------------------------------------
(* An event of a connection on the JavaScript thread.                      *)

LEMMA OwnTail ==
  ASSUME NEW l \in Seq(EventType), l # <<>>, NEW c, Own(Head(l), c)
  PROVE  /\ 1 \in At(l, c, {Head(l).kind}) /\ 1 \in At(l, c, ConnKinds)
         /\ \A K : At(l, c, K) \subseteq {i \in Nat : i >= 1}
         /\ \A K : Head(l).kind \notin K => 1 \notin At(l, c, K)
         /\ \A K : \A i \in At(Tail(l), c, K) : i \in Nat /\ i + 1 \in At(l, c, K)
         /\ \A K : \A i \in At(l, c, K) : i # 1 => i - 1 \in At(Tail(l), c, K)
         /\ \A i \in Closes(Tail(l)) : i \in Nat /\ i + 1 \in Closes(l)
<1> DEFINE m == Tail(l)
<1>1. /\ Head(l) = l[1] /\ Len(l) \in Nat /\ DOMAIN l = 1..Len(l) /\ 1 \in DOMAIN l
      /\ DOMAIN m = 1..(Len(l) - 1)
      /\ \A i \in DOMAIN m : i + 1 \in DOMAIN l /\ m[i] = l[i + 1]
  BY TailAt
<1> HIDE DEF m
<1>2. 1 \in At(l, c, {Head(l).kind}) /\ 1 \in At(l, c, ConnKinds)
  BY <1>1 DEF At, Own
<1>3. \A K : At(l, c, K) \subseteq {i \in Nat : i >= 1}
  BY <1>1 DEF At
<1>4. \A K : Head(l).kind \notin K => 1 \notin At(l, c, K)
  BY <1>1 DEF At
<1>5. \A K : \A i \in At(m, c, K) : i \in Nat /\ i + 1 \in At(l, c, K)
  BY <1>1 DEF At
<1>6. ASSUME NEW K, NEW i \in At(l, c, K), i # 1 PROVE i - 1 \in At(m, c, K)
  <2>1. i \in 1..Len(l) /\ l[i].h = "ws" /\ l[i].id = c /\ l[i].kind \in K
    BY <1>1 DEF At
  <2>2. i - 1 \in DOMAIN m /\ (i - 1) + 1 = i
    BY <1>1, <1>6, <2>1
  <2>3. m[i - 1] = l[i]
    BY <1>1, <2>2
  <2> QED BY <2>1, <2>2, <2>3 DEF At
<1>7. \A i \in Closes(m) : i \in Nat /\ i + 1 \in Closes(l)
  BY <1>1 DEF Closes
<1> QED BY <1>2, <1>3, <1>4, <1>5, <1>6, <1>7 DEF m

(* What the native connection posted stays in order when an event is       *)
(* taken.                                                                  *)
LEMMA OwnTailQueued ==
  ASSUME NEW l \in Seq(EventType), l # <<>>, NEW c, Own(Head(l), c), NEW k, Queued(l, k, c)
  PROVE  Queued(Tail(l), k, c)
<1> DEFINE m == Tail(l)
<1>1. /\ \A K : \A i \in At(m, c, K) : i \in Nat /\ i + 1 \in At(l, c, K)
      /\ \A K : At(l, c, K) \subseteq {i \in Nat : i >= 1}
      /\ \A i \in Closes(m) : i \in Nat /\ i + 1 \in Closes(l)
  BY OwnTail
<1> HIDE DEF m
<1>2. \A K : At(l, c, K) = {} => At(m, c, K) = {}
  BY <1>1
<1>3. ASSUME NEW i \in At(m, c, {"DATA"})
      PROVE  At(m, c, {"REJECT"}) = {} /\ \A j \in At(m, c, {"CLOSED"}) \cup Closes(m) : i < j
  <2>1. i \in Nat /\ i + 1 \in At(l, c, {"DATA"})
    BY <1>1
  <2>2. At(l, c, {"REJECT"}) = {} /\ \A j \in At(l, c, {"CLOSED"}) \cup Closes(l) : i + 1 < j
    BY <2>1 DEF Queued
  <2>3. \A j \in At(m, c, {"CLOSED"}) \cup Closes(m) :
          j \in Nat /\ j + 1 \in At(l, c, {"CLOSED"}) \cup Closes(l)
    BY <1>1
  <2>4. \A j \in At(m, c, {"CLOSED"}) \cup Closes(m) : j \in Nat /\ i + 1 < j + 1
    BY <2>2, <2>3
  <2> QED BY <1>2, <2>1, <2>2, <2>4
<1>4. Queued(m, k, c)
  BY <1>2, <1>3 DEF Queued
<1> QED BY <1>4 DEF m

(* OnJsEvent of a live wrap.  Only the end of the connector reaches a wrap *)
(* that has not called connect.                                            *)
LEMMA JsEvent ==
  ASSUME NEW k \in ConnType, NEW q \in ConnKinds, k.wrap = "live", Told(k),
         k.called \/ (q = "CLOSED" /\ ~k.sink)
  PROVE  LET n == OnJsEvent(k, q) IN
         /\ n \in ConnType /\ n.wrap = "live" /\ n.called = k.called /\ n.sink = k.sink
         /\ n.native = k.native /\ Told(n)
         /\ q = "DATA" => n.messages = k.messages + 1 /\ n.says = k.says /\ Up(n) = Up(k)
         /\ q # "DATA" => /\ n.messages = k.messages
                          /\ \/ n.says = k.says
                             \/ k.says = "pending" /\ n.says \in {"open", "rejected"}
                             \/ k.says = "open" /\ n.says = "closed"
         /\ q = "RESOLVE" => (Up(k) \/ Resolving(k) => Up(n))
<1> DEFINE n == OnJsEvent(k, q)
<1>0. n = OnJsEvent(k, q)
  OBVIOUS
<1>1. k.messages + 1 \in Nat /\ k.messages \in Nat
  BY DEF ConnType
<1>2. ASSUME NEW j \in ConnType, NEW ok \in BOOLEAN
      PROVE  LET s == SettleConnect(j, ok) IN
             /\ s \in ConnType /\ s.wrap = j.wrap /\ s.called = j.called /\ s.sink = j.sink
             /\ s.native = j.native /\ s.messages = j.messages
             /\ s.settled = TRUE /\ s.upgraded = (j.upgraded \/ ok) /\ s.callback = FALSE
             /\ s.says = (IF ~j.callback THEN j.says ELSE IF ok THEN "open" ELSE "rejected")
             /\ s.closedSeen = (j.closedSeen \/ ~ok)
  <2> DEFINE a == j.upgraded \/ ok
             b == IF ~j.callback THEN j.says ELSE IF ok THEN "open" ELSE "rejected"
             d == j.closedSeen \/ ~ok
             p == j.pinned /\ ok
             s == [j EXCEPT !.settled = TRUE, !.upgraded = a, !.callback = FALSE, !.says = b,
                            !.closedSeen = d, !.pinned = p]
  <2>1. s = SettleConnect(j, ok)
    BY Zenon DEF SettleConnect
  <2>2. a \in BOOLEAN /\ d \in BOOLEAN /\ p \in BOOLEAN
    BY Zenon DEF ConnType
  <2>3. b \in {"none", "pending", "open", "rejected", "closed"}
    BY DEF ConnType
  <2>4. a = (j.upgraded \/ ok) /\ d = (j.closedSeen \/ ~ok)
        /\ b = (IF ~j.callback THEN j.says ELSE IF ok THEN "open" ELSE "rejected")
    OBVIOUS
  <2> HIDE DEF a, b, d, p
  <2>5. /\ s \in ConnType /\ s.wrap = j.wrap /\ s.called = j.called /\ s.sink = j.sink
        /\ s.native = j.native /\ s.messages = j.messages
        /\ s.settled = TRUE /\ s.upgraded = a /\ s.callback = FALSE /\ s.says = b /\ s.closedSeen = d
    <3>1. s \in ConnType
      BY <2>2, <2>3, ZenonT(60) DEF ConnType
    <3>2. /\ s.wrap = j.wrap /\ s.called = j.called /\ s.sink = j.sink
          /\ s.native = j.native /\ s.messages = j.messages
      BY ZenonT(60) DEF ConnType
    <3>3. /\ s.settled = TRUE /\ s.upgraded = a /\ s.callback = FALSE /\ s.says = b /\ s.closedSeen = d
      BY ZenonT(60) DEF ConnType
    <3> QED BY <3>1, <3>2, <3>3
  <2> HIDE DEF s
  <2> QED BY <2>1, <2>4, <2>5, Zenon
<1>3. CASE q = "DATA"
  <2> DEFINE j == [k EXCEPT !.messages = k.messages + 1]
  <2>1. n = j
    BY <1>3 DEF OnJsEvent
  <2>2. /\ j \in ConnType /\ j.wrap = k.wrap /\ j.called = k.called /\ j.sink = k.sink
        /\ j.native = k.native /\ j.messages = k.messages + 1 /\ j.says = k.says
        /\ j.settled = k.settled /\ j.upgraded = k.upgraded /\ j.callback = k.callback
        /\ j.closedSeen = k.closedSeen
    BY <1>1, Zenon DEF ConnType
  <2> HIDE DEF n, j
  <2>3. Told(n) /\ Up(n) = Up(k)
    BY <2>1, <2>2 DEF Told, Up
  <2> QED BY <1>0, <1>3, <2>1, <2>2, <2>3
<1>4. CASE q \in {"RESOLVE", "REJECT"}
  <2>1. n = IF k.settled THEN k ELSE SettleConnect(k, q = "RESOLVE")
    BY <1>4 DEF OnJsEvent
  <2> HIDE DEF n
  <2>2. CASE k.settled
    <3>1. n = k
      BY <2>1, <2>2
    <3> QED BY <1>0, <1>4, <2>2, <3>1 DEF Resolving
  <2>3. CASE ~k.settled
    <3>1. (q = "RESOLVE") \in BOOLEAN
      OBVIOUS
    <3>2. /\ n \in ConnType /\ n.wrap = k.wrap /\ n.called = k.called /\ n.sink = k.sink
          /\ n.native = k.native /\ n.messages = k.messages
          /\ n.settled = TRUE /\ n.upgraded = (k.upgraded \/ (q = "RESOLVE")) /\ n.callback = FALSE
          /\ n.says = (IF ~k.callback THEN k.says ELSE IF q = "RESOLVE" THEN "open" ELSE "rejected")
          /\ n.closedSeen = (k.closedSeen \/ ~(q = "RESOLVE"))
      BY <1>2, <2>1, <2>3, <3>1, Zenon
    <3>3. k.called /\ k.callback /\ k.says = "pending"
      BY <1>4, <2>3 DEF Told
    <3>4. Told(n)
      BY <3>2, <3>3 DEF Told, Up
    <3>5. q = "RESOLVE" => (Up(k) \/ Resolving(k) => Up(n))
      BY <3>2 DEF Up, Resolving
    <3> QED BY <1>0, <1>4, <3>2, <3>3, <3>4, <3>5
  <2> QED BY <2>2, <2>3
<1>5. CASE q = "CLOSED"
  <2> DEFINE j == [k EXCEPT !.closedSeen = TRUE]
             u == [k EXCEPT !.closedSeen = TRUE, !.says = "closed", !.pinned = FALSE]
             v == [k EXCEPT !.closedSeen = TRUE, !.pinned = FALSE]
  <2>1. n = IF k.closedSeen THEN k ELSE IF k.upgraded THEN u
            ELSE IF k.callback THEN SettleConnect(j, FALSE) ELSE v
    BY <1>5 DEF OnJsEvent
  <2>2. /\ j \in ConnType /\ j.wrap = k.wrap /\ j.called = k.called /\ j.sink = k.sink
        /\ j.native = k.native /\ j.messages = k.messages /\ j.says = k.says
        /\ j.settled = k.settled /\ j.upgraded = k.upgraded /\ j.callback = k.callback
        /\ j.closedSeen = TRUE
    BY Zenon DEF ConnType
  <2>3. /\ u \in ConnType /\ u.wrap = k.wrap /\ u.called = k.called /\ u.sink = k.sink
        /\ u.native = k.native /\ u.messages = k.messages /\ u.says = "closed"
        /\ u.settled = k.settled /\ u.upgraded = k.upgraded /\ u.callback = k.callback
        /\ u.closedSeen = TRUE
    BY Zenon DEF ConnType
  <2>4. /\ v \in ConnType /\ v.wrap = k.wrap /\ v.called = k.called /\ v.sink = k.sink
        /\ v.native = k.native /\ v.messages = k.messages /\ v.says = k.says
        /\ v.settled = k.settled /\ v.upgraded = k.upgraded /\ v.callback = k.callback
        /\ v.closedSeen = TRUE
    BY Zenon DEF ConnType
  <2> HIDE DEF n, j, u, v
  <2>5. CASE k.closedSeen
    <3>1. n = k
      BY <2>1, <2>5
    <3> QED BY <1>0, <1>5, <3>1
  <2>6. CASE ~k.closedSeen /\ k.upgraded
    <3>1. n = u /\ k.called /\ k.says = "open" /\ ~k.callback
      BY <2>1, <2>6 DEF Told, Up
    <3>2. Told(n)
      BY <2>3, <3>1 DEF Told, Up
    <3> QED BY <1>0, <1>5, <2>3, <3>1, <3>2
  <2>7. CASE ~k.closedSeen /\ ~k.upgraded /\ k.callback
    <3>1. n = SettleConnect(j, FALSE) /\ k.called /\ k.says = "pending"
      BY <2>1, <2>7 DEF Told
    <3>2. /\ n \in ConnType /\ n.wrap = j.wrap /\ n.called = j.called /\ n.sink = j.sink
          /\ n.native = j.native /\ n.messages = j.messages
          /\ n.settled = TRUE /\ n.upgraded = (j.upgraded \/ FALSE) /\ n.callback = FALSE
          /\ n.says = (IF ~j.callback THEN j.says ELSE IF FALSE THEN "open" ELSE "rejected")
          /\ n.closedSeen = (j.closedSeen \/ ~FALSE)
      BY <1>2, <2>2, <3>1, Zenon
    <3>3. n.says = "rejected" /\ n.closedSeen
      BY <2>2, <2>7, <3>2
    <3>4. Told(n)
      BY <2>2, <3>1, <3>2, <3>3 DEF Told, Up
    <3> QED BY <1>0, <1>5, <2>2, <3>1, <3>2, <3>3, <3>4
  <2>8. CASE ~k.closedSeen /\ ~k.upgraded /\ ~k.callback
    <3>1. n = v
      BY <2>1, <2>8
    <3>2. Told(n)
      BY <1>5, <2>4, <3>1 DEF Told, Up
    <3> QED BY <1>0, <1>5, <2>4, <3>1, <3>2
  <2> QED BY <2>5, <2>6, <2>7, <2>8
<1> QED BY <1>3, <1>4, <1>5 DEF ConnKinds
(* A step that runs OnJsEvent, and what the contract makes of it.          *)
LEMMA JsEventContract ==
  ASSUME IInv, NEW c \in Conns, NEW k \in ConnType, conn' = [conn EXCEPT ![c] = k], UNCHANGED task,
         \/ k.messages = conn[c].messages + 1 /\ conn[c].says = "open" /\ k.says = "open"
         \/ /\ k.messages = conn[c].messages
            /\ \/ k.says = conn[c].says
               \/ conn[c].says = "pending" /\ k.says \in {"open", "rejected"}
               \/ conn[c].says = "open" /\ k.says = "closed"
  PROVE  CStep
<1>1. conn'[c] = k /\ \A d \in Conns : d # c => conn'[d] = conn[d]
  BY SetConn
<1>2. CASE k.messages = conn[c].messages + 1 /\ conn[c].says = "open" /\ k.says = "open"
  BY <1>1, <1>2, MessageContract
<1>3. CASE k.messages = conn[c].messages /\ k.says = conn[c].says
  BY <1>1, <1>3, SameContract, TaskSame
<1>4. CASE /\ k.messages = conn[c].messages
           /\ \/ conn[c].says = "pending" /\ k.says \in {"open", "rejected"}
              \/ conn[c].says = "open" /\ k.says = "closed"
  BY <1>1, <1>4, ConnectContract
<1> QED BY <1>2, <1>3, <1>4

LEMMA JsConnEventOK == ASSUME IInv, NEW c \in Conns, OnJsConnEvent(c) PROVE IInv' /\ CStep
<1> DEFINE k == conn[c]
           l == ex.list
           m == ex'.list
<1>1. PICK q \in ConnKinds :
        /\ Pop("ws", q) /\ Head(ex.list).id = c
        /\ conn' = [conn EXCEPT ![c] = IF k.wrap = "live" THEN OnJsEvent(k, q) ELSE k]
  BY DEF OnJsConnEvent, ConnKinds
<1>2. UNCHANGED <<js, wrap, task>>
  BY DEF OnJsConnEvent
<1>3. /\ ex' \in ExType /\ l # <<>> /\ m = Tail(l) /\ Head(l).kind = q /\ Own(Head(l), c)
      /\ l \in Seq(EventType) /\ PopsOwn(c) /\ js.pc = "loop"
  BY <1>1, PopKeeps, Types DEF Own, PopsOwn
<1>4. /\ k \in ConnType /\ js' \in JsType /\ Queued(l, k, c) /\ Told(k) /\ Ready(l, k, c)
      /\ (k.sink => wrap["ws"].alive) /\ (k.sink => k.native \in {"none", "closed"} \/ ~Ended)
      /\ js.todo = {}
  BY <1>2, <1>3, Types DEF IInv, ConnOK, EndInv, NoEventForDeadWrap
<1>14. k = conn[c] /\ l = ex.list /\ m = ex'.list
  OBVIOUS
<1> HIDE DEF k, l, m
<1>5. Queued(m, k, c)
  BY <1>3, <1>4, OwnTailQueued
<1>6. /\ 1 \in At(l, c, {q}) /\ 1 \in At(l, c, ConnKinds)
      /\ \A K : At(l, c, K) \subseteq {i \in Nat : i >= 1}
      /\ \A K : \A i \in At(m, c, K) : i \in Nat /\ i + 1 \in At(l, c, K)
      /\ \A K : q \notin K => 1 \notin At(l, c, K)
      /\ \A K : \A i \in At(l, c, K) : i # 1 => i - 1 \in At(m, c, K)
  BY <1>3, OwnTail
<1>7. k.called /\ k.native # "connecting"
  BY <1>4, <1>6 DEF Queued
<1>8. CASE k.wrap # "live"
  <2>1. Ready(m, k, c)
    BY <1>8 DEF Ready
  <2>2. ConnOK(m, k, c)
    BY <1>4, <1>5, <2>1 DEF ConnOK
  <2>3. conn' = [conn EXCEPT ![c] = k]
    BY <1>1, <1>8
  <2>4. IInv'
    BY <1>2, <1>3, <1>4, <1>14, <2>2, <2>3, ConnStep
  <2> QED BY <1>2, <1>4, <1>14, <2>3, <2>4, JsEventContract
<1>9. CASE k.wrap = "live"
  <2> DEFINE n == OnJsEvent(k, q)
  <2>1. /\ n \in ConnType /\ n.wrap = "live" /\ n.called = k.called /\ n.sink = k.sink
        /\ n.native = k.native /\ Told(n)
        /\ q = "DATA" => n.messages = k.messages + 1 /\ n.says = k.says /\ Up(n) = Up(k)
        /\ q # "DATA" => /\ n.messages = k.messages
                         /\ \/ n.says = k.says
                            \/ k.says = "pending" /\ n.says \in {"open", "rejected"}
                            \/ k.says = "open" /\ n.says = "closed"
        /\ q = "RESOLVE" => (Up(k) \/ Resolving(k) => Up(n))
    BY <1>4, <1>7, <1>9, JsEvent
  <2>2. conn' = [conn EXCEPT ![c] = n]
    BY <1>1, <1>9
  <2> HIDE DEF n
  <2>3. Queued(m, n, c)
    BY <1>5, <2>1 DEF Queued
  <2>4. q = "DATA" => Up(k) /\ k.says = "open"
    <3>1. q = "DATA" => Up(k)
      <4> SUFFICES ASSUME q = "DATA" PROVE Up(k)
        OBVIOUS
      <4>1. Up(k) \/ \E j \in At(l, c, {"RESOLVE"}) : j < 1
        BY <1>4, <1>6, <1>9 DEF Ready
      <4>2. \A j \in At(l, c, {"RESOLVE"}) : j \in Nat /\ j >= 1
        BY <1>6
      <4> QED BY <4>1, <4>2
    <3> QED BY <1>4, <1>9, <3>1 DEF Told
  <2>5. q \in {"DATA", "RESOLVE"} =>
          (At(m, c, {"DATA"}) # {} \/ (n.sink /\ n.native = "open") => Up(n))
    <3>1. CASE q = "DATA"
      BY <2>1, <2>4, <3>1
    <3>2. CASE q = "RESOLVE"
      <4>1. At(m, c, {"DATA"}) # {} => At(l, c, {"DATA"}) # {}
        BY <1>6
      <4>2. At(m, c, {"DATA"}) # {} \/ (n.sink /\ n.native = "open") => Up(k) \/ Resolving(k)
        BY <1>4, <1>9, <2>1, <4>1 DEF Ready
      <4> QED BY <2>1, <3>2, <4>2
    <3> QED BY <3>1, <3>2
  <2>6. q \in {"REJECT", "CLOSED"} => At(m, c, {"DATA"}) = {} /\ n.native # "open"
    <3> SUFFICES ASSUME q \in {"REJECT", "CLOSED"}
                 PROVE  At(m, c, {"DATA"}) = {} /\ k.native # "open"
      BY <2>1
    <3>1. At(l, c, {"DATA"}) = {}
      <4> SUFFICES ASSUME NEW i \in At(l, c, {"DATA"}) PROVE FALSE
        OBVIOUS
      <4>1. At(l, c, {"REJECT"}) = {} /\ \A j \in At(l, c, {"CLOSED"}) : i < j
        BY <1>4 DEF Queued
      <4>2. i \in Nat /\ i >= 1
        BY <1>6
      <4>3. q = "CLOSED" /\ 1 \in At(l, c, {"CLOSED"})
        BY <1>6, <4>1
      <4> QED BY <4>1, <4>2, <4>3
    <3>2. 1 \in At(l, c, {"REJECT", "CLOSED"})
      BY <1>6 DEF At
    <3> QED BY <1>4, <1>6, <3>1, <3>2 DEF Queued
  <2>7. Ready(m, n, c)
    BY <1>7, <2>1, <2>5, <2>6 DEF Ready, ConnKinds
  <2>8. ConnOK(m, n, c)
    BY <2>1, <2>3, <2>7 DEF ConnOK
  <2>9. IInv'
    <3>1. n.sink => wrap["ws"].alive /\ conn[c].sink
      BY <1>4, <1>14, <2>1
    <3>2. n.sink => n.native \in {"none", "closed"} \/ ~Ended
      BY <1>4, <2>1
    <3>3. ConnOK(ex'.list, n, c)
      BY <1>14, <2>8
    <3> QED BY <1>2, <1>3, <1>4, <2>1, <2>2, <3>1, <3>2, <3>3, ConnStep
  <2>10. CStep
    BY <1>2, <1>14, <2>1, <2>2, <2>4, JsEventContract
  <2> QED BY <2>9, <2>10
<1> QED BY <1>8, <1>9

LEMMA TellWrapOK == ASSUME IInv, NEW c \in Conns, TellWrap(c) PROVE IInv' /\ CStep
<1> DEFINE k == conn[c]
           n == OnJsEvent(k, "CLOSED")
<1>1. /\ js.pc = "wraps" /\ c \in js.todo /\ conn' = [conn EXCEPT ![c] = n]
      /\ js' = [js EXCEPT !.todo = @ \ {c}] /\ UNCHANGED <<ex, wrap, task>>
  BY DEF TellWrap
<1>2. /\ k \in ConnType /\ Queued(ex.list, k, c) /\ Told(k)
      /\ ~k.sink /\ At(ex.list, c, {"DATA"}) = {} /\ k.wrap = "live"
  BY <1>1, Types DEF IInv, ConnOK, EndInv
<1>3. js' \in JsType /\ js'.pc = js.pc /\ js'.todo \subseteq js.todo
  BY <1>1, Types DEF JsType
<1>4. ListKept /\ ex' \in ExType /\ "CLOSED" \in ConnKinds /\ k = conn[c]
  BY <1>1, Types DEF ListKept, ConnKinds
<1> HIDE DEF k
<1>5. /\ n \in ConnType /\ n.wrap = "live" /\ n.called = k.called /\ n.sink = k.sink
      /\ n.native = k.native /\ Told(n) /\ n.messages = k.messages
      /\ \/ n.says = k.says
         \/ k.says = "pending" /\ n.says \in {"open", "rejected"}
         \/ k.says = "open" /\ n.says = "closed"
  BY <1>2, <1>4, JsEvent
<1> HIDE DEF n
<1>6. Queued(ex.list, n, c) /\ Ready(ex.list, n, c)
  BY <1>2, <1>5 DEF Queued, Ready
<1>7. IInv'
  BY <1>1, <1>2, <1>3, <1>4, <1>5, <1>6, ConnStep DEF ConnOK
<1>8. CStep
  BY <1>1, <1>4, <1>5, JsEventContract
<1> QED BY <1>7, <1>8
-----------------------------------------------------------------------------
(* The end of the WSConnector, and garbage collection.                     *)

LEMMA SinksOff ==
  ASSUME IInv, conn' = [c \in Conns |-> [conn[c] EXCEPT !.sink = FALSE]]
  PROVE  /\ conn' \in [Conns -> ConnType]
         /\ \A c \in Conns :
              /\ conn'[c].wrap = conn[c].wrap /\ conn'[c].called = conn[c].called
              /\ conn'[c].callback = conn[c].callback /\ conn'[c].settled = conn[c].settled
              /\ conn'[c].upgraded = conn[c].upgraded /\ conn'[c].closedSeen = conn[c].closedSeen
              /\ conn'[c].native = conn[c].native /\ conn'[c].says = conn[c].says
              /\ conn'[c].sink = FALSE /\ conn'[c].messages = conn[c].messages
<1>1. \A c \in Conns : conn[c] \in ConnType /\ conn'[c] = [conn[c] EXCEPT !.sink = FALSE]
  BY Types
<1>2. ASSUME NEW k \in ConnType
      PROVE  LET n == [k EXCEPT !.sink = FALSE] IN
             /\ n \in ConnType
             /\ n.wrap = k.wrap /\ n.called = k.called
             /\ n.callback = k.callback /\ n.settled = k.settled
             /\ n.upgraded = k.upgraded /\ n.closedSeen = k.closedSeen
             /\ n.native = k.native /\ n.says = k.says
             /\ n.sink = FALSE /\ n.messages = k.messages
  BY Zenon DEF ConnType
<1>3. \A c \in Conns :
        /\ conn'[c] \in ConnType
        /\ conn'[c].wrap = conn[c].wrap /\ conn'[c].called = conn[c].called
        /\ conn'[c].callback = conn[c].callback /\ conn'[c].settled = conn[c].settled
        /\ conn'[c].upgraded = conn[c].upgraded /\ conn'[c].closedSeen = conn[c].closedSeen
        /\ conn'[c].native = conn[c].native /\ conn'[c].says = conn[c].says
        /\ conn'[c].sink = FALSE /\ conn'[c].messages = conn[c].messages
  BY <1>1, <1>2
<1> QED BY <1>3

LEMMA JsClosedWsOK == ASSUME IInv, OnJsClosedWs PROVE IInv' /\ CStep
<1> DEFINE w == [wrap["ws"] EXCEPT !.native = "gone"]
<1>1. /\ Pop("ws", "CLOSE") /\ wrap' = [wrap EXCEPT !["ws"] = w] /\ UNCHANGED task
      /\ conn' = [c \in Conns |-> [conn[c] EXCEPT !.sink = FALSE]]
      /\ js' = [pc |-> "wraps", todo |-> {c \in Conns : conn[c].wrap = "live"}]
  BY DEF OnJsClosedWs
<1>2. /\ ex' \in ExType /\ ex.list # <<>> /\ ex'.list = Tail(ex.list) /\ ex.list \in Seq(EventType)
      /\ Head(ex.list).h = "ws" /\ Head(ex.list).kind = "CLOSE" /\ \A c : ~Own(Head(ex.list), c)
  BY <1>1, PopKeeps, Types DEF Own, ConnKinds
<1>3. wrap["ws"] \in WrapType /\ "ws" \in Wraps
  BY Types DEF Wraps
<1>4. w \in WrapType /\ w.native = "gone" /\ w.alive = wrap["ws"].alive
  BY <1>3, Zenon DEF WrapType
<1> HIDE DEF w
<1>5. /\ wrap' \in [Wraps -> WrapType] /\ wrap'["ws"] = w
      /\ \A g \in Wraps : g # "ws" => wrap'[g] = wrap[g]
  BY <1>1, <1>3, <1>4, SetWrap
<1>6. /\ js' \in JsType /\ js'.pc = "wraps" /\ js'.todo \subseteq Conns
      /\ \A c \in js'.todo : conn[c].wrap = "live"
  BY <1>1 DEF JsType
<1>7. /\ conn' \in [Conns -> ConnType]
      /\ \A c \in Conns :
           /\ conn'[c].wrap = conn[c].wrap /\ conn'[c].called = conn[c].called
           /\ conn'[c].callback = conn[c].callback /\ conn'[c].settled = conn[c].settled
           /\ conn'[c].upgraded = conn[c].upgraded /\ conn'[c].closedSeen = conn[c].closedSeen
           /\ conn'[c].native = conn[c].native /\ conn'[c].says = conn[c].says
           /\ conn'[c].sink = FALSE /\ conn'[c].messages = conn[c].messages
  BY <1>1, SinksOff
<1>8. TypeInv'
  BY <1>1, <1>2, <1>5, <1>6, <1>7, Types DEF TypeInv
<1>9. \A c \in Conns : ConnOK(ex'.list, conn'[c], c)
  <2> TAKE c \in Conns
  <2>1. ConnOK(ex.list, conn[c], c)
    BY DEF IInv
  <2>2. ConnOK(ex'.list, conn[c], c)
    BY <1>2, <2>1, TailOther
  <2> QED BY <1>7, <2>2, ConnSame
<1>10. ASSUME NEW c \in Conns PROVE At(ex.list, c, {"DATA"}) = {}
  <2> SUFFICES ASSUME NEW i \in At(ex.list, c, {"DATA"}) PROVE FALSE
    OBVIOUS
  <2>1. Queued(ex.list, conn[c], c)
    BY DEF IInv, ConnOK
  <2>2. Head(ex.list) = ex.list[1] /\ 1 \in DOMAIN ex.list /\ DOMAIN ex.list = 1..Len(ex.list)
        /\ Len(ex.list) \in Nat
    BY <1>2, TailAt
  <2>3. 1 \in Closes(ex.list)
    BY <1>2, <2>2 DEF Closes
  <2>4. i < 1
    BY <2>1, <2>3 DEF Queued
  <2>5. i \in 1..Len(ex.list)
    BY <2>2 DEF At
  <2> QED BY <2>2, <2>4, <2>5
<1>11. El(ex'.list) \subseteq El(ex.list)
  BY <1>2, ElTail
<1>12. \A c \in Conns : At(ex'.list, c, {"DATA"}) = {}
  BY <1>10, <1>11, ElAt
<1>13. EndInv'
  <2>1. Ended' /\ wrap'["ws"].native = "gone"
    BY <1>4, <1>5 DEF Ended
  <2>2. \A c \in Conns : ~conn'[c].sink
    BY <1>7
  <2>3. \A c \in js'.todo : conn'[c].wrap = "live"
    BY <1>6, <1>7
  <2> QED BY <1>6, <1>12, <2>1, <2>2, <2>3 DEF EndInv
<1>14. \A h \in Wraps : wrap'[h].alive = wrap[h].alive
                        /\ (wrap'[h].native = "closing" => wrap[h].native = "closing")
  BY <1>4, <1>5
<1>15. NoEventForDeadWrap'
  <2>1. \A e \in El(ex.list) : wrap[e.h].alive /\ e.h \in Wraps
    <3>1. El(ex.list) \subseteq EventType
      BY <1>2, ElTail
    <3>2. \A e \in El(ex.list) : wrap[e.h].alive
      BY ElAt DEF IInv, NoEventForDeadWrap
    <3> QED BY <3>1, <3>2 DEF EventType
  <2>2. \A e \in El(ex'.list) : wrap'[e.h].alive
    BY <1>11, <1>14, <2>1
  <2>3. \A i \in DOMAIN ex'.list : wrap'[ex'.list[i].h].alive
    BY <2>2, ElAt
  <2>4. "http" \in Wraps
    BY DEF Wraps
  <2> QED BY <1>1, <1>7, <1>14, <2>3, <2>4 DEF IInv, NoEventForDeadWrap
<1>16. IInv'
  BY <1>1, <1>8, <1>9, <1>13, <1>14, <1>15 DEF IInv
<1>17. CStep
  BY <1>1, <1>7, SameContract, TaskSame
<1> QED BY <1>16, <1>17

(* _Cleanup of a wrap: what every part of the state keeps.                 *)
LEMMA CollectOK == ASSUME IInv, NEW h \in Wraps, Collect(h) PROVE IInv' /\ CStep
<1> DEFINE w == [wrap[h] EXCEPT !.alive = FALSE, !.native = "gone", !.waiting = 0]
<1>1. /\ js.pc = "idle" /\ wrap' = [wrap EXCEPT ![h] = w] /\ ex' = RemoveEventByHandler(ex, h)
      /\ task' = [t \in Tasks |-> IF h = "http" /\ InMap(t) THEN [task[t] EXCEPT !.st = "done"] ELSE task[t]]
      /\ conn' = IF h = "ws" THEN [c \in Conns |-> [conn[c] EXCEPT !.sink = FALSE]] ELSE conn
      /\ h = "ws" => \A c \in Conns : conn[c].wrap # "live"
      /\ UNCHANGED js
  BY DEF Collect
<1>2. wrap[h] \in WrapType /\ 0 \in Int /\ js' \in JsType /\ ex \in ExType
  BY <1>1, Types
<1>3. w \in WrapType /\ w.alive = FALSE /\ w.native = "gone"
  BY <1>2, Zenon DEF WrapType
<1> HIDE DEF w
<1>4. /\ wrap' \in [Wraps -> WrapType] /\ wrap'[h] = w
      /\ \A g \in Wraps : g # h => wrap'[g] = wrap[g]
  BY <1>1, <1>3, SetWrap
<1>5. /\ ex' \in ExType
      /\ \A e \in El(ex'.list) : e \in El(ex.list) /\ e.h # h
      /\ h = "http" => \A c : \E f : Embeds(ex'.list, ex.list, f, c)
  <2>1. ex' \in ExType /\ (h = "http" => \A c : \E f : Embeds(ex'.list, ex.list, f, c))
    BY <1>1, <1>2, RemoveKeeps
  <2>2. \A e \in El(ex'.list) : e \in El(ex.list) /\ e.h # h
    BY <1>1, <1>2, ElRemove
  <2> QED BY <2>1, <2>2
<1>6. /\ task' \in [Tasks -> TaskType]
      /\ \A t \in Tasks : TaskOK(task'[t]) /\ Req(task'[t]) = Req(task[t])
      /\ \A t \in Tasks : task'[t].st = "inflight" => task[t].st = "inflight" /\ h # "http"
  <2>1. ASSUME NEW t \in Tasks
        PROVE  /\ task'[t] \in TaskType /\ TaskOK(task'[t]) /\ Req(task'[t]) = Req(task[t])
               /\ task'[t].st = "inflight" => task[t].st = "inflight" /\ h # "http"
    <3>1. task[t] \in TaskType /\ TaskOK(task[t])
      BY Types DEF IInv
    <3>2. CASE h = "http" /\ InMap(t)
      <4>1. task'[t] = [task[t] EXCEPT !.st = "done"] /\ task[t].st \in {"inflight", "posted"}
        BY <1>1, <3>2 DEF InMap
      <4>2. task'[t] \in TaskType /\ task'[t].st = "done" /\ task'[t].told = task[t].told
        BY <3>1, <4>1 DEF TaskType
      <4> QED BY <3>1, <4>1, <4>2 DEF TaskOK, Req
    <3>3. CASE ~(h = "http" /\ InMap(t))
      <4>1. task'[t] = task[t]
        BY <1>1, <3>3
      <4> QED BY <3>1, <3>3, <4>1 DEF InMap
    <3> QED BY <3>2, <3>3
  <2>2. task' \in [Tasks -> TaskType]
    BY <1>1, <2>1
  <2> QED BY <2>1, <2>2
<1>7. /\ conn' \in [Conns -> ConnType]
      /\ \A c \in Conns :
           /\ conn'[c].wrap = conn[c].wrap /\ conn'[c].called = conn[c].called
           /\ conn'[c].callback = conn[c].callback /\ conn'[c].settled = conn[c].settled
           /\ conn'[c].upgraded = conn[c].upgraded /\ conn'[c].closedSeen = conn[c].closedSeen
           /\ conn'[c].native = conn[c].native /\ conn'[c].says = conn[c].says
           /\ conn'[c].messages = conn[c].messages
           /\ conn'[c].sink = FALSE \/ (conn'[c].sink = conn[c].sink /\ h # "ws")
  <2>1. CASE h = "ws"
    BY <1>1, <2>1, SinksOff
  <2>2. CASE h # "ws"
    BY <1>1, <2>2, Types
  <2> QED BY <2>1, <2>2
<1>8. TypeInv'
  BY <1>2, <1>4, <1>5, <1>6, <1>7 DEF TypeInv
<1>9. ASSUME NEW c \in Conns PROVE ConnOK(ex'.list, conn'[c], c)
  <2>1. ConnOK(ex.list, conn[c], c)
    BY DEF IInv
  <2>2. ConnOK(ex.list, conn'[c], c)
    BY <1>7, <2>1, ConnSame
  <2>3. CASE h = "http"
    <3>1. PICK f : Embeds(ex'.list, ex.list, f, c)
      BY <1>5, <2>3
    <3>2. ex.list \in Seq(EventType) /\ ex'.list \in Seq(EventType)
      BY <1>2, <1>5 DEF ExType
    <3> QED BY <2>2, <3>1, <3>2, EmbedOther
  <2>4. CASE h = "ws"
    <3>1. At(ex'.list, c, ConnKinds) = {}
      BY <1>5, <2>4, ElAt
    <3>2. /\ At(ex'.list, c, {"DATA"}) = {} /\ At(ex'.list, c, {"DATA", "CLOSED"}) = {}
          /\ At(ex'.list, c, {"REJECT", "CLOSED"}) = {}
      BY <3>1, NoneOf
    <3>3. Queued(ex'.list, conn'[c], c)
      BY <2>2, <3>1, <3>2 DEF ConnOK, Queued
    <3>4. conn'[c].wrap # "live"
      BY <1>1, <1>7, <2>4
    <3>5. Ready(ex'.list, conn'[c], c)
      BY <3>4 DEF Ready
    <3> QED BY <2>2, <3>3, <3>5 DEF ConnOK
  <2> QED BY <2>3, <2>4 DEF Wraps
<1>10. \A g \in Wraps : g # h => wrap'[g].alive = wrap[g].alive /\ wrap'[g].native = wrap[g].native
                                 /\ wrap'[g].pending = wrap[g].pending
  BY <1>4
<1>11. NoEventForDeadWrap'
  <2>1. \A e \in El(ex.list) : wrap[e.h].alive /\ e.h \in Wraps
    <3>1. ex.list \in Seq(EventType)
      BY <1>2 DEF ExType
    <3>2. \A i \in DOMAIN ex.list : ex.list[i] \in EventType
      BY <3>1
    <3>3. El(ex.list) \subseteq EventType
      BY <3>2 DEF El
    <3>4. \A e \in El(ex.list) : wrap[e.h].alive
      BY ElAt DEF IInv, NoEventForDeadWrap
    <3> QED BY <3>3, <3>4 DEF EventType
  <2>2. \A e \in El(ex'.list) : wrap'[e.h].alive
    BY <1>5, <1>10, <2>1
  <2>3. \A i \in DOMAIN ex'.list : wrap'[ex'.list[i].h].alive
    BY <2>2, ElAt
  <2>4. \A t \in Tasks : task'[t].st = "inflight" => wrap'["http"].alive
    BY <1>6, <1>10 DEF IInv, NoEventForDeadWrap, Wraps
  <2>5. \A c \in Conns : conn'[c].sink => wrap'["ws"].alive
    BY <1>7, <1>10 DEF IInv, NoEventForDeadWrap, Wraps
  <2> QED BY <2>3, <2>4, <2>5 DEF NoEventForDeadWrap
<1>12. EndInv'
  <2>0. EndInv /\ js.todo = {} /\ js'.pc = "idle" /\ js'.todo = {}
    BY <1>1 DEF IInv, EndInv
  <2>1. Closes(ex'.list) # {} => Closes(ex.list) # {} /\ h # "ws"
    BY <1>5, ElAt
  <2>2. CASE h = "ws"
    <3>1. \A c \in Conns : ~conn'[c].sink
      BY <1>7, <2>2
    <3> QED BY <1>3, <1>4, <2>0, <2>1, <2>2, <3>1 DEF EndInv
  <2>3. CASE h # "ws"
    <3>1. wrap'["ws"].native = wrap["ws"].native /\ wrap'["ws"].pending = wrap["ws"].pending
      BY <1>10, <2>3 DEF Wraps
    <3>2. Ended' <=> Ended
      BY <3>1 DEF Ended
    <3> QED BY <1>7, <2>0, <2>1, <3>1, <3>2 DEF EndInv
  <2> QED BY <2>2, <2>3
<1>13. \A g \in Wraps : wrap'[g].native = "closing" => wrap'[g].alive
  BY <1>3, <1>4, <1>10 DEF IInv
<1>14. IInv'
  BY <1>6, <1>8, <1>9, <1>11, <1>12, <1>13 DEF IInv
<1>15. CStep
  BY <1>6, <1>7, SameContract
<1> QED BY <1>14, <1>15
-----------------------------------------------------------------------------

LEMMA InitOK == Init => IInv /\ Contract!CInit
<1> SUFFICES ASSUME Init PROVE IInv /\ Contract!CInit
  OBVIOUS
<1>1. /\ ex = [list |-> <<>>, ctrls |-> 0, running |-> FALSE]
      /\ js = [pc |-> "idle", todo |-> {}]
      /\ wrap = [h \in Wraps |-> NewWrap]
      /\ task = [t \in Tasks |-> NewTask]
      /\ conn = [c \in Conns |-> NewConn]
  BY DEF Init
<1>2. NewWrap \in WrapType /\ NewTask \in TaskType /\ NewConn \in ConnType
  BY DEF NewWrap, NewTask, NewConn, WrapType, TaskType, ConnType
<1>3. TypeInv
  BY <1>1, <1>2 DEF TypeInv, ExType, JsType
<1>4. ex.list = <<>> /\ DOMAIN ex.list = {} /\ js.todo = {} /\ js.pc = "idle"
  BY <1>1
<1>5. /\ \A h \in Wraps : wrap[h].native = "open" /\ wrap[h].alive
      /\ \A t \in Tasks : task[t].st = "none" /\ task[t].told = 0
  BY <1>1 DEF NewWrap, NewTask
<1>6. \A c \in Conns :
        /\ conn[c].wrap = "none" /\ ~conn[c].called /\ ~conn[c].callback /\ ~conn[c].settled
        /\ ~conn[c].upgraded /\ ~conn[c].closedSeen /\ ~conn[c].sink /\ conn[c].native = "none"
        /\ conn[c].says = "none" /\ conn[c].messages = 0
  BY <1>1 DEF NewConn
<1>7. \A c, K : At(ex.list, c, K) = {}
  BY <1>4 DEF At
<1>8. Closes(ex.list) = {}
  BY <1>4 DEF Closes
<1>9. NoEventForDeadWrap
  BY <1>4, <1>5, <1>6 DEF NoEventForDeadWrap
<1>10. EndInv
  BY <1>4, <1>5, <1>6, <1>8 DEF EndInv, Ended, Wraps
<1>11. \A c \in Conns : ConnOK(ex.list, conn[c], c)
  BY <1>6, <1>7 DEF ConnOK, Queued, Told, Ready
<1>12. \A t \in Tasks : TaskOK(task[t]) /\ Req(task[t]) = "none"
  BY <1>5 DEF TaskOK, Req
<1>13. Contract!CInit
  BY <1>6, <1>12 DEF Contract!CInit, Req
<1> QED BY <1>3, <1>5, <1>9, <1>10, <1>11, <1>12, <1>13 DEF IInv

LEMMA NextOK == IInv /\ [Next]_vars => IInv' /\ CStep
<1> SUFFICES ASSUME IInv, [Next]_vars PROVE IInv' /\ CStep
  OBVIOUS
<1>1. CASE UNCHANGED vars
  <2>1. UNCHANGED <<ex, js, wrap, task, conn>>
    BY <1>1 DEF vars
  <2>2. IInv'
    BY <2>1 DEF IInv, TypeInv, NoEventForDeadWrap, EndInv, Ended
  <2>3. CStep
    BY <2>1, TaskSame, SameContract
  <2> QED BY <2>2, <2>3
<1>2. ASSUME NEW t \in Tasks, Request(t) \/ OnHttpResult(t) \/ OnJsResult(t) \/ SettlePendingTask(t)
      PROVE  IInv' /\ CStep
  BY <1>2, RequestOK, ResultOK, JsResultOK, SettleOK
<1>3. ASSUME NEW h \in Wraps, Close(h) \/ OnClosed(h) \/ Collect(h) PROVE IInv' /\ CStep
  BY <1>3, CloseOK, OnClosedOK, CollectOK
<1>4. ASSUME NEW c \in Conns, OnConnectResult(c) \/ OnRecvData(c) \/ OnConnClosed(c) PROVE IInv' /\ CStep
  <2>1. \/ Sink(c, "connecting", "open", "RESOLVE") \/ Sink(c, "connecting", "closed", "REJECT")
        \/ Sink(c, "open", "open", "DATA") \/ Sink(c, "open", "closed", "CLOSED")
    BY <1>4 DEF OnConnectResult, OnRecvData, OnConnClosed
  <2> QED BY <2>1, SinkOK
<1>5. ASSUME NEW c \in Conns,
             CreateConnection(c) \/ Connect(c) \/ OnJsConnEvent(c) \/ TellWrap(c) \/ CollectConn(c)
      PROVE  IInv' /\ CStep
  BY <1>5, CreateConnectionOK, ConnectOK, JsConnEventOK, TellWrapOK, CollectConnOK
<1>6. CASE Wake \/ LoopEnds \/ Drop
  BY <1>6, WakeOK, LoopEndsOK, DropOK
<1>7. CASE OnJsClosedHttp \/ Settled \/ ClosedHttp
  BY <1>7, JsClosedHttpOK, SettledOK, ClosedHttpOK
<1>8. CASE OnJsClosedWs \/ WrapsTold \/ ClosedWs
  BY <1>8, JsClosedWsOK, WrapsToldOK, ClosedWsOK
<1> QED BY <1>1, <1>2, <1>3, <1>4, <1>5, <1>6, <1>7, <1>8 DEF Next

(* Whatever the order of events, application calls and garbage collection, *)
(* what a native connection posted is in its order, what a wrap has told   *)
(* agrees with its flags, and a message on its way finds the connection    *)
(* reported open.                                                          *)
THEOREM Invariance == Spec => []IInv
<1>1. Init => IInv
  BY InitOK
<1>2. IInv /\ [Next]_vars => IInv'
  BY NextOK
<1> QED BY <1>1, <1>2, PTL DEF Spec

(* The JavaScript thread never handles an event of a wrap that was         *)
(* collected: _Cleanup takes its events out of the exchanger and detaches  *)
(* the sinks before the wrap is freed.                                     *)
THEOREM DeadWrapsAreQuiet == Spec => []NoEventForDeadWrap
<1>1. IInv => NoEventForDeadWrap
  BY DEF IInv
<1> QED BY <1>1, Invariance, PTL

(* Every step of the binding is one that the contract of index.js allows,  *)
(* or changes nothing the application sees: a request or connect is never  *)
(* answered twice, no message comes before connect succeeded or after      *)
(* closed, and nothing follows a connect that failed.                      *)
THEOREM KeepsContract == Spec => Contract!CSafe
<1>1. Init => Contract!CInit
  BY InitOK
<1>2. IInv /\ [Next]_vars => [Contract!CNext]_(Contract!cvars)
  BY NextOK DEF CStep
<1> QED BY <1>1, <1>2, Invariance, PTL DEF Spec, Contract!CSafe
=============================================================================
