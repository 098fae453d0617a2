-------------------------- MODULE TransportProofs ---------------------------
(***************************************************************************)
(* Proofs about what goes out and comes in below the connections.  The     *)
(* four modules share no state: lookups and the choice of the interface    *)
(* (PhysicalPath), packets on an SMP stream (SMPStream), the MASQUE tunnel *)
(* of an SMP connection (MasqueTunnel), and the text of HTTP requests      *)
(* (HttpExchange).  They hold for any number of callers and interface      *)
(* changes, any packet and payload sizes, any windows, any cutting of the  *)
(* streams into pieces, any number of datagrams, and any calls of Request. *)
(***************************************************************************)
EXTENDS PhysicalPath, SMPStream, MasqueTunnel, HttpExchange, SequenceTheorems,
        FiniteSetTheorems, TLAPS

-----------------------------------------------------------------------------
(* Lookups and the choice of the interface.                                *)

Caller ==
  [pc : {"idle", "lookup", "system", "server", "wait", "resolved", "done"},
   policy : Policies, v6 : BOOLEAN, given : BOOLEAN, i : 0..2, query : 0..2, pin : Ways,
   server : Nat, got : SUBSET Families, found : SUBSET Addrs, left : Int, armed : BOOLEAN,
   grace : Int, addrs : SUBSET Addrs,
   result : {"none", "SUCCESS", "NO_PHYSICAL_INTERFACE", "DNS_FAILED", "PIN_FAILED",
             "ROUTE_MISMATCH"},
   bound : 0..2, peer : {"none", "real", "fake"}, seen : SUBSET {1, 2}]

Entry == [addrs : SUBSET Addrs, v6 : BOOLEAN, ttl : Nat]

(* Addresses that queries pinned to interface i can have found. *)
Pinned(addrs, i) ==
  \A a \in addrs : /\ a.how \in {"device", "option"} /\ a.i = i
                   /\ a.kind = "fake" => a.how = "option" \/ a.i = 2

(* The interface of a force-physical caller. *)
Chosen(r) == r.i # 0 /\ (r.given \/ IsPhysical(r.i))

OwnAnswers(r, addrs) ==
  \/ \A a \in addrs : a.how = "literal"
  \/ Pinned(addrs, r.i) /\ Chosen(r)

(* What a force-physical caller has found, or will find: its query is      *)
(* pinned to the interface of its connection, and it never turns to the    *)
(* system's resolver.                                                      *)
ForceOK(r) ==
  /\ r.pc = "idle" => r.addrs = {} /\ r.found = {}
  /\ r.policy = "force" =>
       /\ r.query = r.i /\ r.pc # "system"
       /\ r.pc \in {"lookup", "server", "wait"} => Chosen(r)
       /\ r.pc = "wait" => r.pin \in {"device", "option"}
       /\ OwnAnswers(r, r.addrs) /\ Pinned(r.found, r.i)

PinOK(r) ==
  r.pc = "done" /\ r.policy # "force" /\ r.peer = "fake" /\ r.bound = 1 => 2 \notin r.seen

PathInv ==
  /\ caller \in [Callers -> Caller] /\ cache \in [Keys -> Entry]
  /\ links \in [up : SUBSET {1, 2}, changes : Nat, os : Platforms]
  /\ \A c \in Callers : ForceOK(caller[c]) /\ PinOK(caller[c])
  /\ \A k \in Keys : k.policy = "force" => Pinned(cache[k].addrs, k.i)

-----------------------------------------------------------------------------
LEMMA PolicyType ==
  ASSUME NEW cfg \in Configs
  PROVE  ResolvePolicy(cfg) \in Policies
BY PathAssumption DEF ResolvePolicy, FromString, Policies

(* What QueryDefaultIfIndex can find: under force-physical, a device. *)
LEMMA IfIndexType ==
  ASSUME PathInv, NEW policy \in Policies, NEW i \in QueryDefaultIfIndex(policy)
  PROVE  i \in 0..2 /\ (policy = "force" /\ i # 0 => IsPhysical(i))
BY DEF PathInv, QueryDefaultIfIndex, Policies

LEMMA IdleType == Idle \in Caller
<1> "os" \in Policies /\ 0 \in Int /\ 0 \in Nat /\ 0 \in 0..2 /\ "unpinned" \in Ways
  BY DEF Policies, Ways
<1> QED BY ZenonT(60) DEF Idle, Caller

LEMMA DoneType ==
  ASSUME NEW r \in Caller, NEW addrs \in SUBSET Addrs,
         NEW result \in {"SUCCESS", "NO_PHYSICAL_INTERFACE", "DNS_FAILED"},
         r.policy = "force" => r.query = r.i /\ OwnAnswers(r, addrs)
  PROVE  /\ Done(r, result, addrs) \in Caller
         /\ ForceOK(Done(r, result, addrs)) /\ PinOK(Done(r, result, addrs))
<1> DEFINE d == Done(r, result, addrs)
<1>1. d \in Caller
  <2> /\ r.policy \in Policies /\ r.v6 \in BOOLEAN /\ r.given \in BOOLEAN
      /\ r.i \in 0..2 /\ r.query \in 0..2
    BY ZenonT(60) DEF Caller
  <2> HIDE DEF Idle
  <2> QED BY IdleType, ZenonT(60) DEF Done, Caller
<1>2. /\ d.pc = "resolved" /\ d.policy = r.policy /\ d.addrs = addrs /\ d.found = {}
      /\ d.i = r.i /\ d.query = r.query /\ d.given = r.given
  BY ZenonT(60) DEF Done, Idle
<1>3. Done(r, result, addrs) = d
  OBVIOUS
<1> HIDE DEF d
<1> QED
  BY <1>1, <1>2, <1>3 DEF ForceOK, PinOK, OwnAnswers, Chosen, Pinned

LEMMA UdpFailedType ==
  ASSUME NEW r \in Caller, ForceOK(r)
  PROVE  UdpFailed(r) \in Caller /\ ForceOK(UdpFailed(r)) /\ PinOK(UdpFailed(r))
<1>1. CASE r.policy = "force"
  BY <1>1, DoneType DEF UdpFailed, ForceOK, OwnAnswers
<1>2. CASE r.policy # "force"
  <2> DEFINE d == [Idle EXCEPT !.pc = "system", !.policy = r.policy, !.v6 = r.v6,
                              !.given = r.given, !.i = r.i, !.query = r.query]
  <2>1. d \in Caller
    <3> /\ r.policy \in Policies /\ r.v6 \in BOOLEAN /\ r.given \in BOOLEAN
        /\ r.i \in 0..2 /\ r.query \in 0..2
      BY ZenonT(60) DEF Caller
    <3> QED BY IdleType, ZenonT(60) DEF Caller
  <2>2. d.pc = "system" /\ d.policy = r.policy
    BY DEF Idle
  <2>3. UdpFailed(r) = d
    BY <1>2 DEF UdpFailed
  <2> HIDE DEF d
  <2> QED
    BY <1>2, <2>1, <2>2, <2>3 DEF ForceOK, PinOK
<1> QED BY <1>1, <1>2

LEMMA NextServerType ==
  ASSUME NEW r \in Caller, ForceOK(r), r.pc \in {"server", "wait"}
  PROVE  NextServer(r) \in Caller /\ ForceOK(NextServer(r)) /\ PinOK(NextServer(r))
<1>1. CASE r.server = Servers
  BY <1>1, UdpFailedType DEF NextServer
<1>2. CASE r.server # Servers
  <2> DEFINE d == [r EXCEPT !.pc = "server", !.server = @ + 1]
  <2>1. d \in Caller
    <3> r.server + 1 \in Nat
      BY DEF Caller
    <3> QED BY ZenonT(60) DEF Caller
  <2>2. /\ d.pc = "server" /\ d.policy = r.policy /\ d.i = r.i /\ d.query = r.query
        /\ d.given = r.given /\ d.addrs = r.addrs /\ d.found = r.found
    BY ZenonT(60) DEF Caller
  <2>3. NextServer(r) = d
    BY <1>2 DEF NextServer
  <2> HIDE DEF d
  <2> QED
    BY <2>1, <2>2, <2>3 DEF ForceOK, PinOK, OwnAnswers, Chosen, Pinned
<1> QED BY <1>1, <1>2

LEMMA ClampType ==
  ASSUME NEW t \in Nat
  PROVE  ClampTtl(t) \in Nat
BY PathAssumption DEF ClampTtl

(* A step that gives one caller another record that is in order. *)
LEMMA SetKeeps ==
  ASSUME PathInv, NEW c \in Callers, NEW r \in Caller, ForceOK(r), PinOK(r), Set(c, r),
         UNCHANGED links,
         UNCHANGED cache \/ (/\ cache' \in [Keys -> Entry]
                             /\ \A k \in Keys : k.policy = "force" => Pinned(cache'[k].addrs, k.i))
  PROVE  PathInv'
BY DEF PathInv, Set, ForceOK, PinOK, OwnAnswers, Chosen, Pinned, IsPhysical

LEMMA StoreKeeps ==
  ASSUME PathInv, NEW policy \in Policies, NEW i \in 0..2, NEW r \in Caller,
         NEW addrs \in SUBSET Addrs, NEW ttl \in Nat, policy = "force" => Pinned(addrs, i),
         CacheStore(CacheKey(policy, i), r, addrs, ttl)
  PROVE  /\ cache' \in [Keys -> Entry]
         /\ \A k \in Keys : k.policy = "force" => Pinned(cache'[k].addrs, k.i)
<1> DEFINE e == [addrs |-> addrs, v6 |-> r.v6, ttl |-> ClampTtl(ttl)]
           key == CacheKey(policy, i)
<1>1. e \in Entry
  BY ClampType DEF Entry, Caller
<1>2. key \in Keys /\ key.policy = policy /\ key.i = i
  BY DEF CacheKey, Keys
<1>3. cache' = [cache EXCEPT ![key] = e]
  BY DEF CacheStore
<1>4. e.addrs = addrs
  OBVIOUS
<1> HIDE DEF e, key
<1> QED
  BY <1>1, <1>2, <1>3, <1>4 DEF PathInv, Pinned

-----------------------------------------------------------------------------
LEMMA LiteralOwn ==
  ASSUME NEW a \in Literals, NEW r
  PROVE  {a} \in SUBSET Addrs /\ OwnAnswers(r, {a})
BY DEF Literals, OwnAnswers

LEMMA OpenChannelKeeps ==
  ASSUME PathInv, NEW c \in Callers, NEW cfg \in Configs, OpenChannel(c, cfg)
  PROVE  PathInv'
<1> DEFINE policy == ResolvePolicy(cfg)
           given == cfg.ifIndex # 0
           r(i) == [Idle EXCEPT !.policy = policy, !.v6 = cfg.v6, !.given = given, !.i = i,
                                !.query = i]
<1>1. policy \in Policies /\ cfg.v6 \in BOOLEAN /\ cfg.ifIndex \in 0..2 /\ given \in BOOLEAN
  BY PolicyType, PathAssumption
<1>2. PICK i \in PickPhysicalIfIndex(policy, cfg) :
        \/ policy = "force" /\ i = 0 /\ Set(c, Done(r(i), "NO_PHYSICAL_INTERFACE", {}))
        \/ /\ ~(policy = "force" /\ i = 0)
           /\ \/ \E a \in Literals : Set(c, Done(r(i), "SUCCESS", {a}))
              \/ Set(c, [r(i) EXCEPT !.pc = "lookup"])
  BY DEF OpenChannel, Idle
<1>3. i \in 0..2 /\ (policy = "force" /\ i # 0 => given \/ IsPhysical(i))
  BY <1>1, <1>2, IfIndexType DEF PickPhysicalIfIndex
<1>4. r(i) \in Caller
  BY <1>1, <1>3, IdleType, ZenonT(60) DEF Caller
<1>5. /\ r(i).pc = "idle" /\ r(i).policy = policy /\ r(i).i = i /\ r(i).query = i
      /\ r(i).given = given /\ r(i).addrs = {} /\ r(i).found = {}
  BY ZenonT(60) DEF Idle
<1>6. UNCHANGED <<cache, links>>
  BY DEF OpenChannel
<1> HIDE DEF r, policy, given
<1>7. CASE Set(c, Done(r(i), "NO_PHYSICAL_INTERFACE", {}))
  <2>1. OwnAnswers(r(i), {})
    BY DEF OwnAnswers
  <2> QED BY <1>4, <1>5, <1>6, <1>7, <2>1, DoneType, SetKeeps
<1>8. CASE \E a \in Literals : Set(c, Done(r(i), "SUCCESS", {a}))
  <2>1. PICK a \in Literals : Set(c, Done(r(i), "SUCCESS", {a}))
    BY <1>8
  <2> QED BY <1>4, <1>5, <1>6, <2>1, LiteralOwn, DoneType, SetKeeps
<1>9. CASE ~(policy = "force" /\ i = 0) /\ Set(c, [r(i) EXCEPT !.pc = "lookup"])
  <2> DEFINE d == [r(i) EXCEPT !.pc = "lookup"]
  <2>1. d \in Caller
    BY <1>4, ZenonT(60) DEF Caller
  <2>2. /\ d.pc = "lookup" /\ d.policy = policy /\ d.i = i /\ d.query = i
        /\ d.given = given /\ d.addrs = {} /\ d.found = {}
    BY <1>4, <1>5, ZenonT(60) DEF Caller
  <2>3. Set(c, d)
    BY <1>9
  <2> HIDE DEF d
  <2>4. ForceOK(d) /\ PinOK(d)
    BY <1>3, <1>9, <2>2 DEF ForceOK, PinOK, OwnAnswers, Chosen, Pinned
  <2> QED BY <1>6, <2>1, <2>3, <2>4, SetKeeps
<1> QED BY <1>2, <1>7, <1>8, <1>9

LEMMA ResolveKeeps ==
  ASSUME PathInv, NEW c \in Callers, Resolve(c)
  PROVE  PathInv'
<1> DEFINE r == caller[c]
           k(i) == CacheKey(r.policy, i)
           q(i) == [r EXCEPT !.query = i]
           sorted(i) == [q(i) EXCEPT !.v6 = cache[k(i)].v6]
           next(i) == IF CacheLookup(k(i)) THEN Done(sorted(i), "SUCCESS", cache[k(i)].addrs)
                      ELSE IF r.policy = "os" THEN [q(i) EXCEPT !.pc = "system"]
                      ELSE [q(i) EXCEPT !.pc = "server", !.server = 1]
<1>1. r \in Caller /\ r.pc = "lookup" /\ ForceOK(r) /\ UNCHANGED <<cache, links>>
  BY DEF PathInv, Resolve
<1>2. r.policy \in Policies /\ r.i \in 0..2 /\ r.query \in 0..2 /\ r.given \in BOOLEAN
  BY <1>1, ZenonT(60) DEF Caller
<1>3. CASE \E a \in Literals : Set(c, Done(r, "SUCCESS", {a}))
  <2>1. PICK a \in Literals : Set(c, Done(r, "SUCCESS", {a}))
    BY <1>3
  <2>2. r.policy = "force" => r.query = r.i
    BY <1>1 DEF ForceOK
  <2> HIDE DEF r
  <2> QED BY <1>1, <2>1, <2>2, LiteralOwn, DoneType, SetKeeps
<1>4. CASE \E i \in IF r.policy = "os" \/ r.query # 0 THEN {r.query}
                     ELSE QueryDefaultIfIndex(r.policy) : Set(c, next(i))
  <2>1. PICK i \in IF r.policy = "os" \/ r.query # 0 THEN {r.query}
                   ELSE QueryDefaultIfIndex(r.policy) : Set(c, next(i))
    BY <1>4
  <2>2. i \in 0..2 /\ (r.policy = "force" => i = r.i)
    BY <1>1, <1>2, <2>1, IfIndexType DEF ForceOK, Chosen
  <2>3. q(i) \in Caller
    BY <1>1, <2>2, ZenonT(60) DEF Caller
  <2>4. /\ q(i).pc = "lookup" /\ q(i).policy = r.policy /\ q(i).i = r.i /\ q(i).query = i
        /\ q(i).given = r.given /\ q(i).addrs = r.addrs /\ q(i).found = r.found
    BY <1>1, ZenonT(60) DEF Caller
  <2>5. k(i) \in Keys /\ k(i).policy = r.policy /\ k(i).i = i
    BY <1>2, <2>2 DEF CacheKey, Keys
  <2>6. /\ cache[k(i)] \in Entry
        /\ r.policy = "force" => Pinned(cache[k(i)].addrs, r.i)
    BY <2>2, <2>5 DEF PathInv
  <2>7. cache[k(i)].v6 \in BOOLEAN /\ cache[k(i)].addrs \in SUBSET Addrs
    BY <2>6 DEF Entry
  <2> HIDE DEF q, k, r
  <2>8. sorted(i) \in Caller
    BY <2>3, <2>7, ZenonT(60) DEF Caller
  <2>9. /\ sorted(i).policy = r.policy /\ sorted(i).i = r.i /\ sorted(i).query = i
        /\ sorted(i).given = r.given
    BY <2>3, <2>4, ZenonT(60) DEF Caller
  <2>10. next(i) \in Caller /\ ForceOK(next(i)) /\ PinOK(next(i))
    <3>1. CASE CacheLookup(k(i))
      <4>1. next(i) = Done(sorted(i), "SUCCESS", cache[k(i)].addrs)
        BY <3>1
      <4> HIDE DEF sorted, next
      <4>2. r.policy = "force" => Chosen(r)
        BY <1>1 DEF ForceOK
      <4>3. sorted(i).policy = "force" =>
              sorted(i).query = sorted(i).i /\ OwnAnswers(sorted(i), cache[k(i)].addrs)
        BY <2>2, <2>6, <2>9, <4>2 DEF OwnAnswers, Chosen, Pinned
      <4> QED BY <2>7, <2>8, <4>1, <4>3, DoneType
    <3>2. CASE ~CacheLookup(k(i)) /\ r.policy = "os"
      <4> DEFINE d == [q(i) EXCEPT !.pc = "system"]
      <4>1. next(i) = d
        BY <3>2
      <4>2. d \in Caller
        BY <2>3, ZenonT(60) DEF Caller
      <4>3. d.pc = "system" /\ d.policy = "os"
        BY <2>3, <2>4, <3>2, ZenonT(60) DEF Caller
      <4> HIDE DEF d, next
      <4> QED BY <4>1, <4>2, <4>3 DEF ForceOK, PinOK
    <3>3. CASE ~CacheLookup(k(i)) /\ r.policy # "os"
      <4> DEFINE d == [q(i) EXCEPT !.pc = "server", !.server = 1]
      <4>1. next(i) = d
        BY <3>3
      <4>2. d \in Caller
        <5> 1 \in Nat
          OBVIOUS
        <5> QED BY <2>3, ZenonT(60) DEF Caller
      <4>3. /\ d.pc = "server" /\ d.policy = r.policy /\ d.i = r.i /\ d.query = i
            /\ d.given = r.given /\ d.addrs = r.addrs /\ d.found = r.found
        BY <2>3, <2>4, ZenonT(60) DEF Caller
      <4> HIDE DEF d, next
      <4> QED BY <1>1, <2>2, <4>1, <4>2, <4>3 DEF ForceOK, PinOK, OwnAnswers, Chosen, Pinned
    <3> QED BY <3>1, <3>2, <3>3
  <2> HIDE DEF next
  <2> QED BY <1>1, <2>1, <2>10, SetKeeps
<1> QED
  BY <1>1, <1>3, <1>4, Zenon DEF Resolve

(* What the system's resolver finds reaches no force-physical caller. *)
LEMMA ResolveViaSystemKeeps ==
  ASSUME PathInv, NEW c \in Callers, ResolveViaSystem(c)
  PROVE  PathInv'
<1> DEFINE r == caller[c]
           Found(kind, fams) ==
             {[fam |-> f, kind |-> kind, how |-> "system", i |-> 0] : f \in fams}
<1>1. r \in Caller /\ r.pc = "system" /\ ForceOK(r)
  BY DEF PathInv, ResolveViaSystem
<1>2. r.policy # "force" /\ r.policy \in Policies /\ r.query \in 0..2
  BY <1>1 DEF ForceOK, Caller
<1>3. UNCHANGED links
  BY DEF ResolveViaSystem
<1>4. CASE Set(c, Done(r, "DNS_FAILED", {})) /\ UNCHANGED cache
  BY <1>1, <1>2, <1>3, <1>4, DoneType, SetKeeps
<1>5. CASE \E kind \in Answer("system", 0), fams \in SUBSET Families \ {{}} :
             LET found == Found(kind, fams) IN
             /\ Set(c, Done(r, "SUCCESS", found))
             /\ IF StoresSystem(r) THEN CacheStore(CacheKey(r.policy, r.query), r, found, TtlMax)
                ELSE UNCHANGED cache
  <2>1. PICK kind \in Answer("system", 0), fams \in SUBSET Families \ {{}} :
             /\ Set(c, Done(r, "SUCCESS", Found(kind, fams)))
             /\ IF StoresSystem(r)
                THEN CacheStore(CacheKey(r.policy, r.query), r,
                                Found(kind, fams), TtlMax)
                ELSE UNCHANGED cache
    BY <1>5
  <2> DEFINE found == Found(kind, fams)
  <2>2. found \in SUBSET Addrs
    BY DEF Addrs, Ways, Answer
  <2> HIDE DEF found, r
  <2>3. /\ Done(r, "SUCCESS", found) \in Caller
        /\ ForceOK(Done(r, "SUCCESS", found)) /\ PinOK(Done(r, "SUCCESS", found))
    BY <1>1, <1>2, <2>2, DoneType
  <2>4. UNCHANGED cache \/ (/\ cache' \in [Keys -> Entry]
                            /\ \A k \in Keys : k.policy = "force" => Pinned(cache'[k].addrs, k.i))
    BY <1>1, <1>2, <2>1, <2>2, StoreKeeps, PathAssumption DEF found
  <2>5. Set(c, Done(r, "SUCCESS", found))
    BY <2>1 DEF found
  <2> QED
    BY <1>3, <2>3, <2>4, <2>5, SetKeeps
<1> QED
  BY <1>4, <1>5 DEF ResolveViaSystem

LEMMA AskServerKeeps ==
  ASSUME PathInv, NEW c \in Callers, AskServer(c)
  PROVE  PathInv'
<1> DEFINE r == caller[c]
           queried(p, sent) == [r EXCEPT !.pc = "wait", !.pin = p.how, !.got = Families \ sent,
                                         !.found = {}, !.left = Timeout, !.armed = FALSE,
                                         !.grace = 0]
<1>1. r \in Caller /\ r.pc = "server" /\ ForceOK(r) /\ UNCHANGED <<cache, links>>
  BY DEF PathInv, AskServer
<1>2. CASE Set(c, NextServer(r))
  BY <1>1, <1>2, NextServerType, SetKeeps
<1>3. CASE \E p \in PinResults(r.policy, r.query), sent \in SUBSET Families :
             Set(c, IF ~PinIsGood(r, p) THEN UdpFailed(r) ELSE queried(p, sent))
  <2>1. PICK p \in PinResults(r.policy, r.query), sent \in SUBSET Families :
          Set(c, IF ~PinIsGood(r, p) THEN UdpFailed(r) ELSE queried(p, sent))
    BY <1>3
  <2>2. queried(p, sent) \in Caller
    <3> 0 \in Int /\ Timeout \in Int /\ p.how \in Ways
      BY PathAssumption DEF PinResults, Ways
    <3> QED BY <1>1, ZenonT(60) DEF Caller
  <2>3. /\ queried(p, sent).pc = "wait" /\ queried(p, sent).policy = r.policy
        /\ queried(p, sent).i = r.i /\ queried(p, sent).query = r.query
        /\ queried(p, sent).given = r.given /\ queried(p, sent).pin = p.how
        /\ queried(p, sent).addrs = r.addrs /\ queried(p, sent).found = {}
    BY <1>1, ZenonT(60) DEF Caller
  <2>4. PinIsGood(r, p) /\ r.policy = "force" => p.how \in {"device", "option"}
    BY DEF PinIsGood, PinResults
  <2> HIDE DEF queried
  <2>5. PinIsGood(r, p) => ForceOK(queried(p, sent)) /\ PinOK(queried(p, sent))
    BY <1>1, <2>3, <2>4 DEF ForceOK, PinOK, OwnAnswers, Chosen, Pinned
  <2> HIDE DEF r
  <2> QED
    BY <1>1, <2>1, <2>2, <2>5, UdpFailedType, SetKeeps
<1> QED
  BY <1>2, <1>3 DEF AskServer

LEMMA ArmKeeps ==
  ASSUME NEW r \in Caller, ForceOK(r), r.pc = "wait"
  PROVE  Arm(r) \in Caller /\ ForceOK(Arm(r)) /\ PinOK(Arm(r))
<1>1. CASE r.found # {} /\ ~r.armed
  <2> DEFINE d == [r EXCEPT !.armed = TRUE, !.grace = Grace]
  <2>1. d \in Caller
    <3> Grace \in Int
      BY PathAssumption
    <3> QED BY ZenonT(60) DEF Caller
  <2>2. /\ d.pc = "wait" /\ d.policy = r.policy /\ d.i = r.i /\ d.query = r.query
        /\ d.given = r.given /\ d.pin = r.pin /\ d.addrs = r.addrs /\ d.found = r.found
    BY ZenonT(60) DEF Caller
  <2>3. Arm(r) = d
    BY <1>1 DEF Arm
  <2> HIDE DEF d
  <2> QED
    BY <2>1, <2>2, <2>3 DEF ForceOK, PinOK, OwnAnswers, Chosen, Pinned
<1>2. CASE ~(r.found # {} /\ ~r.armed)
  BY <1>2 DEF Arm, PinOK
<1> QED BY <1>1, <1>2

(* What an answer to a pinned query can hold. *)
LEMMA ParsedPinned ==
  ASSUME NEW r \in Caller, NEW found \in ParseResponse(r)
  PROVE  /\ found \in SUBSET Addrs
         /\ r.pin \in {"device", "option"} /\ r.query # 0 => Pinned(found, r.query)
<1>1. r.pin \in Ways /\ r.query \in 0..2
  BY ZenonT(60) DEF Caller
<1>2. CASE found = {}
  BY <1>2 DEF Pinned
<1>3. CASE found # {}
  <2>1. PICK f \in Families, kind \in Answer(r.pin, r.query) :
          found = {[fam |-> f, kind |-> kind, how |-> r.pin, i |-> r.query]}
    BY <1>3 DEF ParseResponse
  <2>2. kind \in {"real", "fake"}
    BY DEF Answer
  <2>3. r.pin = "device" /\ r.query # 0 /\ kind = "fake" => r.query = 2
    BY <1>1 DEF Answer, LeavesBy
  <2> QED
    BY <1>1, <2>1, <2>2, <2>3 DEF Addrs, Pinned
<1> QED BY <1>2, <1>3

LEMMA OnDatagramKeeps ==
  ASSUME PathInv, NEW c \in Callers, OnDatagram(c)
  PROVE  PathInv'
<1> DEFINE r == caller[c]
           answered(f, found) == [r EXCEPT !.got = @ \cup {f}, !.found = @ \cup found]
<1>1. r \in Caller /\ r.pc = "wait" /\ ForceOK(r) /\ UNCHANGED <<cache, links>>
  BY DEF PathInv, OnDatagram
<1>2. CASE Set(c, Arm(r))
  BY <1>1, <1>2, ArmKeeps, SetKeeps
<1>3. CASE \E f \in Families \ r.got, found \in ParseResponse(r) :
             Set(c, Arm(answered(f, found)))
  <2>1. PICK f \in Families \ r.got, found \in ParseResponse(r) :
          Set(c, Arm(answered(f, found)))
    BY <1>3
  <2>2. found \in SUBSET Addrs /\ (r.policy = "force" => Pinned(found, r.i))
    BY <1>1, ParsedPinned DEF ForceOK, Chosen
  <2>3. answered(f, found) \in Caller
    <3> r.got \cup {f} \in SUBSET Families /\ r.found \cup found \in SUBSET Addrs
      BY <1>1, <2>2 DEF Caller
    <3> QED BY <1>1, ZenonT(60) DEF Caller
  <2>4. /\ answered(f, found).pc = "wait" /\ answered(f, found).policy = r.policy
        /\ answered(f, found).i = r.i /\ answered(f, found).query = r.query
        /\ answered(f, found).given = r.given /\ answered(f, found).pin = r.pin
        /\ answered(f, found).addrs = r.addrs /\ answered(f, found).found = r.found \cup found
    BY <1>1, ZenonT(60) DEF Caller
  <2> HIDE DEF answered
  <2>5. ForceOK(answered(f, found))
    BY <1>1, <2>2, <2>4 DEF ForceOK, OwnAnswers, Chosen, Pinned
  <2> QED
    BY <1>1, <2>1, <2>3, <2>4, <2>5, ArmKeeps, SetKeeps
<1> QED
  BY <1>2, <1>3 DEF OnDatagram

LEMMA StopWaitingKeeps ==
  ASSUME PathInv, NEW c \in Callers, StopWaiting(c)
  PROVE  PathInv'
<1> DEFINE r == caller[c]
<1>1. r \in Caller /\ r.pc = "wait" /\ ForceOK(r) /\ UNCHANGED links
  BY DEF PathInv, StopWaiting
<1>2. CASE r.found = {}
  BY <1>1, <1>2, NextServerType, SetKeeps DEF StopWaiting
<1>3. CASE r.found # {}
  <2>1. Set(c, Done(r, "SUCCESS", r.found))
    BY <1>3 DEF StopWaiting
  <2>2. PICK ttl \in {0, TtlMax} : CacheStore(CacheKey(r.policy, r.query), r, r.found, ttl)
    BY <1>3 DEF StopWaiting
  <2>3. /\ r.found \in SUBSET Addrs /\ r.policy \in Policies /\ r.query \in 0..2
        /\ r.policy = "force" => r.query = r.i /\ OwnAnswers(r, r.found) /\ Pinned(r.found, r.query)
    BY <1>1 DEF Caller, ForceOK, OwnAnswers
  <2>4. ttl \in Nat
    BY PathAssumption
  <2> HIDE DEF r
  <2>5. /\ cache' \in [Keys -> Entry]
        /\ \A k \in Keys : k.policy = "force" => Pinned(cache'[k].addrs, k.i)
    BY <1>1, <2>2, <2>3, <2>4, StoreKeeps
  <2>6. /\ Done(r, "SUCCESS", r.found) \in Caller
        /\ ForceOK(Done(r, "SUCCESS", r.found)) /\ PinOK(Done(r, "SUCCESS", r.found))
    BY <1>1, <2>3, DoneType
  <2> QED
    BY <1>1, <2>1, <2>5, <2>6, SetKeeps
<1> QED
  BY <1>2, <1>3

-----------------------------------------------------------------------------
(* Unless the policy is force-physical, a pin is kept towards an address   *)
(* only the VPN reaches if the route to it leaves through that interface,  *)
(* which it does not while the VPN is up.                                  *)
LEMMA ConnectKeeps ==
  ASSUME PathInv, NEW c \in Callers, Connect(c)
  PROVE  PathInv'
<1> DEFINE r == caller[c]
           Over == [Idle EXCEPT !.pc = "done", !.policy = r.policy]
           Bind(a, i) == [Over EXCEPT !.result = "SUCCESS", !.peer = a.kind, !.bound = i,
                                      !.seen = links.up]
           Refuse(error) == [Over EXCEPT !.result = error]
           next(a, scoped, global, p) ==
             IF r.policy = "force" /\ scoped \notin {Unknown, r.i}
             THEN Refuse("ROUTE_MISMATCH")
             ELSE IF r.i = 0 \/ ~PinRecheck(r.policy, r.i, scoped, global, PeerClass(a))
                  THEN Bind(a, 0)
             ELSE IF p.result = "OK" THEN Bind(a, r.i)
             ELSE IF r.policy = "force" THEN Refuse("PIN_FAILED") ELSE Bind(a, 0)
<1>1. r \in Caller /\ r.pc = "resolved" /\ ForceOK(r) /\ UNCHANGED <<cache, links>>
  BY DEF PathInv, Connect
<1>2. PICK a \in FirstAddr(r), scoped \in RouteLookup(r.i), global \in GlobalLookup,
           p \in PinResults(r.policy, r.i) : Set(c, next(a, scoped, global, p))
  BY DEF Connect
<1>3. a \in Addrs
  BY <1>1 DEF FirstAddr, Caller
<1>4. Over \in Caller /\ Over.pc = "done" /\ Over.policy = r.policy /\ Over.peer = "none"
      /\ Over.addrs = {} /\ Over.found = {} /\ Over.query = Over.i
  <2>1. r.policy \in Policies
    BY <1>1 DEF Caller
  <2>2. Over \in Caller
    BY <2>1, IdleType, ZenonT(60) DEF Caller
  <2> QED BY <2>2, ZenonT(60) DEF Idle
<1>5. ASSUME NEW error \in {"PIN_FAILED", "ROUTE_MISMATCH"}
      PROVE  Refuse(error) \in Caller /\ ForceOK(Refuse(error)) /\ PinOK(Refuse(error))
  <2> HIDE DEF Over
  <2>1. Refuse(error) \in Caller
    BY <1>4, ZenonT(60) DEF Caller
  <2>2. /\ Refuse(error).pc = "done" /\ Refuse(error).policy = r.policy
        /\ Refuse(error).query = Refuse(error).i /\ Refuse(error).peer = "none"
        /\ Refuse(error).addrs = {} /\ Refuse(error).found = {}
    BY <1>4, ZenonT(60) DEF Caller
  <2> HIDE DEF Refuse
  <2> QED BY <2>1, <2>2 DEF ForceOK, PinOK, OwnAnswers, Pinned
<1>6. ASSUME NEW i \in 0..2,
             r.policy # "force" /\ i = 1 /\ a.kind = "fake" => 2 \notin links.up
      PROVE  Bind(a, i) \in Caller /\ ForceOK(Bind(a, i)) /\ PinOK(Bind(a, i))
  <2> HIDE DEF Over
  <2>1. a.kind \in {"none", "real", "fake"} /\ links.up \in SUBSET {1, 2}
    BY <1>3 DEF Addrs, PathInv
  <2>2. Bind(a, i) \in Caller
    BY <1>4, <2>1, ZenonT(60) DEF Caller
  <2>3. /\ Bind(a, i).pc = "done" /\ Bind(a, i).policy = r.policy
        /\ Bind(a, i).addrs = {} /\ Bind(a, i).found = {} /\ Bind(a, i).peer = a.kind
        /\ Bind(a, i).bound = i /\ Bind(a, i).seen = links.up
        /\ Bind(a, i).query = Bind(a, i).i
    BY <1>4, ZenonT(60) DEF Caller
  <2> HIDE DEF Bind
  <2> QED BY <1>6, <2>2, <2>3 DEF ForceOK, PinOK, OwnAnswers, Pinned
<1>7. ASSUME PinRecheck(r.policy, r.i, scoped, global, PeerClass(a)), r.policy # "force",
             r.i = 1, a.kind = "fake"
      PROVE  2 \notin links.up
  <2>1. PeerClass(a) # {}
    BY <1>7 DEF PeerClass
  <2>2. global = 1
    BY <1>7, <2>1 DEF PinRecheck
  <2> QED
    BY <2>2 DEF GlobalLookup, Unknown
<1>8. r.i \in 0..2
  BY <1>1 DEF Caller
<1> HIDE DEF r, Refuse, Bind
<1>9. /\ next(a, scoped, global, p) \in Caller
      /\ ForceOK(next(a, scoped, global, p)) /\ PinOK(next(a, scoped, global, p))
  BY <1>5, <1>6, <1>7, <1>8
<1> HIDE DEF next
<1> QED
  BY <1>1, <1>2, <1>9, SetKeeps

-----------------------------------------------------------------------------
LEMMA TickKeeps ==
  ASSUME PathInv, Tick
  PROVE  PathInv'
<1> DEFINE waited(r) == [r EXCEPT !.left = @ - 1, !.grace = IF r.armed THEN @ - 1 ELSE @]
           aged(e) == [e EXCEPT !.ttl = Dec(@), !.v6 = IF e.ttl <= 1 THEN FALSE ELSE @,
                                !.addrs = IF e.ttl <= 1 THEN {} ELSE @]
<1>1. ASSUME NEW r \in Caller
      PROVE  /\ waited(r) \in Caller /\ waited(r).pc = r.pc /\ waited(r).policy = r.policy
             /\ waited(r).i = r.i /\ waited(r).query = r.query
             /\ waited(r).given = r.given /\ waited(r).pin = r.pin
             /\ waited(r).addrs = r.addrs /\ waited(r).found = r.found
             /\ waited(r).peer = r.peer /\ waited(r).bound = r.bound
             /\ waited(r).seen = r.seen
  <2>1. /\ r.left - 1 \in Int
        /\ (IF r.armed THEN r.grace - 1 ELSE r.grace) \in Int
    BY DEF Caller
  <2>2. waited(r) \in Caller
    BY <2>1, ZenonT(60) DEF Caller
  <2>3. /\ waited(r).pc = r.pc /\ waited(r).policy = r.policy
        /\ waited(r).i = r.i /\ waited(r).query = r.query
        /\ waited(r).given = r.given /\ waited(r).pin = r.pin
        /\ waited(r).addrs = r.addrs /\ waited(r).found = r.found
        /\ waited(r).peer = r.peer /\ waited(r).bound = r.bound
        /\ waited(r).seen = r.seen
    BY ZenonT(60) DEF Caller
  <2> QED BY <2>2, <2>3
<1>2. ASSUME NEW e \in Entry
      PROVE  aged(e) \in Entry /\ aged(e).addrs \subseteq e.addrs
  <2>1. Dec(e.ttl) \in Nat /\ (IF e.ttl <= 1 THEN {} ELSE e.addrs) \in SUBSET Addrs
    BY DEF Entry, Dec
  <2>3. (IF e.ttl <= 1 THEN FALSE ELSE e.v6) \in BOOLEAN
    BY Zenon DEF Entry
  <2>2. aged(e) \in Entry
    BY <2>1, <2>3, Zenon DEF Entry
  <2> QED BY <2>2 DEF Entry
<1>3. /\ caller' = [c \in Callers |-> IF caller[c].pc # "wait" THEN caller[c]
                                      ELSE waited(caller[c])]
      /\ cache' = [k \in Keys |-> aged(cache[k])] /\ UNCHANGED links
  BY Zenon DEF Tick
<1> HIDE DEF waited, aged
<1>4. \A c \in Callers : caller'[c] \in Caller /\ ForceOK(caller'[c]) /\ PinOK(caller'[c])
  BY <1>1, <1>3 DEF PathInv, ForceOK, PinOK, OwnAnswers, Chosen, Pinned
<1>5. \A k \in Keys : /\ cache'[k] \in Entry
                      /\ k.policy = "force" => Pinned(cache'[k].addrs, k.i)
  BY <1>2, <1>3 DEF PathInv, Pinned
<1> QED
  BY <1>3, <1>4, <1>5 DEF PathInv

LEMMA LinksChangeKeeps ==
  ASSUME PathInv, LinksChange
  PROVE  PathInv'
<1>1. PICK up \in SUBSET {1, 2} : links' = [links EXCEPT !.up = up, !.changes = @ + 1]
  BY DEF LinksChange
<1>2. links \in [up : SUBSET {1, 2}, changes : Nat, os : Platforms]
  BY DEF PathInv
<1>3. links.changes + 1 \in Nat
  BY <1>2
<1>4. links' \in [up : SUBSET {1, 2}, changes : Nat, os : Platforms]
  BY <1>1, <1>2, <1>3, Zenon
<1> QED
  BY <1>4 DEF PathInv, LinksChange

LEMMA InitPathInv == Init => PathInv
<1> SUFFICES ASSUME Init PROVE PathInv
  OBVIOUS
<1>1. caller \in [Callers -> Caller] /\ \A c \in Callers : caller[c] = Idle
  BY IdleType DEF Init
<1>2. ForceOK(Idle) /\ PinOK(Idle)
  BY DEF ForceOK, PinOK, Idle, OwnAnswers, Pinned
<1>3. /\ cache \in [Keys -> Entry] /\ \A k \in Keys : cache[k].addrs = {}
  BY DEF Init, Entry
<1>4. links \in [up : SUBSET {1, 2}, changes : Nat, os : Platforms]
  BY DEF Init
<1> QED
  BY <1>1, <1>2, <1>3, <1>4 DEF PathInv, Pinned

LEMMA NextPathInv ==
  ASSUME PathInv, [Next]_vars
  PROVE  PathInv'
<1>1. CASE UNCHANGED vars
  BY <1>1 DEF vars, PathInv, ForceOK, PinOK, OwnAnswers, Chosen, Pinned, IsPhysical
<1>2. CASE \E c \in Callers :
             \/ \E cfg \in Configs : OpenChannel(c, cfg)
             \/ Resolve(c) \/ ResolveViaSystem(c) \/ AskServer(c) \/ OnDatagram(c) \/ StopWaiting(c)
             \/ Connect(c)
  BY <1>2, OpenChannelKeeps, ResolveKeeps, ResolveViaSystemKeeps, AskServerKeeps,
     OnDatagramKeeps, StopWaitingKeeps, ConnectKeeps
<1>3. CASE Tick \/ LinksChange
  BY <1>3, TickKeeps, LinksChangeKeeps
<1> QED
  BY <1>1, <1>2, <1>3 DEF Next

(* Under force-physical a lookup returns a literal, or what its own policy *)
(* has found by a query pinned to the interface the connection will use,   *)
(* which is physical or the application's choice; through the cache that   *)
(* DnsResolver.cpp shares between all policies or otherwise, whatever the  *)
(* other callers and the interfaces do.  A VPN's address is among them     *)
(* only where Linux ignored the option that pins, or on the TUN itself.    *)
THEOREM ForceAnswers == Spec => []ForceAnswersAreOwn
<1>1. PathInv /\ [Next]_vars => PathInv'
  BY NextPathInv
<1>2. PathInv => ForceAnswersAreOwn
  BY DEF PathInv, ForceOK, OwnAnswers, Chosen, Pinned, ForceAnswersAreOwn
<1> QED
  BY InitPathInv, <1>1, <1>2, PTL DEF Spec

(* Unless the policy is force-physical, no socket is left bound to the     *)
(* device towards an address that only the VPN reaches, while the VPN is   *)
(* up: the recheck of VpnPolicy.cpp drops the pin whatever the application *)
(* gave and whatever the lookups could find out.                           *)
THEOREM FakePins == Spec => []FakeIsUnpinned
<1>1. PathInv /\ [Next]_vars => PathInv'
  BY NextPathInv
<1>2. PathInv => FakeIsUnpinned
  BY DEF PathInv, PinOK, FakeIsUnpinned
<1> QED
  BY InitPathInv, <1>1, <1>2, PTL DEF Spec

-----------------------------------------------------------------------------
(* Packets on an SMP stream.  The argument is about one sequence: what the *)
(* parser has not read, what is on its way and what waits at the client,   *)
(* one behind the other.  Every step takes bytes off its front, adds bytes *)
(* at its end, or moves bytes within it.                                   *)

(* What the packets from the m-th on look like in w, the bytes the parser  *)
(* has still to read, of whose m-th packet off bytes are read already:     *)
(* packet i begins at S[i], up to the first packet N that lost bytes or,   *)
(* when none did, the end.                                                 *)
FramedBy(w, sizes, drop, state, m, off, N, S) ==
  /\ N \in m .. (Len(sizes) + 1) /\ S \in [m .. N -> Int]
  /\ drop = {} => N = Len(sizes) + 1
  /\ drop # {} => N \in drop /\ \A j \in drop : N <= j
  /\ S[m] = 1 - off
  /\ \A i \in m .. (N - 1) : S[i + 1] = S[i] + HeaderSize + sizes[i]
  /\ \A i \in m .. N : S[i] <= S[N]
  /\ \A i \in m .. (N - 1) : \A q \in 1 .. (HeaderSize + sizes[i]) :
       S[i] + q - 1 \in 1 .. Len(w) => w[S[i] + q - 1] = <<i, q>>
  /\ state # "gone" => S[N] <= Len(w) + 1
  /\ drop = {} => S[N] >= Len(w) + 1

Framed(w, sizes, drop, state, m, off) ==
  \E N \in Int : \E S : FramedBy(w, sizes, drop, state, m, off, N, S)

(* Bytes: the packet, and the position in it. *)
Pairs == Nat \X Nat

(* Packet m is before the first loss. *)
Clean(drop, m) == \A j \in drop : m < j

(* The first d bytes are read, and what is left begins with packet n. *)
LEMMA FramedShift ==
  ASSUME NEW w \in Seq(Pairs), NEW sizes \in Seq(Nat), NEW drop \in SUBSET Nat, NEW state,
         NEW m \in Nat \ {0}, NEW off, NEW N \in Int, NEW S,
         FramedBy(w, sizes, drop, state, m, off, N, S),
         NEW d \in 0 .. Len(w), NEW n \in m .. N, NEW rest \in Int, S[n] = d + 1 - rest
  PROVE  Framed(SubSeq(w, d + 1, Len(w)), sizes, drop, state, n, rest)
<1> DEFINE v == SubSeq(w, d + 1, Len(w))
           T == [i \in n .. N |-> S[i] - d]
<1>1. HeaderSize \in Nat /\ Len(w) \in Nat /\ Len(sizes) \in Nat
      /\ DOMAIN sizes = 1 .. Len(sizes) /\ d \in Nat /\ d <= Len(w)
  BY SMPStreamAssumption
<1>2. N \in m .. (Len(sizes) + 1) /\ S \in [m .. N -> Int]
  BY DEF FramedBy
<1>3. n \in n .. N /\ N \in n .. N /\ N \in n .. (Len(sizes) + 1)
      /\ (\A i \in n .. N : i \in m .. N) /\ \A i \in n .. (N - 1) : i \in m .. (N - 1)
  BY <1>1, <1>2
<1>6. v \in Seq(Pairs) /\ Len(v) = Len(w) - d /\ \A k \in 1 .. Len(v) : v[k] = w[d + k]
  BY <1>1
<1> HIDE DEF v
<1>7. FramedBy(v, sizes, drop, state, n, rest, N, T)
  <2>1. \A i \in n .. N : S[i] \in Int /\ T[i] = S[i] - d /\ T[i] \in Int
    BY <1>1, <1>2, <1>3
  <2>2. T \in [n .. N -> Int]
    BY <2>1
  <2> HIDE DEF T
  <2>3. T[n] = 1 - rest
    <3>1. PICK a \in Int : a = S[n] /\ T[n] = a - d /\ a = d + 1 - rest
      BY <1>3, <2>1
    <3>2. a - d = 1 - rest
      BY <1>1, <3>1
    <3> QED BY <3>1, <3>2
  <2>4. ASSUME NEW i \in n .. (N - 1)
        PROVE  /\ i \in n .. N /\ i + 1 \in n .. N /\ sizes[i] \in Nat
               /\ T[i + 1] = T[i] + HeaderSize + sizes[i]
    <3>1. i \in n .. N /\ i + 1 \in n .. N /\ i \in DOMAIN sizes
      BY <1>1, <1>2, <1>3
    <3>2. S[i + 1] = S[i] + HeaderSize + sizes[i]
      BY <1>3 DEF FramedBy
    <3>3. sizes[i] \in Nat
      BY <3>1
    <3>4. PICK a \in Int, b \in Int, c \in Nat : a = S[i] /\ b = S[i + 1] /\ c = sizes[i]
      BY <2>1, <3>1, <3>3
    <3>5. T[i] = a - d /\ T[i + 1] = b - d /\ b = a + HeaderSize + c
      BY <2>1, <3>1, <3>2, <3>4
    <3>6. b - d = a - d + HeaderSize + c
      BY <1>1, <3>5
    <3> QED BY <3>1, <3>3, <3>4, <3>5, <3>6
  <2>5. ASSUME NEW i \in n .. N PROVE T[i] <= T[N]
    <3>1. PICK a \in Int, b \in Int : a = S[i] /\ b = S[N] /\ T[i] = a - d /\ T[N] = b - d
      BY <1>3, <2>1
    <3>2. a <= b
      BY <1>3, <3>1 DEF FramedBy
    <3> QED BY <1>1, <3>1, <3>2
  <2>6. ASSUME NEW i \in n .. (N - 1), NEW q \in 1 .. (HeaderSize + sizes[i]),
               T[i] + q - 1 \in 1 .. Len(v)
        PROVE  v[T[i] + q - 1] = <<i, q>>
    <3>1. PICK a \in Int, c \in Nat : a = S[i] /\ c = sizes[i] /\ T[i] = a - d
      BY <2>1, <2>4
    <3>2. q \in Int /\ a - d + q - 1 \in Int
      BY <1>1, <3>1
    <3>3. PICK x \in Int : x = a - d + q - 1 /\ x \in 1 .. Len(v)
      BY <2>6, <3>1, <3>2
    <3>4. d + x = a + q - 1 /\ d + x \in 1 .. Len(w)
      BY <1>1, <1>6, <3>2, <3>3
    <3>5. w[a + q - 1] = <<i, q>>
      BY <1>3, <3>1, <3>4 DEF FramedBy
    <3>6. v[x] = w[d + x]
      BY <1>6, <3>3
    <3>7. T[i] + q - 1 = x
      BY <3>1, <3>3
    <3>8. v[x] = <<i, q>>
      BY <3>4, <3>5, <3>6
    <3> QED BY <3>7, <3>8
  <2>7. (state # "gone" => T[N] <= Len(v) + 1) /\ (drop = {} => T[N] >= Len(v) + 1)
    <3>1. PICK a \in Int : a = S[N] /\ T[N] = a - d
      BY <1>3, <2>1
    <3>2. ASSUME state # "gone" PROVE T[N] <= Len(v) + 1
      <4>1. a <= Len(w) + 1
        BY <3>1, <3>2 DEF FramedBy
      <4> QED BY <1>1, <1>6, <3>1, <4>1
    <3>3. ASSUME drop = {} PROVE T[N] >= Len(v) + 1
      <4>1. a >= Len(w) + 1
        BY <3>1, <3>3 DEF FramedBy
      <4> QED BY <1>1, <1>6, <3>1, <4>1
    <3> QED BY <3>2, <3>3
  <2> QED BY <1>3, <2>2, <2>3, <2>4, <2>5, <2>6, <2>7 DEF FramedBy
<1> QED BY <1>7 DEF v, Framed

(* The header of packet m is what the parser reads where it expects it. *)
LEMMA FramedHead ==
  ASSUME NEW w \in Seq(Pairs), NEW sizes \in Seq(Nat), NEW drop \in SUBSET Nat, NEW state,
         NEW m \in Nat \ {0}, Framed(w, sizes, drop, state, m, 0), Clean(drop, m),
         HeaderSize <= Len(w)
  PROVE  /\ m \in DOMAIN sizes /\ \A k \in 1 .. HeaderSize : w[k] = <<m, k>>
         /\ Framed(SubSeq(w, HeaderSize + 1, Len(w)), sizes, drop, state, m, HeaderSize)
<1>n. PICK N \in Int : \E S : FramedBy(w, sizes, drop, state, m, 0, N, S)
  BY DEF Framed
<1>1. PICK S : FramedBy(w, sizes, drop, state, m, 0, N, S)
  BY <1>n
<1>2. HeaderSize \in Nat /\ HeaderSize # 0 /\ Len(w) \in Nat /\ Len(sizes) \in Nat
      /\ DOMAIN sizes = 1 .. Len(sizes)
  BY SMPStreamAssumption
<1>3. m < N /\ m \in m .. (N - 1) /\ m \in DOMAIN sizes /\ m \in m .. N
  <2>1. N \in m .. (Len(sizes) + 1)
    BY <1>1 DEF FramedBy
  <2>2. CASE drop = {}
    <3>1. S[N] >= Len(w) + 1 /\ S[m] = 1
      BY <1>1, <2>2 DEF FramedBy
    <3>2. N # m
      BY <1>2, <3>1
    <3> QED BY <1>2, <2>1, <3>2
  <2>3. CASE drop # {}
    <3>1. N \in drop
      BY <1>1, <2>3 DEF FramedBy
    <3> QED BY <1>2, <2>1, <3>1 DEF Clean
  <2> QED BY <2>2, <2>3
<1>4. sizes[m] \in Nat /\ S[m] = 1
  BY <1>1, <1>3 DEF FramedBy
<1>5. ASSUME NEW k \in 1 .. HeaderSize PROVE w[k] = <<m, k>>
  <2>1. k \in 1 .. (HeaderSize + sizes[m]) /\ S[m] + k - 1 = k /\ k \in 1 .. Len(w)
    BY <1>2, <1>4
  <2> QED BY <1>1, <1>3, <2>1 DEF FramedBy
<1>6. HeaderSize \in 0 .. Len(w) /\ HeaderSize \in Int /\ S[m] = HeaderSize + 1 - HeaderSize
  BY <1>2, <1>4
<1>7. Framed(SubSeq(w, HeaderSize + 1, Len(w)), sizes, drop, state, m, HeaderSize)
  BY <1>1, <1>3, <1>6, FramedShift
<1> QED BY <1>3, <1>5, <1>7

(* And then its payload. *)
LEMMA FramedBody ==
  ASSUME NEW w \in Seq(Pairs), NEW sizes \in Seq(Nat), NEW drop \in SUBSET Nat, NEW state,
         NEW m \in DOMAIN sizes, Framed(w, sizes, drop, state, m, HeaderSize), Clean(drop, m),
         sizes[m] <= Len(w)
  PROVE  /\ \A k \in 1 .. sizes[m] : w[k] = <<m, HeaderSize + k>>
         /\ Framed(SubSeq(w, sizes[m] + 1, Len(w)), sizes, drop, state, m + 1, 0)
<1>n. PICK N \in Int : \E S : FramedBy(w, sizes, drop, state, m, HeaderSize, N, S)
  BY DEF Framed
<1>1. PICK S : FramedBy(w, sizes, drop, state, m, HeaderSize, N, S)
  BY <1>n
<1>2. HeaderSize \in Nat /\ HeaderSize # 0 /\ Len(w) \in Nat /\ Len(sizes) \in Nat
      /\ DOMAIN sizes = 1 .. Len(sizes) /\ m \in Nat \ {0}
  BY SMPStreamAssumption
<1>3. m < N /\ m \in m .. (N - 1) /\ m \in m .. N /\ m + 1 \in m .. N
  <2>1. N \in m .. (Len(sizes) + 1)
    BY <1>1 DEF FramedBy
  <2>2. CASE drop = {}
    BY <1>1, <1>2, <2>1, <2>2 DEF FramedBy
  <2>3. CASE drop # {}
    <3>1. N \in drop
      BY <1>1, <2>3 DEF FramedBy
    <3> QED BY <1>2, <2>1, <3>1 DEF Clean
  <2> QED BY <2>2, <2>3
<1>4. PICK z \in Nat : z = sizes[m]
  OBVIOUS
<1>5. PICK a \in Int : a = S[m] /\ a = 1 - HeaderSize /\ S[m + 1] = a + HeaderSize + z
  <2>1. 1 - HeaderSize \in Int
    BY <1>2
  <2>2. S[m] = 1 - HeaderSize /\ S[m + 1] = S[m] + HeaderSize + sizes[m]
    BY <1>1, <1>3 DEF FramedBy
  <2> QED BY <1>4, <2>1, <2>2
<1>6. ASSUME NEW k \in 1 .. z PROVE w[k] = <<m, HeaderSize + k>>
  <2>1. PICK q \in Int : q = HeaderSize + k
    BY <1>2
  <2>2. q \in 1 .. (HeaderSize + z) /\ a + q - 1 = k /\ k \in 1 .. Len(w)
    BY <1>2, <1>4, <1>5, <2>1
  <2> QED BY <1>1, <1>3, <1>4, <1>5, <2>1, <2>2 DEF FramedBy
<1>7. z \in 0 .. Len(w) /\ 0 \in Int /\ S[m + 1] = z + 1 - 0
  BY <1>2, <1>4, <1>5
<1>8. Framed(SubSeq(w, z + 1, Len(w)), sizes, drop, state, m + 1, 0)
  BY <1>1, <1>2, <1>3, <1>7, FramedShift
<1> QED BY <1>4, <1>6, <1>8

LEMMA JoinedAt ==
  ASSUME NEW S, NEW s \in Seq(S), NEW t \in Seq(S)
  PROVE  /\ s \o t \in Seq(S) /\ Len(s \o t) = Len(s) + Len(t)
         /\ \A k \in 1 .. Len(s) : (s \o t)[k] = s[k]
         /\ \A k \in 1 .. Len(t) : (s \o t)[Len(s) + k] = t[k]
<1>1. /\ s \o t \in Seq(S) /\ Len(s \o t) = Len(s) + Len(t)
      /\ \A k \in 1 .. Len(s) + Len(t) : (s \o t)[k] = IF k <= Len(s) THEN s[k] ELSE t[k - Len(s)]
  BY ConcatProperties
<1> DEFINE u == s \o t
<1> HIDE DEF u
<1>2. ASSUME NEW k \in 1 .. Len(s) PROVE u[k] = s[k]
  <2>1. k \in 1 .. Len(s) + Len(t) /\ k <= Len(s)
    OBVIOUS
  <2> QED BY <1>1, <2>1 DEF u
<1>3. ASSUME NEW k \in 1 .. Len(t) PROVE u[Len(s) + k] = t[k]
  <2>1. PICK x \in Int : x = Len(s) + k
    OBVIOUS
  <2>2. x \in 1 .. Len(s) + Len(t) /\ ~(x <= Len(s)) /\ x - Len(s) = k
    BY <2>1
  <2>3. u[x] = t[x - Len(s)]
    BY <1>1, <2>2 DEF u
  <2> QED BY <2>1, <2>2, <2>3
<1> QED BY <1>1, <1>2, <1>3 DEF u

(* A packet joins the end, whole. *)
LEMMA FramedAppend ==
  ASSUME NEW w \in Seq(Pairs), NEW sizes \in Seq(Nat), NEW m \in Nat \ {0}, NEW off \in Int,
         NEW size \in Nat, NEW state, state # "gone", Framed(w, sizes, {}, state, m, off)
  PROVE  Framed(w \o Packed(Len(sizes) + 1, size), Append(sizes, size), {}, state, m, off)
<1>n. PICK N \in Int : \E S : FramedBy(w, sizes, {}, state, m, off, N, S)
  BY DEF Framed
<1>1. PICK S : FramedBy(w, sizes, {}, state, m, off, N, S)
  BY <1>n
<1>2. HeaderSize \in Nat /\ Len(w) \in Nat /\ Len(sizes) \in Nat /\ HeaderSize + size \in Nat
      /\ DOMAIN sizes = 1 .. Len(sizes)
  BY SMPStreamAssumption
<1> DEFINE z == HeaderSize + size
           p == Packed(Len(sizes) + 1, size)
           v == w \o p
           t == Append(sizes, size)
           T == [i \in m .. (N + 1) |-> IF i = N + 1 THEN Len(w) + 1 + z ELSE S[i]]
<1>3. p \in Seq(Pairs) /\ Len(p) = z /\ \A k \in 1 .. z : p[k] = <<Len(sizes) + 1, k>>
  <2>1. p = [k \in 1 .. z |-> <<Len(sizes) + 1, k>>]
    BY DEF Packed
  <2>2. \A k \in 1 .. z : <<Len(sizes) + 1, k>> \in Pairs
    BY <1>2 DEF Pairs
  <2>3. p \in [1 .. z -> Pairs]
    BY <2>1, <2>2
  <2> HIDE DEF p
  <2> QED BY <1>2, <2>1, <2>3
<1> HIDE DEF p
<1>4. v \in Seq(Pairs) /\ Len(v) = Len(w) + z
      /\ (\A k \in 1 .. Len(w) : v[k] = w[k]) /\ \A k \in 1 .. z : v[Len(w) + k] = p[k]
  <2> HIDE DEF z
  <2>1. /\ v \in Seq(Pairs) /\ Len(v) = Len(w) + Len(p)
        /\ \A k \in 1 .. Len(w) : v[k] = w[k]
        /\ \A k \in 1 .. Len(p) : v[Len(w) + k] = p[k]
    <3>1. p \in Seq(Pairs)
      BY <1>3
    <3> QED BY <3>1, JoinedAt
  <2> QED BY <1>3, <2>1, Zenon
<1>5. t \in Seq(Nat) /\ Len(t) = Len(sizes) + 1 /\ t[Len(sizes) + 1] = size
      /\ \A i \in DOMAIN sizes : t[i] = sizes[i]
  OBVIOUS
<1>6. N = Len(sizes) + 1 /\ N \in m .. N /\ S \in [m .. N -> Int] /\ S[N] = Len(w) + 1
  <2>1. N = Len(sizes) + 1 /\ N \in m .. (Len(sizes) + 1) /\ S \in [m .. N -> Int]
        /\ S[N] <= Len(w) + 1 /\ S[N] >= Len(w) + 1
    BY <1>1 DEF FramedBy
  <2>2. N \in m .. N
    BY <2>1
  <2>3. PICK a \in Int : a = S[N] /\ a <= Len(w) + 1 /\ a >= Len(w) + 1
    BY <2>1, <2>2
  <2>4. a = Len(w) + 1
    BY <1>2, <2>3
  <2> QED BY <2>1, <2>2, <2>3, <2>4
<1> HIDE DEF v, t, z
<1>7. FramedBy(v, t, {}, state, m, off, N + 1, T)
  <2>0. z \in Nat /\ z = HeaderSize + size
    BY <1>2 DEF z
  <2>1. /\ N + 1 \in m .. (Len(t) + 1) /\ N + 1 = Len(t) + 1 /\ (N + 1) - 1 = N /\ m \in m .. N
        /\ \A i \in m .. N : i \in m .. (N + 1) /\ i # N + 1
    BY <1>2, <1>5, <1>6
  <2>2. T \in [m .. (N + 1) -> Int] /\ T[N + 1] = Len(w) + 1 + z /\ \A i \in m .. N : T[i] = S[i]
    <3>1. Len(w) + 1 + z \in Int
      BY <1>2, <2>0
    <3>2. N + 1 \in m .. (N + 1)
      BY <1>6
    <3> QED BY <1>6, <2>1, <3>1, <3>2
  <2> HIDE DEF T
  <2>3. T[m] = 1 - off
    BY <1>1, <2>1, <2>2 DEF FramedBy
  <2>4. \A i \in m .. (N - 1) : /\ i \in m .. N /\ i + 1 \in m .. N /\ i \in DOMAIN sizes
                               /\ i # N
    BY <1>2, <1>6
  <2>5. ASSUME NEW i \in m .. N PROVE T[i + 1] = T[i] + HeaderSize + t[i]
    <3>1. CASE i = N
      <4>1. T[i + 1] = Len(w) + 1 + z /\ T[i] = Len(w) + 1 /\ t[i] = size
        BY <1>5, <1>6, <2>2, <3>1
      <4> QED BY <1>2, <2>0, <4>1
    <3>2. CASE i # N
      <4>1. i \in m .. (N - 1)
        BY <1>6, <3>2
      <4>2. S[i + 1] = S[i] + HeaderSize + sizes[i]
        BY <1>1, <4>1 DEF FramedBy
      <4> QED BY <1>5, <2>2, <2>4, <4>1, <4>2
    <3> QED BY <3>1, <3>2
  <2>6. ASSUME NEW i \in m .. (N + 1) PROVE T[i] <= T[N + 1]
    <3>1. CASE i = N + 1
      BY <1>2, <2>0, <2>2, <3>1
    <3>2. CASE i # N + 1
      <4>1. i \in m .. N
        BY <1>6, <3>2
      <4>2. PICK a \in Int : a = S[i] /\ T[i] = a
        BY <1>6, <2>2, <4>1
      <4>3. a <= Len(w) + 1
        BY <1>1, <1>6, <4>1, <4>2 DEF FramedBy
      <4> QED BY <1>2, <2>0, <2>2, <4>2, <4>3
    <3> QED BY <3>1, <3>2
  <2>7. ASSUME NEW i \in m .. N, NEW q \in 1 .. (HeaderSize + t[i]),
               T[i] + q - 1 \in 1 .. Len(v)
        PROVE  v[T[i] + q - 1] = <<i, q>>
    <3>1. CASE i = N
      <4>1. T[i] = Len(w) + 1 /\ t[i] = size
        BY <1>5, <1>6, <2>2, <3>1
      <4>2. q \in 1 .. z /\ T[i] + q - 1 = Len(w) + q
        BY <1>2, <2>0, <4>1
      <4> QED BY <1>3, <1>4, <1>6, <3>1, <4>2
    <3>2. CASE i # N
      <4>1. i \in m .. (N - 1)
        BY <1>6, <3>2
      <4>2. T[i] = S[i] /\ t[i] = sizes[i] /\ i + 1 \in m .. N
        BY <1>5, <2>2, <2>4, <4>1
      <4>0. S[i] \in Int /\ sizes[i] \in Nat
        <5>1. i \in DOMAIN sizes /\ i \in m .. N
          BY <2>4, <4>1
        <5>2. sizes[i] \in Nat
          BY <5>1
        <5> QED BY <1>6, <5>1, <5>2
      <4>3. PICK a \in Int, c \in Nat : a = S[i] /\ c = sizes[i]
        BY <4>0
      <4>4. a + HeaderSize + c <= Len(w) + 1
        <5>1. S[i + 1] = a + HeaderSize + c /\ S[i + 1] <= S[N]
          BY <1>1, <4>1, <4>2, <4>3 DEF FramedBy
        <5> QED BY <1>6, <5>1
      <4>5. q \in Int /\ q <= HeaderSize + c /\ a + q - 1 >= 1
        <5>1. t[i] = c /\ T[i] = a
          BY <4>2, <4>3
        <5>2. q \in Int /\ q <= HeaderSize + c
          BY <1>2, <5>1
        <5>3. a + q - 1 \in 1 .. Len(v)
          BY <2>7, <5>1
        <5> QED BY <1>4, <5>2, <5>3
      <4>6. a + q - 1 \in 1 .. Len(w)
        BY <1>2, <4>4, <4>5
      <4>7. w[a + q - 1] = <<i, q>>
        BY <1>1, <4>1, <4>2, <4>3, <4>6 DEF FramedBy
      <4> QED BY <1>4, <4>2, <4>3, <4>6, <4>7
    <3> QED BY <3>1, <3>2
  <2>8. T[N + 1] <= Len(v) + 1 /\ T[N + 1] >= Len(v) + 1
    BY <1>2, <1>4, <2>0, <2>2
  <2> QED BY <2>1, <2>2, <2>3, <2>5, <2>6, <2>7, <2>8 DEF FramedBy
<1>8. N + 1 \in Int
  OBVIOUS
<1> QED BY <1>7, <1>8 DEF Framed, v, t, p

(* A packet whose bytes were dropped in part, or one behind such a packet:  *)
(* whatever joins the bytes is behind the last packet that is whole.       *)
LEMMA FramedDrop ==
  ASSUME NEW w \in Seq(Pairs), NEW v \in Seq(Pairs), NEW sizes \in Seq(Nat), NEW m \in Nat \ {0},
         NEW off \in Int, NEW size \in Nat, NEW drop \in SUBSET Nat, NEW drop2 \in SUBSET Nat,
         NEW state, state # "gone", Framed(w, sizes, drop, state, m, off), \A j \in drop : j <= Len(sizes),
         Len(w) <= Len(v), \A k \in 1 .. Len(w) : v[k] = w[k],
         drop2 # {}, drop2 = drop \/ drop2 = drop \cup {Len(sizes) + 1}
  PROVE  Framed(v, Append(sizes, size), drop2, state, m, off)
<1>n. PICK N \in Int : \E S : FramedBy(w, sizes, drop, state, m, off, N, S)
  BY DEF Framed
<1>1. PICK S : FramedBy(w, sizes, drop, state, m, off, N, S)
  BY <1>n
<1>2. HeaderSize \in Nat /\ Len(w) \in Nat /\ Len(v) \in Nat /\ Len(sizes) \in Nat
      /\ DOMAIN sizes = 1 .. Len(sizes)
  BY SMPStreamAssumption
<1> DEFINE t == Append(sizes, size)
<1>3. t \in Seq(Nat) /\ Len(t) = Len(sizes) + 1 /\ \A i \in DOMAIN sizes : t[i] = sizes[i]
  OBVIOUS
<1> HIDE DEF t
<1>4. N \in m .. (Len(sizes) + 1) /\ S \in [m .. N -> Int] /\ S[N] <= Len(w) + 1
  BY <1>1 DEF FramedBy
<1>5. N \in m .. (Len(t) + 1) /\ N \in m .. N /\ N <= Len(sizes) + 1
      /\ \A i \in m .. (N - 1) : i \in DOMAIN sizes /\ i \in m .. N /\ i + 1 \in m .. N
  <2>1. PICK l \in Nat : l = Len(sizes) /\ Len(t) = l + 1 /\ DOMAIN sizes = 1 .. l
    BY <1>2, <1>3
  <2>2. N \in m .. (l + 1)
    BY <1>4, <2>1
  <2>3. N \in m .. (l + 1 + 1) /\ N \in m .. N /\ N <= l + 1
    BY <2>2
  <2>4. ASSUME NEW i \in m .. (N - 1) PROVE i \in 1 .. l /\ i \in m .. N /\ i + 1 \in m .. N
    BY <2>2
  <2> QED BY <2>1, <2>3, <2>4
<1>6. N \in drop2 /\ \A j \in drop2 : N <= j
  <2>1. CASE drop = {}
    <3>1. N = Len(sizes) + 1
      BY <1>1, <2>1 DEF FramedBy
    <3>2. drop2 = {N}
      BY <2>1, <3>1
    <3> QED BY <1>2, <3>2
  <2>2. CASE drop # {}
    <3>1. N \in drop /\ \A j \in drop : N <= j
      BY <1>1, <2>2 DEF FramedBy
    <3> QED BY <1>5, <3>1
  <2> QED BY <2>1, <2>2
<1>7. S[N] \in Int /\ S[N] <= Len(v) + 1
  <2>1. PICK a \in Int : a = S[N] /\ a <= Len(w) + 1
    BY <1>4, <1>5
  <2> QED BY <1>2, <2>1
<1>8. ASSUME NEW i \in m .. (N - 1), NEW q \in 1 .. (HeaderSize + t[i]),
             S[i] + q - 1 \in 1 .. Len(v)
      PROVE  v[S[i] + q - 1] = <<i, q>>
  <2>1. t[i] = sizes[i] /\ S[i] \in Int /\ sizes[i] \in Nat
    <3>1. i \in DOMAIN sizes /\ i \in m .. N
      BY <1>5
    <3>2. sizes[i] \in Nat
      BY <3>1
    <3> QED BY <1>3, <1>4, <3>1, <3>2
  <2>2. PICK a \in Int, c \in Nat : a = S[i] /\ c = sizes[i] /\ c = t[i]
    BY <2>1
  <2>3. a + HeaderSize + c <= Len(w) + 1
    <3>1. S[i + 1] = a + HeaderSize + c /\ S[i + 1] <= S[N]
      BY <1>1, <1>5, <2>2 DEF FramedBy
    <3>2. PICK b \in Int : b = S[N] /\ b <= Len(w) + 1
      BY <1>4, <1>7
    <3>3. a + HeaderSize + c <= b
      BY <3>1, <3>2
    <3> QED BY <1>2, <3>2, <3>3
  <2>4. q \in Int /\ q <= HeaderSize + c /\ a + q - 1 \in 1 .. Len(v)
    <3>1. q \in 1 .. (HeaderSize + c) /\ a + q - 1 \in 1 .. Len(v)
      BY <1>8, <2>2
    <3> QED BY <1>2, <3>1
  <2>5. a + q - 1 \in 1 .. Len(w)
    BY <1>2, <2>3, <2>4
  <2>6. w[a + q - 1] = <<i, q>>
    <3>1. q \in 1 .. (HeaderSize + sizes[i])
      BY <1>8, <2>1
    <3> QED BY <1>1, <2>2, <2>5, <3>1 DEF FramedBy
  <2> QED BY <2>2, <2>5, <2>6
<1>9. FramedBy(v, t, drop2, state, m, off, N, S)
  <2>1. S[m] = 1 - off /\ \A i \in m .. N : S[i] <= S[N]
    BY <1>1 DEF FramedBy
  <2>2. ASSUME NEW i \in m .. (N - 1) PROVE S[i + 1] = S[i] + HeaderSize + t[i]
    <3>1. t[i] = sizes[i]
      BY <1>3, <1>5
    <3>2. S[i + 1] = S[i] + HeaderSize + sizes[i]
      BY <1>1 DEF FramedBy
    <3> QED BY <3>1, <3>2
  <2> QED BY <1>4, <1>5, <1>6, <1>7, <1>8, <2>1, <2>2 DEF FramedBy
<1> QED BY <1>9 DEF Framed, t

(* The stream is deleted: no byte that had not arrived will. *)
LEMMA FramedPrefix ==
  ASSUME NEW w \in Seq(Pairs), NEW v \in Seq(Pairs), NEW sizes \in Seq(Nat), NEW m \in Nat \ {0},
         NEW off \in Int, NEW state, Framed(w, sizes, {}, state, m, off),
         Len(v) <= Len(w), \A k \in 1 .. Len(v) : v[k] = w[k]
  PROVE  Framed(v, sizes, {}, "gone", m, off)
<1>n. PICK N \in Int : \E S : FramedBy(w, sizes, {}, state, m, off, N, S)
  BY DEF Framed
<1>1. PICK S : FramedBy(w, sizes, {}, state, m, off, N, S)
  BY <1>n
<1>2. HeaderSize \in Nat /\ Len(w) \in Nat /\ Len(v) \in Nat /\ Len(sizes) \in Nat
  BY SMPStreamAssumption
<1>3. N \in m .. (Len(sizes) + 1) /\ S \in [m .. N -> Int] /\ S[N] >= Len(w) + 1
  BY <1>1 DEF FramedBy
<1>4. S[N] >= Len(v) + 1
  <2>1. N \in m .. N
    BY <1>3
  <2>2. PICK a \in Int : a = S[N] /\ a >= Len(w) + 1
    BY <1>3, <2>1
  <2> QED BY <1>2, <2>2
<1>5. ASSUME NEW i \in m .. (N - 1), NEW q \in 1 .. (HeaderSize + sizes[i]),
             S[i] + q - 1 \in 1 .. Len(v)
      PROVE  v[S[i] + q - 1] = <<i, q>>
  <2>1. S[i] + q - 1 \in 1 .. Len(w)
    <3>1. 1 .. Len(v) \subseteq 1 .. Len(w)
      BY <1>2
    <3> QED BY <1>5, <3>1
  <2> QED BY <1>1, <1>5, <2>1 DEF FramedBy
<1>6. FramedBy(v, sizes, {}, "gone", m, off, N, S)
  BY <1>1, <1>4, <1>5 DEF FramedBy
<1> QED BY <1>6 DEF Framed

(* What is left of a sequence behind its first a elements. *)
From(s, a) == SubSeq(s, a + 1, Len(s))

LEMMA FromIs ==
  ASSUME NEW S, NEW s \in Seq(S), NEW a \in 0 .. Len(s)
  PROVE  /\ From(s, a) \in Seq(S) /\ Len(From(s, a)) = Len(s) - a
         /\ \A k \in 1 .. (Len(s) - a) : From(s, a)[k] = s[a + k]
BY DEF From

LEMMA FromNothing ==
  ASSUME NEW S, NEW s \in Seq(S)
  PROVE  From(s, 0) = s
BY SubSeqFull DEF From

LEMMA Halves ==
  ASSUME NEW S, NEW s \in Seq(S), NEW a \in 0 .. Len(s)
  PROVE  /\ SubSeq(s, 1, a) \in Seq(S) /\ From(s, a) \in Seq(S)
         /\ SubSeq(s, 1, a) \o From(s, a) = s
<1>1. 1 \in 1 .. Len(s) + 1 /\ a \in 1 - 1 .. Len(s) /\ Len(s) \in a .. Len(s)
  OBVIOUS
<1>2. SubSeq(s, 1, a) \o SubSeq(s, a + 1, Len(s)) = SubSeq(s, 1, Len(s))
  BY <1>1, ConcatAdjacentSubSeq
<1>3. SubSeq(s, 1, a) \in Seq(S)
  OBVIOUS
<1> QED BY <1>2, <1>3, SubSeqFull, FromIs DEF From

LEMMA FromFrom ==
  ASSUME NEW S, NEW s \in Seq(S), NEW a \in 0 .. Len(s), NEW b \in 0 .. (Len(s) - a)
  PROVE  From(From(s, a), b) = From(s, a + b)
<1>1. Len(s) \in Nat /\ a + b \in 0 .. Len(s) /\ Len(s) - (a + b) = Len(s) - a - b
  OBVIOUS
<1> DEFINE x == From(s, a)
           y == From(s, a + b)
           z == From(x, b)
<1>2. x \in Seq(S) /\ Len(x) = Len(s) - a /\ \A k \in 1 .. (Len(s) - a) : x[k] = s[a + k]
  BY FromIs
<1>3. y \in Seq(S) /\ Len(y) = Len(s) - (a + b)
      /\ \A k \in 1 .. (Len(s) - (a + b)) : y[k] = s[a + b + k]
  <2>1. PICK c \in 0 .. Len(s) : c = a + b
    BY <1>1
  <2>2. From(s, c) \in Seq(S) /\ Len(From(s, c)) = Len(s) - c
        /\ \A k \in 1 .. (Len(s) - c) : From(s, c)[k] = s[c + k]
    BY FromIs, Zenon
  <2> QED BY <2>1, <2>2, Zenon
<1> HIDE DEF x, y
<1>4. z \in Seq(S) /\ Len(z) = Len(x) - b /\ \A k \in 1 .. (Len(x) - b) : z[k] = x[b + k]
  <2>1. x \in Seq(S) /\ b \in 0 .. Len(x)
    BY <1>2
  <2> QED BY <2>1, FromIs
<1> HIDE DEF z
<1>5. ASSUME NEW k \in 1 .. Len(z) PROVE z[k] = y[k]
  <2>1. k \in 1 .. (Len(x) - b) /\ b + k \in 1 .. (Len(s) - a) /\ k \in 1 .. (Len(s) - (a + b))
        /\ a + (b + k) = a + b + k
    BY <1>1, <1>2, <1>4
  <2>2. z[k] = x[b + k] /\ x[b + k] = s[a + (b + k)] /\ y[k] = s[a + b + k]
    BY <1>2, <1>3, <1>4, <2>1
  <2> QED BY <2>1, <2>2
<1>6. Len(z) = Len(y)
  BY <1>1, <1>2, <1>3, <1>4
<1>7. z = y
  BY <1>3, <1>4, <1>5, <1>6, SeqEqual
<1> QED BY <1>7 DEF x, y, z

LEMMA FromJoined ==
  ASSUME NEW S, NEW s \in Seq(S), NEW t \in Seq(S), NEW a \in 0 .. Len(s)
  PROVE  From(s \o t, a) = From(s, a) \o t
<1> DEFINE u == s \o t
           x == From(u, a)
           f == From(s, a)
           y == f \o t
<1>1. u \in Seq(S) /\ Len(u) = Len(s) + Len(t)
      /\ (\A k \in 1 .. Len(s) : u[k] = s[k]) /\ \A k \in 1 .. Len(t) : u[Len(s) + k] = t[k]
  BY JoinedAt
<1>2. f \in Seq(S) /\ Len(f) = Len(s) - a /\ \A k \in 1 .. (Len(s) - a) : f[k] = s[a + k]
  BY FromIs
<1> HIDE DEF u, f
<1>3. y \in Seq(S) /\ Len(y) = Len(f) + Len(t)
      /\ (\A k \in 1 .. Len(f) : y[k] = f[k]) /\ \A k \in 1 .. Len(t) : y[Len(f) + k] = t[k]
  <2>1. f \in Seq(S)
    BY <1>2
  <2> QED BY <2>1, JoinedAt
<1>4. Len(s) \in Nat /\ Len(t) \in Nat /\ a \in Nat /\ a <= Len(s) /\ a \in 0 .. Len(u)
  BY <1>1
<1>5. x \in Seq(S) /\ Len(x) = Len(u) - a /\ \A k \in 1 .. (Len(u) - a) : x[k] = u[a + k]
  BY <1>1, <1>4, FromIs
<1> HIDE DEF x, y
<1>6. Len(x) = Len(y)
  BY <1>1, <1>2, <1>3, <1>4, <1>5
<1>7. ASSUME NEW k \in 1 .. Len(x) PROVE x[k] = y[k]
  <2>0. x[k] = u[a + k]
    BY <1>5
  <2>1. CASE k <= Len(s) - a
    <3>1. k \in 1 .. Len(f) /\ k \in 1 .. (Len(s) - a) /\ a + k \in 1 .. Len(s)
      BY <1>2, <1>4, <2>1
    <3>2. u[a + k] = s[a + k] /\ y[k] = f[k] /\ f[k] = s[a + k]
      BY <1>1, <1>2, <1>3, <3>1, Zenon
    <3> QED BY <2>0, <3>2
  <2>2. CASE ~(k <= Len(s) - a)
    <3>1. PICK j \in Int : j = k - (Len(s) - a)
      BY <1>4
    <3>2. j \in 1 .. Len(t) /\ a + k = Len(s) + j /\ k = Len(f) + j
      <4>1. k \in Int /\ k <= Len(s) + Len(t) - a /\ k > Len(s) - a
        BY <1>1, <1>4, <1>5, <2>2
      <4> QED BY <1>2, <1>4, <3>1, <4>1
    <3>3. u[Len(s) + j] = t[j] /\ y[Len(f) + j] = t[j]
      BY <1>1, <1>3, <3>2, Zenon
    <3> QED BY <2>0, <3>2, <3>3
  <2> QED BY <2>1, <2>2
<1>8. x = y
  BY <1>3, <1>5, <1>6, <1>7, SeqEqual
<1> QED BY <1>8 DEF u, x, f, y

-----------------------------------------------------------------------------
(* The invariant.                                                          *)

(* Bytes of the first n packets. *)
PacketBytes(n) == (1 .. n) \X Nat

ParserType(n) ==
  [stage : {"header", "payload", "garbled"}, need : Nat, buf : Seq(PacketBytes(n)), cur : Nat,
   running : BOOLEAN, id : Nat]

(* What the parser has in its buffer and has not read. *)
Unread(q) == From(q.buf, q.cur)

(* What the parser requires is what it reads next; once it has met a header *)
(* at the wrong place it stands still.                                     *)
ParserSound(q, sizes) ==
  /\ q \in ParserType(Len(sizes)) /\ q.cur <= Len(q.buf)
  /\ q.stage = "header" => q.need = HeaderSize
  /\ q.stage = "payload" => q.id \in DOMAIN sizes /\ q.need = sizes[q.id]
  /\ q.stage = "garbled" => ~q.running

(* Packet i as it was sent, and that those before the first loss arrived so. *)
Payload(i, size) == [id |-> i, data |-> [k \in 1 .. size |-> <<i, HeaderSize + k>>]]

Delivered(g, sizes, drop) ==
  \A i \in DOMAIN sizes : i \in DOMAIN g /\ Clean(drop, i) => g[i] = Payload(i, sizes[i])

(* Before the first loss the parser is where the next packet is: in front  *)
(* of its header, or of its payload.                                       *)
Aligned(q, w, sizes, drop, state, m) ==
  Clean(drop, m) =>
    /\ m <= Len(sizes) + 1
    /\ \/ q.stage = "header" /\ Framed(w, sizes, drop, state, m, 0)
       \/ q.stage = "payload" /\ q.id = m /\ Framed(w, sizes, drop, state, m, HeaderSize)

(* Consumed bytes are moved out of the buffer, and no other. *)
LEMMA CompactIs ==
  ASSUME NEW n \in Nat, NEW q \in ParserType(n), q.cur <= Len(q.buf)
  PROVE  /\ Compact(q) \in ParserType(n) /\ Compact(q).cur <= Len(Compact(q).buf)
         /\ Unread(Compact(q)) = Unread(q)
         /\ Compact(q).stage = q.stage /\ Compact(q).need = q.need /\ Compact(q).id = q.id
         /\ Compact(q).running = q.running
<1>1. q.buf \in Seq(PacketBytes(n)) /\ q.cur \in 0 .. Len(q.buf)
  BY DEF ParserType
<1>2. CASE q.running
  BY <1>2 DEF Compact
<1>3. CASE ~q.running
  <2> DEFINE b == From(q.buf, q.cur)
             c == [q EXCEPT !.buf = b, !.cur = 0]
  <2>1. Compact(q) = c
    BY <1>3 DEF Compact, From
  <2>2. b \in Seq(PacketBytes(n)) /\ Len(b) \in Nat
    <3>1. PICK s \in Seq(PacketBytes(n)), a \in Nat : s = q.buf /\ a = q.cur /\ a \in 0 .. Len(s)
      BY <1>1
    <3>2. From(s, a) \in Seq(PacketBytes(n))
      BY <3>1, FromIs
    <3> QED BY <3>1, <3>2
  <2> HIDE DEF b
  <2>3. c \in ParserType(n)
    BY <2>2, ZenonT(60) DEF ParserType
  <2>4. c.buf = b /\ c.cur = 0 /\ c.stage = q.stage /\ c.need = q.need /\ c.id = q.id
        /\ c.running = q.running
    BY DEF ParserType
  <2> HIDE DEF c
  <2>5. Unread(c) = b
    BY <2>2, <2>4, FromNothing DEF Unread
  <2>6. Unread(q) = b
    BY DEF Unread, b
  <2> QED BY <2>1, <2>2, <2>3, <2>4, <2>5, <2>6
<1> QED BY <1>2, <1>3

(* A parser that has what it required requires the next part. *)
Requires(c, q, n, k, next) ==
  /\ c \in ParserType(n) /\ c.cur <= Len(c.buf) /\ Unread(c) = Unread(q)
  /\ c.stage = next /\ c.need = k /\ c.id = q.id

LEMMA RequireIs ==
  ASSUME NEW n \in Nat, NEW q \in ParserType(n), q.cur <= Len(q.buf), q.need = 0,
         NEW k \in Nat, NEW next \in {"header", "payload"},
         NEW c, c = Compact(RequireBytes(q, k, next))
  PROVE  Requires(c, q, n, k, next)
<1> DEFINE on == Ready(q) >= q.need + k
           d == [q EXCEPT !.stage = next, !.need = k, !.running = on]
<1>1. q.need + k = k /\ on \in BOOLEAN
  OBVIOUS
<1>2. RequireBytes(q, k, next) = d
  BY <1>1 DEF RequireBytes, ParserType
<1> HIDE DEF on
<1>3. d \in ParserType(n)
  BY <1>1, ZenonT(60) DEF ParserType
<1>4. d.buf = q.buf /\ d.cur = q.cur /\ d.stage = next /\ d.need = k /\ d.id = q.id
  BY DEF ParserType
<1> HIDE DEF d
<1>5. Unread(d) = Unread(q) /\ d.cur <= Len(d.buf)
  BY <1>4 DEF Unread
<1> QED BY <1>2, <1>3, <1>4, <1>5, CompactIs DEF Requires

(* The parser takes k bytes of its buffer b from c on; w is what it had to *)
(* read, z what had not arrived.                                           *)
Takes(w, b, c, k, z) ==
  /\ k <= Len(w) /\ From(b, c + k) \o z = From(w, k)
  /\ \A j \in 1 .. k : w[j] = b[c + j]

LEMMA Consumed ==
  ASSUME NEW S, NEW b \in Seq(S), NEW z \in Seq(S), NEW c \in Nat, NEW k \in Nat, c + k <= Len(b),
         NEW w, w = From(b, c) \o z
  PROVE  w \in Seq(S) /\ Takes(w, b, c, k, z)
<1> DEFINE f == From(b, c)
<1>1. c \in 0 .. Len(b) /\ k \in 0 .. (Len(b) - c) /\ Len(b) \in Nat /\ Len(z) \in Nat
  OBVIOUS
<1>2. f \in Seq(S) /\ Len(f) = Len(b) - c /\ \A j \in 1 .. (Len(b) - c) : f[j] = b[c + j]
  BY <1>1, FromIs
<1>3. From(f, k) = From(b, c + k)
  BY <1>1, FromFrom
<1>9. w = f \o z
  OBVIOUS
<1> HIDE DEF f
<1>4. f \in Seq(S) /\ k \in 0 .. Len(f)
  BY <1>1, <1>2
<1>5. w \in Seq(S) /\ Len(w) = Len(f) + Len(z) /\ \A j \in 1 .. Len(f) : w[j] = f[j]
  BY <1>4, <1>9, JoinedAt
<1>6. From(w, k) = From(f, k) \o z
  BY <1>4, <1>9, FromJoined
<1>7. k <= Len(w)
  BY <1>1, <1>2, <1>5
<1>8. ASSUME NEW j \in 1 .. k PROVE w[j] = b[c + j]
  <2>1. j \in 1 .. Len(f) /\ j \in 1 .. (Len(b) - c)
    BY <1>1, <1>2
  <2> QED BY <1>2, <1>5, <2>1, Zenon
<1> QED BY <1>3, <1>5, <1>6, <1>7, <1>8 DEF Takes

(* h is the k bytes of b behind the c-th. *)
IsSlice(h, b, c, k) == Len(h) = k /\ \A j \in 1 .. k : h[j] = b[c + j]

LEMMA Slice ==
  ASSUME NEW S, NEW b \in Seq(S), NEW c \in Nat, NEW k \in Nat, c + k <= Len(b),
         NEW h, h = SubSeq(b, c + 1, c + k)
  PROVE  h \in Seq(S) /\ IsSlice(h, b, c, k)
<1>1. PICK x \in Int, y \in Int : x = c + 1 /\ y = c + k
  OBVIOUS
<1>2. \A j \in x .. y : b[j] \in S
  BY <1>1
<1>3. /\ SubSeq(b, x, y) \in Seq(S)
      /\ Len(SubSeq(b, x, y)) = IF x <= y THEN y - x + 1 ELSE 0
      /\ \A j \in 1 .. (y - x + 1) : SubSeq(b, x, y)[j] = b[x + j - 1]
  BY <1>2, SubSeqProperties
<1>4. h = SubSeq(b, x, y)
  BY <1>1
<1>5. h \in Seq(S) /\ Len(h) = k
  <2>1. (IF x <= y THEN y - x + 1 ELSE 0) = k
    BY <1>1
  <2> QED BY <1>3, <1>4, <2>1
<1>6. ASSUME NEW j \in 1 .. k PROVE h[j] = b[c + j]
  <2>1. j \in 1 .. (y - x + 1) /\ x + j - 1 = c + j
    BY <1>1
  <2>2. h[j] = b[x + j - 1]
    BY <1>3, <1>4, <2>1
  <2> QED BY <2>1, <2>2
<1> QED BY <1>5, <1>6 DEF IsSlice

LEMMA BytesArePairs ==
  ASSUME NEW n \in Nat
  PROVE  PacketBytes(n) \subseteq Pairs
BY DEF PacketBytes, Pairs

(* A header is read: of the next packet, before the first loss. *)
AtHeader(q, z, sizes, drop, state, m, i) ==
  /\ i \in DOMAIN sizes /\ i \in Nat /\ sizes[i] \in Nat
  /\ q.cur \in Nat /\ HeaderSize \in Nat /\ q.cur + HeaderSize <= Len(q.buf)
  /\ Clean(drop, m) =>
       /\ i = m /\ m <= Len(sizes) + 1
       /\ SubSeq(q.buf, q.cur + 1, q.cur + HeaderSize) = SubSeq(Packed(i, 0), 1, HeaderSize)
       /\ Framed(From(q.buf, q.cur + HeaderSize) \o z, sizes, drop, state, m, HeaderSize)

LEMMA HeaderAhead ==
  ASSUME NEW sizes \in Seq(Nat), NEW drop \in SUBSET Nat, NEW state, NEW m \in Nat \ {0},
         NEW q, ParserSound(q, sizes), NEW z \in Seq(PacketBytes(Len(sizes))),
         Aligned(q, Unread(q) \o z, sizes, drop, state, m),
         q.stage = "header", q.need <= Ready(q), NEW i, i = q.buf[q.cur + 1][1]
  PROVE  AtHeader(q, z, sizes, drop, state, m, i)
<1> DEFINE n == Len(sizes)
           w == Unread(q) \o z
<1>0. HeaderSize \in Nat /\ HeaderSize # 0 /\ n \in Nat /\ DOMAIN sizes = 1 .. n
  BY SMPStreamAssumption
<1>1. q \in ParserType(n) /\ q.need = HeaderSize
  BY DEF ParserSound
<1> HIDE DEF n
<1>2. PICK b \in Seq(PacketBytes(n)), cur \in Nat : b = q.buf /\ cur = q.cur
  BY <1>1 DEF ParserType
<1>3. cur + HeaderSize <= Len(b) /\ Len(b) \in Nat
  BY <1>0, <1>1, <1>2 DEF Ready
<1>4. z \in Seq(PacketBytes(n))
  BY DEF n
<1>5. w = From(b, cur) \o z
  BY <1>2 DEF Unread
<1>6. /\ w \in Seq(PacketBytes(n)) /\ HeaderSize <= Len(w)
      /\ From(b, cur + HeaderSize) \o z = From(w, HeaderSize)
      /\ \A j \in 1 .. HeaderSize : w[j] = b[cur + j]
  <2> HIDE DEF w
  <2>1. HeaderSize \in Nat /\ cur + HeaderSize <= Len(b)
    BY <1>0, <1>3
  <2>2. w \in Seq(PacketBytes(n)) /\ Takes(w, b, cur, HeaderSize, z)
    BY <1>4, <1>5, <2>1, Consumed
  <2> QED BY <2>2, Zenon DEF Takes
<1> HIDE DEF w
<1>7. i \in 1 .. n /\ i \in Nat /\ sizes[i] \in Nat
  <2>1. cur + 1 \in 1 .. Len(b)
    BY <1>0, <1>3
  <2>2. b[cur + 1] \in PacketBytes(n)
    BY <2>1, ElementOfSeq
  <2>3. b[cur + 1][1] \in 1 .. n
    BY <2>2 DEF PacketBytes
  <2>4. i \in 1 .. n
    BY <1>2, <2>3
  <2>5. i \in DOMAIN sizes
    BY <1>0, <2>4
  <2>6. sizes[i] \in Nat
    BY <2>5
  <2>7. i \in Nat
    BY <1>0, <2>4
  <2> QED BY <2>4, <2>6, <2>7
<1>8. Clean(drop, m) => Framed(w, sizes, drop, state, m, 0) /\ m <= n + 1
  BY DEF Aligned, w, n
<1> DEFINE head == SubSeq(q.buf, q.cur + 1, q.cur + HeaderSize)
           good == SubSeq(Packed(i, 0), 1, HeaderSize)
<1>9. ASSUME Clean(drop, m)
      PROVE  i = m /\ head = good /\ Framed(From(w, HeaderSize), sizes, drop, state, m, HeaderSize)
  <2>1. w \in Seq(Pairs)
    BY <1>0, <1>6, BytesArePairs, SeqMonotonic
  <2>2. /\ \A k \in 1 .. HeaderSize : w[k] = <<m, k>>
        /\ Framed(From(w, HeaderSize), sizes, drop, state, m, HeaderSize)
    BY <1>6, <1>8, <1>9, <2>1, FramedHead DEF From
  <2>3. \A k \in 1 .. HeaderSize : b[cur + k] = <<m, k>>
    BY <1>6, <2>2, Zenon
  <2>4. i = m
    <3>1. 1 \in 1 .. HeaderSize
      BY <1>0
    <3>2. b[cur + 1] = <<m, 1>>
      BY <2>3, <3>1
    <3> QED BY <1>2, <3>2
  <2>5. head = good
    <3>1. head \in Seq(PacketBytes(n)) /\ Len(head) = HeaderSize
          /\ \A k \in 1 .. HeaderSize : head[k] = b[cur + k]
      <4>1. head = SubSeq(b, cur + 1, cur + HeaderSize)
        BY <1>2
      <4> HIDE DEF head
      <4>2. HeaderSize \in Nat /\ cur + HeaderSize <= Len(b)
        BY <1>0, <1>3
      <4>3. head \in Seq(PacketBytes(n)) /\ IsSlice(head, b, cur, HeaderSize)
        BY <4>1, <4>2, Slice
      <4> QED BY <4>3, Zenon DEF IsSlice
    <3> DEFINE p == Packed(i, 0)
    <3>2. p \in Seq(Pairs) /\ Len(p) = HeaderSize /\ \A k \in 1 .. HeaderSize : p[k] = <<i, k>>
      <4>1. p = [k \in 1 .. HeaderSize |-> <<i, k>>]
        BY <1>0 DEF Packed
      <4>2. \A k \in 1 .. HeaderSize : <<i, k>> \in Pairs
        BY <1>7 DEF Pairs
      <4>3. p \in [1 .. HeaderSize -> Pairs]
        BY <4>1, <4>2
      <4> HIDE DEF p
      <4> QED BY <1>0, <4>1, <4>3
    <3> HIDE DEF p
    <3>3. good = p
      <4>1. SubSeq(p, 1, Len(p)) = p
        BY <3>2, SubSeqFull
      <4> QED BY <3>2, <4>1 DEF p
    <3>4. head \in Seq(Pairs)
      BY <1>0, <3>1, BytesArePairs, SeqMonotonic
    <3> HIDE DEF head
    <3>5. \A k \in 1 .. Len(head) : head[k] = p[k]
      BY <2>3, <2>4, <3>1, <3>2, Zenon
    <3>6. head = p
      BY <3>1, <3>2, <3>4, <3>5, SeqEqual
    <3> QED BY <3>3, <3>6
  <2> QED BY <2>2, <2>4, <2>5
<1> QED BY <1>0, <1>2, <1>3, <1>6, <1>7, <1>8, <1>9 DEF n, AtHeader

(* What is not the next header is the end, but only behind a loss. *)
LEMMA HeaderRefused ==
  ASSUME NEW sizes \in Seq(Nat), NEW drop \in SUBSET Nat, NEW state, NEW m \in Nat \ {0},
         NEW q, ParserSound(q, sizes), NEW z \in Seq(PacketBytes(Len(sizes))),
         ~Clean(drop, m), NEW c, c = [q EXCEPT !.stage = "garbled", !.running = FALSE]
  PROVE  ParserSound(c, sizes) /\ Aligned(c, Unread(c) \o z, sizes, drop, state, m)
<1>1. q \in ParserType(Len(sizes)) /\ q.cur <= Len(q.buf)
  BY DEF ParserSound
<1>2. c \in ParserType(Len(sizes))
  BY <1>1, ZenonT(60) DEF ParserType
<1>3. c.stage = "garbled" /\ c.running = FALSE /\ c.cur = q.cur /\ c.buf = q.buf
  BY <1>1 DEF ParserType
<1>4. ParserSound(c, sizes)
  BY <1>1, <1>2, <1>3 DEF ParserSound
<1> QED BY <1>4 DEF Aligned

LEMMA HeaderTaken ==
  ASSUME NEW sizes \in Seq(Nat), NEW drop \in SUBSET Nat, NEW state, NEW m \in Nat \ {0},
         NEW q, ParserSound(q, sizes), NEW z \in Seq(PacketBytes(Len(sizes))),
         q.need = HeaderSize, NEW i \in DOMAIN sizes, q.cur + HeaderSize <= Len(q.buf),
         Clean(drop, m) => i = m /\ m <= Len(sizes) + 1
           /\ Framed(From(q.buf, q.cur + HeaderSize) \o z, sizes, drop, state, m, HeaderSize),
         NEW e, e = [q EXCEPT !.cur = q.cur + HeaderSize, !.need = 0, !.id = i],
         NEW c, c = Compact(RequireBytes(e, sizes[i], "payload"))
  PROVE  ParserSound(c, sizes) /\ Aligned(c, Unread(c) \o z, sizes, drop, state, m)
<1> DEFINE x == q.cur + HeaderSize
<1>1. q \in ParserType(Len(sizes)) /\ Len(sizes) \in Nat /\ i \in Nat
  BY DEF ParserSound
<1>2. e = [q EXCEPT !.cur = x, !.need = 0, !.id = i] /\ x \in Nat
  <2>1. q.cur \in Nat /\ HeaderSize \in Nat
    BY <1>1, SMPStreamAssumption DEF ParserType
  <2> QED BY <2>1
<1>3. sizes[i] \in Nat
  OBVIOUS
<1>4. x <= Len(q.buf)
  OBVIOUS
<1> HIDE DEF x
<1>5. e \in ParserType(Len(sizes))
  <2> DEFINE d == [q EXCEPT !.cur = x, !.need = 0, !.id = i]
  <2>1. d \in ParserType(Len(sizes))
    BY <1>1, <1>2, ZenonT(60) DEF ParserType
  <2> QED BY <1>2, <2>1
<1>6. e.cur = x /\ e.need = 0 /\ e.id = i /\ e.buf = q.buf
  BY <1>1, <1>2 DEF ParserType
<1>7. c \in ParserType(Len(sizes)) /\ c.cur <= Len(c.buf) /\ Unread(c) = Unread(e)
      /\ c.stage = "payload" /\ c.need = sizes[i] /\ c.id = i
  <2>1. e.cur <= Len(e.buf)
    BY <1>4, <1>6
  <2>2. PICK k \in Nat : k = sizes[i]
    BY <1>3
  <2>3. PICK l \in Nat : l = Len(sizes)
    BY <1>1
  <2>4. e \in ParserType(l) /\ c = Compact(RequireBytes(e, k, "payload")) /\ e.need = 0
    BY <1>5, <1>6, <2>2, <2>3
  <2>5. c \in ParserType(l) /\ c.cur <= Len(c.buf) /\ Unread(c) = Unread(e)
        /\ c.stage = "payload" /\ c.need = k /\ c.id = e.id
    <3>1. "payload" \in {"header", "payload"}
      OBVIOUS
    <3>2. Requires(c, e, l, k, "payload")
      BY <2>1, <2>4, <3>1, RequireIs
    <3> QED BY <3>2 DEF Requires
  <2> QED BY <1>6, <2>2, <2>3, <2>5
<1>8. ParserSound(c, sizes)
  BY <1>7 DEF ParserSound
<1>9. Unread(c) \o z = From(q.buf, q.cur + HeaderSize) \o z
  BY <1>6, <1>7 DEF Unread, x
<1> QED BY <1>7, <1>8, <1>9 DEF Aligned

(* A payload is read: of the packet whose header was, before the first     *)
(* loss, and then the parser is in front of the next header.               *)
AtPayload(q, z, sizes, drop, state, m, data) ==
  /\ q.id \in DOMAIN sizes /\ sizes[q.id] \in Nat /\ q.need = sizes[q.id]
  /\ q.cur \in Nat /\ q.cur + sizes[q.id] <= Len(q.buf) /\ data \in Seq(Pairs)
  /\ Clean(drop, m) =>
       /\ q.id = m /\ data = [k \in 1 .. sizes[m] |-> <<m, HeaderSize + k>>]
       /\ Framed(From(q.buf, q.cur + sizes[q.id]) \o z, sizes, drop, state, m + 1, 0)

LEMMA PayloadAhead ==
  ASSUME NEW sizes \in Seq(Nat), NEW drop \in SUBSET Nat, NEW state, NEW m \in Nat \ {0},
         NEW q, ParserSound(q, sizes), NEW z \in Seq(PacketBytes(Len(sizes))),
         Aligned(q, Unread(q) \o z, sizes, drop, state, m),
         q.stage = "payload", q.need <= Ready(q),
         NEW data, data = SubSeq(q.buf, q.cur + 1, q.cur + sizes[q.id])
  PROVE  AtPayload(q, z, sizes, drop, state, m, data)
<1> DEFINE n == Len(sizes)
           w == Unread(q) \o z
<1>0. HeaderSize \in Nat /\ HeaderSize # 0 /\ n \in Nat /\ DOMAIN sizes = 1 .. n
  BY SMPStreamAssumption
<1>1. q \in ParserType(n) /\ q.id \in DOMAIN sizes /\ q.need = sizes[q.id]
  BY DEF ParserSound
<1> HIDE DEF n
<1>2. PICK b \in Seq(PacketBytes(n)), cur \in Nat : b = q.buf /\ cur = q.cur
  BY <1>1 DEF ParserType
<1>a. PICK i \in DOMAIN sizes : i = q.id
  BY <1>1
<1>b. PICK size \in Nat : size = sizes[i]
  OBVIOUS
<1>3. cur + size <= Len(b) /\ Len(b) \in Nat
  <2>1. size <= Len(b) - cur
    BY <1>1, <1>2, <1>a, <1>b DEF Ready
  <2> QED BY <2>1
<1>4. z \in Seq(PacketBytes(n))
  BY DEF n
<1>5. w = From(b, cur) \o z
  BY <1>2 DEF Unread
<1>6. w \in Seq(PacketBytes(n)) /\ Takes(w, b, cur, size, z)
  <2> HIDE DEF w
  <2>1. cur + size <= Len(b)
    BY <1>3
  <2> QED BY <1>4, <1>5, <2>1, Consumed
<1> HIDE DEF w
<1>7. data \in Seq(PacketBytes(n)) /\ Len(data) = size
      /\ \A j \in 1 .. size : data[j] = b[cur + j]
  <2>1. data = SubSeq(b, cur + 1, cur + size) /\ cur + size <= Len(b)
    BY <1>2, <1>3, <1>a, <1>b
  <2>2. data \in Seq(PacketBytes(n)) /\ IsSlice(data, b, cur, size)
    BY <2>1, Slice
  <2> QED BY <2>2, Zenon DEF IsSlice
<1>8. data \in Seq(Pairs)
  BY <1>0, <1>7, BytesArePairs, SeqMonotonic
<1>9. ASSUME Clean(drop, m)
      PROVE  /\ i = m /\ data = [k \in 1 .. sizes[m] |-> <<m, HeaderSize + k>>]
             /\ Framed(From(b, cur + size) \o z, sizes, drop, state, m + 1, 0)
  <2>1. i = m /\ Framed(w, sizes, drop, state, m, HeaderSize)
    BY <1>9, <1>a DEF Aligned, w
  <2>2. w \in Seq(Pairs)
    BY <1>0, <1>6, BytesArePairs, SeqMonotonic
  <2>3. m \in DOMAIN sizes /\ sizes[m] = size /\ size <= Len(w)
    BY <1>6, <1>b, <2>1 DEF Takes
  <2>4. /\ \A k \in 1 .. size : w[k] = <<m, HeaderSize + k>>
        /\ Framed(SubSeq(w, size + 1, Len(w)), sizes, drop, state, m + 1, 0)
    BY <1>9, <2>1, <2>2, <2>3, FramedBody
  <2>5. From(b, cur + size) \o z = SubSeq(w, size + 1, Len(w))
    BY <1>6 DEF Takes, From
  <2>6. \A k \in 1 .. size : data[k] = <<m, HeaderSize + k>>
    BY <1>6, <1>7, <2>4, Zenon DEF Takes
  <2>7. data = [k \in 1 .. size |-> <<m, HeaderSize + k>>]
    <3>1. data \in [1 .. Len(data) -> Pairs]
      BY <1>8, LenProperties
    <3>2. data \in [1 .. size -> Pairs]
      BY <1>7, <3>1
    <3> QED BY <2>6, <3>2
  <2> QED BY <2>1, <2>3, <2>4, <2>5, <2>7
<1> QED BY <1>1, <1>2, <1>3, <1>8, <1>9, <1>a, <1>b DEF AtPayload

LEMMA PayloadTaken ==
  ASSUME NEW sizes \in Seq(Nat), NEW drop \in SUBSET Nat, NEW state, NEW m \in Nat \ {0},
         NEW q, ParserSound(q, sizes), NEW z \in Seq(PacketBytes(Len(sizes))),
         q.id \in DOMAIN sizes, NEW size \in Nat, q.cur + size <= Len(q.buf),
         Clean(drop, m) => q.id = m
           /\ Framed(From(q.buf, q.cur + size) \o z, sizes, drop, state, m + 1, 0),
         NEW e, e = [q EXCEPT !.cur = q.cur + size, !.need = 0],
         NEW c, c = Compact(RequireBytes(e, HeaderSize, "header"))
  PROVE  ParserSound(c, sizes) /\ Aligned(c, Unread(c) \o z, sizes, drop, state, m + 1)
<1> DEFINE x == q.cur + size
<1>0. HeaderSize \in Nat
  BY SMPStreamAssumption
<1>1. q \in ParserType(Len(sizes)) /\ Len(sizes) \in Nat /\ DOMAIN sizes = 1 .. Len(sizes)
  BY DEF ParserSound
<1>2. e = [q EXCEPT !.cur = x, !.need = 0] /\ x \in Nat
  <2>1. q.cur \in Nat
    BY <1>1 DEF ParserType
  <2> QED BY <2>1
<1>4. x <= Len(q.buf)
  OBVIOUS
<1> HIDE DEF x
<1>5. e \in ParserType(Len(sizes))
  <2> DEFINE d == [q EXCEPT !.cur = x, !.need = 0]
  <2>1. d \in ParserType(Len(sizes))
    BY <1>1, <1>2, ZenonT(60) DEF ParserType
  <2> QED BY <1>2, <2>1
<1>6. e.cur = x /\ e.need = 0 /\ e.id = q.id /\ e.buf = q.buf
  BY <1>1, <1>2 DEF ParserType
<1>7. Requires(c, e, Len(sizes), HeaderSize, "header")
  <2>1. e.cur <= Len(e.buf)
    BY <1>4, <1>6
  <2>3. PICK l \in Nat : l = Len(sizes)
    BY <1>1
  <2>4. e \in ParserType(l) /\ c = Compact(RequireBytes(e, HeaderSize, "header")) /\ e.need = 0
        /\ "header" \in {"header", "payload"}
    BY <1>5, <1>6, <2>3
  <2>5. Requires(c, e, l, HeaderSize, "header")
    BY <1>0, <2>1, <2>4, RequireIs
  <2> QED BY <2>3, <2>5
<1>8. ParserSound(c, sizes)
  BY <1>7 DEF ParserSound, Requires
<1>9. Unread(c) \o z = From(q.buf, q.cur + size) \o z
  BY <1>6, <1>7 DEF Unread, x, Requires
<1>10. ASSUME Clean(drop, m + 1)
       PROVE  m + 1 <= Len(sizes) + 1 /\ Framed(Unread(c) \o z, sizes, drop, state, m + 1, 0)
  <2>1. Clean(drop, m)
    BY <1>10 DEF Clean
  <2>2. m <= Len(sizes)
    BY <1>1, <2>1
  <2>3. m + 1 <= Len(sizes) + 1
    BY <1>1, <2>2
  <2>4. Framed(From(q.buf, q.cur + size) \o z, sizes, drop, state, m + 1, 0)
    BY <2>1
  <2> QED BY <1>9, <2>3, <2>4, Zenon
<1> QED BY <1>7, <1>8, <1>10 DEF Aligned, Requires

-----------------------------------------------------------------------------
(* Sending, seen from the receiver: what is ahead of the parser grows at   *)
(* its end.                                                                *)

LEMMA BytesGrow ==
  ASSUME NEW n \in Nat, NEW s \in Seq(PacketBytes(n))
  PROVE  s \in Seq(PacketBytes(n + 1))
<1>1. PacketBytes(n) \subseteq PacketBytes(n + 1)
  BY DEF PacketBytes
<1> QED BY <1>1, SeqMonotonic

LEMMA AppendIs ==
  ASSUME NEW sizes \in Seq(Nat), NEW size \in Nat, NEW t, t = Append(sizes, size)
  PROVE  /\ t \in Seq(Nat) /\ Len(t) = Len(sizes) + 1 /\ Len(sizes) \in Nat
         /\ DOMAIN sizes = 1 .. Len(sizes) /\ DOMAIN t = 1 .. (Len(sizes) + 1)
         /\ \A i \in DOMAIN sizes : i \in DOMAIN t /\ t[i] = sizes[i]
<1>1. /\ t \in Seq(Nat) /\ Len(t) = Len(sizes) + 1 /\ Len(sizes) \in Nat
      /\ DOMAIN sizes = 1 .. Len(sizes) /\ DOMAIN t = 1 .. (Len(sizes) + 1)
  OBVIOUS
<1>2. ASSUME NEW i \in DOMAIN sizes PROVE i \in DOMAIN t /\ t[i] = sizes[i]
  <2>1. i \in DOMAIN t
    BY <1>1
  <2>2. t[i] = sizes[i]
    BY <1>1
  <2> QED BY <2>1, <2>2
<1> QED BY <1>1, <1>2

LEMMA PackedIs ==
  ASSUME NEW n \in Nat, NEW size \in Nat, NEW p, p = Packed(n + 1, size)
  PROVE  p \in Seq(PacketBytes(n + 1)) /\ Len(p) = HeaderSize + size /\ p[1][1] = n + 1
<1>1. HeaderSize \in Nat /\ HeaderSize # 0 /\ HeaderSize + size \in Nat /\ 1 \in 1 .. (HeaderSize + size)
  BY SMPStreamAssumption
<1>2. PICK z \in Nat : z = HeaderSize + size
  BY <1>1
<1>3. p = [k \in 1 .. z |-> <<n + 1, k>>]
  BY <1>2 DEF Packed
<1>4. \A k \in 1 .. z : <<n + 1, k>> \in PacketBytes(n + 1)
  BY <1>2 DEF PacketBytes
<1>5. p \in [1 .. z -> PacketBytes(n + 1)]
  BY <1>3, <1>4
<1>6. p \in Seq(PacketBytes(n + 1)) /\ Len(p) = z
  BY <1>5
<1>7. p[1] = <<n + 1, 1>>
  BY <1>1, <1>2, <1>3
<1> QED BY <1>2, <1>6, <1>7

LEMMA ParserGrows ==
  ASSUME NEW sizes \in Seq(Nat), NEW size \in Nat, NEW q, ParserSound(q, sizes),
         NEW t, t = Append(sizes, size)
  PROVE  ParserSound(q, t)
<1>1. /\ t \in Seq(Nat) /\ Len(t) = Len(sizes) + 1 /\ Len(sizes) \in Nat
      /\ \A i \in DOMAIN sizes : i \in DOMAIN t /\ t[i] = sizes[i]
  BY AppendIs
<1>2. q \in ParserType(Len(sizes))
  BY DEF ParserSound
<1>3. q.buf \in Seq(PacketBytes(Len(sizes) + 1))
  BY <1>1, <1>2, BytesGrow DEF ParserType
<1>4. q \in ParserType(Len(sizes) + 1)
  BY <1>2, <1>3 DEF ParserType
<1> QED BY <1>1, <1>4 DEF ParserSound

LEMMA AlignedAppend ==
  ASSUME NEW q, NEW w \in Seq(Pairs), NEW sizes \in Seq(Nat), NEW state, state # "gone",
         NEW m \in Nat \ {0}, NEW size \in Nat, Aligned(q, w, sizes, {}, state, m)
  PROVE  Aligned(q, w \o Packed(Len(sizes) + 1, size), Append(sizes, size), {}, state, m)
<1>1. HeaderSize \in Int /\ 0 \in Int
  BY SMPStreamAssumption
<1>2. Len(Append(sizes, size)) = Len(sizes) + 1 /\ Len(sizes) \in Nat
  OBVIOUS
<1>3. ASSUME m <= Len(sizes) + 1 PROVE m <= Len(Append(sizes, size)) + 1
  BY <1>2, <1>3
<1>4. ASSUME Framed(w, sizes, {}, state, m, 0)
      PROVE  Framed(w \o Packed(Len(sizes) + 1, size), Append(sizes, size), {}, state, m, 0)
  BY <1>1, <1>4, FramedAppend
<1>5. ASSUME Framed(w, sizes, {}, state, m, HeaderSize)
      PROVE  Framed(w \o Packed(Len(sizes) + 1, size), Append(sizes, size), {}, state, m, HeaderSize)
  BY <1>1, <1>5, FramedAppend
<1> QED BY <1>3, <1>4, <1>5, Zenon DEF Aligned

LEMMA AlignedDrop ==
  ASSUME NEW q, NEW w \in Seq(Pairs), NEW x \in Seq(Pairs), NEW v, v = w \o x,
         NEW sizes \in Seq(Nat), NEW state, state # "gone",
         NEW m \in Nat \ {0}, NEW size \in Nat, NEW drop \in SUBSET Nat, NEW drop2 \in SUBSET Nat,
         \A j \in drop : j <= Len(sizes), drop2 # {},
         drop2 = drop \/ drop2 = drop \cup {Len(sizes) + 1},
         Aligned(q, w, sizes, drop, state, m)
  PROVE  Aligned(q, v, Append(sizes, size), drop2, state, m)
<1>1. HeaderSize \in Int /\ 0 \in Int
  BY SMPStreamAssumption
<1>2. Len(Append(sizes, size)) = Len(sizes) + 1 /\ Len(sizes) \in Nat
  OBVIOUS
<1>3. v \in Seq(Pairs) /\ Len(w) <= Len(v) /\ \A k \in 1 .. Len(w) : v[k] = w[k]
  <2>1. v \in Seq(Pairs) /\ Len(v) = Len(w) + Len(x) /\ \A k \in 1 .. Len(w) : v[k] = w[k]
    BY JoinedAt
  <2>2. Len(w) \in Nat /\ Len(x) \in Nat
    OBVIOUS
  <2>3. Len(w) <= Len(v)
    BY <2>1, <2>2
  <2> QED BY <2>1, <2>3
<1>4. ASSUME Clean(drop2, m) PROVE Clean(drop, m)
  BY <1>4 DEF Clean
<1>5. ASSUME m <= Len(sizes) + 1 PROVE m <= Len(Append(sizes, size)) + 1
  BY <1>2, <1>5
<1>6. ASSUME NEW off \in Int, Framed(w, sizes, drop, state, m, off)
      PROVE  Framed(v, Append(sizes, size), drop2, state, m, off)
  BY <1>3, <1>6, FramedDrop
<1> QED BY <1>1, <1>4, <1>5, <1>6, Zenon DEF Aligned

LEMMA AlignedState ==
  ASSUME NEW q, NEW w, NEW sizes, NEW drop, NEW m, NEW s1, NEW s2, s1 # "gone",
         Aligned(q, w, sizes, drop, s1, m)
  PROVE  Aligned(q, w, sizes, drop, s2, m)
<1>1. ASSUME NEW off, Framed(w, sizes, drop, s1, m, off)
      PROVE  Framed(w, sizes, drop, s2, m, off)
  <2>n. PICK N \in Int : \E S : FramedBy(w, sizes, drop, s1, m, off, N, S)
    BY <1>1 DEF Framed
  <2>1. PICK S : FramedBy(w, sizes, drop, s1, m, off, N, S)
    BY <2>n
  <2>2. FramedBy(w, sizes, drop, s2, m, off, N, S)
    BY <2>1 DEF FramedBy
  <2> QED BY <2>2 DEF Framed
<1> QED BY <1>1, Zenon DEF Aligned

LEMMA AlignedPrefix ==
  ASSUME NEW q, NEW v \in Seq(Pairs), NEW x \in Seq(Pairs), NEW w, w = v \o x,
         NEW sizes \in Seq(Nat), NEW state, NEW m \in Nat \ {0}, Aligned(q, w, sizes, {}, state, m)
  PROVE  Aligned(q, v, sizes, {}, "gone", m)
<1>1. HeaderSize \in Int /\ 0 \in Int
  BY SMPStreamAssumption
<1>3. w \in Seq(Pairs) /\ Len(v) <= Len(w) /\ \A k \in 1 .. Len(v) : v[k] = w[k]
  <2>1. w \in Seq(Pairs) /\ Len(w) = Len(v) + Len(x) /\ \A k \in 1 .. Len(v) : w[k] = v[k]
    BY JoinedAt
  <2>2. Len(v) \in Nat /\ Len(x) \in Nat
    OBVIOUS
  <2>3. Len(v) <= Len(w)
    BY <2>1, <2>2
  <2> QED BY <2>1, <2>3
<1>6. ASSUME NEW off \in Int, Framed(w, sizes, {}, state, m, off)
      PROVE  Framed(v, sizes, {}, "gone", m, off)
  BY <1>3, <1>6, FramedPrefix
<1> QED BY <1>1, <1>6, Zenon DEF Aligned

(* No packet is delivered before it is sent. *)
LEMMA DeliveredGrows ==
  ASSUME NEW sizes \in Seq(Nat), NEW size \in Nat, NEW drop \in SUBSET Nat, NEW g,
         NEW drop2 \in SUBSET (1 .. (Len(sizes) + 1)), drop \subseteq drop2,
         drop = {} => Len(g) <= Len(sizes), DOMAIN g = 1 .. Len(g), Len(g) \in Nat,
         Delivered(g, sizes, drop), NEW t, t = Append(sizes, size)
  PROVE  Delivered(g, t, drop2)
<1>1. /\ Len(sizes) \in Nat /\ DOMAIN sizes = 1 .. Len(sizes) /\ DOMAIN t = 1 .. (Len(sizes) + 1)
      /\ \A i \in DOMAIN sizes : t[i] = sizes[i]
  BY AppendIs
<1>2. SUFFICES ASSUME NEW i \in DOMAIN t, i \in DOMAIN g, Clean(drop2, i)
               PROVE  g[i] = Payload(i, t[i])
  BY DEF Delivered
<1>3. Clean(drop, i)
  BY <1>2 DEF Clean
<1>4. CASE i \in DOMAIN sizes
  BY <1>1, <1>2, <1>3, <1>4 DEF Delivered
<1>5. CASE i \notin DOMAIN sizes
  <2>1. i = Len(sizes) + 1
    BY <1>1, <1>5
  <2>2. drop2 = {}
    BY <1>1, <1>2, <2>1 DEF Clean
  <2>3. Len(g) <= Len(sizes)
    BY <2>2
  <2> QED BY <1>1, <1>2, <2>1, <2>3
<1> QED BY <1>4, <1>5

LEMMA Associates ==
  ASSUME NEW S, NEW s \in Seq(S), NEW t \in Seq(S), NEW u \in Seq(S),
         NEW x, x = s \o t, NEW y, y = t \o u
  PROVE  x \o u = s \o y /\ x \in Seq(S) /\ y \in Seq(S)
BY ConcatAssociative

(* Moving bytes from the network into the buffer, from the list of what    *)
(* waits into the network, and a packet to the end of that list.           *)
Moves(a, b, c, n) == (a \o SubSeq(b, 1, n)) \o (From(b, n) \o c) = a \o (b \o c)

LEMMA Arrived ==
  ASSUME NEW S, NEW a \in Seq(S), NEW b \in Seq(S), NEW c \in Seq(S), NEW n \in 0 .. Len(b)
  PROVE  Moves(a, b, c, n)
<1> DEFINE h == SubSeq(b, 1, n)
           r == From(b, n)
           y == r \o c
<1>1. h \in Seq(S) /\ r \in Seq(S) /\ h \o r = b
  BY Halves
<1> HIDE DEF h, r
<1>2. y \in Seq(S) /\ (h \o r) \o c = h \o y
  <2>1. h \in Seq(S) /\ r \in Seq(S)
    BY <1>1
  <2> QED BY <2>1, Associates
<1> HIDE DEF y
<1>3. (a \o h) \o y = a \o (h \o y)
  <2>1. a \in Seq(S) /\ h \in Seq(S) /\ y \in Seq(S)
    BY <1>1, <1>2
  <2> QED BY <2>1, Associates
<1>4. (a \o h) \o y = a \o (b \o c)
  BY <1>1, <1>2, <1>3, Zenon
<1> QED BY <1>4 DEF h, r, y, Moves

Splits(S, b, x, n) ==
  /\ SubSeq(x, 1, n) \in Seq(S) /\ From(x, n) \in Seq(S) /\ b \o SubSeq(x, 1, n) \in Seq(S)
  /\ (b \o SubSeq(x, 1, n)) \o From(x, n) = b \o x

LEMMA Offered ==
  ASSUME NEW S, NEW b \in Seq(S), NEW x \in Seq(S), NEW n \in 0 .. Len(x)
  PROVE  Splits(S, b, x, n)
<1> DEFINE h == SubSeq(x, 1, n)
           r == From(x, n)
<1>1. h \in Seq(S) /\ r \in Seq(S) /\ h \o r = x
  BY Halves
<1> HIDE DEF h, r
<1>2. b \o h \in Seq(S) /\ (b \o h) \o r = b \o (h \o r)
  <2>1. h \in Seq(S) /\ r \in Seq(S)
    BY <1>1
  <2> QED BY <2>1, Associates
<1> QED BY <1>1, <1>2 DEF h, r, Splits

Regroups(a, b, c, p) == a \o (b \o (c \o p)) = (a \o (b \o c)) \o p

LEMMA Regrouped ==
  ASSUME NEW S, NEW a \in Seq(S), NEW b \in Seq(S), NEW c \in Seq(S), NEW p \in Seq(S)
  PROVE  Regroups(a, b, c, p)
<1> DEFINE y == b \o c
<1>1. y \in Seq(S)
  OBVIOUS
<1>2. y \o p = b \o (c \o p)
  BY ConcatAssociative
<1> HIDE DEF y
<1>3. (a \o y) \o p = a \o (y \o p)
  BY <1>1, Associates
<1> QED BY <1>2, <1>3, Zenon DEF y, Regroups

LEMMA UnreadIs ==
  ASSUME NEW sizes, NEW q, ParserSound(q, sizes)
  PROVE  Unread(q) \in Seq(PacketBytes(Len(sizes)))
<1>1. PICK b \in Seq(PacketBytes(Len(sizes))), c \in Nat : b = q.buf /\ c = q.cur /\ c <= Len(b)
  BY DEF ParserSound, ParserType
<1>2. c \in 0 .. Len(b)
  BY <1>1
<1>3. From(b, c) \in Seq(PacketBytes(Len(sizes)))
  BY <1>2, FromIs
<1> QED BY <1>1, <1>3 DEF Unread

-----------------------------------------------------------------------------
(* The steps of the stream.                                                *)

Delivery == [id : Nat, data : Seq(Pairs)]

StreamTypes ==
  /\ side \in {"client", "server"} /\ packets \in Seq(Nat) /\ got \in Seq(Delivery)
  /\ pending \in Seq(PacketBytes(Len(packets))) /\ net \in Seq(PacketBytes(Len(packets)))
  /\ credit \in Nat /\ lost \in SUBSET DOMAIN packets /\ stream \in {"open", "closed", "gone"}

(* Only the server's Send drops bytes, only the client's keeps any back.   *)
StreamSides ==
  /\ side = "client" => lost = {}
  /\ side = "server" => pending = <<>> /\ stream = "open"

StreamInv ==
  /\ StreamTypes /\ StreamSides /\ ParserSound(parser, packets)
  /\ Aligned(parser, Unread(parser) \o (net \o pending), packets, lost, stream, Len(got) + 1)
  /\ Delivered(got, packets, lost)

LEMMA StreamBegins == StreamInit => StreamInv
<1> SUFFICES ASSUME StreamInit PROVE StreamInv
  OBVIOUS
<1>0. HeaderSize \in Nat /\ Window \in Nat
  BY SMPStreamAssumption
<1>1. StreamTypes /\ StreamSides
  BY <1>0 DEF StreamInit, StreamTypes, StreamSides
<1>2. parser \in ParserType(Len(packets)) /\ parser.cur = 0 /\ parser.buf = <<>>
      /\ parser.stage = "header" /\ parser.need = HeaderSize /\ parser.running = FALSE
  BY <1>0 DEF StreamInit, Parser0, ParserType
<1>3. ParserSound(parser, packets)
  BY <1>0, <1>2 DEF ParserSound
<1>4. Delivered(got, packets, lost)
  BY DEF StreamInit, Delivered
<1>5. Unread(parser) \o (net \o pending) = <<>>
  <2>1. Unread(parser) = <<>>
    BY <1>2 DEF Unread, From
  <2> QED BY <2>1 DEF StreamInit
<1>6. Framed(<<>>, <<>>, {}, "open", 1, 0)
  <2> DEFINE S == [i \in 1 .. 1 |-> 1]
  <2>1. FramedBy(<<>>, <<>>, {}, "open", 1, 0, 1, S)
    BY DEF FramedBy
  <2> QED BY <2>1 DEF Framed
<1>7. Aligned(parser, Unread(parser) \o (net \o pending), packets, lost, stream, Len(got) + 1)
  <2>1. Len(got) + 1 = 1 /\ packets = <<>> /\ lost = {} /\ stream = "open" /\ Len(packets) = 0
    BY DEF StreamInit
  <2> QED BY <1>2, <1>5, <1>6, <2>1 DEF Aligned
<1> QED BY <1>1, <1>3, <1>4, <1>7 DEF StreamInv

(* _SendBuffList neither loses nor reorders a byte. *)
LEMMA BuffListStep ==
  ASSUME NEW n \in Nat, net \in Seq(PacketBytes(n)), NEW x \in Seq(PacketBytes(n)),
         NEW room \in Nat, NEW sizes, SendBuffList(x, room, sizes)
  PROVE  /\ net' \in Seq(PacketBytes(n)) /\ pending' \in Seq(PacketBytes(n)) /\ credit' \in Nat
         /\ net' \o pending' = net \o x
<1> DEFINE k == IF stream = "open" THEN Least(Len(x), room) ELSE 0
<1>1. k \in 0 .. Len(x) /\ room - k \in Nat
  BY DEF Least
<1>2. net' = net \o SubSeq(x, 1, k) /\ pending' = SubSeq(x, k + 1, Len(x)) /\ credit' = room - k
  BY DEF SendBuffList
<1> HIDE DEF k
<1>3. pending' = From(x, k)
  BY <1>2 DEF From
<1>4. /\ SubSeq(x, 1, k) \in Seq(PacketBytes(n)) /\ From(x, k) \in Seq(PacketBytes(n))
      /\ net \o SubSeq(x, 1, k) \in Seq(PacketBytes(n))
      /\ (net \o SubSeq(x, 1, k)) \o From(x, k) = net \o x
  <2>1. k \in 0 .. Len(x)
    BY <1>1
  <2>2. Splits(PacketBytes(n), net, x, k)
    BY <2>1, Offered
  <2> QED BY <2>2, Zenon DEF Splits
<1> QED BY <1>1, <1>2, <1>3, <1>4

LEMMA DroppedIs ==
  ASSUME StreamInv
  PROVE  /\ lost \in SUBSET Nat /\ (\A j \in lost : j <= Len(packets))
         /\ Len(packets) \in Nat /\ Len(got) \in Nat /\ Len(got) + 1 \in Nat \ {0}
         /\ DOMAIN got = 1 .. Len(got) /\ DOMAIN packets = 1 .. Len(packets)
         /\ packets \in Seq(Nat)
         /\ lost = {} => Len(got) <= Len(packets)
<1>1. packets \in Seq(Nat) /\ got \in Seq(Delivery) /\ lost \in SUBSET DOMAIN packets
  BY DEF StreamInv, StreamTypes
<1>2. Len(packets) \in Nat /\ Len(got) \in Nat /\ Len(got) + 1 \in Nat \ {0}
      /\ DOMAIN got = 1 .. Len(got) /\ DOMAIN packets = 1 .. Len(packets)
  BY <1>1
<1>3. lost \in SUBSET Nat /\ (\A j \in lost : j <= Len(packets))
  BY <1>1, <1>2
<1>4. ASSUME lost = {} PROVE Len(got) <= Len(packets)
  <2>1. Len(got) + 1 <= Len(packets) + 1
    BY <1>4 DEF StreamInv, Aligned, Clean
  <2> QED BY <1>2, <2>1
<1> QED BY <1>1, <1>2, <1>3, <1>4

(* SendPacket. *)
LEMMA SendStep ==
  ASSUME StreamInv, NEW size \in Sizes, SendPacket(size)
  PROVE  StreamInv'
<1> DEFINE n == Len(packets)
           p == Packed(n + 1, size)
           a == Unread(parser)
           w == a \o (net \o pending)
           m == Len(got) + 1
<1>0. size \in Nat
  BY SMPStreamAssumption
<1>1. /\ packets \in Seq(Nat) /\ got \in Seq(Delivery) /\ lost \in SUBSET DOMAIN packets
      /\ pending \in Seq(PacketBytes(n)) /\ net \in Seq(PacketBytes(n)) /\ credit \in Nat
      /\ side \in {"client", "server"} /\ stream \in {"open", "closed", "gone"}
      /\ n \in Nat /\ m \in Nat \ {0}
  BY DroppedIs DEF StreamInv, StreamTypes
<1>2. packets' = Append(packets, size) /\ stream # "gone"
      /\ side' = side /\ stream' = stream /\ parser' = parser /\ got' = got
  BY DEF SendPacket
<1>3. packets' \in Seq(Nat) /\ Len(packets') = n + 1 /\ DOMAIN packets' = 1 .. (n + 1)
  BY <1>0, <1>1, <1>2, AppendIs
<1>4. a \in Seq(PacketBytes(n))
  BY UnreadIs DEF StreamInv
<1>5. Aligned(parser, w, packets, lost, stream, m) /\ Delivered(got, packets, lost)
      /\ ParserSound(parser, packets)
  BY DEF StreamInv
<1> HIDE DEF n
<1>6. /\ a \in Seq(PacketBytes(n + 1)) /\ net \in Seq(PacketBytes(n + 1))
      /\ pending \in Seq(PacketBytes(n + 1)) /\ n + 1 \in Nat
  BY <1>1, <1>4, BytesGrow
<1>7. p \in Seq(PacketBytes(n + 1)) /\ Len(p) \in Nat /\ p[1][1] = n + 1
  <2>1. p \in Seq(PacketBytes(n + 1)) /\ p[1][1] = n + 1
    BY <1>0, <1>1, PackedIs
  <2> HIDE DEF p
  <2> QED BY <2>1
<1>8. ParserSound(parser', packets')
  BY <1>0, <1>1, <1>2, <1>5, ParserGrows
<1> HIDE DEF p, a, m
<1>9. w \in Seq(PacketBytes(n + 1)) /\ w \in Seq(Pairs)
  <2>1. w \in Seq(PacketBytes(n + 1))
    BY <1>6
  <2> QED BY <1>6, <2>1, BytesArePairs, SeqMonotonic
<1>10. CASE side = "client"
  <2>1. lost = {} /\ lost' = lost
    BY <1>10 DEF StreamInv, StreamSides, SendPacket
  <2>2. SendBuffList(pending \o p, credit, packets')
    BY <1>10 DEF SendPacket, p, n
  <2> DEFINE x == pending \o p
  <2>3. x \in Seq(PacketBytes(n + 1))
    BY <1>6, <1>7
  <2>4. SendBuffList(x, credit, packets')
    BY <2>2
  <2> HIDE DEF x
  <2>5. /\ net' \in Seq(PacketBytes(n + 1)) /\ pending' \in Seq(PacketBytes(n + 1))
        /\ credit' \in Nat /\ net' \o pending' = net \o x
    BY <1>1, <1>6, <2>3, <2>4, BuffListStep
  <2>6. a \o (net' \o pending') = w \o p
    <3>1. Regroups(a, net, pending, p)
      BY <1>6, <1>7, Regrouped
    <3> QED BY <2>5, <3>1, Zenon DEF x, Regroups
  <2> HIDE DEF w
  <2>7. Aligned(parser, w \o p, Append(packets, size), {}, stream, m)
    BY <1>0, <1>1, <1>2, <1>5, <1>9, <2>1, AlignedAppend DEF p, n
  <2>8. Aligned(parser', Unread(parser') \o (net' \o pending'), packets', lost', stream', Len(got') + 1)
    BY <1>2, <2>1, <2>6, <2>7 DEF a, m
  <2>9. Delivered(got', packets', lost')
    <3>1. lost = {} => Len(got) <= Len(packets)
      BY DroppedIs
    <3> QED BY <1>0, <1>1, <1>2, <1>5, <2>1, <3>1, DeliveredGrows, DroppedIs
  <2>10. StreamTypes'
    BY <1>1, <1>2, <1>3, <2>1, <2>5 DEF StreamTypes
  <2>11. StreamSides'
    BY <1>2, <1>10, <2>1 DEF StreamSides
  <2> QED BY <1>8, <2>8, <2>9, <2>10, <2>11 DEF StreamInv
<1>11. CASE side = "server"
  <2>1. pending = <<>> /\ stream = "open"
    BY <1>11 DEF StreamInv, StreamSides
  <2>2. ServerSend(p)
    BY <1>11 DEF SendPacket, p, n
  <2>3. PICK k \in Nat : k = Least(Len(p), credit)
    BY <1>1, <1>7 DEF Least
  <2>4. k \in 0 .. Len(p) /\ credit - k \in Nat
    BY <1>1, <1>7, <2>3 DEF Least
  <2> DEFINE x == SubSeq(p, 1, k)
  <2>5. net' = net \o x /\ credit' = credit - k /\ pending' = pending
        /\ lost' = IF k < Len(p) THEN lost \cup {p[1][1]} ELSE lost
    BY <2>2, <2>3 DEF ServerSend
  <2>6. x \in Seq(PacketBytes(n + 1))
    BY <1>7, <2>4
  <2> HIDE DEF x
  <2>7. net' \in Seq(PacketBytes(n + 1)) /\ pending' \in Seq(PacketBytes(n + 1)) /\ credit' \in Nat
    BY <1>6, <2>4, <2>5, <2>6
  <2>8. a \o (net' \o pending') = w \o x
    <3>1. net' \o pending' = net \o (pending \o x)
      <4>1. (net \o x) \o <<>> = net \o x /\ <<>> \o x = x
        BY <1>6, <2>6
      <4> QED BY <2>1, <2>5, <4>1
    <3>2. Regroups(a, net, pending, x)
      BY <1>6, <2>6, Regrouped
    <3> QED BY <3>1, <3>2, Zenon DEF Regroups
  <2> HIDE DEF w
  <2>9. x \in Seq(Pairs)
    BY <1>6, <2>6, BytesArePairs, SeqMonotonic
  <2>10. lost' = lost \/ lost' = lost \cup {n + 1}
    BY <1>7, <2>5
  <2>11. lost' \in SUBSET (1 .. (n + 1)) /\ lost' \in SUBSET Nat /\ lost \subseteq lost'
    <3>1. lost \in SUBSET (1 .. n)
      BY <1>1, DroppedIs DEF n
    <3> QED BY <1>1, <2>10, <3>1
  <2>12. Aligned(parser, w \o x, Append(packets, size), lost', stream, m)
    <3>1. CASE lost' # {}
      <4>1. /\ lost \in SUBSET Nat /\ (\A j \in lost : j <= Len(packets))
            /\ lost' = lost \/ lost' = lost \cup {Len(packets) + 1}
        BY <2>10, DroppedIs DEF n
      <4> QED BY <1>0, <1>1, <1>2, <1>5, <1>9, <2>9, <2>11, <3>1, <4>1, AlignedDrop
    <3>2. CASE lost' = {}
      <4>1. lost = {} /\ ~(k < Len(p))
        BY <2>5, <2>11, <3>2
      <4>2. x = p
        <5>1. k = Len(p)
          BY <1>7, <2>4, <4>1
        <5> QED BY <1>7, <5>1, SubSeqFull DEF x
      <4>3. Aligned(parser, w \o p, Append(packets, size), {}, stream, m)
        BY <1>0, <1>1, <1>2, <1>5, <1>9, <4>1, AlignedAppend DEF p, n
      <4> QED BY <3>2, <4>2, <4>3
    <3> QED BY <3>1, <3>2
  <2>13. Aligned(parser', Unread(parser') \o (net' \o pending'), packets', lost', stream', Len(got') + 1)
    BY <1>2, <2>8, <2>12 DEF a, m
  <2>14. Delivered(got', packets', lost')
    BY <1>0, <1>1, <1>2, <1>5, <2>11, DeliveredGrows, DroppedIs DEF n
  <2>15. StreamTypes'
    BY <1>1, <1>2, <1>3, <2>7, <2>11 DEF StreamTypes
  <2>16. StreamSides'
    BY <1>2, <1>11, <2>1, <2>5 DEF StreamSides
  <2> QED BY <1>8, <2>13, <2>14, <2>15, <2>16 DEF StreamInv
<1> QED BY <1>1, <1>10, <1>11

(* What the invariant says, in the form the steps use. *)
LEMMA Parts ==
  ASSUME StreamInv
  PROVE  /\ packets \in Seq(Nat) /\ Len(packets) \in Nat
         /\ pending \in Seq(PacketBytes(Len(packets))) /\ net \in Seq(PacketBytes(Len(packets)))
         /\ Unread(parser) \in Seq(PacketBytes(Len(packets)))
         /\ net \o pending \in Seq(PacketBytes(Len(packets)))
         /\ Len(net) \in Nat /\ lost \in SUBSET Nat /\ Len(got) + 1 \in Nat \ {0}
         /\ ParserSound(parser, packets)
         /\ Aligned(parser, Unread(parser) \o (net \o pending), packets, lost, stream, Len(got) + 1)
<1>1. packets \in Seq(Nat) /\ pending \in Seq(PacketBytes(Len(packets)))
      /\ net \in Seq(PacketBytes(Len(packets)))
  BY DEF StreamInv, StreamTypes
<1>2. ParserSound(parser, packets)
      /\ Aligned(parser, Unread(parser) \o (net \o pending), packets, lost, stream, Len(got) + 1)
  BY DEF StreamInv
<1>3. Unread(parser) \in Seq(PacketBytes(Len(packets)))
  BY <1>2, UnreadIs
<1>4. net \o pending \in Seq(PacketBytes(Len(packets))) /\ Len(net) \in Nat /\ Len(packets) \in Nat
  BY <1>1
<1> QED BY <1>1, <1>2, <1>3, <1>4, DroppedIs

(* on_raw_stream_write_notify. *)
LEMMA WriteNotifyStep ==
  ASSUME StreamInv, OnWriteNotify
  PROVE  StreamInv'
<1>1. UNCHANGED <<side, packets, lost, stream, parser, got>>
  BY DEF OnWriteNotify
<1>2. PICK n \in Nat : n = Len(packets)
  BY Parts
<1>3. PICK room \in Nat : room = Window - Len(net) - Len(parser.buf)
  <2>1. Len(net) \in Nat /\ credit \in Nat /\ Len(parser.buf) \in Nat /\ Window \in Nat
    BY Parts, SMPStreamAssumption DEF StreamInv, StreamTypes, ParserSound, ParserType
  <2>2. credit + Len(net) + Len(parser.buf) < Window
    BY DEF OnWriteNotify
  <2>3. \A a, b, c, d \in Nat : a + b + c < d => d - b - c \in Nat
    OBVIOUS
  <2>4. Window - Len(net) - Len(parser.buf) \in Nat
    BY <2>1, <2>2, <2>3, Zenon
  <2> QED BY <2>4
<1>4. CASE side = "client"
  <2>1. SendBuffList(pending, room, packets)
    BY <1>3, <1>4 DEF OnWriteNotify
  <2>2. net \in Seq(PacketBytes(n)) /\ pending \in Seq(PacketBytes(n))
    BY <1>2, Parts
  <2>3. PICK x \in Seq(PacketBytes(n)) : x = pending
    BY <2>2
  <2>4. net' \in Seq(PacketBytes(n)) /\ pending' \in Seq(PacketBytes(n)) /\ credit' \in Nat
        /\ net' \o pending' = net \o x
    BY <2>1, <2>2, <2>3, BuffListStep
  <2>5. StreamTypes'
    BY <1>1, <1>2, <2>4 DEF StreamInv, StreamTypes
  <2>6. StreamSides'
    BY <1>1, <1>4 DEF StreamInv, StreamSides
  <2>7. Aligned(parser', Unread(parser') \o (net' \o pending'), packets', lost', stream', Len(got') + 1)
    BY <1>1, <2>3, <2>4, Parts, Zenon
  <2>8. ParserSound(parser', packets') /\ Delivered(got', packets', lost')
    BY <1>1 DEF StreamInv
  <2> QED BY <2>5, <2>6, <2>7, <2>8 DEF StreamInv
<1>5. CASE side # "client"
  <2>1. credit' = room /\ UNCHANGED <<net, pending, js>>
    BY <1>3, <1>5 DEF OnWriteNotify
  <2>2. StreamTypes' /\ StreamSides'
    BY <1>1, <2>1 DEF StreamInv, StreamTypes, StreamSides
  <2> QED BY <1>1, <2>1, <2>2 DEF StreamInv
<1> QED BY <1>4, <1>5

(* CloseStream: what waits can still arrive. *)
LEMMA CloseStreamStep ==
  ASSUME StreamInv, CloseStream
  PROVE  StreamInv'
<1>1. UNCHANGED <<side, packets, pending, credit, net, lost, parser, got, js>>
      /\ stream = "open" /\ stream' = "closed" /\ side = "client"
  BY DEF CloseStream
<1>2. StreamTypes' /\ StreamSides'
  BY <1>1 DEF StreamInv, StreamTypes, StreamSides
<1>3. Aligned(parser, Unread(parser) \o (net \o pending), packets, lost, "closed", Len(got) + 1)
  BY <1>1, Parts, AlignedState
<1> QED BY <1>1, <1>2, <1>3 DEF StreamInv

(* on_raw_stream_close_notify: the parser keeps what had arrived. *)
LEMMA OnCloseStep ==
  ASSUME StreamInv, OnCloseNotify
  PROVE  StreamInv'
<1>1. UNCHANGED <<side, packets, credit, lost, parser, got>>
      /\ stream = "closed" /\ stream' = "gone" /\ pending' = <<>> /\ net' = <<>>
  BY DEF OnCloseNotify
<1>2. side = "client" /\ lost = {}
  BY <1>1 DEF StreamInv, StreamTypes, StreamSides
<1>3. StreamTypes' /\ StreamSides'
  BY <1>1, <1>2 DEF StreamInv, StreamTypes, StreamSides
<1>4. Unread(parser) \in Seq(Pairs) /\ net \o pending \in Seq(Pairs)
  BY Parts, BytesArePairs, SeqMonotonic
<1>5. Aligned(parser, Unread(parser), packets, {}, "gone", Len(got) + 1)
  BY <1>2, <1>4, Parts, AlignedPrefix
<1>6. Unread(parser) \o (<<>> \o <<>>) = Unread(parser)
  BY <1>4
<1> QED BY <1>1, <1>2, <1>3, <1>5, <1>6 DEF StreamInv

(* OnRead: bytes move from the network to the parser's buffer. *)
LEMMA ParseStep ==
  ASSUME StreamInv, NEW n \in 1 .. Len(net), Parse(n)
  PROVE  StreamInv'
<1> DEFINE l == Len(packets)
           x == SubSeq(net, 1, n)
           b == parser.buf \o x
<1>1. UNCHANGED <<side, packets, pending, credit, lost, stream, got, js>>
      /\ ~parser.running /\ parser.stage # "garbled" /\ net' = From(net, n)
      /\ parser' = [parser EXCEPT !.buf = b, !.running = TRUE]
  BY DEF Parse, From
<1>2. /\ net \in Seq(PacketBytes(l)) /\ pending \in Seq(PacketBytes(l)) /\ l \in Nat
      /\ Unread(parser) \in Seq(PacketBytes(l)) /\ n \in 0 .. Len(net)
      /\ parser \in ParserType(l) /\ parser.cur <= Len(parser.buf)
  BY Parts DEF ParserSound
<1>3. x \in Seq(PacketBytes(l)) /\ net' \in Seq(PacketBytes(l))
  <2>1. SubSeq(net, 1, n) \in Seq(PacketBytes(l)) /\ From(net, n) \in Seq(PacketBytes(l))
    BY <1>2, Halves
  <2> QED BY <1>1, <2>1
<1> HIDE DEF x
<1>4. PICK buf \in Seq(PacketBytes(l)), cur \in Nat : buf = parser.buf /\ cur = parser.cur
  BY <1>2 DEF ParserType
<1>5. b \in Seq(PacketBytes(l)) /\ cur \in 0 .. Len(buf) /\ cur <= Len(b)
  BY <1>2, <1>3, <1>4
<1>6. From(b, cur) = From(buf, cur) \o x
  BY <1>3, <1>4, <1>5, FromJoined
<1> HIDE DEF b
<1>7. parser' \in ParserType(l)
  <2> DEFINE d == [parser EXCEPT !.buf = b, !.running = TRUE]
  <2>1. d \in ParserType(l)
    BY <1>2, <1>5, ZenonT(60) DEF ParserType
  <2> QED BY <1>1, <2>1
<1>8. parser'.buf = b /\ parser'.cur = cur /\ parser'.stage = parser.stage
      /\ parser'.need = parser.need /\ parser'.id = parser.id
  BY <1>1, <1>2, <1>4 DEF ParserType
<1>9. ParserSound(parser', packets')
  BY <1>1, <1>5, <1>7, <1>8, Parts DEF ParserSound
<1>10. Unread(parser') \o (net' \o pending') = Unread(parser) \o (net \o pending)
  <2>1. Unread(parser') = Unread(parser) \o x
    BY <1>4, <1>6, <1>8 DEF Unread
  <2>2. Moves(Unread(parser), net, pending, n)
    BY <1>2, Arrived
  <2> QED BY <1>1, <2>1, <2>2, Zenon DEF x, Moves
<1>11. Aligned(parser', Unread(parser') \o (net' \o pending'), packets', lost', stream', Len(got') + 1)
  BY <1>1, <1>8, <1>10, Parts DEF Aligned
<1>12. StreamTypes' /\ StreamSides'
  BY <1>1, <1>3 DEF StreamInv, StreamTypes, StreamSides
<1> QED BY <1>1, <1>9, <1>11, <1>12 DEF StreamInv

(* The parser waits for more. *)
LEMMA WaitStep ==
  ASSUME StreamInv, NEW c, c = [parser EXCEPT !.running = FALSE]
  PROVE  /\ ParserSound(Compact(c), packets)
         /\ Aligned(Compact(c), Unread(Compact(c)) \o (net \o pending), packets, lost, stream,
                    Len(got) + 1)
<1>1. PICK l \in Nat : l = Len(packets)
  BY Parts
<1>2. parser \in ParserType(l) /\ parser.cur <= Len(parser.buf) /\ ParserSound(parser, packets)
  BY <1>1, Parts DEF ParserSound
<1>3. c \in ParserType(l)
  <2> DEFINE d == [parser EXCEPT !.running = FALSE]
  <2>1. d \in ParserType(l)
    BY <1>2, ZenonT(60) DEF ParserType
  <2> QED BY <2>1
<1>4. c.buf = parser.buf /\ c.cur = parser.cur /\ c.stage = parser.stage
      /\ c.need = parser.need /\ c.id = parser.id /\ c.running = FALSE
  BY <1>2 DEF ParserType
<1>5. c.cur <= Len(c.buf)
  BY <1>2, <1>4
<1> DEFINE e == Compact(c)
<1>6. /\ e \in ParserType(l) /\ e.cur <= Len(e.buf) /\ Unread(e) = Unread(c)
      /\ e.stage = c.stage /\ e.need = c.need /\ e.id = c.id /\ e.running = c.running
  BY <1>3, <1>5, CompactIs
<1> HIDE DEF e
<1>7. ParserSound(e, packets)
  BY <1>1, <1>2, <1>4, <1>6 DEF ParserSound
<1>8. Unread(e) = Unread(parser)
  BY <1>4, <1>6 DEF Unread
<1>9. Aligned(e, Unread(e) \o (net \o pending), packets, lost, stream, Len(got) + 1)
  BY <1>4, <1>6, <1>8, Parts DEF Aligned
<1> QED BY <1>7, <1>9 DEF e

(* A round that reads a header, and one that reads a payload and delivers. *)
LEMMA HeaderStep ==
  ASSUME StreamInv, parser.stage = "header", parser.need <= Ready(parser), ParseHeader
  PROVE  /\ ParserSound(parser', packets) /\ got' = got
         /\ Aligned(parser', Unread(parser') \o (net \o pending), packets, lost, stream,
                    Len(got) + 1)
<1> DEFINE z == net \o pending
           m == Len(got) + 1
           head == SubSeq(parser.buf, parser.cur + 1, parser.cur + HeaderSize)
<1>1. PICK i : i = parser.buf[parser.cur + 1][1]
  OBVIOUS
<1>2. packets \in Seq(Nat) /\ lost \in SUBSET Nat /\ m \in Nat \ {0} /\ ParserSound(parser, packets)
      /\ z \in Seq(PacketBytes(Len(packets)))
      /\ Aligned(parser, Unread(parser) \o z, packets, lost, stream, m)
  BY Parts
<1> HIDE DEF z, m
<1>3. /\ i \in DOMAIN packets /\ i \in Nat /\ packets[i] \in Nat
      /\ parser.cur \in Nat /\ HeaderSize \in Nat /\ parser.cur + HeaderSize <= Len(parser.buf)
      /\ Clean(lost, m) =>
           /\ i = m /\ m <= Len(packets) + 1
           /\ head = SubSeq(Packed(i, 0), 1, HeaderSize)
           /\ Framed(From(parser.buf, parser.cur + HeaderSize) \o z, packets, lost, stream, m,
                     HeaderSize)
  <2>1. AtHeader(parser, z, packets, lost, stream, m, i)
    BY <1>1, <1>2, HeaderAhead
  <2> QED BY <2>1 DEF AtHeader
<1>4. got' = got
  BY DEF ParseHeader
<1>5. CASE head # SubSeq(Packed(i, 0), 1, HeaderSize)
  <2>1. parser' = [parser EXCEPT !.stage = "garbled", !.running = FALSE]
    BY <1>1, <1>5 DEF ParseHeader
  <2>2. ~Clean(lost, m)
    BY <1>3, <1>5
  <2>3. ParserSound(parser', packets)
        /\ Aligned(parser', Unread(parser') \o z, packets, lost, stream, m)
    BY <1>2, <2>1, <2>2, HeaderRefused
  <2> QED BY <1>4, <2>3 DEF z, m
<1>6. CASE head = SubSeq(Packed(i, 0), 1, HeaderSize)
  <2> DEFINE e == [parser EXCEPT !.cur = parser.cur + HeaderSize, !.need = 0, !.id = i]
  <2>1. parser.need = HeaderSize /\ parser.need - HeaderSize = 0
    BY <1>2, <1>3 DEF ParserSound
  <2>2. parser' = Compact(RequireBytes(
          [parser EXCEPT !.cur = @ + HeaderSize, !.need = @ - HeaderSize, !.id = i],
          packets[i], "payload"))
    BY <1>1, <1>6 DEF ParseHeader
  <2>3. parser' = Compact(RequireBytes(e, packets[i], "payload"))
    BY <2>1, <2>2, Zenon
  <2> HIDE DEF e
  <2>4. e = [parser EXCEPT !.cur = parser.cur + HeaderSize, !.need = 0, !.id = i]
    BY DEF e
  <2>5. Clean(lost, m) => i = m /\ m <= Len(packets) + 1
          /\ Framed(From(parser.buf, parser.cur + HeaderSize) \o z, packets, lost, stream, m,
                    HeaderSize)
    BY <1>3
  <2>6. ParserSound(parser', packets)
        /\ Aligned(parser', Unread(parser') \o z, packets, lost, stream, m)
    BY <1>2, <1>3, <2>1, <2>3, <2>4, <2>5, HeaderTaken
  <2> QED BY <1>4, <2>6 DEF z, m
<1> QED BY <1>5, <1>6

LEMMA PacketStep ==
  ASSUME StreamInv, parser.stage = "payload", parser.need <= Ready(parser), ParsePacket
  PROVE  /\ ParserSound(parser', packets) /\ got' \in Seq(Delivery) /\ Len(got') = Len(got) + 1
         /\ Aligned(parser', Unread(parser') \o (net \o pending), packets, lost, stream,
                    Len(got') + 1)
         /\ Delivered(got', packets, lost)
<1> DEFINE z == net \o pending
           m == Len(got) + 1
<1>1. PICK data : data = SubSeq(parser.buf, parser.cur + 1, parser.cur + packets[parser.id])
  OBVIOUS
<1>2. packets \in Seq(Nat) /\ lost \in SUBSET Nat /\ m \in Nat \ {0} /\ ParserSound(parser, packets)
      /\ z \in Seq(PacketBytes(Len(packets)))
      /\ Aligned(parser, Unread(parser) \o z, packets, lost, stream, m)
  BY Parts
<1> HIDE DEF z, m
<1>3. /\ parser.id \in DOMAIN packets /\ packets[parser.id] \in Nat
      /\ parser.need = packets[parser.id]
      /\ parser.cur \in Nat /\ parser.cur + packets[parser.id] <= Len(parser.buf)
      /\ data \in Seq(Pairs)
      /\ Clean(lost, m) =>
           /\ parser.id = m /\ data = [k \in 1 .. packets[m] |-> <<m, HeaderSize + k>>]
           /\ Framed(From(parser.buf, parser.cur + packets[parser.id]) \o z, packets, lost, stream,
                     m + 1, 0)
  <2>1. AtPayload(parser, z, packets, lost, stream, m, data)
    BY <1>1, <1>2, PayloadAhead
  <2> QED BY <2>1 DEF AtPayload
<1>4. PICK size \in Nat : size = packets[parser.id]
  BY <1>3
<1> DEFINE d == [id |-> parser.id, data |-> data]
<1>5. got' = Append(got, d)
  BY <1>1 DEF ParsePacket
<1>6. d \in Delivery /\ got \in Seq(Delivery)
  <2>1. parser.id \in Nat
    BY <1>2 DEF ParserSound, ParserType
  <2> QED BY <1>3, <2>1 DEF Delivery, StreamInv, StreamTypes
<1>7. ParserSound(parser', packets)
      /\ Aligned(parser', Unread(parser') \o z, packets, lost, stream, m + 1)
  <2> DEFINE e == [parser EXCEPT !.cur = parser.cur + size, !.need = 0]
  <2>1. parser.need - size = 0
    BY <1>3, <1>4
  <2>2. parser' = Compact(RequireBytes(
          [parser EXCEPT !.cur = @ + size, !.need = @ - size], HeaderSize, "header"))
    BY <1>4 DEF ParsePacket
  <2>3. parser' = Compact(RequireBytes(e, HeaderSize, "header"))
    BY <2>1, <2>2, Zenon
  <2> HIDE DEF e
  <2>4. e = [parser EXCEPT !.cur = parser.cur + size, !.need = 0]
    BY DEF e
  <2>5. Clean(lost, m) => parser.id = m
          /\ Framed(From(parser.buf, parser.cur + size) \o z, packets, lost, stream, m + 1, 0)
    BY <1>3, <1>4
  <2>6. parser.id \in DOMAIN packets /\ parser.cur + size <= Len(parser.buf)
    BY <1>3, <1>4
  <2> QED BY <1>2, <2>3, <2>4, <2>5, <2>6, PayloadTaken
<1> HIDE DEF d
<1>8. /\ got' \in Seq(Delivery) /\ Len(got') = Len(got) + 1 /\ Len(got) \in Nat
      /\ DOMAIN got = 1 .. Len(got) /\ DOMAIN got' = 1 .. (Len(got) + 1)
      /\ got'[Len(got) + 1] = d /\ \A i \in 1 .. Len(got) : got'[i] = got[i]
  BY <1>5, <1>6
<1>9. Delivered(got', packets, lost)
  <2> SUFFICES ASSUME NEW i \in DOMAIN packets, i \in DOMAIN got', Clean(lost, i)
               PROVE  got'[i] = Payload(i, packets[i])
    BY DEF Delivered
  <2>1. CASE i \in DOMAIN got
    <3>1. got[i] = Payload(i, packets[i])
      BY <2>1 DEF StreamInv, Delivered
    <3> QED BY <1>8, <2>1, <3>1
  <2>2. CASE i \notin DOMAIN got
    <3>1. i = m
      BY <1>8, <2>2 DEF m
    <3>2. parser.id = m /\ data = [k \in 1 .. packets[m] |-> <<m, HeaderSize + k>>]
      BY <1>3, <3>1
    <3>3. got'[m] = d
      BY <1>8 DEF m
    <3> QED BY <3>1, <3>2, <3>3 DEF Payload, d
  <2> QED BY <2>1, <2>2
<1> QED BY <1>7, <1>8, <1>9 DEF z, m

LEMMA RoundStep ==
  ASSUME StreamInv, ParseRound
  PROVE  StreamInv'
<1>1. UNCHANGED <<side, packets, pending, credit, net, lost, stream, js>> /\ parser.running
  BY DEF ParseRound
<1>2. StreamSides' /\ StreamTypes
  BY <1>1 DEF StreamInv, StreamSides
<1>3. CASE parser.need > Ready(parser)
  <2> DEFINE c == [parser EXCEPT !.running = FALSE]
  <2>1. parser' = Compact(c) /\ got' = got
    BY <1>3 DEF ParseRound
  <2>2. /\ ParserSound(Compact(c), packets)
        /\ Aligned(Compact(c), Unread(Compact(c)) \o (net \o pending), packets, lost, stream,
                   Len(got) + 1)
    BY WaitStep
  <2> HIDE DEF c
  <2>3. StreamTypes'
    BY <1>1, <1>2, <2>1 DEF StreamTypes
  <2>4. Delivered(got', packets', lost')
    BY <1>1, <2>1 DEF StreamInv
  <2> QED BY <1>1, <1>2, <2>1, <2>2, <2>3, <2>4 DEF StreamInv
<1>4. CASE ~(parser.need > Ready(parser))
  <2>1. parser.need <= Ready(parser) /\ parser.stage \in {"header", "payload"}
    <3>1. parser.need \in Int /\ Ready(parser) \in Int
      BY Parts DEF ParserSound, ParserType, Ready
    <3>2. parser.stage \in {"header", "payload"}
      BY <1>1, Parts DEF ParserSound, ParserType
    <3> QED BY <1>4, <3>1, <3>2
  <2>2. CASE parser.stage = "header"
    <3>1. ParseHeader
      BY <1>4, <2>2 DEF ParseRound
    <3>2. /\ ParserSound(parser', packets) /\ got' = got
          /\ Aligned(parser', Unread(parser') \o (net \o pending), packets, lost, stream,
                     Len(got) + 1)
      BY <2>1, <2>2, <3>1, HeaderStep
    <3>3. StreamTypes'
      BY <1>1, <1>2, <3>2 DEF StreamTypes
    <3>4. Delivered(got', packets', lost')
      BY <1>1, <3>2 DEF StreamInv
    <3> QED BY <1>1, <1>2, <3>2, <3>3, <3>4 DEF StreamInv
  <2>3. CASE parser.stage = "payload"
    <3>1. ParsePacket
      BY <1>4, <2>3 DEF ParseRound
    <3>2. /\ ParserSound(parser', packets) /\ got' \in Seq(Delivery)
          /\ Aligned(parser', Unread(parser') \o (net \o pending), packets, lost, stream,
                     Len(got') + 1)
          /\ Delivered(got', packets, lost)
      BY <2>1, <2>3, <3>1, PacketStep
    <3>3. StreamTypes'
      BY <1>1, <1>2, <3>2 DEF StreamTypes
    <3> QED BY <1>1, <1>2, <3>2, <3>3 DEF StreamInv
  <2> QED BY <2>1, <2>2, <2>3
<1> QED BY <1>3, <1>4

(***************************************************************************)
(* At every moment, before the first loss, the bytes ahead of the          *)
(* receiver's parser are the packets it has not delivered, in order, and   *)
(* the parser (SMPParser.cpp) stands in front of the header or the payload *)
(* of the next one; what it delivered is what was sent.                    *)
(***************************************************************************)
THEOREM StreamCorrect == StreamSpec => []StreamInv
<1>1. StreamInv /\ [StreamNext]_smpVars => StreamInv'
  <2> SUFFICES ASSUME StreamInv, [StreamNext]_smpVars
               PROVE  StreamInv'
    OBVIOUS
  <2>1. ASSUME NEW size \in Sizes, SendPacket(size) PROVE StreamInv'
    BY <2>1, SendStep
  <2>2. CASE OnWriteNotify
    BY <2>2, WriteNotifyStep
  <2>3. CASE CloseStream
    BY <2>3, CloseStreamStep
  <2>4. CASE OnCloseNotify
    BY <2>4, OnCloseStep
  <2>5. ASSUME NEW n \in 1 .. Len(net), Parse(n) PROVE StreamInv'
    BY <2>5, ParseStep
  <2>6. CASE ParseRound
    BY <2>6, RoundStep
  <2>7. CASE UNCHANGED smpVars
    BY <2>7 DEF smpVars, StreamInv, StreamTypes, StreamSides
  <2> QED BY <2>1, <2>2, <2>3, <2>4, <2>5, <2>6, <2>7 DEF StreamNext
<1> QED BY <1>1, StreamBegins, PTL DEF StreamSpec

(***************************************************************************)
(* SMPParser delivers the packets that SendPacket was given in their       *)
(* order, each once and unchanged, whatever flow control makes             *)
(* _SendBuffList keep back and however OnRead's reads cut the stream; only *)
(* behind a packet that SMPServerStream::Send did not place whole anything *)
(* else is possible.                                                       *)
(***************************************************************************)
THEOREM PacketsArriveInOrder == StreamSpec => []PacketsInOrder
<1>1. StreamInv => PacketsInOrder
  <2> SUFFICES ASSUME StreamInv PROVE PacketsInOrder
    OBVIOUS
  <2>1. ASSUME NEW i \in Intact, i \in DOMAIN got
        PROVE  got[i] = [id |-> i, data |-> [k \in 1 .. packets[i] |-> <<i, HeaderSize + k>>]]
    BY <2>1 DEF StreamInv, Delivered, Intact, Clean, Payload
  <2>2. ASSUME lost = {} PROVE parser.stage # "garbled" /\ Len(got) <= Len(packets)
    <3>1. Clean(lost, Len(got) + 1)
      BY <2>2 DEF Clean
    <3>2. parser.stage # "garbled"
      BY <3>1 DEF StreamInv, Aligned
    <3> QED BY <2>2, <3>2, DroppedIs
  <2> QED BY <2>1, <2>2 DEF PacketsInOrder
<1> QED BY <1>1, StreamCorrect, PTL

-----------------------------------------------------------------------------
(* HTTP datagrams: what is encoded decodes to the same, for every number a *)
(* varint can hold, those of 62 bits.                                      *)

(* Eight bits more; and v shifted to the right by k bytes. *)
Join(x, y) == x * 256 + y
Shifted(v, k) == Shifts(v)[k + 1]
Varints == {v \in Nat : Shifted(v, 7) < 64}

LEMMA ByteOf ==
  ASSUME NEW v \in Nat
  PROVE  v \div 256 \in Nat /\ v % 256 \in 0..255 /\ v = Join(v \div 256, v % 256)
BY DEF Join

(* v is its eight bytes. *)
LEMMA BytesOf ==
  ASSUME NEW v \in Nat
  PROVE  /\ Shifted(v, 0) = v
         /\ \A k \in 0..7 : Shifted(v, k) \in Nat /\ Byte(v, k) \in 0..255
                           /\ Byte(v, k) = Shifted(v, k) % 256
         /\ \A k \in 0..6 : Shifted(v, k) = Join(Shifted(v, k + 1), Byte(v, k))
<1> DEFINE a == v \div 256
           b == a \div 256
           c == b \div 256
           d == c \div 256
           e == d \div 256
           f == e \div 256
           g == f \div 256
           s == <<v, a, b, c, d, e, f, g>>
<1>1. Shifts(v) = s
  BY DEF Shifts
<1>2. a \in Nat /\ v = Join(a, v % 256)
  BY ByteOf
<1> HIDE DEF a
<1>3. b \in Nat /\ a = Join(b, a % 256)
  BY <1>2, ByteOf
<1> HIDE DEF b
<1>4. c \in Nat /\ b = Join(c, b % 256)
  BY <1>3, ByteOf
<1> HIDE DEF c
<1>5. d \in Nat /\ c = Join(d, c % 256)
  BY <1>4, ByteOf
<1> HIDE DEF d
<1>6. e \in Nat /\ d = Join(e, d % 256)
  BY <1>5, ByteOf
<1> HIDE DEF e
<1>7. f \in Nat /\ e = Join(f, e % 256)
  BY <1>6, ByteOf
<1> HIDE DEF f
<1>8. g \in Nat /\ f = Join(g, f % 256)
  BY <1>7, ByteOf
<1> HIDE DEF g
<1>9. /\ s[1] = v /\ s[2] = a /\ s[3] = b /\ s[4] = c /\ s[5] = d /\ s[6] = e
      /\ s[7] = f /\ s[8] = g
  OBVIOUS
<1>10. \A k \in 0..7 : s[k + 1] \in Nat
  BY <1>2, <1>3, <1>4, <1>5, <1>6, <1>7, <1>8, <1>9
<1> HIDE DEF s
<1>11. /\ 0 + 1 = 1 /\ 1 + 1 = 2 /\ 2 + 1 = 3 /\ 3 + 1 = 4
       /\ 4 + 1 = 5 /\ 5 + 1 = 6 /\ 6 + 1 = 7 /\ 7 + 1 = 8
  OBVIOUS
<1>12. \A k \in 0..7 : Shifted(v, k) \in Nat /\ Byte(v, k) = Shifted(v, k) % 256
  BY <1>1, <1>10, Zenon DEF Shifted, Byte
<1>13. \A k \in 0..7 : Byte(v, k) \in 0..255
  <2> TAKE k \in 0..7
  <2>1. PICK w \in Nat : w = Shifted(v, k)
    BY <1>12
  <2>2. w % 256 \in 0..255
    OBVIOUS
  <2> QED BY <1>12, <2>1, <2>2, Zenon
<1>14. \A k \in 0..6 : s[k + 1] = Join(s[k + 2], s[k + 1] % 256)
  <2> TAKE k \in 0..6
  <2>1. k = 0 \/ k = 1 \/ k = 2 \/ k = 3 \/ k = 4 \/ k = 5 \/ k = 6
    OBVIOUS
  <2>2. CASE k = 0
    <3>1. k + 1 = 1 /\ k + 2 = 2
      BY <2>2
    <3> QED BY <1>9, <1>2, <3>1, Zenon
  <2>3. CASE k = 1
    <3>1. k + 1 = 2 /\ k + 2 = 3
      BY <2>3
    <3> QED BY <1>9, <1>3, <3>1, Zenon
  <2>4. CASE k = 2
    <3>1. k + 1 = 3 /\ k + 2 = 4
      BY <2>4
    <3> QED BY <1>9, <1>4, <3>1, Zenon
  <2>5. CASE k = 3
    <3>1. k + 1 = 4 /\ k + 2 = 5
      BY <2>5
    <3> QED BY <1>9, <1>5, <3>1, Zenon
  <2>6. CASE k = 4
    <3>1. k + 1 = 5 /\ k + 2 = 6
      BY <2>6
    <3> QED BY <1>9, <1>6, <3>1, Zenon
  <2>7. CASE k = 5
    <3>1. k + 1 = 6 /\ k + 2 = 7
      BY <2>7
    <3> QED BY <1>9, <1>7, <3>1, Zenon
  <2>8. CASE k = 6
    <3>1. k + 1 = 7 /\ k + 2 = 8
      BY <2>8
    <3> QED BY <1>9, <1>8, <3>1, Zenon
  <2> QED BY <2>1, <2>2, <2>3, <2>4, <2>5, <2>6, <2>7, <2>8
<1>15. ASSUME NEW k \in 0..6
       PROVE  Shifted(v, k) = Join(Shifted(v, k + 1), Byte(v, k))
  <2>1. (k + 1) + 1 = k + 2
    OBVIOUS
  <2> QED BY <1>1, <1>14, <2>1, Zenon DEF Shifted, Byte
<1>16. Shifted(v, 0) = v
  BY <1>1, <1>9, <1>11, Zenon DEF Shifted
<1> QED BY <1>12, <1>13, <1>15, <1>16, Zenon

(* The loop of VarintDecode. *)
LEMMA LoopOf ==
  ASSUME NEW len \in 1..8, NEW s
  PROVE  \E f : /\ Value(s, len) = f[len] /\ f[1] = s[1] % 64
                /\ \A k \in 2..len : f[k] = Join(f[k - 1], s[k])
<1> DEFINE F(g) == [k \in 1..len |-> IF k = 1 THEN s[1] % 64 ELSE Join(g[k - 1], s[k])]
           a1 == s[1] % 64
           a2 == Join(a1, s[2])
           a3 == Join(a2, s[3])
           a4 == Join(a3, s[4])
           a5 == Join(a4, s[5])
           a6 == Join(a5, s[6])
           a7 == Join(a6, s[7])
           a8 == Join(a7, s[8])
           b == <<a1, a2, a3, a4, a5, a6, a7, a8>>
           h == [k \in 1..len |-> b[k]]
<1>1. /\ b[1] = s[1] % 64
      /\ b[2] = Join(b[1], s[2]) /\ b[3] = Join(b[2], s[3]) /\ b[4] = Join(b[3], s[4])
      /\ b[5] = Join(b[4], s[5]) /\ b[6] = Join(b[5], s[6]) /\ b[7] = Join(b[6], s[7])
      /\ b[8] = Join(b[7], s[8])
  <2> HIDE DEF a1, a2, a3, a4, a5, a6, a7, a8
  <2>1. b[1] = a1 /\ b[2] = a2 /\ b[3] = a3 /\ b[4] = a4 /\ b[5] = a5 /\ b[6] = a6
        /\ b[7] = a7 /\ b[8] = a8
    OBVIOUS
  <2>2. a2 = Join(a1, s[2])
    BY DEF a2
  <2>3. a3 = Join(a2, s[3])
    BY DEF a3
  <2>4. a4 = Join(a3, s[4])
    BY DEF a4
  <2>5. a5 = Join(a4, s[5])
    BY DEF a5
  <2>6. a6 = Join(a5, s[6])
    BY DEF a6
  <2>7. a7 = Join(a6, s[7])
    BY DEF a7
  <2>8. a8 = Join(a7, s[8])
    BY DEF a8
  <2>9. a1 = s[1] % 64
    BY DEF a1
  <2> HIDE DEF b
  <2>10. b[2] = Join(b[1], s[2])
    BY <2>1, <2>2, Zenon
  <2>11. b[3] = Join(b[2], s[3])
    BY <2>1, <2>3, Zenon
  <2>12. b[4] = Join(b[3], s[4])
    BY <2>1, <2>4, Zenon
  <2>13. b[5] = Join(b[4], s[5])
    BY <2>1, <2>5, Zenon
  <2>14. b[6] = Join(b[5], s[6])
    BY <2>1, <2>6, Zenon
  <2>15. b[7] = Join(b[6], s[7])
    BY <2>1, <2>7, Zenon
  <2>16. b[8] = Join(b[7], s[8])
    BY <2>1, <2>8, Zenon
  <2> QED BY <2>1, <2>9, <2>10, <2>11, <2>12, <2>13, <2>14, <2>15, <2>16, Zenon
<1> HIDE DEF b
<1>2. \A k \in 1..len : k = 1 \/ (k - 1 \in 1..len /\ h[k - 1] = b[k - 1] /\ k \in 2..8)
  OBVIOUS
<1>3. \A k \in 2..8 : b[k] = Join(b[k - 1], s[k])
  <2> TAKE k \in 2..8
  <2>1. k = 2 \/ k = 3 \/ k = 4 \/ k = 5 \/ k = 6 \/ k = 7 \/ k = 8
    OBVIOUS
  <2>2. 2 - 1 = 1 /\ 3 - 1 = 2 /\ 4 - 1 = 3 /\ 5 - 1 = 4 /\ 6 - 1 = 5 /\ 7 - 1 = 6 /\ 8 - 1 = 7
    OBVIOUS
  <2>3. CASE k = 2
    BY <1>1, <2>2, <2>3, Zenon
  <2>4. CASE k = 3
    BY <1>1, <2>2, <2>4, Zenon
  <2>5. CASE k = 4
    BY <1>1, <2>2, <2>5, Zenon
  <2>6. CASE k = 5
    BY <1>1, <2>2, <2>6, Zenon
  <2>7. CASE k = 6
    BY <1>1, <2>2, <2>7, Zenon
  <2>8. CASE k = 7
    BY <1>1, <2>2, <2>8, Zenon
  <2>9. CASE k = 8
    BY <1>1, <2>2, <2>9, Zenon
  <2> QED BY <2>1, <2>3, <2>4, <2>5, <2>6, <2>7, <2>8, <2>9
<1>4. h = F(h)
  <2>1. \A k \in 1..len : h[k] = IF k = 1 THEN s[1] % 64 ELSE Join(h[k - 1], s[k])
    <3> TAKE k \in 1..len
    <3>1. h[k] = b[k]
      OBVIOUS
    <3> HIDE DEF h
    <3>2. CASE k = 1
      BY <1>1, <3>1, <3>2, Zenon
    <3>3. CASE k # 1
      <4>1. h[k - 1] = b[k - 1] /\ b[k] = Join(b[k - 1], s[k])
        BY <1>2, <1>3, <3>3, Zenon
      <4> QED BY <3>1, <3>3, <4>1, Zenon
    <3> QED BY <3>2, <3>3
  <2>2. DOMAIN h = 1..len /\ h = [k \in DOMAIN h |-> h[k]]
    OBVIOUS
  <2> HIDE DEF h
  <2> DEFINE G(k) == IF k = 1 THEN s[1] % 64 ELSE Join(h[k - 1], s[k])
  <2>3. \A k \in 1..len : h[k] = G(k)
    BY <2>1
  <2> HIDE DEF G
  <2>4. h = [k \in 1..len |-> G(k)]
    BY <2>2, <2>3
  <2> QED BY <2>4 DEF G
<1> HIDE DEF h
<1> DEFINE f == CHOOSE g : g = F(g)
<1>5. f = F(f)
  <2> HIDE DEF F
  <2> QED BY <1>4, Zenon
<1>6. Value(s, len) = f[len]
  BY Zenon DEF Value, Join
<1> HIDE DEF f
<1>7. f[1] = s[1] % 64 /\ \A k \in 2..len : f[k] = Join(f[k - 1], s[k])
  <2>1. 1 \in 1..len /\ \A k \in 2..len : k \in 1..len /\ k # 1
    OBVIOUS
  <2> QED BY <1>5, <2>1, Zenon
<1> QED BY <1>6, <1>7, Zenon

LEMMA ValueOf ==
  ASSUME NEW s
  PROVE  /\ Value(s, 1) = s[1] % 64
         /\ Value(s, 2) = Join(s[1] % 64, s[2])
         /\ Value(s, 4) = Join(Join(Join(s[1] % 64, s[2]), s[3]), s[4])
         /\ Value(s, 8) = Join(Join(Join(Join(Join(Join(Join(s[1] % 64, s[2]), s[3]), s[4]), s[5]), s[6]), s[7]), s[8])
<1>1. Value(s, 1) = s[1] % 64
  <2>1. PICK f : /\ Value(s, 1) = f[1] /\ f[1] = s[1] % 64
                 /\ \A k \in 2..1 : f[k] = Join(f[k - 1], s[k])
    <3>1. 1 \in 1..8
      OBVIOUS
    <3> QED BY <3>1, LoopOf, Zenon
  <2> QED BY <2>1, Zenon
<1>2. Value(s, 2) = Join(s[1] % 64, s[2])
  <2>1. PICK f : /\ Value(s, 2) = f[2] /\ f[1] = s[1] % 64
                 /\ \A k \in 2..2 : f[k] = Join(f[k - 1], s[k])
    <3>1. 2 \in 1..8
      OBVIOUS
    <3> QED BY <3>1, LoopOf, Zenon
  <2>2. f[2] = Join(s[1] % 64, s[2])
    <3>1. 2 \in 2..2 /\ 2 - 1 = 1
      OBVIOUS
    <3> QED BY <2>1, <3>1, Zenon
  <2> QED BY <2>1, <2>2, Zenon
<1>3. Value(s, 4) = Join(Join(Join(s[1] % 64, s[2]), s[3]), s[4])
  <2>1. PICK f : /\ Value(s, 4) = f[4] /\ f[1] = s[1] % 64
                 /\ \A k \in 2..4 : f[k] = Join(f[k - 1], s[k])
    <3>1. 4 \in 1..8
      OBVIOUS
    <3> QED BY <3>1, LoopOf, Zenon
  <2>2. f[2] = Join(s[1] % 64, s[2])
    <3>1. 2 \in 2..4 /\ 2 - 1 = 1
      OBVIOUS
    <3> QED BY <2>1, <3>1, Zenon
  <2>3. f[3] = Join(Join(s[1] % 64, s[2]), s[3])
    <3>1. 3 \in 2..4 /\ 3 - 1 = 2
      OBVIOUS
    <3> QED BY <2>1, <3>1, <2>2, Zenon
  <2>4. f[4] = Join(Join(Join(s[1] % 64, s[2]), s[3]), s[4])
    <3>1. 4 \in 2..4 /\ 4 - 1 = 3
      OBVIOUS
    <3> QED BY <2>1, <3>1, <2>3, Zenon
  <2> QED BY <2>1, <2>4, Zenon
<1>4. Value(s, 8) = Join(Join(Join(Join(Join(Join(Join(s[1] % 64, s[2]), s[3]), s[4]), s[5]), s[6]), s[7]), s[8])
  <2>1. PICK f : /\ Value(s, 8) = f[8] /\ f[1] = s[1] % 64
                 /\ \A k \in 2..8 : f[k] = Join(f[k - 1], s[k])
    <3>1. 8 \in 1..8
      OBVIOUS
    <3> QED BY <3>1, LoopOf, Zenon
  <2>2. f[2] = Join(s[1] % 64, s[2])
    <3>1. 2 \in 2..8 /\ 2 - 1 = 1
      OBVIOUS
    <3> QED BY <2>1, <3>1, Zenon
  <2>3. f[3] = Join(Join(s[1] % 64, s[2]), s[3])
    <3>1. 3 \in 2..8 /\ 3 - 1 = 2
      OBVIOUS
    <3> QED BY <2>1, <3>1, <2>2, Zenon
  <2>4. f[4] = Join(Join(Join(s[1] % 64, s[2]), s[3]), s[4])
    <3>1. 4 \in 2..8 /\ 4 - 1 = 3
      OBVIOUS
    <3> QED BY <2>1, <3>1, <2>3, Zenon
  <2>5. f[5] = Join(Join(Join(Join(s[1] % 64, s[2]), s[3]), s[4]), s[5])
    <3>1. 5 \in 2..8 /\ 5 - 1 = 4
      OBVIOUS
    <3> QED BY <2>1, <3>1, <2>4, Zenon
  <2>6. f[6] = Join(Join(Join(Join(Join(s[1] % 64, s[2]), s[3]), s[4]), s[5]), s[6])
    <3>1. 6 \in 2..8 /\ 6 - 1 = 5
      OBVIOUS
    <3> QED BY <2>1, <3>1, <2>5, Zenon
  <2>7. f[7] = Join(Join(Join(Join(Join(Join(s[1] % 64, s[2]), s[3]), s[4]), s[5]), s[6]), s[7])
    <3>1. 7 \in 2..8 /\ 7 - 1 = 6
      OBVIOUS
    <3> QED BY <2>1, <3>1, <2>6, Zenon
  <2>8. f[8] = Join(Join(Join(Join(Join(Join(Join(s[1] % 64, s[2]), s[3]), s[4]), s[5]), s[6]), s[7]), s[8])
    <3>1. 8 \in 2..8 /\ 8 - 1 = 7
      OBVIOUS
    <3> QED BY <2>1, <3>1, <2>7, Zenon
  <2> QED BY <2>1, <2>8, Zenon
<1> QED BY <1>1, <1>2, <1>3, <1>4, Zenon

(* A prefix leaves the six low bits alone. *)
LEMMA SixBits ==
  ASSUME NEW x \in 0..63
  PROVE  /\ x % 256 = x /\ x % 64 = x
         /\ (64 + x) % 64 = x /\ 64 + x \in 64..127
         /\ (128 + x) % 64 = x /\ 128 + x \in 128..191
         /\ (192 + x) % 64 = x /\ 192 + x \in 192..255
OBVIOUS

LEMMA SixBitNumber ==
  ASSUME NEW x \in Nat, x < 64
  PROVE  x \in 0..63
OBVIOUS

(* A number of one byte has nothing above it. *)
LEMMA LowByte ==
  ASSUME NEW x \in 0..63, NEW y \in Nat, NEW z \in 0..255, x = Join(y, z)
  PROVE  z = x
BY DEF Join

LEMMA EncLenOf ==
  /\ \A b \in 0..63 : EncLen(b) = 1
  /\ \A b \in 64..127 : EncLen(b) = 2
  /\ \A b \in 128..191 : EncLen(b) = 4
  /\ \A b \in 192..255 : EncLen(b) = 8
<1>1. \A b \in 0..63 : b \div 64 + 1 = 1
  OBVIOUS
<1>2. \A b \in 64..127 : b \div 64 + 1 = 2
  OBVIOUS
<1>3. \A b \in 128..191 : b \div 64 + 1 = 3
  OBVIOUS
<1>4. \A b \in 192..255 : b \div 64 + 1 = 4
  OBVIOUS
<1>5. <<1, 2, 4, 8>>[1] = 1 /\ <<1, 2, 4, 8>>[2] = 2 /\ <<1, 2, 4, 8>>[3] = 4 /\ <<1, 2, 4, 8>>[4] = 8
  OBVIOUS
<1> QED BY <1>1, <1>2, <1>3, <1>4, <1>5, Zenon DEF EncLen

(* The bytes of an encoding. *)
LEMMA EncodedBytes ==
  ASSUME NEW v \in Nat, NEW cap \in Nat, VarintLen(v) <= cap
  PROVE  LET n == VarintLen(v) IN
         /\ n \in {1, 2, 4, 8}
         /\ VarintEncode(cap, v)[1] = OrPrefix(Byte(v, n - 1), Prefix(n))
         /\ \A k \in 2..n : VarintEncode(cap, v)[k] = Byte(v, n - k)
         /\ VarintEncode(cap, v) =
              [k \in 1..n |-> IF k = 1 THEN OrPrefix(Byte(v, n - 1), Prefix(n)) ELSE Byte(v, n - k)]
<1> DEFINE n == VarintLen(v)
<1>1. n \in {1, 2, 4, 8}
  BY SMT DEF VarintLen
<1> HIDE DEF n
<1>2. VarintEncode(cap, v) = [k \in 1..n |-> IF k = 1 THEN OrPrefix(Byte(v, n - 1), Prefix(n))
                                             ELSE Byte(v, n - k)]
  BY <1>1 DEF VarintEncode, n
<1>3. 1 \in 1..n /\ \A k \in 2..n : k \in 1..n /\ k # 1
  BY <1>1
<1> QED BY <1>1, <1>2, <1>3 DEF n

(* A varint read back is the number that was written. *)
LEMMA VarintRoundTrip ==
  ASSUME NEW v \in Varints, NEW cap \in Nat, VarintLen(v) <= cap,
         NEW s \in Seq(Nat), VarintLen(v) <= Len(s),
         \A k \in 1..VarintLen(v) : s[k] = VarintEncode(cap, v)[k]
  PROVE  VarintDecode(s) = [len |-> VarintLen(v), value |-> v]
<1> v \in Nat
  BY DEF Varints
<1> DEFINE n == VarintLen(v)
<1> DEFINE a == Shifted(v, 1)
           b == Shifted(v, 2)
           c == Shifted(v, 3)
           d == Shifted(v, 4)
           e == Shifted(v, 5)
           f == Shifted(v, 6)
           g == Shifted(v, 7)
           x0 == Byte(v, 0)
           x1 == Byte(v, 1)
           x2 == Byte(v, 2)
           x3 == Byte(v, 3)
           x4 == Byte(v, 4)
           x5 == Byte(v, 5)
           x6 == Byte(v, 6)
           x7 == Byte(v, 7)
<1>1. n \in {1, 2, 4, 8}
  BY SMT DEF VarintLen
<1>2. /\ a \in Nat /\ b \in Nat /\ c \in Nat /\ d \in Nat /\ e \in Nat
      /\ f \in Nat /\ g \in Nat /\ x0 \in 0..255 /\ x1 \in 0..255 /\ x2 \in 0..255
      /\ x3 \in 0..255 /\ x4 \in 0..255 /\ x5 \in 0..255 /\ x6 \in 0..255 /\ x7 \in 0..255
      /\ v = Join(a, x0) /\ a = Join(b, x1) /\ b = Join(c, x2) /\ c = Join(d, x3)
      /\ d = Join(e, x4) /\ e = Join(f, x5) /\ f = Join(g, x6) /\ x7 = g % 256
  <2>1. \A k \in {0, 1, 2, 3, 4, 5, 6, 7} : k \in 0..7
    OBVIOUS
  <2>2. \A k \in {0, 1, 2, 3, 4, 5, 6} : k \in 0..6
    OBVIOUS
  <2>3. 0 + 1 = 1 /\ 1 + 1 = 2 /\ 2 + 1 = 3 /\ 3 + 1 = 4 /\ 4 + 1 = 5 /\ 5 + 1 = 6 /\ 6 + 1 = 7
    OBVIOUS
  <2>4. \A k \in 0..7 : Shifted(v, k) \in Nat /\ Byte(v, k) \in 0..255
    BY BytesOf, Zenon
  <2>5. /\ Shifted(v, 0) = v /\ Byte(v, 7) = Shifted(v, 7) % 256
        /\ \A k \in 0..6 : Shifted(v, k) = Join(Shifted(v, k + 1), Byte(v, k))
    <3>1. \A k \in 0..7 : Byte(v, k) = Shifted(v, k) % 256
      BY BytesOf, Zenon
    <3>2. 7 \in 0..7
      OBVIOUS
    <3>3. Byte(v, 7) = Shifted(v, 7) % 256
      BY <3>1, <3>2, Zenon
    <3> QED BY <3>3, BytesOf, Zenon
  <2>6. /\ a \in Nat /\ b \in Nat /\ c \in Nat /\ d \in Nat /\ e \in Nat
        /\ f \in Nat /\ g \in Nat /\ x0 \in 0..255 /\ x1 \in 0..255 /\ x2 \in 0..255
        /\ x3 \in 0..255 /\ x4 \in 0..255 /\ x5 \in 0..255 /\ x6 \in 0..255 /\ x7 \in 0..255
    <3>1. 0 \in 0..7 /\ 1 \in 0..7 /\ 2 \in 0..7 /\ 3 \in 0..7 /\ 4 \in 0..7 /\ 5 \in 0..7 /\ 6 \in 0..7 /\ 7 \in 0..7
      OBVIOUS
    <3>2. x0 \in 0..255
      BY <2>4, <3>1, Zenon
    <3>3. a \in Nat /\ x1 \in 0..255
      BY <2>4, <3>1, Zenon
    <3>4. b \in Nat /\ x2 \in 0..255
      BY <2>4, <3>1, Zenon
    <3>5. c \in Nat /\ x3 \in 0..255
      BY <2>4, <3>1, Zenon
    <3>6. d \in Nat /\ x4 \in 0..255
      BY <2>4, <3>1, Zenon
    <3>7. e \in Nat /\ x5 \in 0..255
      BY <2>4, <3>1, Zenon
    <3>8. f \in Nat /\ x6 \in 0..255
      BY <2>4, <3>1, Zenon
    <3>9. g \in Nat /\ x7 \in 0..255
      BY <2>4, <3>1, Zenon
    <3> HIDE DEF a, b, c, d, e, f, g, x0, x1, x2, x3, x4, x5, x6, x7
    <3> QED BY <3>2, <3>3, <3>4, <3>5, <3>6, <3>7, <3>8, <3>9, Zenon
  <2>7. /\ v = Join(a, x0) /\ a = Join(b, x1) /\ b = Join(c, x2) /\ c = Join(d, x3)
        /\ d = Join(e, x4) /\ e = Join(f, x5) /\ f = Join(g, x6) /\ x7 = g % 256
    BY <2>2, <2>3, <2>5, Zenon
  <2> QED BY <2>6, <2>7, Zenon
<1>3. s[1] = OrPrefix(Byte(v, n - 1), Prefix(n)) /\ \A k \in 2..n : s[k] = Byte(v, n - k)
  <2>1. /\ VarintEncode(cap, v)[1] = OrPrefix(Byte(v, n - 1), Prefix(n))
        /\ \A k \in 2..n : VarintEncode(cap, v)[k] = Byte(v, n - k)
    BY EncodedBytes
  <2>2. \A k \in 1..n : s[k] = VarintEncode(cap, v)[k]
    OBVIOUS
  <2> HIDE DEF n
  <2>3. 1 \in 1..n /\ \A k \in 2..n : k \in 1..n
    BY <1>1
  <2> QED BY <2>1, <2>2, <2>3, Zenon
<1>4. ASSUME EncLen(s[1]) = n, Value(s, n) = v
      PROVE  VarintDecode(s) = [len |-> n, value |-> v]
  <2>1. ~(Len(s) < 1 \/ Len(s) < n)
    <3> Len(s) \in Nat /\ n <= Len(s)
      OBVIOUS
    <3> HIDE DEF n
    <3> QED BY <1>1
  <2> HIDE DEF n
  <2> QED BY <1>4, <2>1, Zenon DEF VarintDecode
<1>5. CASE n = 1
  <2>1. v < 64
    BY <1>5, SMT DEF VarintLen
  <2>3. s[1] = OrPrefix(x0, 0)
    <3> HIDE DEF n
    <3>1. n - 1 = 0 /\ Prefix(n) = 0
      BY <1>5 DEF Prefix
    <3> QED BY <1>3, <3>1
  <2> HIDE DEF n, a, b, c, d, e, f, g, x0, x1, x2, x3, x4, x5, x6, x7
  <2>2. v \in 0..63
    BY <2>1, SixBitNumber, Zenon
  <2>4. x0 = v
    <3>1. v = Join(a, x0) /\ a \in Nat /\ x0 \in 0..255
      BY <1>2, Zenon
    <3> QED BY <2>2, <3>1, LowByte
  <2>5. s[1] = v
    <3>1. v % 64 = v
      BY <2>2, SixBits
    <3> QED BY <2>3, <2>4, <3>1 DEF OrPrefix
  <2>6. (v) % 64 = v /\ EncLen(v) = 1
    <3>1. (v) % 64 = v /\ v \in 0..63
      BY <2>2, SixBits
    <3>2. EncLen(v) = 1
      BY <3>1, EncLenOf, Zenon
    <3> QED BY <3>1, <3>2
  <2>7. Value(s, n) = v
    <3>1. Value(s, n) = s[1] % 64
      BY <1>5, ValueOf, Zenon
    <3>2. s[1] % 64 = v
      BY <2>5, <2>6
    <3> QED BY <3>1, <3>2, Zenon
  <2>20. EncLen(s[1]) = n
    BY <1>5, <2>5, <2>6, Zenon
  <2> QED BY <1>4, <2>20, <2>7, Zenon DEF n
<1>6. CASE n = 2
  <2>1. v < 16384
    BY <1>6, SMT DEF VarintLen
  <2>3. s[1] = OrPrefix(x1, 64)
    <3> HIDE DEF n
    <3>1. n - 1 = 1 /\ Prefix(n) = 64
      BY <1>6 DEF Prefix
    <3> QED BY <1>3, <3>1
  <2>7. s[2] = x0
    <3> HIDE DEF n
    <3>1. 2 \in 2..n /\ n - 2 = 0
      BY <1>6
    <3> QED BY <1>3, <3>1
  <2> HIDE DEF n, a, b, c, d, e, f, g, x0, x1, x2, x3, x4, x5, x6, x7
  <2>2. a \in 0..63
    <3>1. a < 64
      BY <1>2, <2>1, SMT DEF Join
    <3>2. a < 64
      BY <1>2, <3>1, SMT
    <3> QED BY <1>2, <3>2, SixBitNumber, Zenon
  <2>4. x1 = a
    <3>1. a = Join(b, x1) /\ b \in Nat /\ x1 \in 0..255
      BY <1>2, Zenon
    <3> QED BY <2>2, <3>1, LowByte
  <2>5. s[1] = 64 + a
    <3>1. a % 64 = a
      BY <2>2, SixBits
    <3> QED BY <2>3, <2>4, <3>1 DEF OrPrefix
  <2>6. (64 + a) % 64 = a /\ EncLen(64 + a) = 2
    <3>1. (64 + a) % 64 = a /\ 64 + a \in 64..127
      BY <2>2, SixBits
    <3>2. EncLen(64 + a) = 2
      BY <3>1, EncLenOf, Zenon
    <3> QED BY <3>1, <3>2
  <2>8. Value(s, n) = v
    <3>1. Value(s, n) = Join(s[1] % 64, s[2])
      BY <1>6, ValueOf, Zenon
    <3>2. s[1] % 64 = a
      BY <2>5, <2>6
    <3>3. Join(s[1] % 64, s[2]) = v
      BY <1>2, <2>7, <3>2, Zenon
    <3> QED BY <3>1, <3>3, Zenon
  <2>20. EncLen(s[1]) = n
    BY <1>6, <2>5, <2>6, Zenon
  <2> QED BY <1>4, <2>20, <2>8, Zenon DEF n
<1>7. CASE n = 4
  <2>1. v < 1073741824
    BY <1>7, SMT DEF VarintLen
  <2>3. s[1] = OrPrefix(x3, 128)
    <3> HIDE DEF n
    <3>1. n - 1 = 3 /\ Prefix(n) = 128
      BY <1>7 DEF Prefix
    <3> QED BY <1>3, <3>1
  <2>7. s[2] = x2
    <3> HIDE DEF n
    <3>1. 2 \in 2..n /\ n - 2 = 2
      BY <1>7
    <3> QED BY <1>3, <3>1
  <2>8. s[3] = x1
    <3> HIDE DEF n
    <3>1. 3 \in 2..n /\ n - 3 = 1
      BY <1>7
    <3> QED BY <1>3, <3>1
  <2>9. s[4] = x0
    <3> HIDE DEF n
    <3>1. 4 \in 2..n /\ n - 4 = 0
      BY <1>7
    <3> QED BY <1>3, <3>1
  <2> HIDE DEF n, a, b, c, d, e, f, g, x0, x1, x2, x3, x4, x5, x6, x7
  <2>2. c \in 0..63
    <3>1. a < 4194304
      BY <1>2, <2>1, SMT DEF Join
    <3>2. b < 16384
      BY <1>2, <3>1, SMT DEF Join
    <3>3. c < 64
      BY <1>2, <3>2, SMT DEF Join
    <3>4. c < 64
      BY <1>2, <3>3, SMT
    <3> QED BY <1>2, <3>4, SixBitNumber, Zenon
  <2>4. x3 = c
    <3>1. c = Join(d, x3) /\ d \in Nat /\ x3 \in 0..255
      BY <1>2, Zenon
    <3> QED BY <2>2, <3>1, LowByte
  <2>5. s[1] = 128 + c
    <3>1. c % 64 = c
      BY <2>2, SixBits
    <3> QED BY <2>3, <2>4, <3>1 DEF OrPrefix
  <2>6. (128 + c) % 64 = c /\ EncLen(128 + c) = 4
    <3>1. (128 + c) % 64 = c /\ 128 + c \in 128..191
      BY <2>2, SixBits
    <3>2. EncLen(128 + c) = 4
      BY <3>1, EncLenOf, Zenon
    <3> QED BY <3>1, <3>2
  <2>10. Value(s, n) = v
    <3>1. Value(s, n) = Join(Join(Join(s[1] % 64, s[2]), s[3]), s[4])
      BY <1>7, ValueOf, Zenon
    <3>2. s[1] % 64 = c
      BY <2>5, <2>6
    <3>3. Join(s[1] % 64, s[2]) = b
      BY <1>2, <2>7, <3>2, Zenon
    <3>4. Join(Join(s[1] % 64, s[2]), s[3]) = a
      BY <1>2, <2>8, <3>3, Zenon
    <3>5. Join(Join(Join(s[1] % 64, s[2]), s[3]), s[4]) = v
      BY <1>2, <2>9, <3>4, Zenon
    <3> QED BY <3>1, <3>5, Zenon
  <2>20. EncLen(s[1]) = n
    BY <1>7, <2>5, <2>6, Zenon
  <2> QED BY <1>4, <2>20, <2>10, Zenon DEF n
<1>8. CASE n = 8
  <2>1. g < 64
    BY Zenon DEF Varints
  <2>3. s[1] = OrPrefix(x7, 192)
    <3> HIDE DEF n
    <3>1. n - 1 = 7 /\ Prefix(n) = 192
      BY <1>8 DEF Prefix
    <3> QED BY <1>3, <3>1
  <2>7. s[2] = x6
    <3> HIDE DEF n
    <3>1. 2 \in 2..n /\ n - 2 = 6
      BY <1>8
    <3> QED BY <1>3, <3>1
  <2>8. s[3] = x5
    <3> HIDE DEF n
    <3>1. 3 \in 2..n /\ n - 3 = 5
      BY <1>8
    <3> QED BY <1>3, <3>1
  <2>9. s[4] = x4
    <3> HIDE DEF n
    <3>1. 4 \in 2..n /\ n - 4 = 4
      BY <1>8
    <3> QED BY <1>3, <3>1
  <2>10. s[5] = x3
    <3> HIDE DEF n
    <3>1. 5 \in 2..n /\ n - 5 = 3
      BY <1>8
    <3> QED BY <1>3, <3>1
  <2>11. s[6] = x2
    <3> HIDE DEF n
    <3>1. 6 \in 2..n /\ n - 6 = 2
      BY <1>8
    <3> QED BY <1>3, <3>1
  <2>12. s[7] = x1
    <3> HIDE DEF n
    <3>1. 7 \in 2..n /\ n - 7 = 1
      BY <1>8
    <3> QED BY <1>3, <3>1
  <2>13. s[8] = x0
    <3> HIDE DEF n
    <3>1. 8 \in 2..n /\ n - 8 = 0
      BY <1>8
    <3> QED BY <1>3, <3>1
  <2> HIDE DEF n, a, b, c, d, e, f, g, x0, x1, x2, x3, x4, x5, x6, x7
  <2>2. g \in 0..63
    BY <1>2, <2>1, SixBitNumber, Zenon
  <2>4. x7 = g
    BY <1>2, <2>2, SixBits
  <2>5. s[1] = 192 + g
    <3>1. g % 64 = g
      BY <2>2, SixBits
    <3> QED BY <2>3, <2>4, <3>1 DEF OrPrefix
  <2>6. (192 + g) % 64 = g /\ EncLen(192 + g) = 8
    <3>1. (192 + g) % 64 = g /\ 192 + g \in 192..255
      BY <2>2, SixBits
    <3>2. EncLen(192 + g) = 8
      BY <3>1, EncLenOf, Zenon
    <3> QED BY <3>1, <3>2
  <2>14. Value(s, n) = v
    <3>1. Value(s, n) = Join(Join(Join(Join(Join(Join(Join(s[1] % 64, s[2]), s[3]), s[4]), s[5]), s[6]), s[7]), s[8])
      BY <1>8, ValueOf, Zenon
    <3>2. s[1] % 64 = g
      BY <2>5, <2>6
    <3>3. Join(s[1] % 64, s[2]) = f
      BY <1>2, <2>7, <3>2, Zenon
    <3>4. Join(Join(s[1] % 64, s[2]), s[3]) = e
      BY <1>2, <2>8, <3>3, Zenon
    <3>5. Join(Join(Join(s[1] % 64, s[2]), s[3]), s[4]) = d
      BY <1>2, <2>9, <3>4, Zenon
    <3>6. Join(Join(Join(Join(s[1] % 64, s[2]), s[3]), s[4]), s[5]) = c
      BY <1>2, <2>10, <3>5, Zenon
    <3>7. Join(Join(Join(Join(Join(s[1] % 64, s[2]), s[3]), s[4]), s[5]), s[6]) = b
      BY <1>2, <2>11, <3>6, Zenon
    <3>8. Join(Join(Join(Join(Join(Join(s[1] % 64, s[2]), s[3]), s[4]), s[5]), s[6]), s[7]) = a
      BY <1>2, <2>12, <3>7, Zenon
    <3>9. Join(Join(Join(Join(Join(Join(Join(s[1] % 64, s[2]), s[3]), s[4]), s[5]), s[6]), s[7]), s[8]) = v
      BY <1>2, <2>13, <3>8, Zenon
    <3> QED BY <3>1, <3>9, Zenon
  <2>20. EncLen(s[1]) = n
    BY <1>8, <2>5, <2>6, Zenon
  <2> QED BY <1>4, <2>20, <2>14, Zenon DEF n
<1>9. n \in {1, 2, 4, 8} => (n = 1 \/ n = 2 \/ n = 4 \/ n = 8)
  <2> HIDE DEF n
  <2> QED OBVIOUS
<1> QED
  <2> HIDE DEF n
  <2> QED BY <1>1, <1>5, <1>6, <1>7, <1>8, <1>9 DEF n

LEMMA ZeroFits == 0 \in Varints
<1>1. 0 \div 256 = 0
  OBVIOUS
<1>2. Shifts(0) = <<0, 0, 0, 0, 0, 0, 0, 0>>
  BY <1>1 DEF Shifts
<1>3. Shifted(0, 7) = 0
  BY <1>2 DEF Shifted
<1> QED BY <1>3 DEF Varints

(* A quarter of a varint is one. *)
LEMMA QuarterFits ==
  ASSUME NEW w \in Varints
  PROVE  QuarterStreamId(w) \in Varints
<1> DEFINE v == QuarterStreamId(w)
<1>1. w \in Nat /\ Shifted(w, 7) < 64
  BY DEF Varints
<1>2. v \in Nat /\ v <= w
  BY <1>1 DEF QuarterStreamId
<1> HIDE DEF v
<1>3. \A x, y \in Nat : x <= y => /\ x \div 256 \in Nat /\ y \div 256 \in Nat
                                 /\ x \div 256 <= y \div 256
  OBVIOUS
<1> DEFINE Below(x, y) == x \in Nat /\ y \in Nat /\ x <= y
<1>4. \A x, y : Below(x, y) => Below(x \div 256, y \div 256)
  BY <1>3, Zenon
<1>5. Below(v, w)
  BY <1>1, <1>2
<1> HIDE DEF Below
<1>6. Below(Shifted(v, 7), Shifted(w, 7))
  <2> DEFINE Sh(x) == x \div 256
             S7(x) == Sh(Sh(Sh(Sh(Sh(Sh(Sh(x)))))))
  <2>1. \A x, y : Below(x, y) => Below(Sh(x), Sh(y))
    BY <1>4
  <2>2. Shifted(v, 7) = S7(v) /\ Shifted(w, 7) = S7(w)
    BY DEF Shifted, Shifts
  <2> HIDE DEF Sh
  <2>3. Below(S7(v), S7(w))
    BY <1>5, <2>1, Zenon
  <2> QED BY <2>2, <2>3, Zenon
<1>7. Shifted(v, 7) < 64
  BY <1>1, <1>6 DEF Below
<1> QED BY <1>2, <1>7, Zenon DEF Varints, v

(* Sequences of numbers, one after the other. *)
LEMMA ListOf ==
  ASSUME NEW n \in Nat, NEW s \in [1..n -> Nat]
  PROVE  s \in Seq(Nat) /\ Len(s) = n
OBVIOUS

LEMMA ConcatOf ==
  ASSUME NEW s \in Seq(Nat), NEW t \in Seq(Nat)
  PROVE  /\ s \o t \in Seq(Nat) /\ Len(s \o t) = Len(s) + Len(t)
         /\ \A k \in 1..(Len(s) + Len(t)) :
              (s \o t)[k] = IF k <= Len(s) THEN s[k] ELSE t[k - Len(s)]
OBVIOUS

LEMMA ConcatOne ==
  ASSUME NEW s \in Seq(Nat), NEW t \in Seq(Nat), Len(t) = 1
  PROVE  /\ s \o t \in Seq(Nat) /\ Len(s \o t) = Len(s) + 1
         /\ (s \o t)[Len(s) + 1] = t[1]
         /\ \A k \in 1..Len(s) : (s \o t)[k] = s[k]
<1> DEFINE h == s \o t
<1>1. /\ h \in Seq(Nat) /\ Len(h) = Len(s) + Len(t)
      /\ \A k \in 1..(Len(s) + Len(t)) : h[k] = IF k <= Len(s) THEN s[k] ELSE t[k - Len(s)]
  BY ConcatOf, Zenon
<1> HIDE DEF h
<1>2. Len(s) \in Nat /\ Len(s) + 1 \in 1..(Len(s) + 1) /\ ~(Len(s) + 1 <= Len(s))
      /\ Len(s) + 1 - Len(s) = 1 /\ \A k \in 1..Len(s) : k \in 1..(Len(s) + 1) /\ k <= Len(s)
  OBVIOUS
<1>3. h[Len(s) + 1] = IF Len(s) + 1 <= Len(s) THEN s[Len(s) + 1] ELSE t[Len(s) + 1 - Len(s)]
  BY <1>1, <1>2
<1>4. h[Len(s) + 1] = t[1]
  BY <1>2, <1>3, Zenon
<1>5. \A k \in 1..Len(s) : h[k] = s[k]
  BY <1>1, <1>2, Zenon
<1> QED BY <1>1, <1>4, <1>5, Zenon DEF h

(* A datagram read back is the datagram that was written, and its header   *)
(* is as long as DatagramOverhead says.                                    *)
LEMMA DatagramRoundTrip ==
  ASSUME NEW v \in Varints, NEW size \in Nat
  PROVE  LET d == EncodeDatagram(v, size) IN
         /\ Len(d.head) = DatagramOverhead(v) /\ d.size = size
         /\ DecodeDatagram(d) = [ok |-> TRUE, qsid |-> v, ctx |-> 0, size |-> size]
<1> v \in Nat
  BY DEF Varints
<1> DEFINE n == VarintLen(v)
           q == VarintEncode(n + 1, v)
           c == VarintEncode(1, 0)
           h == q \o c
           d == EncodeDatagram(v, size)
<1>1. n \in {1, 2, 4, 8} /\ VarintLen(0) = 1
  BY SMT DEF VarintLen
<1>0. 0 \in Varints
  BY ZeroFits
<1>2. \A k \in 0..7 : Byte(v, k) \in 0..255
  BY BytesOf, Zenon
<1>3. q \in Seq(Nat) /\ Len(q) = n
  <2> HIDE DEF n
  <2>1. q = [k \in 1..n |-> IF k = 1 THEN OrPrefix(Byte(v, n - 1), Prefix(n)) ELSE Byte(v, n - k)]
    BY <1>1 DEF VarintEncode, n
  <2> HIDE DEF q
  <2>2. \A b \in 0..255 : OrPrefix(b, Prefix(n)) \in Nat
    BY <1>1 DEF OrPrefix, Prefix
  <2>3. \A k \in 1..n : n - k \in 0..7 /\ 1 \in 1..n
    BY <1>1
  <2>4. ASSUME NEW k \in 1..n PROVE q[k] \in Nat
    <3>1. q[k] = IF k = 1 THEN OrPrefix(Byte(v, n - 1), Prefix(n)) ELSE Byte(v, n - k)
      BY <2>1
    <3>2. Byte(v, n - 1) \in 0..255 /\ Byte(v, n - k) \in 0..255
      BY <1>2, <2>3, Zenon
    <3>3. Byte(v, n - k) \in Nat
      BY <3>2
    <3> QED BY <2>2, <3>1, <3>2, <3>3, Zenon
  <2>5. n \in Nat
    BY <1>1
  <2>6. DOMAIN q = 1..n
    BY <2>1
  <2>7. q \in [1..n -> Nat]
    BY <2>1, <2>4, <2>6
  <2> QED BY <2>5, <2>7
<1>4. c \in Seq(Nat) /\ Len(c) = 1 /\ c[1] = 0
  <2>1. c = [k \in 1..1 |-> IF k = 1 THEN OrPrefix(Byte(0, 1 - 1), Prefix(1)) ELSE Byte(0, 1 - k)]
    BY <1>1 DEF VarintEncode
  <2>2. Byte(0, 1 - 1) = 0
    <3>1. Shifts(0)[1] = 0
      BY DEF Shifts
    <3>2. 1 - 1 + 1 = 1 /\ 0 % 256 = 0
      OBVIOUS
    <3> QED BY <3>1, <3>2, Zenon DEF Byte
  <2>3. OrPrefix(0, Prefix(1)) = 0
    BY DEF OrPrefix, Prefix
  <2> HIDE DEF c
  <2>4. c[1] = 0 /\ DOMAIN c = 1..1
    BY <2>1, <2>2, <2>3
  <2>5. c = [k \in 1..1 |-> c[k]] /\ \A k \in 1..1 : c[k] \in Nat
    BY <2>1, <2>4
  <2>6. c \in [1..1 -> Nat]
    BY <2>5
  <2>7. c \in Seq(Nat)
    <3>1. 1 \in Nat
      OBVIOUS
    <3> QED BY <2>6, <3>1, ListOf, Zenon
  <2>8. Len(c) = 1
    <3>1. 1 \in Nat
      OBVIOUS
    <3> QED BY <2>6, <3>1, ListOf, Zenon
  <2> QED BY <2>4, <2>7, <2>8
<1> HIDE DEF n
<1>5. d = [ok |-> TRUE, head |-> h, size |-> size]
  <2>1. DatagramOverhead(v) = n + 1
    BY <1>1 DEF DatagramOverhead, kUdpContextId, n
  <2>2. n + 1 - Len(q) = 1 /\ (q # <<>> /\ c # <<>>) = TRUE
    <3> HIDE DEF q, c
    <3>1. Len(q) # 0 /\ Len(c) # 0
      BY <1>1, <1>3, <1>4
    <3> QED BY <1>1, <1>3, <3>1
  <2> DEFINE o == DatagramOverhead(v)
             q2 == VarintEncode(o, v)
             c2 == VarintEncode(o - Len(q2), kUdpContextId)
  <2>3. d = [ok |-> q2 # <<>> /\ c2 # <<>>, head |-> q2 \o c2, size |-> size]
    BY DEF EncodeDatagram
  <2>4. q2 = q
    BY <2>1, Zenon
  <2>5. c2 = c
    <3> HIDE DEF q2, q
    <3>1. o = n + 1
      BY <2>1
    <3> HIDE DEF o
    <3>2. o - Len(q2) = 1
      BY <1>1, <1>3, <2>4, <3>1
    <3> QED BY <3>2, Zenon DEF kUdpContextId
  <2> HIDE DEF d, q, q2, c, c2
  <2> QED BY <2>2, <2>3, <2>4, <2>5
<1> HIDE DEF c, d, q
<1>6. h \in Seq(Nat) /\ Len(h) = n + 1 /\ h[n + 1] = 0
      /\ \A k \in 1..n : h[k] = q[k]
  <2>1. /\ h \in Seq(Nat) /\ Len(h) = Len(q) + 1 /\ h[Len(q) + 1] = c[1]
        /\ \A k \in 1..Len(q) : h[k] = q[k]
    BY <1>3, <1>4, ConcatOne, Zenon
  <2> HIDE DEF h
  <2> QED BY <1>3, <1>4, <2>1, Zenon
<1> HIDE DEF h
<1>7. VarintDecode(h) = [len |-> n, value |-> v]
  <2>1. n + 1 \in Nat /\ n <= n + 1
    BY <1>1
  <2> QED BY <1>6, <2>1, VarintRoundTrip DEF n, q
<1> DEFINE t == SubSeq(h, n + 1, Len(h))
<1>8. t \in Seq(Nat) /\ Len(t) = 1 /\ t[1] = 0
  <2>1. n + 1 \in 1..Len(h) /\ Len(h) = n + 1
    BY <1>1, <1>6
  <2> QED BY <1>6, <2>1
<1> HIDE DEF t
<1>9. VarintDecode(t) = [len |-> 1, value |-> 0]
  <2>1. \A k \in 1..1 : t[k] = VarintEncode(1, 0)[k]
    BY <1>4, <1>8 DEF c
  <2>2. 0 \in Nat /\ 1 \in Nat /\ 1 <= 1
    OBVIOUS
  <2>3. VarintLen(0) <= 1 /\ VarintLen(0) <= Len(t)
        /\ \A k \in 1..VarintLen(0) : t[k] = VarintEncode(1, 0)[k]
    BY <1>1, <1>8, <2>1, <2>2
  <2>4. VarintDecode(t) = [len |-> VarintLen(0), value |-> 0]
    BY <1>0, <1>1, <1>8, <2>2, <2>3, VarintRoundTrip
  <2> QED BY <1>1, <2>4
<1>10. DecodeDatagram(d) = [ok |-> TRUE, qsid |-> v, ctx |-> 0, size |-> size]
  <2>1. d.head = h /\ d.size = size
    BY <1>5
  <2>2. DecodeDatagram(d) = [ok |-> n # 0 /\ 1 # 0, qsid |-> v, ctx |-> 0,
                             size |-> n + 1 + size - n - 1]
    BY <1>6, <1>7, <1>9, <2>1 DEF DecodeDatagram, t
  <2>3. n + 1 + size - n - 1 = size /\ (n # 0 /\ 1 # 0) = TRUE
    BY <1>1
  <2> QED BY <2>2, <2>3
<1>11. Len(d.head) = DatagramOverhead(v) /\ d.size = size
  BY <1>1, <1>5, <1>6 DEF DatagramOverhead, kUdpContextId, n
<1> QED BY <1>10, <1>11 DEF d

-----------------------------------------------------------------------------
(* The two connections of a MASQUE tunnel: the inner one, of the           *)
(* application, and the one to the proxy that carries it.                  *)

Datagram == {EncodeDatagram(qsid, size) : qsid \in Varints, size \in Nat}

InnerTasks ==
  [t : {"connect", "close", "udpClosed", "tunnelClosed", "tunnelReady", "packet"},
   x : {0} \cup BOOLEAN \cup Datagram \cup Foreign]

TunnelTasks == [t : {"toProxy", "close", "udpClosed", "dgram"}, x : {0} \cup Datagram]

Inner ==
  [life : {"live", "deleted"}, state : 0..6, new : {FREED, MAX}, keep : BOOLEAN,
   udp : {"open", "closing", "closed", "gone"}, q : Seq(InnerTasks), detached : BOOLEAN,
   status : {"SUCCESS", "FAILURE", "NETDOWN", "TIMEDOUT"},
   quic : {"none", "connecting", "open", "closing"}, tunnel : BOOLEAN,
   tunnelClosing : BOOLEAN, rpc : BOOLEAN, timer : BOOLEAN, mss : Nat,
   called : BOOLEAN, closes : BOOLEAN, closed : BOOLEAN,
   ans : Seq({"SUCCESS", "FAILURE", "NETDOWN", "TIMEDOUT", "ALREADYRUNNING"})]

Tunnel ==
  [life : {"none", "live", "deleted"}, state : 0..6, new : {FREED, MAX}, keep : BOOLEAN,
   udp : {"open", "closing", "closed", "gone"}, q : Seq(TunnelTasks), detached : BOOLEAN,
   h3 : {"none", "connecting", "open"}, ready : BOOLEAN, inner : BOOLEAN,
   qsid : Varints, mss : Nat]

(* The inner connection has a tunnel as long as there is one, and is over  *)
(* only without.                                                           *)
Linked(i, t) ==
  /\ i.tunnel <=> t.life = "live"
  /\ i.detached => ~i.tunnel /\ i.state = FREED
  /\ i.closed => i.detached
  /\ i.life = "deleted" => i.closed

(* There is one tunnel at most: Connect is called once. *)
Once(i, t) ==
  /\ t.life = "none" => t.q = <<>> /\ t.state = INIT
  /\ \A j \in DOMAIN i.q : i.q[j].t = "connect" =>
       /\ i.called /\ t.life = "none"
       /\ \A k \in DOMAIN i.q : i.q[k].t = "connect" => k = j
  /\ \A j \in DOMAIN i.q : i.q[j].t = "tunnelClosed" => t.life # "none"
  /\ ~i.called => t.life = "none"

(* The stages of a tunnel: what it grants is set when the inner connection *)
(* measures it, and stays.                                                 *)
Staged(t) ==
  /\ t.state < INIT => t.new = FREED
  /\ t.state = INIT => t.h3 = "none"
  /\ t.state = INIT \/ t.h3 = "connecting" => t.mss = 0

Measured(i, t) ==
  /\ i.quic # "none" => i.mss # 0
  /\ i.mss # 0 => /\ t.state # INIT /\ t.h3 # "connecting"
                  /\ t.mss = i.mss + DatagramOverhead(t.qsid) + kMasqueMssSafetyMargin

(* A datagram of the inner connection: the largest packet it may send, for *)
(* the stream the proxy granted.                                           *)
Encapsulated(d, i, t) == i.mss # 0 /\ d = EncodeDatagram(t.qsid, i.mss)

Encoded(i, t, out) ==
  /\ \A k \in DOMAIN t.q : t.q[k].t = "dgram" => Encapsulated(t.q[k].x, i, t)
  /\ \A d \in out : Encapsulated(d, i, t)

PairInv(i, t, out) ==
  Linked(i, t) /\ Once(i, t) /\ Staged(t) /\ Measured(i, t) /\ Encoded(i, t, out)

TunnelInv ==
  /\ inner \in Inner /\ tun \in Tunnel
  /\ dgrams \in [out : SUBSET Datagram, sent : Nat, recv : Nat]
  /\ PairInv(inner, tun, dgrams.out)

-----------------------------------------------------------------------------
(* What a step that only moves the inner connection along leaves alone. *)
Same(i, j) ==
  /\ j \in Inner /\ j.life = i.life /\ j.q = i.q /\ j.tunnel = i.tunnel
  /\ j.detached = i.detached /\ j.closed = i.closed /\ j.called = i.called
  /\ j.mss = i.mss /\ (i.quic = "none" => j.quic = "none")

(* Such a step, of either connection, keeps the invariant; so does a task  *)
(* that is posted.                                                         *)
LEMMA InnerSame ==
  ASSUME NEW i \in Inner, NEW j, NEW t, NEW out, PairInv(i, t, out), Same(i, j),
         i.detached => j.state = i.state
  PROVE  PairInv(j, t, out)
<1>1. Linked(j, t)
  BY DEF PairInv, Linked, Same
<1>2. Once(j, t)
  BY DEF PairInv, Once, Same
<1>3. Measured(j, t)
  BY DEF PairInv, Measured, Same
<1>4. Encoded(j, t, out)
  BY DEF PairInv, Encoded, Encapsulated, Same
<1> QED BY <1>1, <1>2, <1>3, <1>4 DEF PairInv

LEMMA TunnelSame ==
  ASSUME NEW i, NEW t \in Tunnel, NEW u \in Tunnel, NEW out, PairInv(i, t, out),
         u.life = t.life, u.q = t.q, u.qsid = t.qsid, u.mss = t.mss,
         u.h3 = t.h3 \/ u.h3 = "none",
         u.state = t.state \/ (t.life # "none" /\ u.state < INIT),
         u.state < INIT => u.new = FREED
  PROVE  PairInv(i, u, out)
<1>0. u.state \in Int /\ t.state \in Int
  BY DEF Tunnel
<1>1. Linked(i, u)
  BY DEF PairInv, Linked
<1>2. Once(i, u)
  BY DEF PairInv, Once
<1>3. Measured(i, u)
  BY <1>0 DEF PairInv, Measured, INIT
<1>4. Encoded(i, u, out)
  BY DEF PairInv, Encoded, Encapsulated
<1>5. Staged(u)
  BY <1>0 DEF PairInv, Staged, INIT
<1> QED BY <1>1, <1>2, <1>3, <1>4, <1>5 DEF PairInv

LEMMA InnerPost ==
  ASSUME NEW i \in Inner, NEW t, NEW out, PairInv(i, t, out),
         NEW x \in InnerTasks, x.t = "tunnelClosed" => t.life # "none",
         x.t # "connect"
  PROVE  Post(i, x) \in Inner /\ PairInv(Post(i, x), t, out)
<1>1. CASE i.detached
  BY <1>1 DEF Post
<1>2. CASE ~i.detached
  <2> DEFINE q == Append(i.q, x)
             j == [i EXCEPT !.q = q]
  <2>1. Post(i, x) = j
    BY <1>2 DEF Post
  <2>2. i.q \in Seq(InnerTasks)
    BY DEF Inner
  <2>3. q \in Seq(InnerTasks) /\ Len(q) = Len(i.q) + 1
        /\ \A k \in DOMAIN q : IF k = Len(q) THEN q[k] = x ELSE k \in DOMAIN i.q /\ q[k] = i.q[k]
    BY <2>2
  <2>4. j \in Inner
    BY <2>3, ZenonT(60) DEF Inner
  <2> HIDE DEF q
  <2>5. /\ j.q = q /\ j.life = i.life /\ j.tunnel = i.tunnel /\ j.detached = i.detached
        /\ j.closed = i.closed /\ j.called = i.called /\ j.mss = i.mss
        /\ j.quic = i.quic /\ j.state = i.state
    BY DEF Inner
  <2> HIDE DEF j
  <2>6. Linked(j, t)
    BY <2>5 DEF PairInv, Linked
  <2>7. Once(j, t)
    BY <2>5, <2>3 DEF PairInv, Once
  <2>8. Measured(j, t)
    BY <2>5 DEF PairInv, Measured
  <2>9. Encoded(j, t, out)
    BY <2>5 DEF PairInv, Encoded, Encapsulated
  <2> QED BY <2>1, <2>4, <2>6, <2>7, <2>8, <2>9 DEF PairInv
<1> QED BY <1>1, <1>2

LEMMA TunnelPost ==
  ASSUME NEW i, NEW t \in Tunnel, NEW out, PairInv(i, t, out), t.life # "none",
         NEW x \in TunnelTasks, x.t = "dgram" => Encapsulated(x.x, i, t)
  PROVE  Post(t, x) \in Tunnel /\ PairInv(i, Post(t, x), out)
<1>1. CASE t.detached
  BY <1>1 DEF Post
<1>2. CASE ~t.detached
  <2> DEFINE q == Append(t.q, x)
             u == [t EXCEPT !.q = q]
  <2>1. Post(t, x) = u
    BY <1>2 DEF Post
  <2>2. t.q \in Seq(TunnelTasks)
    BY DEF Tunnel
  <2>3. q \in Seq(TunnelTasks) /\ Len(q) = Len(t.q) + 1
        /\ \A k \in DOMAIN q : IF k = Len(q) THEN q[k] = x ELSE k \in DOMAIN t.q /\ q[k] = t.q[k]
    BY <2>2
  <2>4. u \in Tunnel
    BY <2>3, ZenonT(60) DEF Tunnel
  <2> HIDE DEF q
  <2>5. /\ u.q = q /\ u.life = t.life /\ u.state = t.state /\ u.new = t.new
        /\ u.h3 = t.h3 /\ u.mss = t.mss /\ u.qsid = t.qsid
    BY DEF Tunnel
  <2> HIDE DEF u
  <2>6. Linked(i, u)
    BY <2>5 DEF PairInv, Linked
  <2>7. Once(i, u)
    BY <2>5 DEF PairInv, Once
  <2>8. Measured(i, u)
    BY <2>5 DEF PairInv, Measured
  <2>9. Encoded(i, u, out)
    BY <2>5, <2>3 DEF PairInv, Encoded, Encapsulated
  <2>10. Staged(u)
    BY <2>5 DEF PairInv, Staged
  <2> QED BY <2>1, <2>4, <2>6, <2>7, <2>8, <2>9, <2>10 DEF PairInv
<1> QED BY <1>1, <1>2

LEMMA TaskTypes ==
  /\ \A n \in {"connect", "close", "udpClosed", "tunnelClosed"} : Task(n, 0) \in InnerTasks
  /\ \A ok \in BOOLEAN : Task("tunnelReady", ok) \in InnerTasks
  /\ \A d \in Datagram \cup Foreign : Task("packet", d) \in InnerTasks
  /\ \A n \in {"toProxy", "close", "udpClosed"} : Task(n, 0) \in TunnelTasks
  /\ \A d \in Datagram : Task("dgram", d) \in TunnelTasks
  /\ \A n, x : Task(n, x).t = n /\ Task(n, x).x = x
BY DEF Task, InnerTasks, TunnelTasks

LEMMA NotifyKeeps ==
  ASSUME NEW i \in Inner, NEW r \in {"SUCCESS", "FAILURE", "NETDOWN", "TIMEDOUT"}
  PROVE  LET j == NotifyConnectResult(i, r) IN
         Same(i, j) /\ j.state = i.state /\ j.new = i.new /\ j.quic = i.quic /\ j.keep = i.keep
<1>1. CASE ~i.rpc
  BY <1>1 DEF NotifyConnectResult, Same
<1>2. CASE i.rpc
  <2> DEFINE a == Append(i.ans, r)
             j == [i EXCEPT !.ans = a, !.rpc = FALSE, !.timer = FALSE]
  <2>1. NotifyConnectResult(i, r) = j
    BY <1>2 DEF NotifyConnectResult
  <2>2. i.ans \in Seq({"SUCCESS", "FAILURE", "NETDOWN", "TIMEDOUT", "ALREADYRUNNING"})
    BY DEF Inner
  <2>3. a \in Seq({"SUCCESS", "FAILURE", "NETDOWN", "TIMEDOUT", "ALREADYRUNNING"})
    BY <2>2
  <2> HIDE DEF a
  <2>4. j \in Inner
    BY <2>3, ZenonT(60) DEF Inner
  <2>5. /\ j.life = i.life /\ j.q = i.q /\ j.tunnel = i.tunnel /\ j.detached = i.detached
        /\ j.closed = i.closed /\ j.called = i.called /\ j.mss = i.mss /\ j.quic = i.quic
        /\ j.state = i.state /\ j.new = i.new /\ j.keep = i.keep
    BY DEF Inner
  <2> HIDE DEF j
  <2> QED BY <2>1, <2>4, <2>5 DEF Same
<1> QED BY <1>1, <1>2

LEMMA SetStateKeeps ==
  ASSUME NEW i \in Inner, NEW r \in {"SUCCESS", "FAILURE", "NETDOWN", "TIMEDOUT"}
  PROVE  LET j == SetState(i, r) IN
         Same(i, j) /\ j.state = i.state /\ j.quic = i.quic /\ j.keep = i.keep
<1> DEFINE j == SetState(i, r)
<1>1. j \in Inner
  BY ZenonT(60) DEF Inner, SetState
<1>2. /\ j.life = i.life /\ j.q = i.q /\ j.tunnel = i.tunnel /\ j.detached = i.detached
      /\ j.closed = i.closed /\ j.called = i.called /\ j.mss = i.mss /\ j.quic = i.quic
      /\ j.state = i.state /\ j.keep = i.keep
  BY DEF Inner, SetState
<1> HIDE DEF j
<1> QED BY <1>1, <1>2 DEF Same, j

LEMMA SameTrans ==
  ASSUME NEW i, NEW j, NEW k, Same(i, j), Same(j, k)
  PROVE  Same(i, k)
BY DEF Same

(* A failure that is reported and begins the end. *)
LEMMA FailKeeps ==
  ASSUME NEW i \in Inner, NEW r \in {"SUCCESS", "FAILURE", "NETDOWN", "TIMEDOUT"}
  PROVE  LET j == SetState(NotifyConnectResult(i, r), r) IN
         Same(i, j) /\ j.state = i.state /\ j.quic = i.quic /\ j.keep = i.keep
<1> DEFINE k == NotifyConnectResult(i, r)
           j == SetState(k, r)
<1>1. Same(i, k) /\ k.state = i.state /\ k.quic = i.quic /\ k.keep = i.keep
  BY NotifyKeeps
<1>2. k \in Inner
  BY <1>1 DEF Same
<1> HIDE DEF k
<1>3. Same(k, j) /\ j.state = k.state /\ j.quic = k.quic /\ j.keep = k.keep
  BY <1>2, SetStateKeeps
<1> HIDE DEF j
<1>4. Same(i, j) /\ j.state = i.state /\ j.quic = i.quic /\ j.keep = i.keep
  BY <1>1, <1>3, SameTrans
<1> QED BY <1>4 DEF j, k

-----------------------------------------------------------------------------
(* The steps of an end: CloseQuic of either, and the checks that free them. *)
LEMMA CloseQuicInner ==
  ASSUME NEW i \in Inner, NEW live \in BOOLEAN
  PROVE  LET j == CloseQuic(i, live) IN Same(i, j) /\ (i.state = FREED => j.state = FREED)
<1> DEFINE d == IF i.state > INIT THEN [i EXCEPT !.keep = FALSE, !.state = CLOSING_QUIC] ELSE i
           e == [d EXCEPT !.state = CLOSING_SOCK, !.udp = IF @ = "open" THEN "closing" ELSE @]
           j == CloseQuic(i, live)
<1>0. i.state \in 0..6
  BY DEF Inner
<1>1. d \in Inner
  <2>1. CLOSING_QUIC \in 0..6
    BY DEF CLOSING_QUIC
  <2>2. [i EXCEPT !.keep = FALSE, !.state = CLOSING_QUIC] \in Inner
    BY <2>1, ZenonT(60) DEF Inner
  <2> QED BY <2>2
<1>2. Same(i, d) /\ (i.state = FREED => d = i)
  <2>1. CASE i.state > INIT
    <3>1. /\ d.life = i.life /\ d.q = i.q /\ d.tunnel = i.tunnel /\ d.detached = i.detached
          /\ d.closed = i.closed /\ d.called = i.called /\ d.mss = i.mss /\ d.quic = i.quic
      BY <2>1 DEF Inner
    <3> QED BY <1>0, <1>1, <2>1, <3>1 DEF Same, FREED, INIT
  <2>2. CASE ~(i.state > INIT)
    BY <2>2 DEF Same
  <2> QED BY <2>1, <2>2
<1> HIDE DEF d
<1>3. e \in Inner
  <2>1. CLOSING_SOCK \in 0..6
    BY DEF CLOSING_SOCK
  <2>2. d.udp \in {"open", "closing", "closed", "gone"}
    BY <1>1 DEF Inner
  <2> DEFINE v == IF d.udp = "open" THEN "closing" ELSE d.udp
  <2>3. v \in {"open", "closing", "closed", "gone"}
    BY <2>2
  <2>4. e = [d EXCEPT !.state = CLOSING_SOCK, !.udp = v]
    BY <1>1 DEF Inner
  <2> HIDE DEF v, e
  <2> QED BY <1>1, <2>1, <2>3, <2>4, ZenonT(60) DEF Inner
<1>4. /\ e.life = d.life /\ e.q = d.q /\ e.tunnel = d.tunnel /\ e.detached = d.detached
      /\ e.closed = d.closed /\ e.called = d.called /\ e.mss = d.mss /\ e.quic = d.quic
  BY <1>1 DEF Inner
<1>5. Same(d, e)
  <2> HIDE DEF e
  <2> QED BY <1>3, <1>4 DEF Same
<1>6. j = IF d.state # CLOSING_QUIC \/ live THEN d ELSE e
  BY DEF CloseQuic, d
<1> HIDE DEF e, j
<1>7. Same(i, j) /\ (i.state = FREED => j.state = FREED)
  BY <1>2, <1>5, <1>6, SameTrans DEF FREED, CLOSING_QUIC
<1> QED BY <1>7 DEF j

LEMMA CloseQuicTunnel ==
  ASSUME NEW i, NEW t \in Tunnel, NEW out, PairInv(i, t, out), t.life # "none", t.new = FREED
  PROVE  LET u == CloseQuic(t, FALSE) IN
         u \in Tunnel /\ PairInv(i, u, out) /\ u.life = t.life /\ u.new = FREED
<1> DEFINE d == IF t.state > INIT THEN [t EXCEPT !.keep = FALSE, !.state = CLOSING_QUIC] ELSE t
           e == [d EXCEPT !.state = CLOSING_SOCK, !.udp = IF @ = "open" THEN "closing" ELSE @]
           u == CloseQuic(t, FALSE)
<1>0. t.state \in 0..6
  BY DEF Tunnel
<1>1. d \in Tunnel
  <2>1. CLOSING_QUIC \in 0..6
    BY DEF CLOSING_QUIC
  <2>2. [t EXCEPT !.keep = FALSE, !.state = CLOSING_QUIC] \in Tunnel
    BY <2>1, ZenonT(60) DEF Tunnel
  <2> QED BY <2>2
<1>2. /\ d.life = t.life /\ d.q = t.q /\ d.qsid = t.qsid /\ d.mss = t.mss
      /\ d.h3 = t.h3 /\ d.new = FREED /\ (d.state = t.state \/ d.state < INIT)
  <2>1. CASE t.state > INIT
    BY <2>1 DEF Tunnel, CLOSING_QUIC, INIT
  <2>2. CASE ~(t.state > INIT)
    BY <2>2
  <2> QED BY <2>1, <2>2
<1> HIDE DEF d
<1>3. PairInv(i, d, out)
  BY <1>1, <1>2, TunnelSame
<1>4. e \in Tunnel
  <2>1. CLOSING_SOCK \in 0..6
    BY DEF CLOSING_SOCK
  <2>2. d.udp \in {"open", "closing", "closed", "gone"}
    BY <1>1 DEF Tunnel
  <2> DEFINE v == IF d.udp = "open" THEN "closing" ELSE d.udp
  <2>3. v \in {"open", "closing", "closed", "gone"}
    BY <2>2
  <2>4. e = [d EXCEPT !.state = CLOSING_SOCK, !.udp = v]
    BY <1>1 DEF Tunnel
  <2> HIDE DEF v, e
  <2> QED BY <1>1, <2>1, <2>3, <2>4, ZenonT(60) DEF Tunnel
<1>5. /\ e.life = d.life /\ e.q = d.q /\ e.qsid = d.qsid /\ e.mss = d.mss
      /\ e.h3 = d.h3 /\ e.new = FREED /\ e.state < INIT
  BY <1>1, <1>2 DEF Tunnel, CLOSING_SOCK, INIT
<1>6. u = IF d.state # CLOSING_QUIC THEN d ELSE e
  BY DEF CloseQuic, d
<1> HIDE DEF e, u
<1>7. PairInv(i, e, out)
  BY <1>1, <1>2, <1>3, <1>4, <1>5, TunnelSame
<1>8. u \in Tunnel /\ PairInv(i, u, out) /\ u.life = t.life /\ u.new = FREED
  BY <1>1, <1>2, <1>3, <1>4, <1>5, <1>6, <1>7
<1> QED BY <1>8 DEF u

LEMMA TunnelCloseCheckKeeps ==
  ASSUME NEW i, NEW t \in Tunnel, NEW out, PairInv(i, t, out), t.life # "none"
  PROVE  LET u == TunnelCloseCheck(t) IN u \in Tunnel /\ PairInv(i, u, out) /\ u.life = t.life
<1> DEFINE d == CloseQuic(t, FALSE)
           e == [d EXCEPT !.detached = TRUE, !.state = FREED]
           u == TunnelCloseCheck(t)
<1>1. CASE ~Closing(t)
  BY <1>1 DEF TunnelCloseCheck
<1>2. CASE Closing(t)
  <2>1. t.new = FREED
    BY <1>2 DEF Closing, PairInv, Staged, Tunnel, FREED, MAX, INIT
  <2>2. d \in Tunnel /\ PairInv(i, d, out) /\ d.life = t.life /\ d.new = FREED
    BY <2>1, CloseQuicTunnel
  <2>3. u = IF d.state = CLOSING_SOCK /\ d.udp = "gone" THEN e ELSE d
    BY <1>2 DEF TunnelCloseCheck
  <2> HIDE DEF d
  <2>4. e \in Tunnel
    <3>1. FREED \in 0..6
      BY DEF FREED
    <3> QED BY <2>2, <3>1, ZenonT(60) DEF Tunnel
  <2>5. /\ e.life = d.life /\ e.q = d.q /\ e.qsid = d.qsid /\ e.mss = d.mss
        /\ e.h3 = d.h3 /\ e.new = FREED /\ e.state < INIT
    BY <2>2 DEF Tunnel, FREED, INIT
  <2> HIDE DEF e, u
  <2>6. PairInv(i, e, out)
    BY <2>2, <2>4, <2>5, TunnelSame
  <2>7. u \in Tunnel /\ PairInv(i, u, out) /\ u.life = t.life
    BY <2>2, <2>3, <2>4, <2>5, <2>6
  <2> QED BY <2>7 DEF u
<1> QED BY <1>1, <1>2

-----------------------------------------------------------------------------
(* The two connections of a step, in order. *)
PairOK(p, out) == p \in [i : Inner, t : Tunnel] /\ PairInv(p.i, p.t, out)

LEMMA MakePair ==
  ASSUME NEW i \in Inner, NEW t \in Tunnel, NEW out, PairInv(i, t, out)
  PROVE  PairOK([i |-> i, t |-> t], out)
BY DEF PairOK

LEMMA PostCloseTunnel ==
  ASSUME NEW i, NEW t \in Tunnel, NEW out, PairInv(i, t, out), t.life # "none"
  PROVE  PostClose(t) \in Tunnel /\ PairInv(i, PostClose(t), out)
<1> DEFINE x == Task("close", 0)
<1>1. x \in TunnelTasks /\ x.t # "dgram"
  BY TaskTypes
<1> HIDE DEF x
<1>2. Post(t, x) \in Tunnel /\ PairInv(i, Post(t, x), out)
  BY <1>1, TunnelPost
<1> QED BY <1>2 DEF PostClose, x

LEMMA PostCloseInner ==
  ASSUME NEW i \in Inner, NEW t, NEW out, PairInv(i, t, out)
  PROVE  PostClose(i) \in Inner /\ PairInv(PostClose(i), t, out)
<1> DEFINE x == Task("close", 0)
<1>1. x \in InnerTasks /\ x.t = "close"
  BY TaskTypes
<1> HIDE DEF x
<1>2. Post(i, x) \in Inner /\ PairInv(Post(i, x), t, out)
  BY <1>1, InnerPost
<1> QED BY <1>2 DEF PostClose, x

LEMMA InnerFreeKeeps ==
  ASSUME NEW p, NEW out, PairOK(p, out)
  PROVE  PairOK(InnerFree(p), out)
<1>0. p.i \in Inner /\ p.t \in Tunnel /\ PairInv(p.i, p.t, out)
  BY DEF PairOK
<1>1. CASE p.i.state # CLOSING_SOCK \/ p.i.udp # "gone"
  BY <1>1 DEF InnerFree
<1>2. CASE ~(p.i.state # CLOSING_SOCK \/ p.i.udp # "gone") /\ p.i.tunnel
  <2> DEFINE j == [p.i EXCEPT !.tunnelClosing = TRUE]
             u == IF p.i.tunnelClosing THEN p.t ELSE PostClose(p.t)
  <2>1. j \in Inner
    BY <1>0, ZenonT(60) DEF Inner
  <2>2. /\ j.life = p.i.life /\ j.q = p.i.q /\ j.tunnel = p.i.tunnel /\ j.detached = p.i.detached
        /\ j.closed = p.i.closed /\ j.called = p.i.called /\ j.mss = p.i.mss
        /\ j.quic = p.i.quic /\ j.state = p.i.state
    BY <1>0 DEF Inner
  <2>3. InnerFree(p) = [i |-> j, t |-> u]
    BY <1>2 DEF InnerFree
  <2> HIDE DEF j
  <2>4. PairInv(j, p.t, out)
    BY <1>0, <2>1, <2>2, InnerSame DEF Same
  <2>5. p.t.life # "none"
    BY <1>0, <1>2 DEF PairInv, Linked
  <2>6. u \in Tunnel /\ PairInv(j, u, out)
    BY <1>0, <2>4, <2>5, PostCloseTunnel
  <2> HIDE DEF u
  <2> QED BY <2>1, <2>3, <2>6, MakePair
<1>3. CASE ~(p.i.state # CLOSING_SOCK \/ p.i.udp # "gone") /\ ~p.i.tunnel
  <2> DEFINE k == NotifyConnectResult(p.i, p.i.status)
             j == [k EXCEPT !.detached = TRUE, !.state = FREED]
  <2>1. p.i.status \in {"SUCCESS", "FAILURE", "NETDOWN", "TIMEDOUT"}
    BY <1>0 DEF Inner
  <2>2. Same(p.i, k)
    BY <1>0, <2>1, NotifyKeeps
  <2>3. k \in Inner
    BY <2>2 DEF Same
  <2>4. InnerFree(p) = [i |-> j, t |-> p.t]
    BY <1>3 DEF InnerFree
  <2> HIDE DEF k
  <2>5. j \in Inner
    <3>1. FREED \in 0..6
      BY DEF FREED
    <3> QED BY <2>3, <3>1, ZenonT(60) DEF Inner
  <2>6. /\ j.life = k.life /\ j.q = k.q /\ j.tunnel = k.tunnel /\ j.detached = TRUE
        /\ j.closed = k.closed /\ j.called = k.called /\ j.mss = k.mss
        /\ j.quic = k.quic /\ j.state = FREED
    BY <2>3 DEF Inner
  <2> HIDE DEF j
  <2>7. Linked(j, p.t)
    BY <1>0, <1>3, <2>2, <2>6 DEF PairInv, Linked, Same
  <2>8. Once(j, p.t)
    BY <1>0, <2>2, <2>6 DEF PairInv, Once, Same
  <2>9. Measured(j, p.t)
    BY <1>0, <2>2, <2>6 DEF PairInv, Measured, Same
  <2>10. Encoded(j, p.t, out)
    BY <1>0, <2>2, <2>6 DEF PairInv, Encoded, Encapsulated, Same
  <2>11. PairInv(j, p.t, out)
    BY <1>0, <2>7, <2>8, <2>9, <2>10 DEF PairInv
  <2> QED BY <1>0, <2>4, <2>5, <2>11, MakePair
<1> QED BY <1>1, <1>2, <1>3

LEMMA CloseCheckKeeps ==
  ASSUME NEW p, NEW out, PairOK(p, out)
  PROVE  PairOK(CloseCheck(p), out)
<1>0. p.i \in Inner /\ p.t \in Tunnel /\ PairInv(p.i, p.t, out)
  BY DEF PairOK
<1>1. CASE ~Closing(p.i)
  BY <1>1 DEF CloseCheck
<1>2. CASE Closing(p.i)
  <2> DEFINE a == p.i.timer /\ p.i.state <= INIT
             b == IF p.i.quic # "none" /\ p.i.state > INIT THEN "closing" ELSE p.i.quic
             d == [p.i EXCEPT !.timer = a, !.quic = b]
             c == d.quic # "none"
             j == CloseQuic(d, c)
  <2>1. a \in BOOLEAN /\ b \in {"none", "connecting", "open", "closing"}
        /\ (p.i.quic = "none" => b = "none")
    BY <1>0 DEF Inner
  <2>2. CloseCheck(p) = InnerFree([i |-> j, t |-> p.t])
    BY <1>0, <1>2 DEF CloseCheck, Inner
  <2> HIDE DEF a, b
  <2>3. d \in Inner
    BY <1>0, <2>1, ZenonT(60) DEF Inner
  <2>4. /\ d.life = p.i.life /\ d.q = p.i.q /\ d.tunnel = p.i.tunnel /\ d.detached = p.i.detached
        /\ d.closed = p.i.closed /\ d.called = p.i.called /\ d.mss = p.i.mss
        /\ d.quic = b /\ d.state = p.i.state
    BY <1>0 DEF Inner
  <2>5. c \in BOOLEAN
    OBVIOUS
  <2> HIDE DEF d, c
  <2>6. Same(d, j) /\ (d.state = FREED => j.state = FREED)
    BY <2>3, <2>5, CloseQuicInner
  <2> HIDE DEF j
  <2>7. Same(p.i, j)
    BY <2>1, <2>3, <2>4, <2>6 DEF Same
  <2>8. p.i.detached => j.state = p.i.state
    BY <1>0, <2>4, <2>6 DEF PairInv, Linked
  <2>9. PairOK([i |-> j, t |-> p.t], out)
    <3>1. PairInv(j, p.t, out)
      BY <1>0, <2>7, <2>8, InnerSame
    <3>2. j \in Inner
      BY <2>7 DEF Same
    <3> QED BY <1>0, <3>1, <3>2, MakePair
  <2> QED BY <2>2, <2>9, InnerFreeKeeps
<1> QED BY <1>1, <1>2

-----------------------------------------------------------------------------
(* Taking the first task of the inner connection off its queue. *)
LEMMA InnerTail ==
  ASSUME NEW i \in Inner, NEW t, NEW out, PairInv(i, t, out), i.q # <<>>,
         NEW udp \in {"open", "closing", "closed", "gone"}
  PROVE  LET j == [i EXCEPT !.q = Tail(i.q), !.udp = udp] IN
         /\ j \in Inner /\ PairInv(j, t, out)
         /\ j.state = i.state /\ j.new = i.new /\ j.detached = i.detached
         /\ Head(i.q) \in InnerTasks
         /\ Head(i.q).t = "connect" =>
              /\ j.called /\ t.life = "none"
              /\ \A k \in DOMAIN j.q : j.q[k].t # "connect"
         /\ Head(i.q).t = "tunnelClosed" => t.life # "none"
<1> DEFINE q == Tail(i.q)
           j == [i EXCEPT !.q = q, !.udp = udp]
<1>1. i.q \in Seq(InnerTasks)
  BY DEF Inner
<1>2. /\ q \in Seq(InnerTasks) /\ Head(i.q) = i.q[1] /\ 1 \in DOMAIN i.q
      /\ Head(i.q) \in InnerTasks
      /\ \A k \in DOMAIN q : k + 1 \in DOMAIN i.q /\ q[k] = i.q[k + 1] /\ k \in Int /\ k + 1 # 1
  BY <1>1
<1> HIDE DEF q
<1>3. j \in Inner
  BY <1>2, ZenonT(60) DEF Inner
<1>4. /\ j.q = q /\ j.life = i.life /\ j.tunnel = i.tunnel /\ j.detached = i.detached
      /\ j.closed = i.closed /\ j.called = i.called /\ j.mss = i.mss
      /\ j.quic = i.quic /\ j.state = i.state /\ j.new = i.new
  BY DEF Inner
<1> HIDE DEF j
<1>5. Linked(j, t)
  BY <1>4 DEF PairInv, Linked
<1>6. Once(j, t)
  <2> \A k, l \in DOMAIN q : k + 1 = l + 1 => k = l
    BY <1>2
  <2> QED BY <1>2, <1>4 DEF PairInv, Once
<1>7. Measured(j, t)
  BY <1>4 DEF PairInv, Measured
<1>8. Encoded(j, t, out)
  BY <1>4 DEF PairInv, Encoded, Encapsulated
<1>9. /\ Head(i.q).t = "connect" =>
              /\ j.called /\ t.life = "none"
              /\ \A k \in DOMAIN j.q : j.q[k].t # "connect"
      /\ Head(i.q).t = "tunnelClosed" => t.life # "none"
  BY <1>2, <1>4 DEF PairInv, Once
<1>10. PairInv(j, t, out)
  BY <1>5, <1>6, <1>7, <1>8 DEF PairInv
<1> QED BY <1>2, <1>3, <1>4, <1>9, <1>10 DEF j, q

LEMMA WithInner ==
  ASSUME NEW p, NEW out, PairOK(p, out), NEW j \in Inner, PairInv(j, p.t, out)
  PROVE  PairOK([p EXCEPT !.i = j], out)
BY DEF PairOK

LEMMA ConnectTaskKeeps ==
  ASSUME NEW p, NEW out, PairOK(p, out), p.t = tun, p.t.life = "none", p.i.called,
         ~Closing(p.i), NEW o \in {"ok", "bad", "notimer"},
         \A k \in DOMAIN p.i.q : p.i.q[k].t # "connect"
  PROVE  PairOK(ConnectTask(p, o), out)
<1>0. p.i \in Inner /\ p.t \in Tunnel /\ PairInv(p.i, p.t, out)
  BY DEF PairOK
<1>1. CASE p.i.state > INIT
  <2> DEFINE a == Append(p.i.ans, "ALREADYRUNNING")
             j == [p.i EXCEPT !.ans = a]
  <2>1. p.i.ans \in Seq({"SUCCESS", "FAILURE", "NETDOWN", "TIMEDOUT", "ALREADYRUNNING"})
    BY <1>0 DEF Inner
  <2>2. a \in Seq({"SUCCESS", "FAILURE", "NETDOWN", "TIMEDOUT", "ALREADYRUNNING"})
    BY <2>1
  <2>3. ConnectTask(p, o) = [p EXCEPT !.i = j]
    BY <1>1, <1>0 DEF ConnectTask, PairOK, Inner
  <2> HIDE DEF a
  <2>4. j \in Inner
    BY <1>0, <2>2, ZenonT(60) DEF Inner
  <2>5. /\ j.life = p.i.life /\ j.q = p.i.q /\ j.tunnel = p.i.tunnel /\ j.detached = p.i.detached
        /\ j.closed = p.i.closed /\ j.called = p.i.called /\ j.mss = p.i.mss
        /\ j.quic = p.i.quic /\ j.state = p.i.state
    BY <1>0 DEF Inner
  <2> HIDE DEF j
  <2>6. PairInv(j, p.t, out)
    BY <1>0, <2>4, <2>5, InnerSame DEF Same
  <2> QED BY <2>3, <2>4, <2>6, WithInner
<1>2. CASE ~(p.i.state > INIT)
  <2> DEFINE s == MasqueStartTunnel(p, o)
             ok == o = "ok"
             k == [s.i EXCEPT !.state = HANDSHAKE, !.rpc = TRUE, !.timer = ok]
             f == SetState(NotifyConnectResult(k, "FAILURE"), "FAILURE")
             j == IF ok THEN k ELSE f
  <2>1. ConnectTask(p, o) = [i |-> j, t |-> s.t]
    BY <1>2 DEF ConnectTask
  <2>2. ~p.i.detached
    BY <1>0 DEF PairInv, Linked, Closing
  <2>3. s.i \in Inner /\ s.t \in Tunnel /\ PairInv(s.i, s.t, out) /\ s.i.detached = p.i.detached
    <3>1. CASE o = "bad"
      BY <1>0, <3>1 DEF MasqueStartTunnel
    <3>2. CASE o # "bad"
      <4> DEFINE h == [p.i EXCEPT !.tunnel = TRUE]
                 u == CreateMasqueTunnel
                 q == <<Task("toProxy", 0)>>
      <4>1. s = [i |-> h, t |-> u]
        BY <3>2 DEF MasqueStartTunnel
      <4>2. h \in Inner
        BY <1>0, ZenonT(60) DEF Inner
      <4>3. /\ h.life = p.i.life /\ h.q = p.i.q /\ h.tunnel = TRUE /\ h.detached = p.i.detached
            /\ h.closed = p.i.closed /\ h.called = p.i.called /\ h.mss = p.i.mss
            /\ h.quic = p.i.quic /\ h.state = p.i.state
        BY <1>0 DEF Inner
      <4>4. q \in Seq(TunnelTasks) /\ \A n \in DOMAIN q : q[n].t # "dgram"
        <5>1. Task("toProxy", 0) \in TunnelTasks /\ Task("toProxy", 0).t # "dgram"
          BY TaskTypes
        <5> QED BY <5>1
      <4>5. u = [p.t EXCEPT !.life = "live", !.inner = TRUE, !.q = q]
        BY DEF CreateMasqueTunnel
      <4> HIDE DEF u, h, q
      <4>6. u \in Tunnel
        BY <1>0, <4>4, <4>5, ZenonT(60) DEF Tunnel
      <4>7. /\ u.life = "live" /\ u.q = q /\ u.qsid = p.t.qsid /\ u.mss = p.t.mss
            /\ u.h3 = p.t.h3 /\ u.state = p.t.state /\ u.new = p.t.new
        BY <1>0, <4>5 DEF Tunnel
      <4>8. Linked(h, u)
        BY <1>0, <2>2, <4>3, <4>7 DEF PairInv, Linked
      <4>9. Once(h, u)
        BY <1>0, <4>3, <4>7 DEF PairInv, Once
      <4>10. Measured(h, u) /\ Staged(u)
        BY <1>0, <4>3, <4>7 DEF PairInv, Measured, Staged
      <4>11. Encoded(h, u, out)
        BY <1>0, <4>3, <4>4, <4>7 DEF PairInv, Encoded, Encapsulated
      <4> QED BY <4>1, <4>2, <4>3, <4>6, <4>8, <4>9, <4>10, <4>11 DEF PairInv
    <3> QED BY <3>1, <3>2
  <2> HIDE DEF s
  <2>4. k \in Inner
    <3>1. HANDSHAKE \in 0..6 /\ ok \in BOOLEAN
      BY DEF HANDSHAKE
    <3> HIDE DEF ok
    <3> QED BY <2>3, <3>1, ZenonT(60) DEF Inner
  <2>5. /\ k.life = s.i.life /\ k.q = s.i.q /\ k.tunnel = s.i.tunnel /\ k.detached = s.i.detached
        /\ k.closed = s.i.closed /\ k.called = s.i.called /\ k.mss = s.i.mss /\ k.quic = s.i.quic
    BY <2>3 DEF Inner
  <2> HIDE DEF k
  <2>6. Same(s.i, k)
    BY <2>4, <2>5 DEF Same
  <2>7. Same(k, f)
    BY <2>4, FailKeeps
  <2> HIDE DEF f
  <2>8. Same(s.i, j)
    BY <2>6, <2>7, SameTrans
  <2> HIDE DEF j
  <2>9. j \in Inner /\ PairInv(j, s.t, out)
    BY <2>2, <2>3, <2>8, InnerSame DEF Same
  <2> QED BY <2>1, <2>3, <2>9, MakePair
<1> QED BY <1>1, <1>2

LEMMA TunnelReadyKeeps ==
  ASSUME NEW p, NEW out, PairOK(p, out), NEW ok, NEW o
  PROVE  PairOK(MasqueOnTunnelReady(p, ok, o), out)
<1>0. p.i \in Inner /\ p.t \in Tunnel /\ PairInv(p.i, p.t, out)
  BY DEF PairOK
<1> DEFINE mss == MasqueDatagramMss(p.t)
           f == SetState(NotifyConnectResult(p.i, "FAILURE"), "FAILURE")
           j == [p.i EXCEPT !.quic = "connecting", !.mss = mss]
<1>1. CASE ok /\ o = "ok" /\ p.i.tunnel /\ mss # 0
  <2>1. MasqueOnTunnelReady(p, ok, o) = [p EXCEPT !.i = j]
    BY <1>0, <1>1 DEF MasqueOnTunnelReady, PairOK, Inner
  <2>2. /\ mss \in Nat /\ p.t.h3 # "none"
        /\ p.t.mss = mss + DatagramOverhead(p.t.qsid) + kMasqueMssSafetyMargin
    <3>1. p.t.mss \in Nat /\ p.t.qsid \in Nat
      BY <1>0 DEF Tunnel, Varints
    <3>2. DatagramOverhead(p.t.qsid) \in Nat
      BY <3>1 DEF DatagramOverhead, VarintLen
    <3> HIDE DEF DatagramOverhead
    <3> QED BY <1>1, <3>1, <3>2 DEF MasqueDatagramMss, Minus, kMasqueMssSafetyMargin
  <2> HIDE DEF mss
  <2>3. j \in Inner
    BY <1>0, <2>2, ZenonT(60) DEF Inner
  <2>4. /\ j.life = p.i.life /\ j.q = p.i.q /\ j.tunnel = p.i.tunnel /\ j.detached = p.i.detached
        /\ j.closed = p.i.closed /\ j.called = p.i.called /\ j.mss = mss
        /\ j.quic = "connecting" /\ j.state = p.i.state
    BY <1>0 DEF Inner
  <2> HIDE DEF j
  <2>5. p.t.state # INIT /\ p.t.h3 # "connecting"
    <3>1. DatagramOverhead(p.t.qsid) \in Nat
      BY <1>0 DEF DatagramOverhead, VarintLen, Tunnel
    <3>2. p.t.mss # 0
      BY <2>2, <3>1 DEF kMasqueMssSafetyMargin
    <3> QED BY <1>0, <2>2, <3>2 DEF PairInv, Staged
  <2>6. p.i.mss # 0 => p.i.mss = mss
    <3>1. p.i.mss \in Nat /\ DatagramOverhead(p.t.qsid) \in Nat
      BY <1>0 DEF DatagramOverhead, VarintLen, Tunnel, Inner
    <3> QED BY <1>0, <2>2, <3>1 DEF PairInv, Measured, kMasqueMssSafetyMargin
  <2>7. Linked(j, p.t)
    BY <1>0, <2>4 DEF PairInv, Linked
  <2>8. Once(j, p.t)
    BY <1>0, <2>4 DEF PairInv, Once
  <2>9. Measured(j, p.t)
    BY <1>1, <2>2, <2>4, <2>5 DEF Measured, mss
  <2>10. Encoded(j, p.t, out)
    BY <1>0, <2>4, <2>6 DEF PairInv, Encoded, Encapsulated
  <2>11. PairInv(j, p.t, out)
    BY <1>0, <2>7, <2>8, <2>9, <2>10 DEF PairInv
  <2> QED BY <2>1, <2>3, <2>11, WithInner
<1>2. CASE ~(ok /\ o = "ok" /\ p.i.tunnel /\ mss # 0)
  <2>1. MasqueOnTunnelReady(p, ok, o) = [p EXCEPT !.i = f]
    BY <1>2, <1>0 DEF MasqueOnTunnelReady, PairOK
  <2>2. Same(p.i, f) /\ f.state = p.i.state
    BY <1>0, FailKeeps
  <2> HIDE DEF f
  <2>3. f \in Inner /\ PairInv(f, p.t, out)
    BY <1>0, <2>2, InnerSame DEF Same
  <2> QED BY <2>1, <2>3, WithInner
<1> QED BY <1>1, <1>2

LEMMA QuicClosedKeeps ==
  ASSUME NEW i \in Inner
  PROVE  LET j == QuicClosed(i) IN Same(i, j) /\ j.state = i.state
<1> DEFINE d == [i EXCEPT !.quic = "none", !.timer = FALSE]
           f == SetState(d, "NETDOWN")
           j == QuicClosed(i)
<1>1. d \in Inner
  BY ZenonT(60) DEF Inner
<1>2. /\ d.life = i.life /\ d.q = i.q /\ d.tunnel = i.tunnel /\ d.detached = i.detached
      /\ d.closed = i.closed /\ d.called = i.called /\ d.mss = i.mss
      /\ d.quic = "none" /\ d.state = i.state
  BY DEF Inner
<1>3. j = IF Closing(d) THEN d ELSE f
  BY DEF QuicClosed
<1> HIDE DEF d
<1>4. Same(i, d)
  BY <1>1, <1>2 DEF Same
<1>5. Same(d, f) /\ f.state = d.state
  BY <1>1, SetStateKeeps
<1> HIDE DEF f, j
<1>6. Same(i, j) /\ j.state = i.state
  BY <1>2, <1>3, <1>4, <1>5, SameTrans
<1> QED BY <1>6 DEF j

LEMMA TunneledPacketKeeps ==
  ASSUME NEW p, NEW out, PairOK(p, out), ~Closing(p.i), NEW e
  PROVE  PairOK(MasqueOnTunneledPacket(p, e), out)
<1> DEFINE b == p.i
           c1 == e = "finished" /\ b.quic = "connecting"
           c2 == e = "_result" /\ b.quic = "open" /\ b.rpc
           c3 == e = "_error" /\ b.quic = "open" /\ b.rpc
           c4 == e = "closed" /\ b.quic # "none"
           d1 == [b EXCEPT !.quic = "open", !.state = CONNECTING]
           d2 == [b EXCEPT !.state = CONNECTED]
           d3 == [b EXCEPT !.state = INIT]
           e2 == NotifyConnectResult(d2, "SUCCESS")
           e3 == NotifyConnectResult(d3, "FAILURE")
           e4 == QuicClosed(b)
<1>0. b \in Inner /\ p.t \in Tunnel /\ PairInv(b, p.t, out) /\ ~b.detached
  BY DEF PairOK, PairInv, Linked, Closing
<1>1. CASE c1
  <2>1. MasqueOnTunneledPacket(p, e) = [p EXCEPT !.i = d1]
    BY <1>1 DEF MasqueOnTunneledPacket
  <2>2. d1 \in Inner
    <3>1. CONNECTING \in 0..6
      BY DEF CONNECTING
    <3> QED BY <1>0, <3>1, ZenonT(60) DEF Inner
  <2>3. /\ d1.life = b.life /\ d1.q = b.q /\ d1.tunnel = b.tunnel /\ d1.detached = b.detached
        /\ d1.closed = b.closed /\ d1.called = b.called /\ d1.mss = b.mss
    BY <1>0 DEF Inner
  <2> HIDE DEF d1
  <2>4. PairInv(d1, p.t, out)
    BY <1>0, <1>1, <2>2, <2>3, InnerSame DEF Same
  <2> QED BY <2>1, <2>2, <2>4, WithInner
<1>2. CASE c2
  <2>1. MasqueOnTunneledPacket(p, e) = [p EXCEPT !.i = e2]
    BY <1>2 DEF MasqueOnTunneledPacket
  <2>2. d2 \in Inner
    <3>1. CONNECTED \in 0..6
      BY DEF CONNECTED
    <3> QED BY <1>0, <3>1, ZenonT(60) DEF Inner
  <2>3. /\ d2.life = b.life /\ d2.q = b.q /\ d2.tunnel = b.tunnel /\ d2.detached = b.detached
        /\ d2.closed = b.closed /\ d2.called = b.called /\ d2.mss = b.mss /\ d2.quic = b.quic
    BY <1>0 DEF Inner
  <2> HIDE DEF d2
  <2>4. Same(d2, e2)
    BY <2>2, NotifyKeeps
  <2> HIDE DEF e2
  <2>5. Same(b, e2)
    BY <2>2, <2>3, <2>4, SameTrans DEF Same
  <2>6. e2 \in Inner /\ PairInv(e2, p.t, out)
    BY <1>0, <2>5, InnerSame DEF Same
  <2> QED BY <2>1, <2>6, WithInner
<1>3. CASE c3
  <2>1. MasqueOnTunneledPacket(p, e) = [p EXCEPT !.i = PostClose(e3)]
    BY <1>3 DEF MasqueOnTunneledPacket
  <2>2. d3 \in Inner
    <3>1. INIT \in 0..6
      BY DEF INIT
    <3> QED BY <1>0, <3>1, ZenonT(60) DEF Inner
  <2>3. /\ d3.life = b.life /\ d3.q = b.q /\ d3.tunnel = b.tunnel /\ d3.detached = b.detached
        /\ d3.closed = b.closed /\ d3.called = b.called /\ d3.mss = b.mss /\ d3.quic = b.quic
    BY <1>0 DEF Inner
  <2> HIDE DEF d3
  <2>4. Same(d3, e3)
    BY <2>2, NotifyKeeps
  <2> HIDE DEF e3
  <2>5. Same(b, e3)
    BY <2>2, <2>3, <2>4, SameTrans DEF Same
  <2>6. e3 \in Inner /\ PairInv(e3, p.t, out)
    BY <1>0, <2>5, InnerSame DEF Same
  <2>7. PostClose(e3) \in Inner /\ PairInv(PostClose(e3), p.t, out)
    BY <2>6, PostCloseInner
  <2> QED BY <2>1, <2>7, WithInner
<1>4. CASE c4
  <2>1. MasqueOnTunneledPacket(p, e) = [p EXCEPT !.i = e4]
    BY <1>4 DEF MasqueOnTunneledPacket
  <2>2. Same(b, e4) /\ e4.state = b.state
    BY <1>0, QuicClosedKeeps
  <2> HIDE DEF e4
  <2>3. e4 \in Inner /\ PairInv(e4, p.t, out)
    BY <1>0, <2>2, InnerSame DEF Same
  <2> QED BY <2>1, <2>3, WithInner
<1>5. CASE ~c1 /\ ~c2 /\ ~c3 /\ ~c4
  <2>1. MasqueOnTunneledPacket(p, e) = [p EXCEPT !.i = b]
    BY <1>5 DEF MasqueOnTunneledPacket
  <2> QED BY <1>0, <2>1, WithInner
<1> QED BY <1>1, <1>2, <1>3, <1>4, <1>5

LEMMA TunnelClosedKeeps ==
  ASSUME NEW p, NEW out, PairOK(p, out), p.t.life # "none"
  PROVE  PairOK(MasqueOnTunnelClosed(p), out)
<1> DEFINE d == [p.i EXCEPT !.tunnel = FALSE, !.tunnelClosing = FALSE]
           u == [p.t EXCEPT !.life = "deleted"]
           f == SetState(NotifyConnectResult(d, "NETDOWN"), "NETDOWN")
           g == SetState(d, "NETDOWN")
           j == IF d.state = INIT THEN f ELSE IF d.state > INIT THEN g ELSE d
<1>0. p.i \in Inner /\ p.t \in Tunnel /\ PairInv(p.i, p.t, out)
  BY DEF PairOK
<1>1. MasqueOnTunnelClosed(p) = [i |-> j, t |-> u]
  BY DEF MasqueOnTunnelClosed
<1>2. d \in Inner
  BY <1>0, ZenonT(60) DEF Inner
<1>3. /\ d.life = p.i.life /\ d.q = p.i.q /\ d.tunnel = FALSE /\ d.detached = p.i.detached
      /\ d.closed = p.i.closed /\ d.called = p.i.called /\ d.mss = p.i.mss
      /\ d.quic = p.i.quic /\ d.state = p.i.state
  BY <1>0 DEF Inner
<1>4. u \in Tunnel
  BY <1>0, ZenonT(60) DEF Tunnel
<1>5. /\ u.life = "deleted" /\ u.q = p.t.q /\ u.qsid = p.t.qsid /\ u.mss = p.t.mss
      /\ u.h3 = p.t.h3 /\ u.state = p.t.state /\ u.new = p.t.new
  BY <1>0 DEF Tunnel
<1> HIDE DEF d, u
<1>6. PairInv(d, u, out)
  <2>1. Linked(d, u)
    BY <1>0, <1>3, <1>5 DEF PairInv, Linked
  <2>2. Once(d, u)
    BY <1>0, <1>3, <1>5 DEF PairInv, Once
  <2>3. Measured(d, u) /\ Staged(u)
    BY <1>0, <1>3, <1>5 DEF PairInv, Measured, Staged
  <2>4. Encoded(d, u, out)
    BY <1>0, <1>3, <1>5 DEF PairInv, Encoded, Encapsulated
  <2> QED BY <2>1, <2>2, <2>3, <2>4 DEF PairInv
<1>7. Same(d, f) /\ f.state = d.state
  BY <1>2, FailKeeps
<1>8. Same(d, g) /\ g.state = d.state
  BY <1>2, SetStateKeeps
<1> HIDE DEF f, g
<1>9. Same(d, j) /\ j.state = d.state
  <2>1. Same(d, d)
    BY <1>2 DEF Same
  <2> QED BY <1>7, <1>8, <2>1
<1> HIDE DEF j
<1>10. j \in Inner /\ PairInv(j, u, out)
  BY <1>2, <1>6, <1>9, InnerSame DEF Same
<1> QED BY <1>1, <1>4, <1>10, MakePair

LEMMA RunInnerKeeps ==
  ASSUME NEW p, NEW out, PairOK(p, out), p.t = tun, p.i.q # <<>>,
         NEW e \in EventsOf(Head(p.i.q).t)
  PROVE  PairOK(RunInner(p, Head(p.i.q), e), out)
<1> DEFINE t == Head(p.i.q)
           udp == IF t.t = "udpClosed" THEN "gone" ELSE p.i.udp
           a == [p.i EXCEPT !.q = Tail(p.i.q), !.udp = udp]
           b == [p.i EXCEPT !.q = Tail(p.i.q), !.udp = p.i.udp]
           pa == [p EXCEPT !.i = a]
           pb == [p EXCEPT !.i = b]
           d == CloseCheck(pa)
<1>0. p \in [i : Inner, t : Tunnel] /\ p.i \in Inner /\ p.t \in Tunnel /\ PairInv(p.i, p.t, out)
  BY DEF PairOK
<1>1. udp \in {"open", "closing", "closed", "gone"} /\ p.i.udp \in {"open", "closing", "closed", "gone"}
  BY <1>0 DEF Inner
<1>2. /\ [p EXCEPT !.i.q = Tail(@), !.i.udp = IF t.t = "udpClosed" THEN "gone" ELSE @] = pa
      /\ [p EXCEPT !.i.q = Tail(@)] = pb
  BY <1>0 DEF Inner
<1> HIDE DEF udp
<1>3. /\ a \in Inner /\ PairInv(a, p.t, out)
      /\ a.state = p.i.state /\ a.new = p.i.new /\ a.detached = p.i.detached
      /\ t \in InnerTasks
      /\ t.t = "connect" => /\ a.called /\ p.t.life = "none"
                            /\ \A k \in DOMAIN a.q : a.q[k].t # "connect"
      /\ t.t = "tunnelClosed" => p.t.life # "none"
  BY <1>0, <1>1, InnerTail
<1>4. b \in Inner /\ PairInv(b, p.t, out)
  BY <1>0, <1>1, InnerTail
<1>5. /\ t.t = "tunnelClosed" => RunInner(p, t, e) = CloseCheck(MasqueOnTunnelClosed(pb))
      /\ t.t # "tunnelClosed" /\ Closing(p.i) => RunInner(p, t, e) = d
      /\ t.t = "connect" /\ ~Closing(p.i) => RunInner(p, t, e) = CloseCheck(ConnectTask(d, e))
      /\ t.t = "tunnelReady" /\ ~Closing(p.i) =>
           RunInner(p, t, e) = CloseCheck(MasqueOnTunnelReady(d, t.x, e))
      /\ t.t = "packet" /\ ~Closing(p.i) =>
           RunInner(p, t, e) = CloseCheck(MasqueOnTunneledPacket(d, e))
      /\ t.t = "close" /\ ~Closing(p.i) =>
           RunInner(p, t, e) = CloseCheck([d EXCEPT !.i = SetState(@, "SUCCESS")])
      /\ t.t = "udpClosed" /\ ~Closing(p.i) =>
           RunInner(p, t, e) = CloseCheck([d EXCEPT !.i = SetState(@, "NETDOWN")])
  <2> DEFINE xa == [p EXCEPT !.i.q = Tail(@), !.i.udp = IF t.t = "udpClosed" THEN "gone" ELSE @]
             xb == [p EXCEPT !.i.q = Tail(@)]
             dd == CloseCheck(xa)
             g1 == [dd EXCEPT !.i = SetState(@, "SUCCESS")]
             g2 == [dd EXCEPT !.i = SetState(@, "NETDOWN")]
  <2>1. RunInner(p, t, e) =
        IF t.t = "tunnelClosed" THEN CloseCheck(MasqueOnTunnelClosed(xb))
        ELSE IF Closing(p.i) THEN dd
        ELSE CASE t.t = "connect" -> CloseCheck(ConnectTask(dd, e))
               [] t.t = "tunnelReady" -> CloseCheck(MasqueOnTunnelReady(dd, t.x, e))
               [] t.t = "packet" -> CloseCheck(MasqueOnTunneledPacket(dd, e))
               [] t.t = "close" -> CloseCheck(g1)
               [] t.t = "udpClosed" -> CloseCheck(g2)
    <3> HIDE DEF t
    <3> QED BY DEF RunInner
  <2>2. dd = d /\ xb = pb
    <3> HIDE DEF pa, pb, t
    <3> QED BY <1>2 DEF udp
  <2>3. g1 = [d EXCEPT !.i = SetState(@, "SUCCESS")] /\ g2 = [d EXCEPT !.i = SetState(@, "NETDOWN")]
    <3> HIDE DEF d, dd
    <3> QED BY <2>2
  <2> HIDE DEF t, d, dd, pa, pb, xa, xb, g1, g2
  <2> QED BY <2>1, <2>2, <2>3
<1> HIDE DEF a, b
<1>6. PairOK(pa, out) /\ PairOK(pb, out) /\ pa.i = a /\ pa.t = p.t /\ pb.t = p.t
  BY <1>0, <1>3, <1>4, WithInner
<1> HIDE DEF pa, pb
<1>7. PairOK(d, out)
  BY <1>6, CloseCheckKeeps
<1>8. ~Closing(p.i) => d = pa /\ ~Closing(d.i)
  BY <1>3, <1>6 DEF CloseCheck, Closing
<1>9. d.i \in Inner /\ d.t \in Tunnel /\ PairInv(d.i, d.t, out)
  BY <1>7 DEF PairOK
<1> HIDE DEF d
<1>10. \A r \in {"SUCCESS", "NETDOWN"} : PairOK(CloseCheck([d EXCEPT !.i = SetState(@, r)]), out)
  <2> TAKE r \in {"SUCCESS", "NETDOWN"}
  <2> DEFINE j == SetState(d.i, r)
  <2>1. Same(d.i, j) /\ j.state = d.i.state
    BY <1>9, SetStateKeeps
  <2>2. [d EXCEPT !.i = SetState(@, r)] = [d EXCEPT !.i = j]
    OBVIOUS
  <2> HIDE DEF j
  <2>3. j \in Inner /\ PairInv(j, d.t, out)
    BY <1>9, <2>1, InnerSame DEF Same
  <2> QED BY <1>7, <2>2, <2>3, WithInner, CloseCheckKeeps
<1>11. CASE t.t = "tunnelClosed"
  <2>1. PairOK(MasqueOnTunnelClosed(pb), out)
    BY <1>3, <1>6, <1>11, TunnelClosedKeeps
  <2> QED BY <1>5, <1>11, <2>1, CloseCheckKeeps
<1>12. CASE t.t # "tunnelClosed" /\ Closing(p.i)
  BY <1>5, <1>7, <1>12
<1>13. CASE t.t = "connect" /\ ~Closing(p.i)
  <2>1. e \in {"ok", "bad", "notimer"}
    BY <1>13, TunnelAssumption DEF EventsOf
  <2>2. d.t = tun /\ d.i = a
    BY <1>6, <1>8, <1>13
  <2>3. PairOK(ConnectTask(d, e), out)
    BY <1>3, <1>7, <1>8, <1>13, <2>1, <2>2, ConnectTaskKeeps
  <2> QED BY <1>5, <1>13, <2>3, CloseCheckKeeps
<1>14. CASE t.t = "tunnelReady" /\ ~Closing(p.i)
  <2>1. PairOK(MasqueOnTunnelReady(d, t.x, e), out)
    BY <1>7, TunnelReadyKeeps
  <2> QED BY <1>5, <1>14, <2>1, CloseCheckKeeps
<1>15. CASE t.t = "packet" /\ ~Closing(p.i)
  <2>1. PairOK(MasqueOnTunneledPacket(d, e), out)
    BY <1>7, <1>8, <1>15, TunneledPacketKeeps
  <2> QED BY <1>5, <1>15, <2>1, CloseCheckKeeps
<1>16. CASE t.t = "close" /\ ~Closing(p.i)
  BY <1>5, <1>10, <1>16
<1>17. CASE t.t = "udpClosed" /\ ~Closing(p.i)
  BY <1>5, <1>10, <1>17
<1>18. t.t \in {"connect", "close", "udpClosed", "tunnelClosed", "tunnelReady", "packet"}
  BY <1>3 DEF InnerTasks
<1> QED BY <1>11, <1>12, <1>13, <1>14, <1>15, <1>16, <1>17, <1>18

-----------------------------------------------------------------------------
(* Tasks of the tunnel. *)
LEMMA WithTunnel ==
  ASSUME NEW p, NEW out, PairOK(p, out), NEW u \in Tunnel, PairInv(p.i, u, out)
  PROVE  PairOK([p EXCEPT !.t = u], out)
BY DEF PairOK

LEMMA ConnectUdpResponseKeeps ==
  ASSUME NEW p, NEW out, PairOK(p, out), NEW ok \in BOOLEAN
  PROVE  PairOK(MasqueOnConnectUdpResponse(p, ok), out)
<1> DEFINE x == Task("tunnelReady", ok)
           j == IF p.t.inner THEN Post(p.i, x) ELSE p.i
           b == p.t.ready \/ ok
           u == [p.t EXCEPT !.ready = b]
<1>0. p.i \in Inner /\ p.t \in Tunnel /\ PairInv(p.i, p.t, out)
  BY DEF PairOK
<1>1. CASE p.t.ready /\ ok
  BY <1>1 DEF MasqueOnConnectUdpResponse
<1>2. CASE ~(p.t.ready /\ ok)
  <2>1. MasqueOnConnectUdpResponse(p, ok) = [i |-> j, t |-> u]
    BY <1>2, <1>0 DEF MasqueOnConnectUdpResponse, Tunnel
  <2>2. x \in InnerTasks /\ x.t = "tunnelReady"
    BY TaskTypes
  <2> HIDE DEF x
  <2>3. j \in Inner /\ PairInv(j, p.t, out)
    BY <1>0, <2>2, InnerPost
  <2>4. b \in BOOLEAN
    OBVIOUS
  <2> HIDE DEF j, b
  <2>5. u \in Tunnel
    BY <1>0, <2>4, ZenonT(60) DEF Tunnel
  <2>6. /\ u.life = p.t.life /\ u.q = p.t.q /\ u.qsid = p.t.qsid /\ u.mss = p.t.mss
        /\ u.h3 = p.t.h3 /\ u.state = p.t.state /\ u.new = p.t.new
    BY <1>0 DEF Tunnel
  <2> HIDE DEF u
  <2>7. u.state < INIT => u.new = FREED
    BY <1>0, <2>6 DEF PairInv, Staged
  <2>8. PairInv(j, u, out)
    BY <1>0, <2>3, <2>5, <2>6, <2>7, TunnelSame
  <2> QED BY <2>1, <2>3, <2>5, <2>8, MakePair
<1> QED BY <1>1, <1>2

LEMMA ConnectToProxyKeeps ==
  ASSUME NEW p, NEW out, PairOK(p, out), p.t.life # "none", ~Closing(p.t), NEW o
  PROVE  /\ PairOK(MasqueConnectToProxy(p, o), out)
         /\ MasqueConnectToProxy(p, o).t.life = p.t.life
<1> DEFINE u == [p.t EXCEPT !.state = HANDSHAKE]
           v == [u EXCEPT !.h3 = "connecting"]
           d == [p EXCEPT !.t = u]
<1>0. p \in [i : Inner, t : Tunnel] /\ p.i \in Inner /\ p.t \in Tunnel /\ PairInv(p.i, p.t, out)
  BY DEF PairOK
<1>1. CASE p.t.state > INIT
  BY <1>1 DEF MasqueConnectToProxy
<1>2. CASE ~(p.t.state > INIT)
  <2>1. p.t.state = INIT
    BY <1>0, <1>2 DEF Closing, PairInv, Staged, Tunnel, INIT, FREED
  <2>2. MasqueConnectToProxy(p, o) = IF o = "ok" THEN [d EXCEPT !.t = v]
                                     ELSE MasqueOnConnectUdpResponse(d, FALSE)
    BY <1>0, <1>2 DEF MasqueConnectToProxy, OnH3ConnCreate
  <2>3. u \in Tunnel
    <3>1. HANDSHAKE \in 0..6
      BY DEF HANDSHAKE
    <3> QED BY <1>0, <3>1, ZenonT(60) DEF Tunnel
  <2>4. v \in Tunnel
    BY <2>3, ZenonT(60) DEF Tunnel
  <2>5. /\ u.life = p.t.life /\ u.q = p.t.q /\ u.qsid = p.t.qsid /\ u.mss = p.t.mss
        /\ u.h3 = p.t.h3 /\ u.state = HANDSHAKE /\ u.new = p.t.new
    BY <1>0 DEF Tunnel
  <2>6. /\ v.life = u.life /\ v.q = u.q /\ v.qsid = u.qsid /\ v.mss = u.mss
        /\ v.h3 = "connecting" /\ v.state = u.state /\ v.new = u.new
    BY <1>0 DEF Tunnel
  <2> HIDE DEF u, v
  <2>7. p.i.mss = 0 /\ p.t.mss = 0 /\ out = {}
    BY <1>0, <2>1 DEF PairInv, Measured, Staged, Encoded, Encapsulated
  <2>8. ASSUME NEW w \in {u, v}
        PROVE  PairInv(p.i, w, out)
    <3>1. Linked(p.i, w)
      BY <1>0, <2>5, <2>6 DEF PairInv, Linked
    <3>2. Once(p.i, w)
      BY <1>0, <2>5, <2>6 DEF PairInv, Once
    <3>3. Staged(w)
      BY <2>5, <2>6, <2>7 DEF Staged, INIT, HANDSHAKE
    <3>4. Measured(p.i, w)
      BY <1>0, <2>7 DEF PairInv, Measured
    <3>5. Encoded(p.i, w, out)
      BY <1>0, <2>5, <2>6, <2>7 DEF PairInv, Encoded, Encapsulated
    <3> QED BY <3>1, <3>2, <3>3, <3>4, <3>5 DEF PairInv
  <2>9. PairOK(d, out) /\ d.t = u /\ d.i = p.i
    BY <1>0, <2>3, <2>8, WithTunnel
  <2> HIDE DEF d
  <2>10. CASE o = "ok"
    <3>1. PairOK([d EXCEPT !.t = v], out) /\ [d EXCEPT !.t = v].t = v
      BY <2>4, <2>8, <2>9, WithTunnel DEF PairOK
    <3> QED BY <2>2, <2>5, <2>6, <2>10, <3>1
  <2>11. CASE o # "ok"
    <3>1. PairOK(MasqueOnConnectUdpResponse(d, FALSE), out)
      BY <2>9, ConnectUdpResponseKeeps
    <3>2. MasqueOnConnectUdpResponse(d, FALSE).t.life = d.t.life
      BY <2>9, <2>3 DEF MasqueOnConnectUdpResponse, Tunnel
    <3> QED BY <2>2, <2>5, <2>9, <2>11, <3>1, <3>2
  <2> QED BY <2>10, <2>11
<1> QED BY <1>1, <1>2

LEMMA RunTunnelKeeps ==
  ASSUME NEW p, NEW out, PairOK(p, out), p.t.life # "none", p.t.q # <<>>, NEW o
  PROVE  /\ PairOK(RunTunnel(p, Head(p.t.q), o), out)
         /\ Head(p.t.q) \in TunnelTasks
         /\ Head(p.t.q).t = "dgram" => Encapsulated(Head(p.t.q).x, p.i, p.t)
<1> DEFINE t == Head(p.t.q)
           q == Tail(p.t.q)
           udp == IF t.t = "udpClosed" THEN "gone" ELSE p.t.udp
           a == [p.t EXCEPT !.q = q, !.udp = udp]
           d == [p EXCEPT !.t = a]
           n == [a EXCEPT !.new = FREED]
           e == IF Closing(d.t) \/ t.t = "dgram" THEN d
                ELSE IF t.t = "toProxy" THEN MasqueConnectToProxy(d, o)
                ELSE [d EXCEPT !.t = n]
<1>0. p \in [i : Inner, t : Tunnel] /\ p.i \in Inner /\ p.t \in Tunnel /\ PairInv(p.i, p.t, out)
  BY DEF PairOK
<1>1. p.t.q \in Seq(TunnelTasks) /\ udp \in {"open", "closing", "closed", "gone"}
  BY <1>0 DEF Tunnel
<1>2. RunTunnel(p, t, o) = [e EXCEPT !.t = TunnelCloseCheck(@)]
  <2> DEFINE dd == [p EXCEPT !.t.q = Tail(@), !.t.udp = IF t.t = "udpClosed" THEN "gone" ELSE @]
  <2>1. dd = d
    BY <1>0 DEF Tunnel
  <2>2. [d EXCEPT !.t.new = FREED] = [d EXCEPT !.t = n]
    BY <1>0 DEF Tunnel
  <2> DEFINE ee == IF Closing(dd.t) \/ t.t = "dgram" THEN dd
                   ELSE IF t.t = "toProxy" THEN MasqueConnectToProxy(dd, o)
                   ELSE [dd EXCEPT !.t.new = FREED]
  <2>3. RunTunnel(p, t, o) = [ee EXCEPT !.t = TunnelCloseCheck(@)]
    <3> HIDE DEF t
    <3> QED BY DEF RunTunnel
  <2> HIDE DEF dd, d, t, n
  <2>4. ee = e
    BY <2>1, <2>2
  <2> HIDE DEF ee, e
  <2> QED BY <2>3, <2>4
<1>3. /\ q \in Seq(TunnelTasks) /\ t = p.t.q[1] /\ 1 \in DOMAIN p.t.q /\ t \in TunnelTasks
      /\ \A k \in DOMAIN q : k + 1 \in DOMAIN p.t.q /\ q[k] = p.t.q[k + 1]
  BY <1>1
<1>4. t.t = "dgram" => Encapsulated(t.x, p.i, p.t)
  BY <1>0, <1>3 DEF PairInv, Encoded
<1> HIDE DEF q, udp
<1>5. a \in Tunnel
  BY <1>0, <1>1, <1>3, ZenonT(60) DEF Tunnel
<1>6. n \in Tunnel
  <2>1. FREED \in {FREED, MAX}
    OBVIOUS
  <2> HIDE DEF a
  <2> QED BY <1>5, <2>1, ZenonT(60) DEF Tunnel
<1>7. /\ a.life = p.t.life /\ a.q = q /\ a.qsid = p.t.qsid /\ a.mss = p.t.mss
      /\ a.h3 = p.t.h3 /\ a.state = p.t.state /\ a.new = p.t.new
  BY <1>0 DEF Tunnel
<1> HIDE DEF a
<1>8. /\ n.life = a.life /\ n.q = a.q /\ n.qsid = a.qsid /\ n.mss = a.mss
      /\ n.h3 = a.h3 /\ n.state = a.state /\ n.new = FREED
  BY <1>5 DEF Tunnel
<1> HIDE DEF n
<1>9. PairInv(p.i, a, out)
  <2>1. Linked(p.i, a)
    BY <1>0, <1>7 DEF PairInv, Linked
  <2>2. Once(p.i, a)
    BY <1>0, <1>7 DEF PairInv, Once
  <2>3. Measured(p.i, a) /\ Staged(a)
    BY <1>0, <1>7 DEF PairInv, Measured, Staged
  <2>4. Encoded(p.i, a, out)
    BY <1>0, <1>3, <1>7 DEF PairInv, Encoded, Encapsulated
  <2> QED BY <2>1, <2>2, <2>3, <2>4 DEF PairInv
<1>10. PairInv(p.i, n, out)
  BY <1>5, <1>6, <1>8, <1>9, TunnelSame
<1>11. PairOK(d, out) /\ d.t = a /\ d.i = p.i
  BY <1>0, <1>5, <1>9, WithTunnel
<1> HIDE DEF d
<1>12. PairOK([d EXCEPT !.t = n], out) /\ [d EXCEPT !.t = n].t = n
  BY <1>6, <1>10, <1>11, WithTunnel DEF PairOK
<1>13. PairOK(e, out) /\ e.t.life # "none"
  <2>1. CASE Closing(d.t) \/ t.t = "dgram"
    BY <1>7, <1>11, <2>1
  <2>2. CASE ~(Closing(d.t) \/ t.t = "dgram") /\ t.t = "toProxy"
    BY <1>7, <1>11, <2>2, ConnectToProxyKeeps
  <2>3. CASE ~(Closing(d.t) \/ t.t = "dgram") /\ t.t # "toProxy"
    BY <1>7, <1>8, <1>12, <2>3
  <2> QED BY <2>1, <2>2, <2>3
<1> HIDE DEF e
<1>14. e.i \in Inner /\ e.t \in Tunnel /\ PairInv(e.i, e.t, out)
  BY <1>13 DEF PairOK
<1> DEFINE u == TunnelCloseCheck(e.t)
<1>15. u \in Tunnel /\ PairInv(e.i, u, out)
  BY <1>13, <1>14, TunnelCloseCheckKeeps
<1>16. RunTunnel(p, t, o) = [e EXCEPT !.t = u]
  BY <1>2
<1> HIDE DEF u
<1> QED BY <1>3, <1>4, <1>13, <1>15, <1>16, WithTunnel

-----------------------------------------------------------------------------
(* The steps. *)
LEMMA PairStep ==
  ASSUME TunnelInv, NEW p, PairOK(p, dgrams.out), Put(p), UNCHANGED dgrams
  PROVE  TunnelInv'
BY DEF TunnelInv, Put, PairOK

LEMMA PairIsOK ==
  ASSUME TunnelInv
  PROVE  PairOK(Pair, dgrams.out) /\ Pair.i = inner /\ Pair.t = tun
BY MakePair DEF TunnelInv, Pair

LEMMA InnerOnlyStep ==
  ASSUME TunnelInv, inner' \in Inner, PairInv(inner', tun, dgrams.out), UNCHANGED <<tun, dgrams>>
  PROVE  TunnelInv'
BY DEF TunnelInv

LEMMA TunnelOnlyStep ==
  ASSUME TunnelInv, tun' \in Tunnel, PairInv(inner, tun', dgrams.out),
         UNCHANGED inner, dgrams'.out = dgrams.out,
         dgrams' \in [out : SUBSET Datagram, sent : Nat, recv : Nat]
  PROVE  TunnelInv'
BY DEF TunnelInv

(* The actions: the application's, the inner connection's, the proxy's and *)
(* the tunnel's.                                                           *)
LEMMA TunnelInitInv == TunnelInit => TunnelInv
<1> SUFFICES ASSUME TunnelInit PROVE TunnelInv
  OBVIOUS
<1>1. <<>> \in Seq(InnerTasks) /\ <<>> \in Seq(TunnelTasks) /\ DOMAIN <<>> = {}
      /\ <<>> \in Seq({"SUCCESS", "FAILURE", "NETDOWN", "TIMEDOUT", "ALREADYRUNNING"})
  OBVIOUS
<1>2. INIT \in 0..6 /\ 0 \in Nat
  BY DEF INIT
<1>3. inner \in Inner
  BY <1>1, <1>2, ZenonT(60) DEF TunnelInit, Inner
<1>4. tun \in Tunnel
  BY <1>1, <1>2, ZeroFits, ZenonT(60) DEF TunnelInit, Tunnel
<1>5. dgrams \in [out : SUBSET Datagram, sent : Nat, recv : Nat] /\ dgrams.out = {}
  BY DEF TunnelInit
<1>6. /\ inner.life = "live" /\ inner.q = <<>> /\ inner.tunnel = FALSE /\ inner.detached = FALSE
      /\ inner.closed = FALSE /\ inner.called = FALSE /\ inner.mss = 0 /\ inner.quic = "none"
  BY DEF TunnelInit
<1>7. /\ tun.life = "none" /\ tun.q = <<>> /\ tun.state = INIT /\ tun.new = MAX
      /\ tun.h3 = "none" /\ tun.mss = 0
  BY DEF TunnelInit
<1>8. Linked(inner, tun)
  BY <1>6, <1>7 DEF Linked
<1>9. Once(inner, tun)
  BY <1>1, <1>6, <1>7 DEF Once
<1>10. Staged(tun)
  BY <1>7 DEF Staged, INIT
<1>11. Measured(inner, tun)
  BY <1>6 DEF Measured
<1>12. Encoded(inner, tun, dgrams.out)
  BY <1>1, <1>5, <1>7 DEF Encoded
<1> QED BY <1>3, <1>4, <1>5, <1>8, <1>9, <1>10, <1>11, <1>12 DEF TunnelInv, PairInv

LEMMA ApplicationSteps ==
  ASSUME TunnelInv, ConnectOnce \/ CloseOnce \/ Delete
  PROVE  TunnelInv'
<1>0. inner \in Inner /\ PairInv(inner, tun, dgrams.out)
  BY DEF TunnelInv
<1>1. CASE ConnectOnce
  <2> DEFINE x == Task("connect", 0)
  <2>1. PICK i \in Inner : i = inner
    BY <1>0
  <2>2. x \in InnerTasks /\ x.t = "connect"
    BY TaskTypes
  <2>3. CASE i.detached
    <3> DEFINE j == [i EXCEPT !.called = TRUE]
    <3>1. inner' = j
      BY <1>1, <2>1, <2>3 DEF ConnectOnce, Post
    <3>2. j \in Inner
      BY ZenonT(60) DEF Inner
    <3>3. /\ j.life = i.life /\ j.q = i.q /\ j.tunnel = i.tunnel /\ j.detached = i.detached
          /\ j.closed = i.closed /\ j.called = TRUE /\ j.mss = i.mss
          /\ j.quic = i.quic /\ j.state = i.state
      BY DEF Inner
    <3> HIDE DEF j
    <3>4. Linked(j, tun)
      BY <1>0, <2>1, <3>3 DEF PairInv, Linked
    <3>5. Once(j, tun)
      BY <1>0, <2>1, <3>3 DEF PairInv, Once
    <3>6. Measured(j, tun)
      BY <1>0, <2>1, <3>3 DEF PairInv, Measured
    <3>7. Encoded(j, tun, dgrams.out)
      BY <1>0, <2>1, <3>3 DEF PairInv, Encoded, Encapsulated
    <3>8. PairInv(j, tun, dgrams.out)
      BY <1>0, <3>4, <3>5, <3>6, <3>7 DEF PairInv
    <3>9. UNCHANGED <<tun, dgrams>>
      BY <1>1 DEF ConnectOnce
    <3> QED BY <3>1, <3>2, <3>8, <3>9, InnerOnlyStep
  <2>4. CASE ~i.detached
    <3> DEFINE q == Append(i.q, x)
               j == [[i EXCEPT !.q = q] EXCEPT !.called = TRUE]
    <3>1. inner' = j /\ ~i.called
      BY <1>1, <2>1, <2>4 DEF ConnectOnce, Post
    <3>2. i.q \in Seq(InnerTasks)
      BY DEF Inner
    <3>3. q \in Seq(InnerTasks) /\ Len(q) = Len(i.q) + 1
          /\ \A k \in DOMAIN q : IF k = Len(q) THEN q[k] = x ELSE k \in DOMAIN i.q /\ q[k] = i.q[k]
      BY <2>2, <3>2
    <3> HIDE DEF q
    <3>4. j \in Inner
      <4>1. [i EXCEPT !.q = q] \in Inner
        BY <3>3, ZenonT(60) DEF Inner
      <4> QED BY <4>1, ZenonT(60) DEF Inner
    <3>5. /\ j.q = q /\ j.life = i.life /\ j.tunnel = i.tunnel /\ j.detached = i.detached
          /\ j.closed = i.closed /\ j.called = TRUE /\ j.mss = i.mss
          /\ j.quic = i.quic /\ j.state = i.state
      BY DEF Inner
    <3> HIDE DEF j
    <3>6. tun.life = "none" /\ \A k \in DOMAIN i.q : i.q[k].t # "connect"
      BY <1>0, <2>1, <3>1 DEF PairInv, Once
    <3>7. Linked(j, tun)
      BY <1>0, <2>1, <3>5 DEF PairInv, Linked
    <3>8. Once(j, tun)
      BY <1>0, <2>1, <2>2, <3>3, <3>5, <3>6 DEF PairInv, Once
    <3>9. Measured(j, tun)
      BY <1>0, <2>1, <3>5 DEF PairInv, Measured
    <3>10. Encoded(j, tun, dgrams.out)
      BY <1>0, <2>1, <3>5 DEF PairInv, Encoded, Encapsulated
    <3>11. PairInv(j, tun, dgrams.out)
      BY <1>0, <3>7, <3>8, <3>9, <3>10 DEF PairInv
    <3>12. UNCHANGED <<tun, dgrams>>
      BY <1>1 DEF ConnectOnce
    <3> QED BY <3>1, <3>4, <3>11, <3>12, InnerOnlyStep
  <2> QED BY <2>3, <2>4
<1>2. CASE CloseOnce
  <2> DEFINE k == PostClose(inner)
  <2>1. PICK i \in Inner : i = PostClose(inner) /\ PairInv(i, tun, dgrams.out)
    BY <1>0, PostCloseInner
  <2> DEFINE j == [i EXCEPT !.closes = TRUE]
  <2>2. inner' = j /\ UNCHANGED <<tun, dgrams>>
    BY <1>2, <2>1 DEF CloseOnce
  <2>3. j \in Inner
    BY ZenonT(60) DEF Inner
  <2>4. /\ j.life = i.life /\ j.q = i.q /\ j.tunnel = i.tunnel /\ j.detached = i.detached
        /\ j.closed = i.closed /\ j.called = i.called /\ j.mss = i.mss
        /\ j.quic = i.quic /\ j.state = i.state
    BY DEF Inner
  <2> HIDE DEF j
  <2>5. PairInv(j, tun, dgrams.out)
    BY <2>1, <2>3, <2>4, InnerSame DEF Same
  <2> QED BY <2>2, <2>3, <2>5, InnerOnlyStep
<1>3. CASE Delete
  <2>1. PICK i \in Inner : i = inner /\ PairInv(i, tun, dgrams.out)
    BY <1>0
  <2> DEFINE j == [i EXCEPT !.life = "deleted"]
  <2>2. inner' = j /\ i.closed /\ UNCHANGED <<tun, dgrams>>
    BY <1>3, <2>1 DEF Delete
  <2>3. j \in Inner
    BY ZenonT(60) DEF Inner
  <2>4. /\ j.life = "deleted" /\ j.q = i.q /\ j.tunnel = i.tunnel /\ j.detached = i.detached
        /\ j.closed = i.closed /\ j.called = i.called /\ j.mss = i.mss
        /\ j.quic = i.quic /\ j.state = i.state
    BY DEF Inner
  <2> HIDE DEF j
  <2>5. Linked(j, tun)
    BY <2>1, <2>2, <2>4 DEF PairInv, Linked
  <2>6. Once(j, tun)
    BY <2>1, <2>4 DEF PairInv, Once
  <2>7. Measured(j, tun)
    BY <2>1, <2>4 DEF PairInv, Measured
  <2>8. Encoded(j, tun, dgrams.out)
    BY <2>1, <2>4 DEF PairInv, Encoded, Encapsulated
  <2>9. PairInv(j, tun, dgrams.out)
    BY <2>1, <2>5, <2>6, <2>7, <2>8 DEF PairInv
  <2> QED BY <2>2, <2>3, <2>9, InnerOnlyStep
<1> QED BY <1>1, <1>2, <1>3

LEMMA InnerSteps ==
  ASSUME TunnelInv, InnerTask \/ OnConnectTimeout \/ OnConnClose \/ UdpClosed \/ OnClosed
  PROVE  TunnelInv'
<1>0. inner \in Inner /\ PairInv(inner, tun, dgrams.out)
  BY DEF TunnelInv
<1>1. PICK p : p = Pair /\ PairOK(p, dgrams.out) /\ p.i = inner /\ p.t = tun
  BY PairIsOK
<1>2. p.i \in Inner /\ p.t \in Tunnel /\ PairInv(p.i, p.t, dgrams.out)
  BY <1>1 DEF PairOK
<1>3. CASE InnerTask
  <2>1. PICK e \in EventsOf(Head(p.i.q).t) : Put(RunInner(p, Head(p.i.q), e))
    BY <1>1, <1>3 DEF InnerTask
  <2>2. p.i.q # <<>> /\ UNCHANGED dgrams
    BY <1>1, <1>3 DEF InnerTask
  <2>3. PairOK(RunInner(p, Head(p.i.q), e), dgrams.out)
    BY <1>1, <2>2, RunInnerKeeps
  <2> QED BY <2>1, <2>2, <2>3, PairStep
<1>4. CASE OnConnectTimeout
  <2> DEFINE j == SetState(NotifyConnectResult(p.i, "TIMEDOUT"), "TIMEDOUT")
  <2>1. Put(CloseCheck([p EXCEPT !.i = j])) /\ UNCHANGED dgrams
    BY <1>1, <1>4 DEF OnConnectTimeout
  <2>2. Same(p.i, j) /\ j.state = p.i.state
    BY <1>2, FailKeeps
  <2> HIDE DEF j
  <2>3. j \in Inner /\ PairInv(j, p.t, dgrams.out)
    BY <1>2, <2>2, InnerSame DEF Same
  <2>4. PairOK(CloseCheck([p EXCEPT !.i = j]), dgrams.out)
    BY <1>1, <2>3, WithInner, CloseCheckKeeps
  <2> QED BY <2>1, <2>4, PairStep
<1>5. CASE OnConnClose
  <2> DEFINE j == QuicClosed(p.i)
  <2>1. Put(CloseCheck([p EXCEPT !.i = j])) /\ UNCHANGED dgrams
    BY <1>1, <1>5 DEF OnConnClose
  <2>2. Same(p.i, j) /\ j.state = p.i.state
    BY <1>2, QuicClosedKeeps
  <2> HIDE DEF j
  <2>3. j \in Inner /\ PairInv(j, p.t, dgrams.out)
    BY <1>2, <2>2, InnerSame DEF Same
  <2>4. PairOK(CloseCheck([p EXCEPT !.i = j]), dgrams.out)
    BY <1>1, <2>3, WithInner, CloseCheckKeeps
  <2> QED BY <2>1, <2>4, PairStep
<1>6. CASE UdpClosed
  <2> DEFINE j == [p.i EXCEPT !.udp = "closed"]
             x == Task("udpClosed", 0)
  <2>1. inner' = Post(j, x) /\ UNCHANGED <<tun, dgrams>>
    BY <1>1, <1>6 DEF UdpClosed
  <2>2. j \in Inner
    BY <1>2, ZenonT(60) DEF Inner
  <2>3. /\ j.life = p.i.life /\ j.q = p.i.q /\ j.tunnel = p.i.tunnel /\ j.detached = p.i.detached
        /\ j.closed = p.i.closed /\ j.called = p.i.called /\ j.mss = p.i.mss
        /\ j.quic = p.i.quic /\ j.state = p.i.state
    BY <1>2 DEF Inner
  <2> HIDE DEF j
  <2>4. PairInv(j, p.t, dgrams.out)
    BY <1>2, <2>2, <2>3, InnerSame DEF Same
  <2>5. x \in InnerTasks /\ x.t = "udpClosed"
    BY TaskTypes
  <2> HIDE DEF x
  <2>6. Post(j, x) \in Inner /\ PairInv(Post(j, x), tun, dgrams.out)
    BY <1>1, <2>2, <2>4, <2>5, InnerPost
  <2> QED BY <2>1, <2>6, InnerOnlyStep
<1>7. CASE OnClosed
  <2> DEFINE j == [p.i EXCEPT !.closed = TRUE]
  <2>1. inner' = j /\ p.i.detached /\ UNCHANGED <<tun, dgrams>>
    BY <1>1, <1>7 DEF OnClosed
  <2>2. j \in Inner
    BY <1>2, ZenonT(60) DEF Inner
  <2>3. /\ j.life = p.i.life /\ j.q = p.i.q /\ j.tunnel = p.i.tunnel /\ j.detached = p.i.detached
        /\ j.closed = TRUE /\ j.called = p.i.called /\ j.mss = p.i.mss
        /\ j.quic = p.i.quic /\ j.state = p.i.state
    BY <1>2 DEF Inner
  <2> HIDE DEF j
  <2>4. Linked(j, tun)
    BY <1>1, <1>2, <2>1, <2>3 DEF PairInv, Linked
  <2>5. Once(j, tun)
    BY <1>1, <1>2, <2>3 DEF PairInv, Once
  <2>6. Measured(j, tun)
    BY <1>1, <1>2, <2>3 DEF PairInv, Measured
  <2>7. Encoded(j, tun, dgrams.out)
    BY <1>1, <1>2, <2>3 DEF PairInv, Encoded, Encapsulated
  <2>8. PairInv(j, tun, dgrams.out)
    BY <1>0, <2>4, <2>5, <2>6, <2>7 DEF PairInv
  <2> QED BY <2>1, <2>2, <2>8, InnerOnlyStep
<1> QED BY <1>3, <1>4, <1>5, <1>6, <1>7

LEMMA OutPart ==
  ASSUME NEW i, NEW t, NEW out, PairInv(i, t, out), NEW part \in SUBSET out
  PROVE  PairInv(i, t, part)
BY DEF PairInv, Encoded

LEMMA PairOutStep ==
  ASSUME TunnelInv, NEW p, PairOK(p, dgrams'.out), Put(p),
         dgrams' \in [out : SUBSET Datagram, sent : Nat, recv : Nat]
  PROVE  TunnelInv'
BY DEF TunnelInv, Put, PairOK

LEMMA DatagramKeeps ==
  ASSUME NEW p, NEW out, PairOK(p, out), NEW d \in Datagram \cup Foreign
  PROVE  PairOK(MasqueOnDatagram(p, d), out)
<1> DEFINE x == Task("packet", d)
           m == DecodeDatagram(d)
           j == Post(p.i, x)
           no == ~m.ok \/ m.qsid # p.t.qsid \/ m.ctx # kUdpContextId \/ m.size = 0 \/ ~p.t.inner
<1>0. p.i \in Inner /\ p.t \in Tunnel /\ PairInv(p.i, p.t, out)
  BY DEF PairOK
<1>1. x \in InnerTasks /\ x.t = "packet"
  BY TaskTypes
<1>2. MasqueOnDatagram(p, d) = IF no THEN p ELSE [p EXCEPT !.i = j]
  <2> HIDE DEF x
  <2> QED BY DEF MasqueOnDatagram, x
<1> HIDE DEF x, no
<1>3. j \in Inner /\ PairInv(j, p.t, out)
  BY <1>0, <1>1, InnerPost
<1> HIDE DEF j
<1> QED BY <1>2, <1>3, WithInner

LEMMA WritePacketStep ==
  ASSUME TunnelInv, WritePacket(inner.mss)
  PROVE  TunnelInv'
<1>0. inner \in Inner /\ tun \in Tunnel /\ PairInv(inner, tun, dgrams.out)
      /\ dgrams \in [out : SUBSET Datagram, sent : Nat, recv : Nat]
  BY DEF TunnelInv
<1>1. PICK i \in Inner, t \in Tunnel, out \in SUBSET Datagram : i = inner /\ t = tun /\ out = dgrams.out
  BY <1>0
<1> DEFINE d == EncodeDatagram(t.qsid, i.mss)
           x == Task("dgram", d)
<1>2. d \in Datagram
  <2> t.qsid \in Varints /\ i.mss \in Nat
    BY DEF Inner, Tunnel
  <2> QED BY DEF Datagram
<1>3. i.quic # "none" /\ i.tunnel /\ tun' = Post(t, x) /\ UNCHANGED inner
  BY <1>1 DEF WritePacket, MasqueSendDatagram
<1>4. Encapsulated(d, i, t)
  BY <1>0, <1>1, <1>3 DEF PairInv, Measured, Encapsulated
<1>5. t.life # "none"
  BY <1>0, <1>1, <1>3 DEF PairInv, Linked
<1> HIDE DEF d
<1>6. x \in TunnelTasks /\ x.x = d
  BY <1>2, TaskTypes
<1> HIDE DEF x
<1>7. Post(t, x) \in Tunnel /\ PairInv(i, Post(t, x), out)
  BY <1>0, <1>1, <1>4, <1>5, <1>6, TunnelPost
<1>8. dgrams'.out = dgrams.out /\ dgrams' \in [out : SUBSET Datagram, sent : Nat, recv : Nat]
  BY <1>0 DEF WritePacket
<1> QED BY <1>1, <1>3, <1>7, <1>8, TunnelOnlyStep

LEMMA TunnelTaskStep ==
  ASSUME TunnelInv, TunnelTask
  PROVE  TunnelInv'
<1>0. dgrams \in [out : SUBSET Datagram, sent : Nat, recv : Nat]
  BY DEF TunnelInv
<1>1. PICK p : p = Pair /\ PairOK(p, dgrams.out) /\ p.i = inner /\ p.t = tun
  BY PairIsOK
<1>2. p.i \in Inner /\ p.t \in Tunnel /\ PairInv(p.i, p.t, dgrams.out)
  BY <1>1 DEF PairOK
<1> DEFINE t == Head(p.t.q)
<1>3. PICK o \in EventsOf(t.t) : Put(RunTunnel(p, t, o))
  BY <1>1 DEF TunnelTask
<1>4. p.t.q # <<>> /\ p.t.life # "none"
  BY <1>1 DEF TunnelTask, TunnelLive
<1>5. /\ PairOK(RunTunnel(p, t, o), dgrams.out) /\ t \in TunnelTasks
      /\ t.t = "dgram" => Encapsulated(t.x, p.i, p.t)
  BY <1>1, <1>4, RunTunnelKeeps
<1>6. CASE UNCHANGED dgrams
  BY <1>3, <1>5, <1>6, PairStep
<1>7. CASE t.t = "dgram" /\ dgrams' = [dgrams EXCEPT !.out = @ \cup {t.x}]
  <2>1. PICK out : out = dgrams.out \cup {t.x}
    OBVIOUS
  <2>2. t.x \in Datagram
    <3>1. t.x = EncodeDatagram(p.t.qsid, p.i.mss) /\ p.t.qsid \in Varints /\ p.i.mss \in Nat
      BY <1>2, <1>5, <1>7 DEF Encapsulated, Inner, Tunnel
    <3> QED BY <3>1 DEF Datagram
  <2>3. dgrams'.out = out /\ dgrams' \in [out : SUBSET Datagram, sent : Nat, recv : Nat]
    BY <1>0, <1>7, <2>1, <2>2
  <2>4. PairInv(p.i, p.t, out)
    BY <1>2, <1>5, <1>7, <2>1 DEF PairInv, Encoded
  <2>5. PairOK(p, out)
    BY <1>1, <2>4 DEF PairOK
  <2>6. PairOK(RunTunnel(p, t, o), out)
    BY <1>4, <2>5, RunTunnelKeeps
  <2> QED BY <1>3, <2>3, <2>6, PairOutStep
<1> QED BY <1>1, <1>6, <1>7 DEF TunnelTask

LEMMA HandshakeStep ==
  ASSUME TunnelInv, OnH3HandshakeFinished
  PROVE  TunnelInv'
<1>0. inner \in Inner /\ tun \in Tunnel /\ PairInv(inner, tun, dgrams.out)
      /\ dgrams \in [out : SUBSET Datagram, sent : Nat, recv : Nat]
  BY DEF TunnelInv
<1>1. PICK i \in Inner, t \in Tunnel, out \in SUBSET Datagram : i = inner /\ t = tun /\ out = dgrams.out
  BY <1>0
<1>2. PICK g \in Grants, sent \in HeadersSent :
        LET d == [t EXCEPT !.h3 = "open", !.state = CONNECTING]
            p == [i |-> i, t |-> MasqueSendConnectUdp(d, g)]
        IN Put(IF sent THEN p ELSE MasqueOnConnectUdpResponse(p, FALSE))
  BY <1>1 DEF OnH3HandshakeFinished
<1>3. t.h3 = "connecting" /\ UNCHANGED dgrams
  BY <1>1 DEF OnH3HandshakeFinished
<1> DEFINE n == QuarterStreamId(g.id)
           d == [t EXCEPT !.h3 = "open", !.state = CONNECTING]
           u == [d EXCEPT !.mss = g.mss, !.qsid = n]
           p == [i |-> i, t |-> u]
<1>4. g.mss \in Nat /\ n \in Varints
  <2>1. 7 + 1 = 8
    OBVIOUS
  <2>2. g.id \in Varints
    BY <2>1, TunnelAssumption, Zenon DEF Varints, Shifted
  <2> QED BY <2>2, TunnelAssumption, QuarterFits, Zenon
<1>5. Put(IF sent THEN p ELSE MasqueOnConnectUdpResponse(p, FALSE))
  BY <1>2 DEF MasqueSendConnectUdp
<1> HIDE DEF n
<1>6. d \in Tunnel
  <2> CONNECTING \in 0..6
    BY DEF CONNECTING
  <2> QED BY ZenonT(60) DEF Tunnel
<1>7. /\ d.life = t.life /\ d.q = t.q /\ d.h3 = "open" /\ d.state = CONNECTING /\ d.new = t.new
  BY DEF Tunnel
<1> HIDE DEF d
<1>8. u \in Tunnel
  BY <1>4, <1>6, ZenonT(60) DEF Tunnel
<1>9. /\ u.life = t.life /\ u.q = t.q /\ u.h3 = "open" /\ u.state = CONNECTING /\ u.new = t.new
  BY <1>6, <1>7 DEF Tunnel
<1> HIDE DEF u
<1>10. i.mss = 0
  BY <1>0, <1>1, <1>3 DEF PairInv, Measured
<1>11. Linked(i, u)
  BY <1>0, <1>1, <1>9 DEF PairInv, Linked
<1>12. Once(i, u)
  <2>1. t.state = INIT => t.h3 = "none"
    BY <1>0, <1>1 DEF PairInv, Staged
  <2>2. t.life # "none"
    BY <1>0, <1>1, <1>3, <2>1 DEF PairInv, Once
  <2> QED BY <1>0, <1>1, <1>9, <2>2 DEF PairInv, Once
<1>13. Staged(u)
  BY <1>9 DEF Staged, CONNECTING, INIT
<1>14. Measured(i, u)
  BY <1>0, <1>1, <1>10 DEF PairInv, Measured
<1>15. Encoded(i, u, out)
  BY <1>0, <1>1, <1>9, <1>10 DEF PairInv, Encoded, Encapsulated
<1>16. PairInv(i, u, out)
  BY <1>11, <1>12, <1>13, <1>14, <1>15 DEF PairInv
<1>17. PairOK(p, out)
  BY <1>8, <1>16, MakePair
<1> HIDE DEF p
<1>18. PairOK(IF sent THEN p ELSE MasqueOnConnectUdpResponse(p, FALSE), dgrams.out)
  BY <1>1, <1>17, ConnectUdpResponseKeeps
<1> QED BY <1>3, <1>5, <1>18, PairStep

LEMMA ProxySteps ==
  ASSUME TunnelInv,
         \/ \E h \in {"2xx", "other"} : OnRead(h)
         \/ \E d \in dgrams.out : Answered(d)
         \/ \E d \in Foreign : ForeignDatagram(d)
  PROVE  TunnelInv'
<1>0. dgrams \in [out : SUBSET Datagram, sent : Nat, recv : Nat]
  BY DEF TunnelInv
<1>1. PICK p : p = Pair /\ PairOK(p, dgrams.out) /\ p.i = inner /\ p.t = tun
  BY PairIsOK
<1>2. CASE \E h \in {"2xx", "other"} : OnRead(h)
  <2>1. PICK h \in {"2xx", "other"} : OnRead(h)
    BY <1>2
  <2> DEFINE ok == h = "2xx"
  <2>2. Put(MasqueOnConnectUdpResponse(p, ok)) /\ UNCHANGED dgrams
    BY <1>1, <2>1 DEF OnRead, OnH3RequestRecvHeaders
  <2>3. ok \in BOOLEAN
    OBVIOUS
  <2> HIDE DEF ok
  <2>4. PairOK(MasqueOnConnectUdpResponse(p, ok), dgrams.out)
    BY <1>1, <2>3, ConnectUdpResponseKeeps
  <2> QED BY <2>2, <2>4, PairStep
<1>3. CASE \E d \in dgrams.out : Answered(d)
  <2>1. PICK d \in dgrams.out : Answered(d)
    BY <1>3
  <2>2. PICK out \in {dgrams.out, dgrams.out \ {d}} :
          dgrams' = [dgrams EXCEPT !.out = out, !.recv = @ + 1]
    BY <2>1 DEF Answered
  <2>4. out \in SUBSET dgrams.out /\ out \in SUBSET Datagram
    BY <1>0, <2>2
  <2>3. dgrams'.out = out /\ dgrams' \in [out : SUBSET Datagram, sent : Nat, recv : Nat]
    <3> dgrams.recv + 1 \in Nat
      BY <1>0
    <3> QED BY <1>0, <2>2, <2>4
  <2>5. PairOK(p, out)
    BY <1>1, <2>4, OutPart DEF PairOK
  <2>6. PairOK(MasqueOnDatagram(p, d), out)
    BY <1>0, <2>5, DatagramKeeps
  <2>7. Put(MasqueOnDatagram(p, d))
    BY <1>1, <2>1 DEF Answered
  <2> QED BY <2>3, <2>6, <2>7, PairOutStep
<1>4. CASE \E d \in Foreign : ForeignDatagram(d)
  <2>1. PICK d \in Foreign : ForeignDatagram(d)
    BY <1>4
  <2>2. Put(MasqueOnDatagram(p, d)) /\ UNCHANGED dgrams
    BY <1>1, <2>1 DEF ForeignDatagram
  <2>3. PairOK(MasqueOnDatagram(p, d), dgrams.out)
    BY <1>1, DatagramKeeps
  <2> QED BY <2>2, <2>3, PairStep
<1> QED BY <1>2, <1>3, <1>4

LEMMA TunnelSteps ==
  ASSUME TunnelInv, OnH3Close \/ TunnelUdpClosed \/ TunnelShutdown
  PROVE  TunnelInv'
<1>0. inner \in Inner /\ tun \in Tunnel /\ PairInv(inner, tun, dgrams.out)
      /\ dgrams \in [out : SUBSET Datagram, sent : Nat, recv : Nat]
  BY DEF TunnelInv
<1>1. PICK i \in Inner, t \in Tunnel, out \in SUBSET Datagram : i = inner /\ t = tun /\ out = dgrams.out
  BY <1>0
<1>2. PairInv(i, t, out) /\ t.life # "none" /\ (t.state < INIT => t.new = FREED)
  BY <1>0, <1>1 DEF OnH3Close, FromProxy, TunnelUdpClosed, TunnelShutdown, TunnelLive, PairInv, Staged
<1>3. CASE OnH3Close
  <2> DEFINE u == [t EXCEPT !.h3 = "none", !.new = FREED]
  <2>1. tun' = TunnelCloseCheck(u) /\ UNCHANGED <<inner, dgrams>>
    BY <1>1, <1>3 DEF OnH3Close
  <2>2. u \in Tunnel
    BY ZenonT(60) DEF Tunnel
  <2>3. /\ u.life = t.life /\ u.q = t.q /\ u.qsid = t.qsid /\ u.mss = t.mss
        /\ u.h3 = "none" /\ u.state = t.state /\ u.new = FREED
    BY DEF Tunnel
  <2> HIDE DEF u
  <2>4. PairInv(i, u, out)
    BY <1>2, <2>2, <2>3, TunnelSame
  <2>5. TunnelCloseCheck(u) \in Tunnel /\ PairInv(i, TunnelCloseCheck(u), out)
    BY <1>2, <2>2, <2>3, <2>4, TunnelCloseCheckKeeps
  <2> QED BY <1>0, <1>1, <2>1, <2>5, TunnelOnlyStep
<1>4. CASE TunnelUdpClosed
  <2> DEFINE u == [t EXCEPT !.udp = "closed"]
             x == Task("udpClosed", 0)
  <2>1. tun' = Post(u, x) /\ UNCHANGED <<inner, dgrams>>
    BY <1>1, <1>4 DEF TunnelUdpClosed
  <2>2. u \in Tunnel
    BY ZenonT(60) DEF Tunnel
  <2>3. /\ u.life = t.life /\ u.q = t.q /\ u.qsid = t.qsid /\ u.mss = t.mss
        /\ u.h3 = t.h3 /\ u.state = t.state /\ u.new = t.new
    BY DEF Tunnel
  <2> HIDE DEF u
  <2>4. PairInv(i, u, out)
    BY <1>2, <2>2, <2>3, TunnelSame
  <2>5. x \in TunnelTasks /\ x.t # "dgram"
    BY TaskTypes
  <2> HIDE DEF x
  <2>6. Post(u, x) \in Tunnel /\ PairInv(i, Post(u, x), out)
    BY <1>2, <2>2, <2>3, <2>4, <2>5, TunnelPost
  <2> QED BY <1>0, <1>1, <2>1, <2>6, TunnelOnlyStep
<1>5. CASE TunnelShutdown
  <2> DEFINE u == [t EXCEPT !.inner = FALSE]
             x == Task("tunnelClosed", 0)
  <2>1. tun' = u /\ inner' = Post(i, x) /\ UNCHANGED dgrams
    BY <1>1, <1>5 DEF TunnelShutdown
  <2>2. u \in Tunnel
    BY ZenonT(60) DEF Tunnel
  <2>3. /\ u.life = t.life /\ u.q = t.q /\ u.qsid = t.qsid /\ u.mss = t.mss
        /\ u.h3 = t.h3 /\ u.state = t.state /\ u.new = t.new
    BY DEF Tunnel
  <2> HIDE DEF u
  <2>4. PairInv(i, u, out)
    BY <1>2, <2>2, <2>3, TunnelSame
  <2>5. x \in InnerTasks /\ x.t = "tunnelClosed"
    BY TaskTypes
  <2> HIDE DEF x
  <2>6. Post(i, x) \in Inner /\ PairInv(Post(i, x), u, out)
    BY <1>2, <2>3, <2>4, <2>5, InnerPost
  <2> QED BY <1>0, <1>1, <2>1, <2>2, <2>6 DEF TunnelInv
<1> QED BY <1>3, <1>4, <1>5

LEMMA TunnelInvStep == TunnelInv /\ [TunnelNext]_tunnelVars => TunnelInv'
<1> SUFFICES ASSUME TunnelInv, [TunnelNext]_tunnelVars PROVE TunnelInv'
  OBVIOUS
<1>1. CASE UNCHANGED tunnelVars
  BY <1>1 DEF TunnelInv, tunnelVars
<1>2. CASE TunnelNext
  BY <1>2, ApplicationSteps, InnerSteps, WritePacketStep, TunnelTaskStep, HandshakeStep,
     ProxySteps, TunnelSteps DEF TunnelNext
<1> QED BY <1>1, <1>2

(***************************************************************************)
(* The inner connection points to a tunnel exactly while there is one, it  *)
(* is closed, detached and deleted only without one, there is one tunnel   *)
(* at most, and every datagram it handed over is its own and of the size   *)
(* it was granted (masque_tunnel_ of SMPConnector.cpp).                    *)
(***************************************************************************)
THEOREM TunnelCorrect == TunnelSpec => []TunnelInv
<1>1. TunnelInit => TunnelInv
  BY TunnelInitInv
<1>2. TunnelInv /\ [TunnelNext]_tunnelVars => TunnelInv'
  BY TunnelInvStep
<1> QED BY <1>1, <1>2, PTL DEF TunnelSpec

(***************************************************************************)
(* Neither connection of a tunnel is ever deleted while the other still    *)
(* holds a pointer to it, in whatever order the two close, fail, time out  *)
(* or lose their sockets.                                                  *)
(***************************************************************************)
THEOREM PeersOutliveTheirPointers == TunnelSpec => []NoDanglingPeer
<1>1. TunnelInv => NoDanglingPeer
  BY DEF TunnelInv, PairInv, Linked, Inner, NoDanglingPeer, TunnelLive, Live
<1> QED BY <1>1, TunnelCorrect, PTL

(***************************************************************************)
(* What WritePacket encapsulates fits the datagrams of the connection to   *)
(* the proxy and decodes to the stream it was sent for, for every stream   *)
(* id and every size a QUIC varint can hold.                               *)
(***************************************************************************)
THEOREM DatagramsAreSound == TunnelSpec => []DatagramsFit
<1>1. TunnelInv => DatagramsFit
  <2> SUFFICES ASSUME TunnelInv, NEW d \in dgrams.out
               PROVE  /\ Len(d.head) + d.size <= tun.mss
                      /\ DecodeDatagram(d) = [ok |-> TRUE, qsid |-> tun.qsid, ctx |-> 0, size |-> d.size]
    BY DEF DatagramsFit
  <2>1. PICK v \in Varints : v = tun.qsid
    BY DEF TunnelInv, Tunnel
  <2>2. PICK size \in Nat : size = inner.mss
    BY DEF TunnelInv, Inner
  <2>3. d = EncodeDatagram(v, size) /\ tun.mss = size + DatagramOverhead(v) + kMasqueMssSafetyMargin
    BY <2>1, <2>2 DEF TunnelInv, PairInv, Encoded, Encapsulated, Measured
  <2>4. /\ Len(d.head) = DatagramOverhead(v) /\ d.size = size
        /\ DecodeDatagram(d) = [ok |-> TRUE, qsid |-> v, ctx |-> 0, size |-> size]
    BY <2>3, DatagramRoundTrip, Zenon
  <2>5. DatagramOverhead(v) \in Nat
    BY SMT DEF DatagramOverhead, VarintLen
  <2>6. Len(d.head) + d.size <= tun.mss
    <3>1. PICK o \in Nat : o = DatagramOverhead(v)
      BY <2>5
    <3> QED BY <2>3, <2>4, <3>1 DEF kMasqueMssSafetyMargin
  <2> QED BY <2>1, <2>4, <2>6, Zenon
<1> QED BY <1>1, TunnelCorrect, PTL

-----------------------------------------------------------------------------
(* The text of a request.                                                  *)

(* Lines of a request's text: none, or exactly one, has the name, and all  *)
(* that have it are v.                                                     *)
LineTexts == HeaderValues \cup Hosts \cup {"absent", "own"}
Texts == Seq(HeaderNames \X LineTexts \X Int)
Lacks(s, name) == \A i \in DOMAIN s : s[i][1] # name
Single(s, name) ==
  \E k \in DOMAIN s : s[k][1] = name /\ \A i \in DOMAIN s : s[i][1] = name => i = k
Shows(s, name, v) == \A i \in DOMAIN s : s[i][1] = name => s[i] = v

(* What is said of two texts is said of the one after the other. *)
LEMMA TextsJoin ==
  ASSUME NEW s \in Texts, NEW t \in Texts, NEW name
  PROVE  /\ s \o t \in Texts
         /\ Lacks(s, name) /\ Lacks(t, name) => Lacks(s \o t, name)
         /\ Single(s, name) /\ Lacks(t, name) => Single(s \o t, name)
         /\ Lacks(s, name) /\ Single(t, name) => Single(s \o t, name)
         /\ \A v : Shows(s, name, v) /\ Shows(t, name, v) => Shows(s \o t, name, v)
<1>1. /\ s \o t \in Texts
      /\ Len(s) \in Nat /\ Len(t) \in Nat
      /\ DOMAIN s = 1 .. Len(s) /\ DOMAIN t = 1 .. Len(t)
      /\ DOMAIN (s \o t) = 1 .. (Len(s) + Len(t))
  BY DEF Texts
<1>2. \A i \in DOMAIN (s \o t) :
        \/ i \in DOMAIN s /\ (s \o t)[i] = s[i]
        \/ i - Len(s) \in DOMAIN t /\ i > Len(s) /\ (s \o t)[i] = t[i - Len(s)]
  BY <1>1 DEF Texts
<1>3. /\ \A i \in DOMAIN s : i \in DOMAIN (s \o t) /\ (s \o t)[i] = s[i]
      /\ \A i \in DOMAIN t :
           Len(s) + i \in DOMAIN (s \o t) /\ (s \o t)[Len(s) + i] = t[i]
  BY <1>1 DEF Texts
<1>4. Lacks(s, name) /\ Lacks(t, name) => Lacks(s \o t, name)
  BY <1>2 DEF Lacks
<1>5. Single(s, name) /\ Lacks(t, name) => Single(s \o t, name)
  BY <1>2, <1>3 DEF Lacks, Single
<1>6. Lacks(s, name) /\ Single(t, name) => Single(s \o t, name)
  <2> SUFFICES ASSUME Lacks(s, name), Single(t, name) PROVE Single(s \o t, name)
    OBVIOUS
  <2>1. PICK k \in DOMAIN t :
          t[k][1] = name /\ \A i \in DOMAIN t : t[i][1] = name => i = k
    BY DEF Single
  <2>2. (s \o t)[Len(s) + k][1] = name /\ Len(s) + k \in DOMAIN (s \o t)
    BY <2>1, <1>3
  <2>3. ASSUME NEW i \in DOMAIN (s \o t), (s \o t)[i][1] = name
        PROVE  i = Len(s) + k
    <3>1. i - Len(s) \in DOMAIN t /\ (s \o t)[i] = t[i - Len(s)]
      BY <1>2, <2>3 DEF Lacks
    <3>2. i - Len(s) = k
      BY <3>1, <2>1, <2>3
    <3> QED
      BY <3>2, <1>1
  <2> QED
    BY <2>2, <2>3 DEF Single
<1>7. ASSUME NEW v, Shows(s, name, v), Shows(t, name, v)
      PROVE  Shows(s \o t, name, v)
  BY <1>2, <1>7 DEF Shows
<1> QED
  BY <1>1, <1>4, <1>5, <1>6, <1>7

LEMMA NoText ==
  /\ <<>> \in Texts
  /\ \A name : Lacks(<<>>, name)
  /\ \A name, v : Shows(<<>>, name, v)
BY DEF Texts, Lacks, Shows

LEMMA OneLine ==
  ASSUME NEW line \in HeaderNames \X LineTexts \X Int, NEW name, line[1] = name
  PROVE  /\ <<line>> \in Texts
         /\ Single(<<line>>, name)
         /\ Shows(<<line>>, name, line)
         /\ \A other : other # name => Lacks(<<line>>, other)
<1> DEFINE s == <<line>>
<1>2. s \in Texts /\ DOMAIN s = {1} /\ s[1] = line
  BY DEF Texts
<1> HIDE DEF s
<1> QED
  BY <1>2 DEF Lacks, Shows, Single, s

Named(s, name) == {i \in DOMAIN s : s[i][1] = name}

LEMMA Counted ==
  ASSUME NEW s, NEW name
  PROVE  /\ Lacks(s, name) => Named(s, name) = {} /\ Cardinality(Named(s, name)) = 0
         /\ Single(s, name) => Cardinality(Named(s, name)) = 1
<1>1. Lacks(s, name) => Named(s, name) = {}
  BY DEF Lacks, Named
<1>2. Single(s, name) => \E k : Named(s, name) = {k}
  BY DEF Single, Named
<1> QED
  BY <1>1, <1>2, FS_EmptySet, FS_Singleton

(* SetToSeq gives a sequence of members of the set. *)
LEMMA SetToSeqMembers ==
  ASSUME NEW S, IsFiniteSet(S)
  PROVE  Cardinality(S) \in Nat /\ SetToSeq(S) \in [1 .. Cardinality(S) -> S]
<1>1. Cardinality(S) \in Nat /\ ExistsBijection(1 .. Cardinality(S), S)
  BY FS_CardinalityType
<1>2. PICK f \in [1 .. Cardinality(S) -> S] : IsInjective(f)
  BY <1>1 DEF ExistsBijection, Bijection, Injection, IsInjective
<1> QED
  BY <1>1, <1>2 DEF SetToSeq

LEMMA ThreeAreFinite ==
  ASSUME NEW a, NEW b, NEW c, NEW S \in SUBSET {a, b, c}
  PROVE  IsFiniteSet(S)
<1>1. IsFiniteSet({a})
  BY FS_Singleton
<1>2. IsFiniteSet({a} \cup {b})
  BY <1>1, FS_AddElement
<1>3. IsFiniteSet(({a} \cup {b}) \cup {c})
  BY <1>2, FS_AddElement
<1>4. S \in SUBSET (({a} \cup {b}) \cup {c})
  OBVIOUS
<1> QED
  BY <1>3, <1>4, FS_Subset

(* What ParseUrl says of a URL. *)
Port(u) == IF u.port \in {NoPort, EmptyPort} THEN DefaultPort(u.scheme) ELSE u.port

DefaultOf(tls) == IF tls THEN 443 ELSE 80

Parsed(u) ==
  /\ ParseUrl(u).hostHeader \in Int
  /\ ParseUrl(u).ok =>
       /\ ParseUrl(u).port \in Ports
       /\ ParseUrl(u).target[1] \in {"/", "/path"}
       /\ \/ ParseUrl(u).hostHeader = ParseUrl(u).port
          \/ /\ ParseUrl(u).hostHeader = NoPort
             /\ ParseUrl(u).port = DefaultOf(ParseUrl(u).tls)

LEMMA UrlParts ==
  ASSUME NEW u \in Urls
  PROVE  Parsed(u)
<1> DEFINE ok == /\ u.scheme \in {"http", "https"} /\ ~u.userinfo
                 /\ u.host \in {"name", "[v6]"} /\ Port(u) \in Ports
                 /\ u.rest # "unsafe"
           tls == u.scheme = "https"
           hostHeader == IF Port(u) = DefaultPort(u.scheme) THEN NoPort ELSE Port(u)
           target == CASE u.rest \in {"none", "#fragment"} -> <<"/">>
                       [] u.rest = "?query" -> <<"/", "?query">>
                       [] OTHER -> <<u.rest>>
<1>0. ParseUrl(u) = [ok |-> ok, tls |-> tls, port |-> Port(u), hostHeader |-> hostHeader,
                     target |-> target]
  BY DEF ParseUrl, Port
<1> HIDE DEF ok, tls, hostHeader, target
<1>8. /\ ParseUrl(u).ok = ok /\ ParseUrl(u).tls = tls /\ ParseUrl(u).port = Port(u)
      /\ ParseUrl(u).hostHeader = hostHeader /\ ParseUrl(u).target = target
  BY <1>0
<1>1. /\ u.scheme \in {"http", "https", "other"}
      /\ u.port \in {NoPort, EmptyPort, TextPort, 0, 80, 443, 65535, 65536}
      /\ u.rest \in {"none", "/path", "?query", "#fragment", "unsafe"}
  BY DEF Urls
<1>2. Port(u) \in Int
  BY <1>1 DEF Port, DefaultPort, NoPort, EmptyPort, TextPort
<1>3. hostHeader \in Int
  BY <1>2 DEF hostHeader, NoPort
<1>4. ok => /\ u.scheme \in {"http", "https"} /\ Port(u) \in Ports
            /\ u.rest # "unsafe"
  BY Zenon DEF ok
<1>5. u.rest # "unsafe" => target[1] \in {"/", "/path"}
  BY <1>1 DEF target
<1>6. u.scheme \in {"http", "https"} => DefaultPort(u.scheme) = DefaultOf(tls)
  BY DEF tls, DefaultPort, DefaultOf
<1>7. \/ hostHeader = Port(u)
      \/ hostHeader = NoPort /\ Port(u) = DefaultPort(u.scheme)
  BY DEF hostHeader
<1>9. ok => /\ Port(u) \in Ports /\ target[1] \in {"/", "/path"}
            /\ \/ hostHeader = Port(u)
               \/ hostHeader = NoPort /\ Port(u) = DefaultOf(tls)
  BY <1>4, <1>5, <1>6, <1>7, Zenon
<1> QED
  BY <1>3, <1>8, <1>9, Zenon DEF Parsed

LEMMA CallersLines ==
  ASSUME NEW headers \in [HeaderNames -> LineTexts], NEW given \in SUBSET HeaderNames
  PROVE  LET rest == SetToSeq({<<h, headers[h], 0>> : h \in given \ Own})
         IN /\ rest \in Texts
            /\ \A name \in Own : Lacks(rest, name) /\ \A v : Shows(rest, name, v)
<1> DEFINE own == given \ Own
           S == {<<h, headers[h], 0>> : h \in own}
           rest == SetToSeq(S)
           line(h) == <<h, headers[h], 0>>
<1>1. \A h \in own : h \in {"user-agent", "other", "unfit"}
  BY DEF HeaderNames, Own
<1>2. \A x \in S : \E h \in own : x = line(h)
  OBVIOUS
<1>3. S \in SUBSET {line("user-agent"), line("other"), line("unfit")}
  BY <1>1, <1>2
<1>4. IsFiniteSet(S)
  BY <1>3, ThreeAreFinite
<1>5. Cardinality(S) \in Nat /\ rest \in [1 .. Cardinality(S) -> S]
  BY <1>4, SetToSeqMembers
<1>6. ASSUME NEW x \in S PROVE x \in HeaderNames \X LineTexts \X Int /\ x[1] \notin Own
  <2>1. PICK h \in own : x = <<h, headers[h], 0>>
    OBVIOUS
  <2>2. h \in HeaderNames /\ h \notin Own /\ headers[h] \in LineTexts
    OBVIOUS
  <2> QED
    BY <2>1, <2>2
<1> HIDE DEF S, rest
<1>7. rest \in Texts
  BY <1>5, <1>6 DEF Texts
<1>8. \A i \in DOMAIN rest : rest[i][1] \notin Own
  BY <1>5, <1>6
<1>9. \A name \in Own : Lacks(rest, name) /\ \A v : Shows(rest, name, v)
  BY <1>8 DEF Lacks, Shows
<1> QED
  BY <1>7, <1>9 DEF S, rest

(* The Host line is the caller's, or the URL's. *)
HostIs(c, line) ==
  /\ line \in HeaderNames \X LineTexts \X Int /\ line[1] = "host"
  /\ \/ \E h \in Given(c) \cap {"host", "HOST"} : line[2] = c.headers[h]
     \/ /\ Given(c) \cap {"host", "HOST"} = {} /\ line[2] = c.url.host
        /\ line[3] = ParseUrl(c.url).hostHeader

LEMMA HostOfACall ==
  ASSUME NEW c \in Calls
  PROVE  HostIs(c, HostLine(c))
<1>1. /\ c.url \in Urls /\ c.url.host \in Hosts
      /\ c.headers \in [HeaderNames -> HeaderValues \cup {"absent"}]
  BY HttpExchangeAssumption DEF Urls
<1>2. ParseUrl(c.url).hostHeader \in Int
  <2>1. Parsed(c.url)
    BY <1>1, UrlParts
  <2> QED
    BY <2>1, Zenon DEF Parsed
<1>3. {"host", "HOST"} \subseteq HeaderNames /\ NoPort \in Int
  BY DEF HeaderNames, NoPort
<1>4. CASE "HOST" \in Given(c)
  <2>1. HostLine(c) = <<"host", c.headers["HOST"], NoPort>>
    BY <1>4 DEF HostLine
  <2> QED
    BY <1>1, <1>3, <1>4, <2>1 DEF HostIs, LineTexts
<1>5. CASE "HOST" \notin Given(c) /\ "host" \in Given(c)
  <2>1. HostLine(c) = <<"host", c.headers["host"], NoPort>>
    BY <1>5 DEF HostLine
  <2> QED
    BY <1>1, <1>3, <1>5, <2>1 DEF HostIs, LineTexts
<1>6. CASE "HOST" \notin Given(c) /\ "host" \notin Given(c)
  <2>1. HostLine(c) = <<"host", c.url.host, ParseUrl(c.url).hostHeader>>
    BY <1>6 DEF HostLine
  <2> QED
    BY <1>1, <1>2, <1>3, <1>6, <2>1 DEF HostIs, LineTexts
<1> QED
  BY <1>4, <1>5, <1>6

LengthLine(c) == <<"content-length", "own", c.body>>

(* The five parts of a request's text. *)
LEMMA TextOfACall ==
  ASSUME NEW c \in Calls
  PROVE  LET s == Lines(c, Own)
         IN /\ s \in Texts
            /\ Single(s, "host") /\ Lacks(s, "HOST") /\ Lacks(s, "transfer-encoding")
            /\ Shows(s, "host", HostLine(c)) /\ Shows(s, "content-length", LengthLine(c))
            /\ NeedsLength(c) => Single(s, "content-length")
            /\ ~NeedsLength(c) => Lacks(s, "content-length")
            /\ ~c.keepAlive => Single(s, "connection")
            /\ c.keepAlive => Lacks(s, "connection")
<1> DEFINE host == <<HostLine(c)>>
           agentLine == <<"user-agent", "own", 0>>
           agent == IF "user-agent" \in Given(c) THEN <<>> ELSE <<agentLine>>
           length == IF NeedsLength(c) THEN <<LengthLine(c)>> ELSE <<>>
           lastLine == <<"connection", "own", 0>>
           connection == IF c.keepAlive THEN <<>> ELSE <<lastLine>>
           rest == SetToSeq({<<h, c.headers[h], 0>> : h \in Given(c) \ Own})
<1>1. /\ c.url \in Urls /\ c.body \in Nat /\ c.keepAlive \in BOOLEAN
      /\ c.headers \in [HeaderNames -> HeaderValues \cup {"absent"}]
  BY HttpExchangeAssumption
<1>2. HostLine(c) \in HeaderNames \X LineTexts \X Int /\ HostLine(c)[1] = "host"
  BY HostOfACall DEF HostIs
<1>a. \A s, name, v : Lacks(s, name) => Shows(s, name, v)
  BY DEF Shows, Lacks
<1>b. {"host", "user-agent", "content-length", "connection"} \subseteq HeaderNames
  BY DEF HeaderNames
<1>c. /\ agentLine \in HeaderNames \X LineTexts \X Int /\ agentLine[1] = "user-agent"
      /\ lastLine \in HeaderNames \X LineTexts \X Int /\ lastLine[1] = "connection"
      /\ LengthLine(c) \in HeaderNames \X LineTexts \X Int
      /\ LengthLine(c)[1] = "content-length"
  BY <1>1, <1>b DEF LineTexts, LengthLine
<1> HIDE DEF agentLine, lastLine
<1>3. /\ host \in Texts /\ Single(host, "host")
      /\ \A name : name # "host" => Lacks(host, name)
      /\ Shows(host, "content-length", LengthLine(c)) /\ Shows(host, "host", HostLine(c))
  BY <1>a, <1>b, <1>2, OneLine
<1>4. /\ agent \in Texts
      /\ \A name : name # "user-agent" => Lacks(agent, name)
      /\ Shows(agent, "content-length", LengthLine(c)) /\ Shows(agent, "host", HostLine(c))
  <2>1. CASE "user-agent" \in Given(c)
    BY <2>1, NoText
  <2>2. CASE "user-agent" \notin Given(c)
    <3>1. agent = <<agentLine>>
      BY <2>2
    <3> QED
      BY <1>a, <1>c, <3>1, OneLine
  <2> QED
    BY <2>1, <2>2
<1>5. /\ length \in Texts
      /\ \A name : name # "content-length" => Lacks(length, name)
      /\ Shows(length, "content-length", LengthLine(c)) /\ Shows(length, "host", HostLine(c))
      /\ NeedsLength(c) => Single(length, "content-length")
      /\ ~NeedsLength(c) => Lacks(length, "content-length")
  <2>1. CASE ~NeedsLength(c)
    BY <2>1, NoText
  <2>2. CASE NeedsLength(c)
    <3>1. length = <<LengthLine(c)>>
      BY <2>2
    <3> QED
      BY <1>a, <1>c, <2>2, <3>1, OneLine
  <2> QED
    BY <2>1, <2>2
<1>6. /\ connection \in Texts
      /\ \A name : name # "connection" => Lacks(connection, name)
      /\ Shows(connection, "content-length", LengthLine(c)) /\ Shows(connection, "host", HostLine(c))
      /\ ~c.keepAlive => Single(connection, "connection")
      /\ c.keepAlive => Lacks(connection, "connection")
  <2>1. CASE c.keepAlive
    BY <2>1, NoText
  <2>2. CASE ~c.keepAlive
    <3>1. connection = <<lastLine>>
      BY <2>2
    <3> QED
      BY <1>a, <1>c, <2>2, <3>1, OneLine
  <2> QED
    BY <2>1, <2>2
<1>7. rest \in Texts /\ \A name \in Own : Lacks(rest, name) /\ \A v : Shows(rest, name, v)
  <2>1. c.headers \in [HeaderNames -> LineTexts] /\ Given(c) \in SUBSET HeaderNames
    BY <1>1 DEF LineTexts, Given
  <2> QED
    BY <2>1, CallersLines
<1> HIDE DEF host, agent, length, connection, rest
<1> DEFINE s2 == host \o agent
           s3 == s2 \o length
           s4 == s3 \o connection
           s == s4 \o rest
<1>8. /\ s2 \in Texts /\ Single(s2, "host") /\ Shows(s2, "content-length", LengthLine(c))
      /\ Shows(s2, "host", HostLine(c))
      /\ \A name \in Own \ {"host"} : Lacks(s2, name)
  BY <1>3, <1>4, TextsJoin DEF Own
<1> HIDE DEF s2
<1>9. /\ s3 \in Texts /\ Single(s3, "host") /\ Shows(s3, "content-length", LengthLine(c))
      /\ Shows(s3, "host", HostLine(c))
      /\ \A name \in Own \ {"host", "content-length"} : Lacks(s3, name)
      /\ NeedsLength(c) => Single(s3, "content-length")
      /\ ~NeedsLength(c) => Lacks(s3, "content-length")
  BY <1>5, <1>8, TextsJoin DEF Own
<1> HIDE DEF s3
<1>10. /\ s4 \in Texts /\ Single(s4, "host") /\ Shows(s4, "content-length", LengthLine(c))
       /\ Shows(s4, "host", HostLine(c))
       /\ Lacks(s4, "HOST") /\ Lacks(s4, "transfer-encoding")
       /\ NeedsLength(c) => Single(s4, "content-length")
       /\ ~NeedsLength(c) => Lacks(s4, "content-length")
       /\ ~c.keepAlive => Single(s4, "connection")
       /\ c.keepAlive => Lacks(s4, "connection")
  BY <1>6, <1>9, TextsJoin DEF Own
<1> HIDE DEF s4
<1>11. /\ s \in Texts /\ Single(s, "host") /\ Shows(s, "content-length", LengthLine(c))
       /\ Shows(s, "host", HostLine(c))
       /\ Lacks(s, "HOST") /\ Lacks(s, "transfer-encoding")
       /\ NeedsLength(c) => Single(s, "content-length")
       /\ ~NeedsLength(c) => Lacks(s, "content-length")
       /\ ~c.keepAlive => Single(s, "connection")
       /\ c.keepAlive => Lacks(s, "connection")
  BY <1>7, <1>10, TextsJoin DEF Own
<1>12. s = Lines(c, Own)
  BY DEF s4, s3, s2, host, agent, length, connection, rest, agentLine, lastLine, LengthLine, Lines
<1> QED
  BY <1>11, <1>12

LEMMA FramedText ==
  ASSUME call \in Calls
  PROVE  RequestTextFramed
<1> DEFINE parts == ParseUrl(call.url)
           s == Lines(call, Own)
           hosts == Given(call) \cap {"host", "HOST"}
           values == {call.headers[h] : h \in hosts} \ {"empty"}
<1>1. call.url \in Urls /\ call.keepAlive \in BOOLEAN
  BY HttpExchangeAssumption
<1>2. ASSUME Fit(call)
      PROVE  /\ parts.port \in Ports /\ parts.target[1] \in {"/", "/path"}
             /\ \/ parts.hostHeader = parts.port
                \/ parts.hostHeader = NoPort /\ parts.port = DefaultOf(parts.tls)
             /\ HostLine(call)[2] # "empty"
  <2>1. Parsed(call.url)
    BY <1>1, UrlParts
  <2> QED
    BY <1>2, <2>1, Zenon DEF Fit, Parsed
<1> HIDE DEF s
<1>3. /\ Single(s, "host") /\ Lacks(s, "HOST") /\ Lacks(s, "transfer-encoding")
      /\ Shows(s, "host", HostLine(call)) /\ Shows(s, "content-length", LengthLine(call))
      /\ NeedsLength(call) => Single(s, "content-length")
      /\ ~NeedsLength(call) => Lacks(s, "content-length")
      /\ ~call.keepAlive => Single(s, "connection")
      /\ call.keepAlive => Lacks(s, "connection")
  BY TextOfACall DEF s
<1>4. /\ Cardinality(Named(s, "host")) = 1
      /\ Named(s, "HOST") = {} /\ Named(s, "transfer-encoding") = {}
  BY <1>3, Counted
<1>5. Cardinality(Named(s, "content-length")) = (IF NeedsLength(call) THEN 1 ELSE 0)
  <2>1. CASE NeedsLength(call)
    BY <1>3, <2>1, Counted
  <2>2. CASE ~NeedsLength(call)
    BY <1>3, <2>2, Counted
  <2> QED
    BY <2>1, <2>2
<1>6. Cardinality(Named(s, "connection")) = (IF call.keepAlive THEN 0 ELSE 1)
  <2>1. CASE call.keepAlive
    BY <1>3, <2>1, Counted
  <2>2. CASE ~call.keepAlive
    BY <1>3, <2>2, Counted
  <2> QED
    BY <2>1, <2>2
<1>7. \A i \in Named(s, "content-length") : s[i][3] = call.body
  BY <1>3 DEF Shows, Named, LengthLine
<1>h. ASSUME Fit(call), NEW i \in Named(s, "host")
      PROVE  \/ hosts # {} /\ s[i][2] \in values
             \/ /\ hosts = {} /\ s[i][2] = call.url.host
                /\ \/ s[i][3] = parts.port
                   \/ s[i][3] = NoPort /\ parts.port = (IF parts.tls THEN 443 ELSE 80)
  <2>1. s[i] = HostLine(call)
    BY <1>3 DEF Shows, Named
  <2>2. HostIs(call, s[i]) /\ s[i][2] # "empty"
    BY <1>2, <1>h, <2>1, HostOfACall
  <2>3. CASE \E h \in hosts : s[i][2] = call.headers[h]
    BY <2>2, <2>3
  <2>4. CASE hosts = {} /\ s[i][2] = call.url.host /\ s[i][3] = parts.hostHeader
    BY <1>2, <1>h, <2>4 DEF DefaultOf
  <2> QED
    BY <2>2, <2>3, <2>4, Zenon DEF HostIs
<1>8. BuildRequestText(call).lines = s
  BY DEF BuildRequestText, s
<1>9. BuildRequestText(call).ok => Fit(call)
  <2> DEFINE ok == Fit(call)
  <2>1. BuildRequestText(call) = [ok |-> ok, lines |-> s]
    BY DEF BuildRequestText, s
  <2> HIDE DEF ok
  <2>2. BuildRequestText(call).ok = ok
    BY <2>1
  <2> QED
    BY <2>2, Zenon DEF ok
<1> DEFINE text == BuildRequestText(call)
           named(n) == {i \in DOMAIN text.lines : text.lines[i][1] = n}
           authority(i) ==
             \/ hosts # {} /\ text.lines[i][2] \in values
             \/ /\ hosts = {} /\ text.lines[i][2] = call.url.host
                /\ \/ text.lines[i][3] = parts.port
                   \/ text.lines[i][3] = NoPort /\ parts.port = (IF parts.tls THEN 443 ELSE 80)
<1>10. \A n : named(n) = Named(s, n)
  BY <1>8 DEF Named
<1>11. text.ok =>
         /\ parts.port \in Ports /\ parts.target[1] \in {"/", "/path"}
         /\ \A i \in named("host") : authority(i)
  <2>1. text.ok => \A i \in Named(s, "host") : authority(i)
    BY <1>h, <1>8, <1>9, Zenon
  <2>2. text.ok => parts.port \in Ports /\ parts.target[1] \in {"/", "/path"}
    BY <1>2, <1>9, Zenon
  <2> QED
    BY <1>10, <2>1, <2>2, Zenon
<1>12. /\ Cardinality(named("host")) = 1
       /\ named("HOST") \cup named("transfer-encoding") = {}
       /\ \A i \in named("content-length") : text.lines[i][3] = call.body
       /\ Cardinality(named("content-length")) = (IF NeedsLength(call) THEN 1 ELSE 0)
       /\ Cardinality(named("connection")) = (IF call.keepAlive THEN 0 ELSE 1)
  BY <1>4, <1>5, <1>6, <1>7, <1>8 DEF Named
<1> HIDE DEF parts, text, named, hosts, values, authority
<1>14. text.ok =>
         /\ parts.port \in Ports /\ parts.target[1] \in {"/", "/path"}
         /\ Cardinality(named("host")) = 1
         /\ \A i \in named("host") : authority(i)
         /\ named("HOST") \cup named("transfer-encoding") = {}
         /\ \A i \in named("content-length") : text.lines[i][3] = call.body
         /\ Cardinality(named("content-length")) = (IF NeedsLength(call) THEN 1 ELSE 0)
         /\ Cardinality(named("connection")) = (IF call.keepAlive THEN 0 ELSE 1)
  BY <1>11, <1>12, Zenon
<1> QED
  BY <1>14 DEF RequestTextFramed, parts, text, named, hosts, values, authority

(***************************************************************************)
(* Every request that BuildRequestText accepts is framed: for any call of  *)
(* Request, any headers and any order of the caller's own ones, the text   *)
(* has one Host line, which is a Host of the caller's that is not empty    *)
(* or, without one, the host and port of the URL, one length exactly where *)
(* one is needed, and no other framing header.                             *)
(***************************************************************************)
THEOREM RequestsAreFramed == ExSpec => []RequestTextFramed
<1>1. ExInit => call \in Calls
  BY DEF ExInit
<1>2. call \in Calls /\ [ExNext]_exVars => (call \in Calls)'
  <2> SUFFICES ASSUME call \in Calls, [ExNext]_exVars PROVE call' \in Calls
    OBVIOUS
  <2>1. CASE UNCHANGED exVars
    BY <2>1 DEF exVars
  <2>2. ASSUME NEW c \in Calls, Reject(c) PROVE call' \in Calls
    BY <2>2 DEF Reject
  <2>3. ASSUME NEW c \in Calls, NEW interims, NEW final, NEW extra, NEW cut,
               Request(c, interims, final, extra, cut)
        PROVE  call' \in Calls
    BY <2>3, Zenon DEF Request
  <2>4. ASSUME NEW n, OnChannelData(n) PROVE call' \in Calls
    BY <2>4, Zenon DEF OnChannelData
  <2>5. CASE OnParkedData \/ OnTimeout \/ Cancel
    BY <2>5, Zenon DEF OnParkedData, OnTimeout, Cancel
  <2>6. ASSUME NEW ok, OnChannelClosed(ok) PROVE call' \in Calls
    BY <2>6, Zenon DEF OnChannelClosed
  <2> QED
    BY <2>1, <2>2, <2>3, <2>4, <2>5, <2>6, Zenon DEF ExNext
<1>3. call \in Calls => RequestTextFramed
  BY FramedText
<1> QED
  BY <1>1, <1>2, <1>3, PTL DEF ExSpec
=============================================================================
