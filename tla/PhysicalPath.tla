---------------------------- MODULE PhysicalPath ----------------------------
(***************************************************************************)
(* How a connection is kept on or off the physical interface: the policy   *)
(* (VpnPolicy.cpp), the choice of the interface (LinuxNetlinkMonitor.cpp,  *)
(* LinuxPhysicalIface.cpp), name lookup through it with the shared cache   *)
(* (DnsResolver.cpp), the route lookup (LinuxRouteLookup.cpp,              *)
(* AppleRouteLookup.cpp), the recheck of the pin and the pin itself        *)
(* (SocketPinner.cpp).                                                     *)
(*                                                                         *)
(* Each caller is a TcpChannel that chooses an interface, runs Resolve on  *)
(* a thread of its own and then decides on the pin of its socket; the      *)
(* cache is shared; interfaces come and go between any two steps.          *)
(* Interface 1 is a device, 2 the TUN of a VPN whose resolver answers with *)
(* addresses of its own (fake-IP), 0 none.  Time passes in ticks.          *)
(***************************************************************************)
EXTENDS Integers, FiniteSets, Sequences

CONSTANTS
  Callers,         \* threads that resolve a host and connect to it
  Configs,         \* [explicit, bypass, v6, ifIndex] an application may give
  Ifaces,          \* what sysfs and its name tell of each interface
  PlatformDefault, \* tt_vpn_policy_platform_default
  Platforms,       \* "linux" or "apple": how route lookups and pins work
  Servers,         \* number of DNS servers tried
  Timeout,         \* cfg.timeoutMs, in ticks
  Grace,           \* cfg.secondAnswerGraceMs
  TtlMin, TtlMax,  \* the bounds of _ClampTtl
  MaxChanges       \* bound on changes of the interfaces

ASSUME PathAssumption ==
  /\ Configs \subseteq [explicit : STRING, bypass : {"none", "yes", "no"}, v6 : BOOLEAN,
                         ifIndex : 0..2]
  /\ Ifaces \in [1..2 -> [device : BOOLEAN, entry : BOOLEAN, looksVirtual : BOOLEAN]]
  /\ PlatformDefault \in {"os", "prefer", "force"} /\ Platforms \subseteq {"linux", "apple"}
  /\ Servers \in Nat \ {0} /\ Timeout \in Nat \ {0} /\ Grace \in Nat
  /\ TtlMin \in Nat \ {0} /\ TtlMax \in Nat /\ TtlMin <= TtlMax /\ MaxChanges \in Nat

VARIABLES
  caller,  \* the callers
  cache,   \* g_cache: what is known under [policy, ifIndex], and for how long
  links    \* the platform, interfaces with a default route, and their changes

vars == <<caller, cache, links>>

Policies == {"os", "prefer", "force"}
Families == {"A", "AAAA"}

(* An address is the VPN's or not.  For the properties, it carries how it  *)
(* was found: it was given, the system's resolver said so, or a query did, *)
(* on a socket pinned in this way to interface i, or not at all.           *)
Ways == {"literal", "system", "unpinned", "device", "option"}
Addrs == [fam : Families, kind : {"real", "fake"}, how : Ways, i : 0..2]
Unknown == 0
NoRoute == 99

-----------------------------------------------------------------------------
(* VpnPolicy.cpp                                                           *)

(* tt_vpn_policy_from_string, then tt_vpn_policy_resolve: an explicit      *)
(* policy wins over bypassVpn, which wins over the platform's.             *)
FromString(s) == IF s \in Policies THEN s ELSE "unset"

ResolvePolicy(cfg) ==
  IF FromString(cfg.explicit) # "unset" THEN FromString(cfg.explicit)
  ELSE IF cfg.bypass = "none" THEN PlatformDefault
  ELSE IF cfg.bypass = "yes" THEN "prefer" ELSE "os"

(* tt_peer_address_class of an address. *)
PeerClass(a) == IF a.kind = "fake" THEN {"FAKE_IP", "PRIVATE"} ELSE {}

(* Mutant: an unknown route to an address that is not global is trusted. *)
PinRecheckTrusting(policy, bound, scoped, global, class) ==
  \/ bound = 0 \/ policy = "force"
  \/ policy = "prefer" /\ scoped \in {Unknown, bound}
  \/ policy = "os" /\ global \in {Unknown, bound}

(* tt_vpn_pin_recheck: whether the pin on interface `bound' is kept. *)
PinRecheck(policy, bound, scoped, global, class) ==
  \/ bound = 0 \/ policy = "force"
  \/ policy = "prefer" /\ scoped \in {Unknown, bound} /\ (class = {} \/ global = bound)
  \/ policy = "os" /\ (global = bound \/ (global = Unknown /\ class = {}))

-----------------------------------------------------------------------------
(* The interfaces as the system shows them.                                *)

(* tt_linux_iface_is_physical: a device in sysfs decides, an entry without  *)
(* one is virtual, and only without sysfs does the name count.             *)
IsPhysical(i) ==
  /\ i \in DOMAIN Ifaces
  /\ Ifaces[i].device \/ (~Ifaces[i].entry /\ ~Ifaces[i].looksVirtual)

(* QueryDefaultIfIndex: what it may find.  A dump that ends early, or one   *)
(* of IPv4 routes only, may miss the device and leave prefer-physical with *)
(* its fallback, or with nothing.                                          *)
QueryDefaultIfIndex(policy) ==
  {0} \cup {i \in links.up : policy = "force" => IsPhysical(i)}

(* tt_route_lookup_ifindex: the VPN takes every route that is not scoped.  *)
(* An unscoped lookup may fail; Linux ignores the scope.                   *)
GlobalLookup ==
  {Unknown} \cup (IF 2 \in links.up THEN {2} ELSE links.up)

RouteLookup(scope) ==
  IF links.os = "linux" THEN GlobalLookup
  ELSE {Unknown} \cup (IF scope \in links.up THEN {scope} ELSE {NoRoute})

(* tt_socket_pin: on Linux force-physical binds to the device, which needs *)
(* a privilege; the others, and it as a fallback, set an option per        *)
(* family.                                                                 *)
PinResults(policy, i) ==
  IF i = 0 THEN {[result |-> "NOT_NEEDED", how |-> "unpinned"]}
  ELSE {[result |-> "UNSUPPORTED", how |-> "unpinned"], [result |-> "FAILED", how |-> "unpinned"],
        [result |-> "OK", how |-> "option"]}
       \cup (IF policy = "force" /\ links.os = "linux" THEN {[result |-> "OK", how |-> "device"]}
            ELSE {})

(* The interfaces a query may leave through, 0 by the system's route: an   *)
(* older Linux ignores the option on a UDP socket that is connected.       *)
LeavesBy(how, i) ==
  CASE how = "device" -> {i}
    [] how = "option" -> IF links.os = "linux" THEN {0, i} ELSE {i}
    [] OTHER -> {0}

(* What is found out there: the VPN answers for everything that goes       *)
(* through it.                                                             *)
Answer(how, i) ==
  IF 2 \in LeavesBy(how, i) \/ (0 \in LeavesBy(how, i) /\ 2 \in links.up)
  THEN {"real", "fake"} ELSE {"real"}

-----------------------------------------------------------------------------
(* The cache.                                                              *)

(* Mutant: the host alone is the key. *)
CacheKeyHostOnly(policy, i) == [policy |-> "any", i |-> 0]

CacheKey(policy, i) == [policy |-> policy, i |-> i]
Keys == [policy : Policies \cup {"any"}, i : 0..2]

ClampTtl(t) == IF t < TtlMin THEN TtlMin ELSE IF t > TtlMax THEN TtlMax ELSE t

(* Expired entries are erased when they are found, and never returned. *)
CacheLookup(k) == cache[k].ttl > 0
CacheStore(k, r, addrs, ttl) ==
  cache' = [cache EXCEPT ![k] = [addrs |-> addrs, v6 |-> r.v6, ttl |-> ClampTtl(ttl)]]

-----------------------------------------------------------------------------
(* A caller: `i' is bound_ifindex_, `query' the interface of its lookup,    *)
(* `pin' how that is pinned; `left' and `grace' are the ticks to the       *)
(* deadline and to the end of the grace period.                            *)
Idle ==
  [pc |-> "idle", policy |-> "os", v6 |-> FALSE, given |-> FALSE, i |-> 0, query |-> 0,
   pin |-> "unpinned", server |-> 0, got |-> {}, found |-> {}, left |-> 0, armed |-> FALSE,
   grace |-> 0, addrs |-> {}, result |-> "none", bound |-> 0, peer |-> "none", seen |-> {}]

Init ==
  /\ caller = [c \in Callers |-> Idle]
  /\ cache = [k \in Keys |-> [addrs |-> {}, v6 |-> FALSE, ttl |-> 0]]
  /\ links \in [up : SUBSET {1, 2}, changes : {0}, os : Platforms]

Set(c, r) == caller' = [caller EXCEPT ![c] = r]

Done(r, result, addrs) ==
  [Idle EXCEPT !.pc = "resolved", !.policy = r.policy, !.v6 = r.v6, !.given = r.given,
               !.i = r.i, !.query = r.query, !.result = result, !.addrs = addrs]

(* A host or resolvedIp that is an address, of any kind, needs no lookup. *)
Literals == {a \in Addrs : a.how = "literal" /\ a.i = 0}

(* _PickPhysicalIfIndex: the application's interface, or one that is found. *)
PickPhysicalIfIndex(policy, cfg) ==
  IF policy = "os" THEN {0}
  ELSE IF cfg.ifIndex # 0 THEN {cfg.ifIndex} ELSE QueryDefaultIfIndex(policy)

(* TcpChannel::Open, up to the lookup, which is through the same interface. *)
OpenChannel(c, cfg) ==
  /\ caller[c].pc = "idle"
  /\ \E i \in PickPhysicalIfIndex(ResolvePolicy(cfg), cfg) :
       LET r == [Idle EXCEPT !.policy = ResolvePolicy(cfg), !.v6 = cfg.v6,
                             !.given = cfg.ifIndex # 0, !.i = i, !.query = i]
       IN \/ r.policy = "force" /\ i = 0 /\ Set(c, Done(r, "NO_PHYSICAL_INTERFACE", {}))
          \/ /\ ~(r.policy = "force" /\ i = 0)
             /\ \/ \E a \in Literals : Set(c, Done(r, "SUCCESS", {a}))
                \/ Set(c, [r EXCEPT !.pc = "lookup"])
  /\ UNCHANGED <<cache, links>>

(* Resolve: a literal; or the interface, if there was none before, and the *)
(* cache.                                                                  *)
Resolve(c) ==
  LET r == caller[c] IN
  /\ r.pc = "lookup"
  /\ \/ \E a \in Literals : Set(c, Done(r, "SUCCESS", {a}))
     \/ \E i \in IF r.policy = "os" \/ r.query # 0 THEN {r.query}
                  ELSE QueryDefaultIfIndex(r.policy) :
          LET k == CacheKey(r.policy, i)
              q == [r EXCEPT !.query = i]
              sorted == [q EXCEPT !.v6 = cache[k].v6]  \* the order of who stored it
          IN Set(c, IF CacheLookup(k) THEN Done(sorted, "SUCCESS", cache[k].addrs)
                    ELSE IF r.policy = "os" THEN [q EXCEPT !.pc = "system"]
                    ELSE [q EXCEPT !.pc = "server", !.server = 1])
  /\ UNCHANGED <<cache, links>>

(* _ResolveViaSystem.  A fallback from the own query is not cached. *)
StoresSystem(r) == r.policy = "os"

ResolveViaSystem(c) ==
  LET r == caller[c] IN
  /\ r.pc = "system"
  /\ \/ Set(c, Done(r, "DNS_FAILED", {})) /\ UNCHANGED cache
     \/ \E kind \in Answer("system", 0), fams \in SUBSET Families \ {{}} :
          LET found == {[fam |-> f, kind |-> kind, how |-> "system", i |-> 0] : f \in fams} IN
          /\ Set(c, Done(r, "SUCCESS", found))
          /\ IF StoresSystem(r) THEN CacheStore(CacheKey(r.policy, r.query), r, found, TtlMax)
             ELSE UNCHANGED cache
  /\ UNCHANGED links

(* _ResolveViaUdp gave no address: force-physical ends here. *)
UdpFailed(r) ==
  IF r.policy = "force" THEN Done(r, "DNS_FAILED", {})
  ELSE [Idle EXCEPT !.pc = "system", !.policy = r.policy, !.v6 = r.v6, !.given = r.given,
                    !.i = r.i, !.query = r.query]

NextServer(r) ==
  IF r.server = Servers THEN UdpFailed(r)
  ELSE [r EXCEPT !.pc = "server", !.server = @ + 1]

PinIsGood(r, p) ==
  IF r.policy = "force" THEN p.result = "OK" ELSE p.result \in {"OK", "NOT_NEEDED"}

(* Ask one server: socket, pin, connect, both queries. *)
AskServer(c) ==
  LET r == caller[c] IN
  /\ r.pc = "server"
  /\ \/ Set(c, NextServer(r))  \* a bad address, no socket, or connect failed
     \/ \E p \in PinResults(r.policy, r.query), sent \in SUBSET Families :
          Set(c, IF ~PinIsGood(r, p) THEN UdpFailed(r)
                 ELSE [r EXCEPT !.pc = "wait", !.pin = p.how, !.got = Families \ sent,
                                !.found = {}, !.left = Timeout, !.armed = FALSE,
                                !.grace = 0])
  /\ UNCHANGED <<cache, links>>

(* The top of the wait loop: the first address arms the grace period. *)
Arm(r) ==
  IF r.found # {} /\ ~r.armed THEN [r EXCEPT !.armed = TRUE, !.grace = Grace] ELSE r

Due(r) == r.left = 0 \/ (r.armed /\ r.grace = 0)

(* ParseResponse of an answer to r's query: nothing if it is rejected or   *)
(* holds no address; the type of a record is not compared with that of the *)
(* question.                                                               *)
ParseResponse(r) ==
  {{}} \cup {{[fam |-> f, kind |-> kind, how |-> r.pin, i |-> r.query]} :
             f \in Families, kind \in Answer(r.pin, r.query)}

(* A datagram: an answer to one of the queries, or neither's. *)
OnDatagram(c) ==
  LET r == caller[c] IN
  /\ r.pc = "wait" /\ r.got # Families /\ ~Due(r)
  /\ \/ \E f \in Families \ r.got, found \in ParseResponse(r) :
          Set(c, Arm([r EXCEPT !.got = @ \cup {f}, !.found = @ \cup found]))
     \/ Set(c, Arm(r))
  /\ UNCHANGED <<cache, links>>

(* Both answers are in, the poll timed out, or the socket failed. *)
StopWaiting(c) ==
  LET r == caller[c] IN
  /\ r.pc = "wait"
  /\ IF r.found = {} THEN Set(c, NextServer(r)) /\ UNCHANGED cache
     ELSE /\ Set(c, Done(r, "SUCCESS", r.found))
          /\ \E ttl \in {0, TtlMax} : CacheStore(CacheKey(r.policy, r.query), r, r.found, ttl)
  /\ UNCHANGED links

(* _SortAddrs puts the preferred family first, and TcpChannel takes the    *)
(* first address.                                                          *)
FirstAddr(r) ==
  LET pref == {a \in r.addrs : (a.fam = "AAAA") = r.v6}
  IN IF pref # {} THEN pref ELSE r.addrs

(* _DecidePinBeforeConnect, then _PinSocket: under force-physical a route  *)
(* that is known to lead elsewhere, or a pin that cannot be set, is an     *)
(* error.                                                                  *)
Connect(c) ==
  LET r == caller[c]
      Over == [Idle EXCEPT !.pc = "done", !.policy = r.policy]
      Bind(a, i) == [Over EXCEPT !.result = "SUCCESS", !.peer = a.kind, !.bound = i,
                                 !.seen = links.up]
      Refuse(error) == [Over EXCEPT !.result = error]
  IN
  /\ r.pc = "resolved" /\ r.result = "SUCCESS"
  /\ \E a \in FirstAddr(r), scoped \in RouteLookup(r.i), global \in GlobalLookup,
        p \in PinResults(r.policy, r.i) :
       Set(c, IF r.policy = "force" /\ scoped \notin {Unknown, r.i} THEN Refuse("ROUTE_MISMATCH")
              ELSE IF r.i = 0 \/ ~PinRecheck(r.policy, r.i, scoped, global, PeerClass(a))
                   THEN Bind(a, 0)
              ELSE IF p.result = "OK" THEN Bind(a, r.i)
              ELSE IF r.policy = "force" THEN Refuse("PIN_FAILED") ELSE Bind(a, 0))
  /\ UNCHANGED <<cache, links>>

-----------------------------------------------------------------------------
(* Time and the system.                                                    *)

Dec(n) == IF n > 0 THEN n - 1 ELSE 0

(* A poll whose time is up returns before more time passes. *)
Tick ==
  /\ \A c \in Callers : caller[c].pc = "wait" => ~Due(caller[c]) /\ caller[c].got # Families
  /\ caller' = [c \in Callers |->
       IF caller[c].pc # "wait" THEN caller[c]
       ELSE [caller[c] EXCEPT !.left = @ - 1,
                              !.grace = IF caller[c].armed THEN @ - 1 ELSE @]]
  /\ cache' = [k \in Keys |-> [cache[k] EXCEPT !.ttl = Dec(@),
                                              !.v6 = IF cache[k].ttl <= 1 THEN FALSE ELSE @,
                                              !.addrs = IF cache[k].ttl <= 1 THEN {} ELSE @]]
  /\ UNCHANGED links

LinksChange ==
  /\ links.changes < MaxChanges
  /\ \E up \in SUBSET {1, 2} :
       up # links.up /\ links' = [links EXCEPT !.up = up, !.changes = @ + 1]
  /\ UNCHANGED <<caller, cache>>

Next ==
  \/ \E c \in Callers :
       \/ \E cfg \in Configs : OpenChannel(c, cfg)
       \/ Resolve(c) \/ ResolveViaSystem(c) \/ AskServer(c) \/ OnDatagram(c) \/ StopWaiting(c) \/ Connect(c)
  \/ Tick \/ LinksChange

Spec == Init /\ [][Next]_vars

-----------------------------------------------------------------------------
(* Under force-physical a lookup only ever returns a literal, or addresses *)
(* found by a query of that policy on a socket pinned to the interface the *)
(* connection will use, which is physical or the application's choice:     *)
(* nothing the system's resolver, an unpinned query, another policy or     *)
(* another interface has put into the shared cache.  A VPN's address is    *)
(* among them only if the pin was the option, which an older Linux ignores *)
(* on connected UDP sockets, or the TUN itself was chosen.                 *)
ForceAnswersAreOwn ==
  \A c \in Callers : caller[c].policy = "force" =>
     \A a \in caller[c].addrs :
       \/ a.how = "literal"
       \/ /\ a.how \in {"device", "option"} /\ a.i = caller[c].i
          /\ caller[c].given \/ IsPhysical(a.i)
          /\ a.kind = "fake" => a.how = "option" \/ a.i = 2

(* Unless force-physical says so, a socket is not pinned to the device     *)
(* towards an address that only the VPN can reach, while the VPN is up:    *)
(* the recheck gives the pin up when the lookup fell back to the system's  *)
(* resolver, its pin was ignored, or the application gave such an address. *)
FakeIsUnpinned ==
  \A c \in Callers :
    (/\ caller[c].pc = "done" /\ caller[c].policy # "force"
     /\ caller[c].peer = "fake" /\ caller[c].bound = 1) => 2 \notin caller[c].seen
=============================================================================
