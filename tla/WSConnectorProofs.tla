------------------------- MODULE WSConnectorProofs -------------------------
(***************************************************************************)
(* Proofs about WSConnector, for any set of connections and any number of  *)
(* Close calls: handlers are called in the order they are promised, and    *)
(* not any more once ~WSConnector has returned.                            *)
(***************************************************************************)
EXTENDS WSConnector, TLAPS

(* A handler's view is never "broken".                                     *)
ConnType ==
  [life : {"none", "live"}, pc : {"idle", "called", "built", "marked", "recheck"},
   connectCalled : BOOLEAN, channelOpened : BOOLEAN, channel : BOOLEAN,
   phase : {"idle", "opening", "up", "over"}, asked : BOOLEAN, hsTimer : BOOLEAN,
   hsBad : BOOLEAN, upgraded : BOOLEAN, checkTimer : BOOLEAN, notified : BOOLEAN,
   connectedOk : BOOLEAN, handler : BOOLEAN,
   q : {"idle", "armCheck", "giveUp", "detach", "over"},
   view : {"nothing", "connected", "failed", "closed"}, outside : BOOLEAN]

StType == [closing : BOOLEAN, notified : BOOLEAN, abandoned : BOOLEAN, handler : BOOLEAN]

(* Connect opens the channel at most once.                                 *)
OpensOnce(r) ==
  /\ r.life = "none" => r.phase = "idle" /\ r.pc = "idle"
  /\ r.pc # "idle" => r.connectCalled
  /\ r.pc = "marked" => r.channelOpened
  /\ r.phase # "idle" => r.connectCalled /\ r.pc \in {"idle", "recheck"} /\ r.channelOpened
  /\ r.phase = "idle" => ~r.notified /\ ~r.outside

(* What the flags say about what the handler knows.                        *)
Knows(r) ==
  /\ ~r.notified => r.view = "nothing"
  /\ r.connectedOk = r.upgraded
  /\ r.connectedOk => r.notified
  /\ r.phase # "over" /\ r.notified => r.connectedOk
  /\ r.handler /\ r.connectedOk /\ r.phase # "over" => r.view = "connected"

Good(r) == r \in ConnType /\ OpensOnce(r) /\ Knows(r)

(* A connection whose channel may still call is known to the connector.    *)
Active(r) == r.phase # "idle" /\ ~r.outside /\ r.q # "over"

Known(r, x) == (Active(r) => x \in conns) /\ (x \in posted => r.q = "over")

(* The destructor: when it stops waiting, everybody it knew is cut off,    *)
(* and OnClosed has been told or never will be.                            *)
DtorGood ==
  /\ dtor.pc # "none" => st.closing /\ closer.pc = "idle"
  /\ st.handler = ~st.abandoned
  /\ dtor.pc = "wait" /\ conns = {} => st.notified \/ st.abandoned
  /\ dtor.pc = "abandoned" => st.abandoned
  /\ dtor.pc = "done" => st.abandoned \/ st.notified
  /\ dtor.pc \in {"abandoned", "done"} => \A x \in conns : ~c[x].handler
  /\ dtor.pc = "done" => inFlight \subseteq {dtor.on} \cup {x \in Conns : c[x].outside}

IInv ==
  /\ c \in [Conns -> ConnType] /\ conns \subseteq Conns /\ posted \subseteq Conns
  /\ st \in StType
  /\ closer \in [pc : {"idle", "notify"}, calls : Nat]
  /\ dtor \in [pc : {"none", "notify", "wait", "abandoned", "done"}, on : Threads \cup {NULL}]
  /\ \A x \in Conns : Good(c[x]) /\ Known(c[x], x)
  /\ DtorGood
-----------------------------------------------------------------------------
(* One connection record.                                                  *)

Bools(r) ==
  /\ r.connectCalled \in BOOLEAN /\ r.channelOpened \in BOOLEAN /\ r.channel \in BOOLEAN
  /\ r.asked \in BOOLEAN /\ r.hsTimer \in BOOLEAN /\ r.hsBad \in BOOLEAN
  /\ r.upgraded \in BOOLEAN /\ r.checkTimer \in BOOLEAN /\ r.notified \in BOOLEAN
  /\ r.connectedOk \in BOOLEAN /\ r.handler \in BOOLEAN /\ r.outside \in BOOLEAN

LEMMA Fields ==
  ASSUME NEW r \in ConnType
  PROVE  /\ r.life \in {"none", "live"} /\ r.pc \in {"idle", "called", "built", "marked", "recheck"}
         /\ r.phase \in {"idle", "opening", "up", "over"}
         /\ r.q \in {"idle", "armCheck", "giveUp", "detach", "over"}
         /\ r.view \in {"nothing", "connected", "failed", "closed"}
         /\ Bools(r)
BY DEF ConnType, Bools

(* The fields the invariant is about, but for the phase of the channel.    *)
SameButPhase(b, d) ==
  /\ d.life = b.life /\ d.pc = b.pc /\ d.connectCalled = b.connectCalled
  /\ d.channelOpened = b.channelOpened /\ d.upgraded = b.upgraded /\ d.notified = b.notified
  /\ d.connectedOk = b.connectedOk /\ d.handler = b.handler /\ d.q = b.q
  /\ d.view = b.view /\ d.outside = b.outside

Same(b, d) == SameButPhase(b, d) /\ d.phase = b.phase

(* What no step of a connection does: give it a handler again, bring it    *)
(* back when it is over, or let it be known when it was opened outside.    *)
Follows(b, d) ==
  /\ d.handler = b.handler
  /\ b.q = "over" => d.q = "over"
  /\ b.outside => d.outside

LEMMA SameGood ==
  ASSUME NEW b, NEW d, Good(b), d \in ConnType, Same(b, d)
  PROVE  Good(d) /\ Follows(b, d) /\ (Active(d) => Active(b))
BY DEF Good, Same, SameButPhase, OpensOnce, Knows, Follows, Active

LEMMA ChannelCloseKeeps ==
  ASSUME NEW b, Good(b)
  PROVE  LET d == ChannelClose(b) IN Good(d) /\ Same(b, d)
<1> DEFINE d == [b EXCEPT !.asked = TRUE]
<1>1. b \in ConnType
  BY DEF Good
<1>2. d \in ConnType
  BY <1>1, ZenonT(60) DEF ConnType
<1>3. Same(b, d)
  BY <1>1 DEF ConnType, Same, SameButPhase
<1> HIDE DEF d
<1>4. Good(d)
  BY <1>2, <1>3, SameGood
<1>5. ChannelClose(b) \in {b, d} /\ Same(b, b)
  BY DEF ChannelClose, d, Same, SameButPhase
<1> QED BY <1>3, <1>4, <1>5

-----------------------------------------------------------------------------
(* A step of one connection, which may call its handler.                   *)

LEMMA ObjectStep ==
  ASSUME IInv, NEW x \in Conns, NEW d, Good(d), Follows(c[x], d), Active(d) => x \in conns,
         c' = [c EXCEPT ![x] = d],
         UNCHANGED <<conns, st, closer, dtor>>,
         posted' = posted \/ (posted' = posted \cup {x} /\ d.q = "over"),
         \/ inFlight' = inFlight
         \/ /\ inFlight' = inFlight \cup {x} /\ c[x].handler
            /\ c[x].phase # "idle" /\ c[x].q # "over"
  PROVE  IInv'
<1>1. c \in [Conns -> ConnType] /\ d \in ConnType /\ Good(c[x]) /\ Known(c[x], x) /\ DtorGood
  BY DEF IInv, Good
<1>2. c' \in [Conns -> ConnType] /\ \A y \in Conns : c'[y] = IF y = x THEN d ELSE c[y]
  BY <1>1
<1>3. posted' \subseteq Conns
  BY DEF IInv
<1>4. ASSUME NEW y \in Conns PROVE (Good(c[y]) /\ Known(c[y], y))'
  <2>1. CASE y = x
    <3>1. x \in posted => c[x].q = "over"
      BY <1>1 DEF Known
    <3>2. x \in posted' => d.q = "over"
      BY <3>1 DEF Follows
    <3> QED BY <1>2, <2>1, <3>2 DEF Known
  <2>2. CASE y # x
    <3>1. Good(c[y]) /\ Known(c[y], y) /\ c'[y] = c[y]
      BY <1>2, <2>2 DEF IInv
    <3>2. y \in posted' => y \in posted
      BY <2>2
    <3> QED BY <3>1, <3>2 DEF Known
  <2> QED BY <2>1, <2>2
<1>5. \A y \in Conns : (c[y].outside => c'[y].outside) /\ c'[y].handler = c[y].handler
  BY <1>2 DEF Follows
<1>6. (dtor.pc = "done" => inFlight \subseteq {dtor.on} \cup {y \in Conns : c[y].outside})'
  <2> SUFFICES ASSUME dtor.pc = "done", NEW t \in inFlight'
               PROVE  t = dtor.on \/ (t \in Conns /\ c'[t].outside)
    OBVIOUS
  <2>1. CASE t \in inFlight
    <3>1. t = dtor.on \/ (t \in Conns /\ c[t].outside)
      BY <1>1, <2>1 DEF DtorGood
    <3> QED BY <3>1, <1>5
  <2>2. CASE t \notin inFlight
    <3>1. t = x /\ c[x].handler /\ c[x].phase # "idle" /\ c[x].q # "over"
      BY <2>2
    <3>2. \A y \in conns : ~c[y].handler
      BY <1>1 DEF DtorGood
    <3>3. c[x].outside
      BY <3>1, <3>2, <1>1 DEF Known, Active
    <3> QED BY <3>1, <3>3, <1>5
  <2> QED BY <2>1, <2>2
<1>7. (dtor.pc \in {"abandoned", "done"} => \A y \in conns : ~c[y].handler)'
  BY <1>1, <1>5 DEF DtorGood, IInv
<1>8. DtorGood'
  BY <1>1, <1>6, <1>7 DEF DtorGood
<1> QED BY <1>2, <1>3, <1>4, <1>8 DEF IInv, Good

LEMMA QuietStep ==
  ASSUME IInv, NEW x \in Conns, NEW d, Good(d), Follows(c[x], d), Active(d) => Active(c[x]),
         c' = [c EXCEPT ![x] = d],
         UNCHANGED <<conns, st, posted, inFlight, closer, dtor>>
  PROVE  IInv'
<1>1. Active(d) => x \in conns
  BY DEF IInv, Known
<1> QED BY <1>1, ObjectStep

LEMMA ConnFacts ==
  ASSUME IInv, NEW x \in Conns
  PROVE  /\ c[x] \in ConnType /\ Good(c[x]) /\ OpensOnce(c[x]) /\ Knows(c[x]) /\ Bools(c[x])
         /\ Active(c[x]) => x \in conns
BY Fields DEF IInv, Good, Known

(* A handler is called on a queue thread that is not in a callback.        *)
LEMMA DispatchStep ==
  ASSUME IInv, NEW x \in Conns, NEW r \in ConnType, NEW event,
         NEW next \in {"idle", "armCheck", "giveUp", "detach"},
         OpensOnce(r), r.notified, r.connectedOk = r.upgraded,
         r.phase # "over" => r.connectedOk,
         r.handler => Tell(r.view, event) \in {"connected", "failed", "closed"},
         r.handler /\ r.phase # "over" => Tell(r.view, event) = "connected",
         c[x].phase # "idle", c[x].q = "idle", r.handler = c[x].handler, r.outside = c[x].outside,
         Dispatch(x, r, event, next), UNCHANGED <<conns, st, posted, closer, dtor>>
  PROVE  IInv'
<1> DEFINE w == IF r.handler THEN Tell(r.view, event) ELSE r.view
           d == [r EXCEPT !.view = w, !.q = next]
           e == [r EXCEPT !.q = next]
<1>1. w \in {"nothing", "connected", "failed", "closed"}
      /\ next \in {"idle", "armCheck", "giveUp", "detach", "over"}
      /\ r.handler \in BOOLEAN
  BY Fields DEF Bools
<1>2. (r.handler => c' = [c EXCEPT ![x] = d] /\ inFlight' = inFlight \cup {x})
      /\ (~r.handler => c' = [c EXCEPT ![x] = e] /\ inFlight' = inFlight)
  BY DEF Dispatch
<1>3. r.handler => w = Tell(r.view, event)
  OBVIOUS
<1> HIDE DEF w
<1>4. d \in ConnType /\ e \in ConnType
  BY <1>1, ZenonT(60) DEF ConnType
<1>5. /\ d.life = r.life /\ d.pc = r.pc /\ d.connectCalled = r.connectCalled
      /\ d.channelOpened = r.channelOpened /\ d.upgraded = r.upgraded /\ d.notified = r.notified
      /\ d.connectedOk = r.connectedOk /\ d.handler = r.handler /\ d.q = next
      /\ d.view = w /\ d.outside = r.outside /\ d.phase = r.phase
  BY DEF ConnType
<1>6. /\ e.life = r.life /\ e.pc = r.pc /\ e.connectCalled = r.connectCalled
      /\ e.channelOpened = r.channelOpened /\ e.upgraded = r.upgraded /\ e.notified = r.notified
      /\ e.connectedOk = r.connectedOk /\ e.handler = r.handler /\ e.q = next
      /\ e.view = r.view /\ e.outside = r.outside /\ e.phase = r.phase
  BY DEF ConnType
<1> HIDE DEF d, e
<1>7. c[x].outside \/ x \in conns
  BY ConnFacts DEF Active
<1>8. CASE r.handler
  <2>1. Good(d)
    BY <1>3, <1>4, <1>5, <1>8 DEF Good, OpensOnce, Knows
  <2>2. Follows(c[x], d) /\ (Active(d) => x \in conns)
    BY <1>5, <1>7 DEF Follows, Active
  <2> QED BY <1>2, <1>8, <2>1, <2>2, ObjectStep
<1>9. CASE ~r.handler
  <2>1. Good(e)
    BY <1>4, <1>6, <1>9 DEF Good, OpensOnce, Knows
  <2>2. Follows(c[x], e) /\ (Active(e) => x \in conns)
    BY <1>6, <1>7 DEF Follows, Active
  <2> QED BY <1>2, <1>9, <2>1, <2>2, ObjectStep
<1> QED BY <1>1, <1>8, <1>9
-----------------------------------------------------------------------------
(* Connect.                                                                *)

(* What the steps of Connect leave alone.                                  *)
SameCallee(b, d) ==
  /\ d.life = b.life /\ d.upgraded = b.upgraded /\ d.notified = b.notified
  /\ d.connectedOk = b.connectedOk /\ d.handler = b.handler /\ d.q = b.q /\ d.view = b.view

LEMMA ConnectSteps ==
  ASSUME IInv, NEW x \in Conns,
         ConnectBegin(x) \/ ConnectBuild(x) \/ ConnectMark(x) \/ ConnectRefused(x)
  PROVE  IInv'
<1> DEFINE b == c[x]
<1>0. b \in ConnType /\ Good(b) /\ OpensOnce(b) /\ Knows(b) /\ Bools(b)
  BY ConnFacts
<1>01. c \in [Conns -> ConnType] /\ UNCHANGED <<conns, st, posted, inFlight, closer, dtor>>
  BY DEF IInv, ConnectBegin, ConnectBuild, ConnectMark, ConnectRefused
<1>1. CASE ConnectBegin(x)
  <2> DEFINE d == [b EXCEPT !.pc = "called", !.connectCalled = TRUE]
  <2>1. b.life = "live" /\ b.pc = "idle" /\ ~b.connectCalled /\ c' = [c EXCEPT ![x] = d]
    BY <1>01, <1>1 DEF ConnectBegin
  <2>2. d \in ConnType
    BY <1>0, ZenonT(60) DEF ConnType
  <2>3. SameCallee(b, d) /\ d.pc = "called" /\ d.connectCalled = TRUE /\ d.phase = b.phase
        /\ d.channelOpened = b.channelOpened /\ d.outside = b.outside
    BY <1>0 DEF ConnType, SameCallee
  <2> HIDE DEF d
  <2>4. Good(d) /\ Follows(b, d) /\ (Active(d) => Active(b))
    BY <1>0, <2>1, <2>2, <2>3 DEF Good, OpensOnce, Knows, SameCallee, Follows, Active
  <2> QED BY <1>01, <2>1, <2>4, QuietStep
<1>2. CASE ConnectBuild(x)
  <2>1. PICK target \in Targets :
          c' = [c EXCEPT ![x].pc = IF target = "good" THEN "built" ELSE "idle",
                         ![x].connectCalled = target = "good"]
    BY <1>2 DEF ConnectBuild
  <2> DEFINE n == IF target = "good" THEN "built" ELSE "idle"
             g == target = "good"
             d == [b EXCEPT !.pc = n, !.connectCalled = g]
  <2>2. b.pc = "called" /\ n \in {"idle", "built"} /\ g \in BOOLEAN /\ (n # "idle" => g)
    BY <1>2 DEF ConnectBuild
  <2>3. c' = [c EXCEPT ![x].pc = n, ![x].connectCalled = g]
    BY <2>1
  <2> HIDE DEF n, g
  <2>4. c' = [c EXCEPT ![x] = d]
    BY <1>01, <2>3
  <2>5. d \in ConnType
    <3>1. n \in {"idle", "called", "built", "marked", "recheck"}
      BY <2>2
    <3> QED BY <1>0, <2>2, <3>1, ZenonT(60) DEF ConnType
  <2>6. SameCallee(b, d) /\ d.pc = n /\ d.connectCalled = g /\ d.phase = b.phase
        /\ d.channelOpened = b.channelOpened /\ d.outside = b.outside
    BY <1>0 DEF ConnType, SameCallee
  <2> HIDE DEF d
  <2>7. Good(d) /\ Follows(b, d) /\ (Active(d) => Active(b))
    BY <1>0, <2>2, <2>5, <2>6 DEF Good, OpensOnce, Knows, SameCallee, Follows, Active
  <2> QED BY <1>01, <2>4, <2>7, QuietStep
<1>3. CASE ConnectMark(x)
  <2> DEFINE d == [b EXCEPT !.pc = "marked", !.channelOpened = TRUE]
  <2>1. b.pc = "built" /\ c' = [c EXCEPT ![x] = d]
    BY <1>01, <1>3 DEF ConnectMark
  <2>2. d \in ConnType
    BY <1>0, ZenonT(60) DEF ConnType
  <2>3. SameCallee(b, d) /\ d.pc = "marked" /\ d.connectCalled = b.connectCalled /\ d.phase = b.phase
        /\ d.channelOpened = TRUE /\ d.outside = b.outside
    BY <1>0 DEF ConnType, SameCallee
  <2> HIDE DEF d
  <2>4. Good(d) /\ Follows(b, d) /\ (Active(d) => Active(b))
    BY <1>0, <2>1, <2>2, <2>3 DEF Good, OpensOnce, Knows, SameCallee, Follows, Active
  <2> QED BY <1>01, <2>1, <2>4, QuietStep
<1>4. CASE ConnectRefused(x)
  <2> DEFINE d == [b EXCEPT !.pc = "idle", !.channelOpened = FALSE, !.connectCalled = FALSE]
  <2>1. b.pc = "marked" /\ c' = [c EXCEPT ![x] = d]
    BY <1>01, <1>4 DEF ConnectRefused
  <2>2. d \in ConnType
    BY <1>0, ZenonT(60) DEF ConnType
  <2>3. SameCallee(b, d) /\ d.pc = "idle" /\ d.phase = b.phase /\ d.outside = b.outside
    BY <1>0 DEF ConnType, SameCallee
  <2> HIDE DEF d
  <2>4. Good(d) /\ Follows(b, d) /\ (Active(d) => Active(b))
    BY <1>0, <2>1, <2>2, <2>3 DEF Good, OpensOnce, Knows, SameCallee, Follows, Active
  <2> QED BY <1>01, <2>1, <2>4, QuietStep
<1> QED BY <1>1, <1>2, <1>3, <1>4

(* The channel opens, known to the connector or not.                       *)
LEMMA OpenStep ==
  ASSUME IInv, NEW x \in Conns, ConnectOpen(x)
  PROVE  IInv'
<1> DEFINE b == c[x]
           o == x \notin conns
           d == [b EXCEPT !.pc = "recheck", !.phase = "opening", !.outside = o]
<1>0. b \in ConnType /\ Good(b) /\ OpensOnce(b) /\ Knows(b) /\ Bools(b)
  BY ConnFacts
<1>01. c \in [Conns -> ConnType] /\ UNCHANGED <<conns, st, posted, inFlight, closer, dtor>>
  BY DEF IInv, ConnectOpen
<1>1. b.pc = "marked" /\ o \in BOOLEAN /\ c' = [c EXCEPT ![x] = d]
  BY <1>01 DEF ConnectOpen
<1>2. o \/ x \in conns
  OBVIOUS
<1> HIDE DEF o
<1>3. d \in ConnType
  BY <1>0, <1>1, ZenonT(60) DEF ConnType
<1>4. SameCallee(b, d) /\ d.pc = "recheck" /\ d.connectCalled = b.connectCalled
      /\ d.phase = "opening" /\ d.channelOpened = b.channelOpened /\ d.outside = o
  BY <1>0, ZenonT(60) DEF ConnType, SameCallee
<1> HIDE DEF d
<1>5. b.phase = "idle" /\ b.connectCalled /\ b.channelOpened /\ b.life = "live"
  BY <1>0, <1>1, Fields DEF OpensOnce
<1>6. ~b.notified /\ ~b.outside
  BY <1>0, <1>5 DEF OpensOnce
<1>7. Good(d)
  BY <1>0, <1>3, <1>4, <1>5, <1>6 DEF Good, OpensOnce, Knows, SameCallee
<1>8. Follows(b, d) /\ (Active(d) => x \in conns)
  BY <1>2, <1>4, <1>6 DEF SameCallee, Follows, Active
<1> QED BY <1>01, <1>1, <1>7, <1>8, ObjectStep

LEMMA RecheckStep ==
  ASSUME IInv, NEW x \in Conns, ConnectRecheck(x)
  PROVE  IInv'
<1> DEFINE b == c[x]
           a == IF st.closing THEN ChannelClose(b) ELSE b
           d == [a EXCEPT !.pc = "idle"]
<1>0. Good(b)
  BY ConnFacts
<1>1. UNCHANGED <<conns, st, posted, inFlight, closer, dtor>> /\ c' = [c EXCEPT ![x] = d]
  BY DEF ConnectRecheck
<1>2. Good(a) /\ Same(b, a)
  BY <1>0, ChannelCloseKeeps DEF Same, SameButPhase
<1> HIDE DEF a
<1>3. a \in ConnType
  BY <1>2 DEF Good
<1>4. d \in ConnType
  BY <1>3, ZenonT(60) DEF ConnType
<1>5. SameCallee(a, d) /\ d.pc = "idle" /\ d.connectCalled = a.connectCalled
      /\ d.phase = a.phase /\ d.channelOpened = a.channelOpened /\ d.outside = a.outside
  BY <1>3 DEF ConnType, SameCallee
<1> HIDE DEF d
<1>6. Good(d)
  BY <1>2, <1>4, <1>5 DEF Good, OpensOnce, Knows, SameCallee
<1>7. Follows(b, d) /\ (Active(d) => Active(b))
  BY <1>2, <1>5 DEF SameCallee, Same, SameButPhase, Follows, Active
<1> QED BY <1>1, <1>6, <1>7, QuietStep

-----------------------------------------------------------------------------
(* Callbacks of the channel that do not call the handler.                  *)

LEMMA AskStep ==
  ASSUME IInv, NEW x \in Conns, Close(x) \/ OnCloseFrame(x) \/ IdleTimeout(x)
  PROVE  IInv'
<1> DEFINE b == c[x]
           d == ChannelClose(b)
<1>0. Good(b)
  BY ConnFacts
<1>1. UNCHANGED <<conns, st, posted, inFlight, closer, dtor>> /\ c' = [c EXCEPT ![x] = d]
  BY DEF Close, OnCloseFrame, IdleTimeout
<1>2. Good(d) /\ Same(b, d)
  BY <1>0, ChannelCloseKeeps
<1> HIDE DEF d
<1>3. Follows(b, d) /\ (Active(d) => Active(b))
  BY <1>2 DEF Same, SameButPhase, Follows, Active
<1> QED BY <1>1, <1>2, <1>3, QuietStep

(* A record that only differs in what the invariant does not look at, or   *)
(* the same asked to close.                                                *)
LEMMA FailStep ==
  ASSUME IInv, NEW x \in Conns, NEW d, Good(d), Follows(c[x], d), Active(d) => Active(c[x]),
         c' = [c EXCEPT ![x] = d] \/ c' = [c EXCEPT ![x] = Fail(d)],
         UNCHANGED <<conns, st, posted, inFlight, closer, dtor>>
  PROVE  IInv'
<1> DEFINE e == Fail(d)
<1>1. Good(e) /\ Same(d, e)
  BY ChannelCloseKeeps DEF Fail
<1>2. c' = [c EXCEPT ![x] = d] \/ c' = [c EXCEPT ![x] = e]
  OBVIOUS
<1> HIDE DEF e
<1>3. Follows(c[x], e) /\ (Active(e) => Active(c[x]))
  BY <1>1 DEF Same, SameButPhase, Follows, Active
<1>4. CASE c' = [c EXCEPT ![x] = d]
  BY <1>4, QuietStep
<1>5. CASE c' = [c EXCEPT ![x] = e]
  BY <1>1, <1>3, <1>5, QuietStep
<1> QED BY <1>2, <1>4, <1>5

LEMMA ReadyStep ==
  ASSUME IInv, NEW x \in Conns, OnChannelReady(x)
  PROVE  IInv'
<1> DEFINE b == c[x]
           d == [b EXCEPT !.phase = "up"]
           e == [b EXCEPT !.phase = "up", !.hsTimer = TRUE]
<1>0. b \in ConnType /\ Good(b) /\ c \in [Conns -> ConnType]
  BY ConnFacts DEF IInv
<1>1. UNCHANGED <<conns, st, posted, inFlight, closer, dtor>> /\ b.phase = "opening"
  BY DEF OnChannelReady
<1>2. c' = [c EXCEPT ![x] = e] \/ c' = [c EXCEPT ![x] = Fail(d)]
  BY <1>0 DEF OnChannelReady
<1>3. d \in ConnType /\ e \in ConnType
  BY <1>0, ZenonT(60) DEF ConnType
<1>4. SameButPhase(b, d) /\ d.phase = "up" /\ SameButPhase(b, e) /\ e.phase = "up"
  BY <1>0 DEF ConnType, SameButPhase
<1> HIDE DEF d, e
<1>5. Good(d) /\ Follows(b, d) /\ (Active(d) => Active(b))
  BY <1>0, <1>1, <1>3, <1>4 DEF Good, OpensOnce, Knows, SameButPhase, Follows, Active
<1>6. Good(e) /\ Follows(b, e) /\ (Active(e) => Active(b))
  BY <1>0, <1>1, <1>3, <1>4 DEF Good, OpensOnce, Knows, SameButPhase, Follows, Active
<1>7. CASE c' = [c EXCEPT ![x] = e]
  BY <1>1, <1>6, <1>7, QuietStep
<1>8. CASE c' = [c EXCEPT ![x] = Fail(d)]
  BY <1>1, <1>5, <1>8, FailStep
<1> QED BY <1>2, <1>7, <1>8

LEMMA HsTimeoutStep ==
  ASSUME IInv, NEW x \in Conns, HandshakeTimeout(x)
  PROVE  IInv'
<1> DEFINE b == c[x]
           d == [b EXCEPT !.hsTimer = FALSE]
<1>0. b \in ConnType /\ Good(b)
  BY ConnFacts
<1>1. UNCHANGED <<conns, st, posted, inFlight, closer, dtor>> /\ c' = [c EXCEPT ![x] = Fail(d)]
  BY DEF HandshakeTimeout
<1>2. d \in ConnType
  BY <1>0, ZenonT(60) DEF ConnType
<1>3. Same(b, d)
  BY <1>0 DEF ConnType, Same, SameButPhase
<1> HIDE DEF d
<1>4. Good(d) /\ Follows(b, d) /\ (Active(d) => Active(b))
  BY <1>0, <1>2, <1>3, SameGood
<1> QED BY <1>1, <1>4, FailStep

(* The queue thread goes on after a callback.                              *)
LEMMA QueueSteps ==
  ASSUME IInv, NEW x \in Conns, ArmCheckTimer(x) \/ GiveUp(x) \/ Detach(x)
  PROVE  IInv'
<1> DEFINE b == c[x]
<1>0. b \in ConnType /\ Good(b) /\ c \in [Conns -> ConnType] /\ (Active(b) => x \in conns)
  BY ConnFacts DEF IInv
<1>1. CASE ArmCheckTimer(x)
  <2>1. PICK armed \in BOOLEAN : c' = [c EXCEPT ![x].q = "idle", ![x].checkTimer = armed]
    BY <1>1 DEF ArmCheckTimer
  <2> DEFINE d == [b EXCEPT !.q = "idle", !.checkTimer = armed]
  <2>2. UNCHANGED <<conns, st, posted, inFlight, closer, dtor>> /\ b.q = "armCheck"
    BY <1>1 DEF ArmCheckTimer
  <2>3. c' = [c EXCEPT ![x] = d]
    BY <1>0, <2>1
  <2>4. d \in ConnType
    BY <1>0, ZenonT(60) DEF ConnType
  <2>5. /\ d.life = b.life /\ d.pc = b.pc /\ d.connectCalled = b.connectCalled
        /\ d.channelOpened = b.channelOpened /\ d.upgraded = b.upgraded /\ d.notified = b.notified
        /\ d.connectedOk = b.connectedOk /\ d.handler = b.handler /\ d.q = "idle"
        /\ d.view = b.view /\ d.outside = b.outside /\ d.phase = b.phase
    BY <1>0 DEF ConnType
  <2> HIDE DEF d
  <2>6. Good(d) /\ Follows(b, d) /\ (Active(d) => Active(b))
    BY <1>0, <2>2, <2>4, <2>5 DEF Good, OpensOnce, Knows, Follows, Active
  <2> QED BY <2>2, <2>3, <2>6, QuietStep
<1>2. CASE GiveUp(x)
  <2> DEFINE d == [b EXCEPT !.q = "idle"]
  <2>1. UNCHANGED <<conns, st, posted, inFlight, closer, dtor>> /\ b.q = "giveUp"
        /\ c' = [c EXCEPT ![x] = Fail(d)]
    BY <1>2 DEF GiveUp
  <2>2. d \in ConnType
    BY <1>0, ZenonT(60) DEF ConnType
  <2>3. /\ d.life = b.life /\ d.pc = b.pc /\ d.connectCalled = b.connectCalled
        /\ d.channelOpened = b.channelOpened /\ d.upgraded = b.upgraded /\ d.notified = b.notified
        /\ d.connectedOk = b.connectedOk /\ d.handler = b.handler /\ d.q = "idle"
        /\ d.view = b.view /\ d.outside = b.outside /\ d.phase = b.phase
    BY <1>0 DEF ConnType
  <2> HIDE DEF d
  <2>4. Good(d) /\ Follows(b, d) /\ (Active(d) => Active(b))
    BY <1>0, <2>1, <2>2, <2>3 DEF Good, OpensOnce, Knows, Follows, Active
  <2> QED BY <2>1, <2>4, FailStep
<1>3. CASE Detach(x)
  <2> DEFINE d == [b EXCEPT !.q = "over", !.channel = FALSE]
  <2>1. UNCHANGED <<conns, st, inFlight, closer, dtor>> /\ posted' = posted \cup {x}
        /\ c' = [c EXCEPT ![x] = d]
    BY <1>0, <1>3 DEF Detach
  <2>2. d \in ConnType
    BY <1>0, ZenonT(60) DEF ConnType
  <2>3. /\ d.life = b.life /\ d.pc = b.pc /\ d.connectCalled = b.connectCalled
        /\ d.channelOpened = b.channelOpened /\ d.upgraded = b.upgraded /\ d.notified = b.notified
        /\ d.connectedOk = b.connectedOk /\ d.handler = b.handler /\ d.q = "over"
        /\ d.view = b.view /\ d.outside = b.outside /\ d.phase = b.phase
    BY <1>0 DEF ConnType
  <2> HIDE DEF d
  <2>4. Good(d) /\ Follows(b, d) /\ ~Active(d)
    BY <1>0, <2>1, <2>2, <2>3 DEF Good, OpensOnce, Knows, Follows, Active
  <2> QED BY <2>1, <2>3, <2>4, ObjectStep
<1> QED BY <1>1, <1>2, <1>3
-----------------------------------------------------------------------------
(* Callbacks of the channel that call the handler.                         *)

LEMMA ResponseStep ==
  ASSUME IInv, NEW x \in Conns, OnHandshakeResponse(x)
  PROVE  IInv'
<1> DEFINE b == c[x]
           r == [b EXCEPT !.hsTimer = FALSE, !.upgraded = TRUE, !.notified = TRUE, !.connectedOk = TRUE]
           d == [b EXCEPT !.hsBad = TRUE]
<1>0. b \in ConnType /\ Good(b) /\ OpensOnce(b) /\ Knows(b) /\ Bools(b)
  BY ConnFacts
<1>1. UNCHANGED <<conns, st, posted, closer, dtor>> /\ b.q = "idle" /\ b.phase = "up" /\ ~b.upgraded
  BY DEF OnHandshakeResponse, QueueFree
<1>2. \/ Dispatch(x, r, "connected", "armCheck")
      \/ c' = [c EXCEPT ![x] = Fail(d)] /\ inFlight' = inFlight
  BY DEF OnHandshakeResponse
<1>3. CASE Dispatch(x, r, "connected", "armCheck")
  <2>1. r \in ConnType
    BY <1>0, ZenonT(60) DEF ConnType
  <2>2. /\ r.life = b.life /\ r.pc = b.pc /\ r.connectCalled = b.connectCalled
        /\ r.channelOpened = b.channelOpened /\ r.upgraded = TRUE /\ r.notified = TRUE
        /\ r.connectedOk = TRUE /\ r.handler = b.handler
        /\ r.view = b.view /\ r.outside = b.outside /\ r.phase = b.phase
    BY <1>0, ZenonT(60) DEF ConnType
  <2> HIDE DEF r
  <2>3. b.view = "nothing"
    BY <1>0, <1>1 DEF Knows
  <2>4. Tell(r.view, "connected") = "connected"
    BY <2>2, <2>3 DEF Tell
  <2>5. OpensOnce(r)
    BY <1>0, <1>1, <2>2 DEF OpensOnce
  <2> QED BY <1>1, <1>3, <2>1, <2>2, <2>4, <2>5, DispatchStep
<1>4. CASE c' = [c EXCEPT ![x] = Fail(d)] /\ inFlight' = inFlight
  <2>1. d \in ConnType
    BY <1>0, ZenonT(60) DEF ConnType
  <2>2. Same(b, d)
    BY <1>0 DEF ConnType, Same, SameButPhase
  <2> HIDE DEF d
  <2>3. Good(d) /\ Follows(b, d) /\ (Active(d) => Active(b))
    BY <1>0, <2>1, <2>2, SameGood
  <2> QED BY <1>1, <1>4, <2>3, FailStep
<1> QED BY <1>2, <1>3, <1>4

LEMMA FrameStep ==
  ASSUME IInv, NEW x \in Conns, OnMessageFrame(x) \/ OnBadFrame(x)
  PROVE  IInv'
<1> DEFINE b == c[x]
<1>0. b \in ConnType /\ Good(b) /\ OpensOnce(b) /\ Knows(b) /\ Bools(b)
  BY ConnFacts
<1>1. UNCHANGED <<conns, st, posted, closer, dtor>> /\ b.q = "idle" /\ b.phase = "up" /\ b.upgraded
  BY DEF OnMessageFrame, OnBadFrame, QueueFree
<1>2. Dispatch(x, b, "message", "idle") \/ Dispatch(x, b, "exception", "giveUp")
  BY DEF OnMessageFrame, OnBadFrame
<1>3. b.connectedOk /\ b.notified /\ b.connectedOk = b.upgraded /\ (b.handler => b.view = "connected")
  BY <1>0, <1>1 DEF Knows, Bools
<1>4. \A e \in {"message", "exception"} : b.handler => Tell(b.view, e) = "connected"
  BY <1>3 DEF Tell
<1>5. CASE Dispatch(x, b, "message", "idle")
  BY <1>0, <1>1, <1>3, <1>4, <1>5, DispatchStep
<1>6. CASE Dispatch(x, b, "exception", "giveUp")
  BY <1>0, <1>1, <1>3, <1>4, <1>6, DispatchStep
<1> QED BY <1>2, <1>5, <1>6

LEMMA ClosedStep ==
  ASSUME IInv, NEW x \in Conns, OnChannelClosed(x)
  PROVE  IInv'
<1> DEFINE b == c[x]
           r == [b EXCEPT !.phase = "over", !.hsTimer = FALSE, !.checkTimer = FALSE]
           s == [r EXCEPT !.notified = TRUE]
<1>0. b \in ConnType /\ Good(b) /\ OpensOnce(b) /\ Knows(b) /\ Bools(b)
  BY ConnFacts
<1>1. UNCHANGED <<conns, st, posted, closer, dtor>> /\ b.q = "idle" /\ b.phase \in {"opening", "up"}
  BY DEF OnChannelClosed, QueueFree
<1>2. DeliverOnce(x, r)
  BY DEF OnChannelClosed
<1>3. r \in ConnType
  BY <1>0, ZenonT(60) DEF ConnType
<1>4. SameButPhase(b, r) /\ r.phase = "over"
  BY <1>0 DEF ConnType, SameButPhase
<1> HIDE DEF r
<1>5. OpensOnce(r)
  BY <1>0, <1>1, <1>4 DEF OpensOnce, SameButPhase
<1>6. CASE r.connectedOk
  <2>1. Dispatch(x, r, "closed", "detach")
    BY <1>2, <1>6 DEF DeliverOnce
  <2>2. r.notified /\ r.connectedOk = r.upgraded /\ (r.handler => r.view = "connected")
    BY <1>0, <1>1, <1>4, <1>6 DEF Knows, SameButPhase
  <2>3. r.handler => Tell(r.view, "closed") = "closed"
    BY <2>2 DEF Tell
  <2>4. r.handler = b.handler /\ r.outside = b.outside
    BY <1>4 DEF SameButPhase
  <2> QED BY <1>1, <1>3, <1>4, <1>5, <2>1, <2>2, <2>3, <2>4, DispatchStep
<1>7. CASE ~r.connectedOk
  <2>1. ~r.notified /\ r.view = "nothing" /\ r.connectedOk = r.upgraded
    BY <1>0, <1>1, <1>4, <1>7 DEF Knows, SameButPhase
  <2>2. Dispatch(x, s, "failed", "detach")
    BY <1>2, <1>7, <2>1 DEF DeliverOnce
  <2>3. s \in ConnType
    BY <1>3, ZenonT(60) DEF ConnType
  <2>4. /\ s.life = r.life /\ s.pc = r.pc /\ s.connectCalled = r.connectCalled
        /\ s.channelOpened = r.channelOpened /\ s.upgraded = r.upgraded /\ s.notified = TRUE
        /\ s.connectedOk = r.connectedOk /\ s.handler = r.handler
        /\ s.view = r.view /\ s.outside = r.outside /\ s.phase = r.phase
    BY <1>3 DEF ConnType
  <2> HIDE DEF s
  <2>5. OpensOnce(s)
    BY <1>4, <1>5, <2>4 DEF OpensOnce
  <2>6. Tell(s.view, "failed") = "failed"
    BY <2>1, <2>4 DEF Tell
  <2>7. s.handler = b.handler /\ s.outside = b.outside
    BY <1>4, <2>4 DEF SameButPhase
  <2> QED BY <1>1, <1>4, <2>1, <2>2, <2>3, <2>4, <2>5, <2>6, <2>7, DispatchStep
<1> QED BY <1>6, <1>7

-----------------------------------------------------------------------------
(* The connector.                                                          *)

LEMMA CreateStep ==
  ASSUME IInv, NEW x \in Conns, CreateConnection(x)
  PROVE  IInv'
<1> DEFINE b == c[x]
           d == [b EXCEPT !.life = "live", !.handler = TRUE, !.channel = TRUE]
<1>0. b \in ConnType /\ OpensOnce(b) /\ Knows(b) /\ c \in [Conns -> ConnType] /\ Known(b, x) /\ DtorGood
  BY ConnFacts DEF IInv
<1>1. /\ b.life = "none" /\ dtor.pc = "none" /\ conns' = conns \cup {x}
      /\ UNCHANGED <<st, posted, inFlight, closer, dtor>> /\ c' = [c EXCEPT ![x] = d]
  BY <1>0 DEF CreateConnection
<1>2. d \in ConnType
  BY <1>0, ZenonT(60) DEF ConnType
<1>3. /\ d.life = "live" /\ d.pc = b.pc /\ d.connectCalled = b.connectCalled
      /\ d.channelOpened = b.channelOpened /\ d.upgraded = b.upgraded /\ d.notified = b.notified
      /\ d.connectedOk = b.connectedOk /\ d.q = b.q
      /\ d.view = b.view /\ d.outside = b.outside /\ d.phase = b.phase
  BY <1>0, ZenonT(60) DEF ConnType
<1> HIDE DEF d
<1>4. Good(d)
  BY <1>0, <1>1, <1>2, <1>3 DEF Good, OpensOnce, Knows
<1>5. c' \in [Conns -> ConnType] /\ \A y \in Conns : c'[y] = IF y = x THEN d ELSE c[y]
  BY <1>0, <1>1, <1>2
<1>6. ASSUME NEW y \in Conns PROVE (Good(c[y]) /\ Known(c[y], y))'
  <2>1. CASE y = x
    <3>1. x \in conns' /\ (x \in posted' => d.q = "over")
      BY <1>0, <1>1, <1>3 DEF Known
    <3> QED BY <1>4, <1>5, <2>1, <3>1 DEF Known
  <2>2. CASE y # x
    <3>1. Good(c[y]) /\ Known(c[y], y) /\ c'[y] = c[y]
      BY <1>5, <2>2 DEF IInv
    <3> QED BY <1>1, <3>1 DEF Known
  <2> QED BY <2>1, <2>2
<1>7. DtorGood'
  BY <1>0, <1>1 DEF DtorGood
<1>8. conns' \subseteq Conns /\ posted' \subseteq Conns
  BY <1>1 DEF IInv
<1> QED BY <1>1, <1>5, <1>6, <1>7, <1>8 DEF IInv

(* Telling OnClosed, or not, with `left' the connections that are left.    *)
LEMMA NotifyFacts ==
  ASSUME st \in StType, NEW t, NEW left, NotifyIfDrained(t, left), st.handler = ~st.abandoned
  PROVE  /\ st' \in StType /\ st'.closing = st.closing /\ st'.abandoned = st.abandoned
         /\ st'.handler = st.handler /\ (st.notified => st'.notified)
         /\ st.closing /\ left = {} => st'.notified \/ st'.abandoned
         /\ st.abandoned \/ st.notified => inFlight' = inFlight
<1> DEFINE z == [st EXCEPT !.notified = TRUE]
<1>1. z \in StType /\ z.closing = st.closing /\ z.abandoned = st.abandoned
      /\ z.handler = st.handler /\ z.notified = TRUE
  BY DEF StType
<1>2. st.closing \in BOOLEAN /\ st.notified \in BOOLEAN /\ st.abandoned \in BOOLEAN /\ st.handler \in BOOLEAN
  BY DEF StType
<1>3. CASE ~st.abandoned /\ st.closing /\ ~st.notified /\ left = {} /\ st.handler
  <2>1. st' = z
    BY <1>3 DEF NotifyIfDrained
  <2> HIDE DEF z
  <2> QED BY <1>1, <1>3, <2>1
<1>4. CASE ~(~st.abandoned /\ st.closing /\ ~st.notified /\ left = {} /\ st.handler)
  <2>1. st' = st /\ inFlight' = inFlight
    BY <1>4, Zenon DEF NotifyIfDrained
  <2>2. st.closing /\ left = {} => st.notified \/ st.abandoned
    BY <1>2, <1>4
  <2> QED BY <2>1, <2>2
<1> QED BY <1>3, <1>4

LEMMA RemoveStep ==
  ASSUME IInv, NEW x \in Conns, RemoveConnAndMaybeNotify(x)
  PROVE  IInv'
<1>0. st \in StType /\ DtorGood /\ conns \subseteq Conns /\ posted \subseteq Conns
      /\ st.handler = ~st.abandoned
  BY DEF IInv, DtorGood
<1>1. /\ x \in posted /\ posted' = posted \ {x} /\ conns' = conns \ {x}
      /\ NotifyIfDrained("runtime", conns \ {x}) /\ UNCHANGED <<c, closer, dtor>>
  BY DEF RemoveConnAndMaybeNotify
<1>2. /\ st' \in StType /\ st'.closing = st.closing /\ st'.abandoned = st.abandoned
      /\ st'.handler = st.handler /\ (st.notified => st'.notified)
      /\ st.closing /\ conns' = {} => st'.notified \/ st'.abandoned
      /\ st.abandoned \/ st.notified => inFlight' = inFlight
  BY <1>0, <1>1, NotifyFacts
<1>3. ASSUME NEW y \in Conns PROVE (Good(c[y]) /\ Known(c[y], y))'
  <2>1. Good(c[y]) /\ Known(c[y], y)
    BY DEF IInv
  <2>2. x = y => ~Active(c[y])
    BY <1>1, <2>1 DEF Known, Active
  <2> QED BY <1>1, <2>1, <2>2 DEF Known
<1>4. DtorGood'
  BY <1>0, <1>1, <1>2 DEF DtorGood
<1> QED BY <1>0, <1>1, <1>2, <1>3, <1>4 DEF IInv

(* The critical section of Close drops nobody whose channel may call.      *)
LEMMA LockedFacts ==
  ASSUME IInv, CloseLocked, posted' = posted
  PROVE  /\ st' \in StType /\ st'.closing = TRUE /\ st'.abandoned = st.abandoned
         /\ st'.handler = st.handler /\ st'.notified = st.notified
         /\ c' \in [Conns -> ConnType] /\ conns' \subseteq Conns
         /\ \A y \in Conns : (Good(c[y]) /\ Known(c[y], y))'
<1> DEFINE z == [st EXCEPT !.closing = TRUE]
<1>0. st \in StType /\ conns \subseteq Conns
  BY DEF IInv
<1>1. st' = z /\ conns' = {x \in conns : c[x].channelOpened}
      /\ c' = [x \in Conns |-> IF x \in conns /\ c[x].channelOpened
                               THEN ChannelClose(c[x]) ELSE c[x]]
  BY DEF CloseLocked
<1>2. z \in StType /\ z.closing = TRUE /\ z.abandoned = st.abandoned
      /\ z.handler = st.handler /\ z.notified = st.notified
  BY <1>0 DEF StType
<1> HIDE DEF z
<1>3. ASSUME NEW y \in Conns PROVE (Good(c[y]) /\ Known(c[y], y))' /\ c'[y] \in ConnType
  <2>1. Good(c[y]) /\ Known(c[y], y) /\ OpensOnce(c[y])
    BY ConnFacts DEF IInv
  <2>2. Good(c'[y]) /\ Same(c[y], c'[y])
    <3>1. c'[y] \in {c[y], ChannelClose(c[y])} /\ Same(c[y], c[y])
      BY <1>1 DEF Same, SameButPhase
    <3> QED BY <2>1, <3>1, ChannelCloseKeeps
  <2>3. Active(c'[y]) => y \in conns' /\ Active(c[y])
    BY <1>1, <2>1, <2>2 DEF Active, Same, SameButPhase, Known, OpensOnce
  <2>4. y \in posted => c'[y].q = "over"
    BY <2>1, <2>2 DEF Known, Same, SameButPhase
  <2> QED BY <2>2, <2>3, <2>4 DEF Known, Good
<1>4. c' \in [Conns -> ConnType]
  <2>1. c' = [y \in Conns |-> c'[y]]
    BY <1>1
  <2> QED BY <1>3, <2>1
<1> QED BY <1>0, <1>1, <1>2, <1>3, <1>4

LEMMA CloseSteps ==
  ASSUME IInv, UserClose \/ \E on \in Threads \cup {NULL} : DtorBegin(on)
  PROVE  IInv'
<1>0. DtorGood /\ posted \subseteq Conns
  BY DEF IInv
<1>1. CASE UserClose
  <2>1. /\ dtor.pc = "none" /\ closer' = [pc |-> "notify", calls |-> closer.calls + 1]
        /\ CloseLocked /\ UNCHANGED <<posted, inFlight, dtor>>
    BY <1>1 DEF UserClose
  <2>2. closer' \in [pc : {"idle", "notify"}, calls : Nat]
    BY <2>1 DEF IInv
  <2>3. DtorGood'
    BY <1>0, <2>1, LockedFacts DEF DtorGood
  <2> QED BY <1>0, <2>1, <2>2, <2>3, LockedFacts DEF IInv
<1>2. ASSUME NEW on \in Threads \cup {NULL}, DtorBegin(on) PROVE IInv'
  <2>1. /\ closer.pc = "idle" /\ dtor' = [pc |-> "notify", on |-> on]
        /\ CloseLocked /\ UNCHANGED <<posted, inFlight, closer>>
    BY <1>2 DEF DtorBegin
  <2>2. dtor' \in [pc : {"none", "notify", "wait", "abandoned", "done"}, on : Threads \cup {NULL}]
        /\ dtor'.pc = "notify"
    BY <2>1
  <2>3. DtorGood'
    BY <1>0, <2>1, <2>2, LockedFacts DEF DtorGood
  <2> QED BY <1>0, <2>1, <2>2, <2>3, LockedFacts DEF IInv
<1> QED BY <1>1, <1>2
LEMMA NotifySteps ==
  ASSUME IInv, UserNotify \/ DtorNotify
  PROVE  IInv'
<1>0. st \in StType /\ DtorGood /\ conns \subseteq Conns /\ posted \subseteq Conns
      /\ st.handler = ~st.abandoned
      /\ closer \in [pc : {"idle", "notify"}, calls : Nat]
      /\ dtor \in [pc : {"none", "notify", "wait", "abandoned", "done"}, on : Threads \cup {NULL}]
  BY DEF IInv, DtorGood
<1>1. UNCHANGED <<c, conns, posted>>
  BY DEF UserNotify, DtorNotify
<1>2. \A y \in Conns : (Good(c[y]) /\ Known(c[y], y))'
  BY <1>1 DEF IInv, Known
<1>3. \E t : NotifyIfDrained(t, conns)
  BY DEF UserNotify, DtorNotify
<1>4. /\ st' \in StType /\ st'.closing = st.closing /\ st'.abandoned = st.abandoned
      /\ st'.handler = st.handler /\ (st.notified => st'.notified)
      /\ st.closing /\ conns = {} => st'.notified \/ st'.abandoned
      /\ st.abandoned \/ st.notified => inFlight' = inFlight
  BY <1>0, <1>3, NotifyFacts
<1>5. CASE UserNotify
  <2>1. closer.pc = "notify" /\ closer' = [closer EXCEPT !.pc = "idle"] /\ dtor' = dtor
    BY <1>5 DEF UserNotify
  <2>2. closer' \in [pc : {"idle", "notify"}, calls : Nat]
    BY <1>0, <2>1
  <2>3. dtor.pc = "none"
    BY <1>0, <2>1 DEF DtorGood
  <2>4. DtorGood'
    BY <1>0, <1>4, <2>1, <2>3 DEF DtorGood
  <2> QED BY <1>0, <1>1, <1>2, <1>4, <2>1, <2>2, <2>4 DEF IInv
<1>6. CASE DtorNotify
  <2>1. dtor.pc = "notify" /\ dtor' = [dtor EXCEPT !.pc = "wait"] /\ closer' = closer
    BY <1>6 DEF DtorNotify
  <2>2. dtor' \in [pc : {"none", "notify", "wait", "abandoned", "done"}, on : Threads \cup {NULL}]
        /\ dtor'.pc = "wait"
    BY <1>0, <2>1
  <2>3. DtorGood'
    BY <1>0, <1>1, <1>4, <2>1, <2>2 DEF DtorGood
  <2> QED BY <1>0, <1>1, <1>2, <1>4, <2>1, <2>2, <2>3 DEF IInv
<1> QED BY <1>5, <1>6

LEMMA AbandonStep ==
  ASSUME IInv, DtorAbandon
  PROVE  IInv'
<1> DEFINE z == [st EXCEPT !.abandoned = TRUE, !.handler = FALSE]
<1>0. st \in StType /\ DtorGood /\ conns \subseteq Conns /\ posted \subseteq Conns
      /\ dtor \in [pc : {"none", "notify", "wait", "abandoned", "done"}, on : Threads \cup {NULL}]
      /\ c \in [Conns -> ConnType]
  BY DEF IInv
<1>1. /\ dtor.pc = "wait" /\ dtor' = [dtor EXCEPT !.pc = "abandoned"] /\ st' = z
      /\ c' = [x \in Conns |-> [c[x] EXCEPT !.handler = @ /\ x \notin conns]]
      /\ UNCHANGED <<conns, posted, inFlight, closer>>
  BY DEF DtorAbandon
<1>2. z \in StType /\ z.closing = st.closing /\ z.abandoned = TRUE /\ z.handler = FALSE
      /\ z.notified = st.notified
  BY <1>0 DEF StType
<1>3. dtor' \in [pc : {"none", "notify", "wait", "abandoned", "done"}, on : Threads \cup {NULL}]
      /\ dtor'.pc = "abandoned"
  BY <1>0, <1>1
<1>4. ASSUME NEW y \in Conns
      PROVE  (Good(c[y]) /\ Known(c[y], y))' /\ c'[y] \in ConnType /\ (y \in conns => ~c'[y].handler)
  <2> DEFINE b == c[y]
             h == b.handler /\ y \notin conns
             d == [b EXCEPT !.handler = h]
  <2>1. b \in ConnType /\ OpensOnce(b) /\ Knows(b) /\ Bools(b) /\ Known(b, y)
    BY ConnFacts DEF IInv
  <2>2. c'[y] = d
    BY <1>1
  <2>3. h \in BOOLEAN /\ (h => b.handler) /\ (y \in conns => ~h)
    BY <2>1 DEF Bools
  <2> HIDE DEF h
  <2>4. d \in ConnType
    BY <2>1, <2>3, ZenonT(60) DEF ConnType
  <2>5. /\ d.life = b.life /\ d.pc = b.pc /\ d.connectCalled = b.connectCalled
        /\ d.channelOpened = b.channelOpened /\ d.upgraded = b.upgraded /\ d.notified = b.notified
        /\ d.connectedOk = b.connectedOk /\ d.q = b.q /\ d.handler = h
        /\ d.view = b.view /\ d.outside = b.outside /\ d.phase = b.phase
    BY <2>1 DEF ConnType
  <2> HIDE DEF d
  <2>6. Good(d)
    BY <2>1, <2>3, <2>4, <2>5 DEF Good, OpensOnce, Knows
  <2>7. (Active(d) => y \in conns) /\ (y \in posted => d.q = "over")
    BY <2>1, <2>5 DEF Known, Active
  <2> QED BY <1>1, <2>2, <2>3, <2>4, <2>5, <2>6, <2>7 DEF Known
<1>5. c' \in [Conns -> ConnType]
  <2>1. c' = [y \in Conns |-> c'[y]]
    BY <1>1
  <2> QED BY <1>4, <2>1
<1> HIDE DEF z
<1>6. DtorGood'
  BY <1>0, <1>1, <1>2, <1>3, <1>4 DEF DtorGood
<1> QED BY <1>0, <1>1, <1>2, <1>3, <1>4, <1>5, <1>6 DEF IInv

LEMMA WaitSteps ==
  ASSUME IInv, DtorDrained \/ DtorAbandoned \/ \E t \in Threads : CallbackReturns(t)
  PROVE  IInv'
<1>0. DtorGood /\ dtor \in [pc : {"none", "notify", "wait", "abandoned", "done"}, on : Threads \cup {NULL}]
  BY DEF IInv
<1>1. UNCHANGED <<c, conns, st, posted, closer>>
  BY DEF DtorDrained, DtorAbandoned, CallbackReturns
<1>2. \A y \in Conns : (Good(c[y]) /\ Known(c[y], y))'
  BY <1>1 DEF IInv, Known
<1>3. CASE DtorDrained \/ DtorAbandoned
  <2>1. /\ dtor' = [dtor EXCEPT !.pc = "done"] /\ inFlight' = inFlight /\ inFlight \subseteq {dtor.on}
        /\ (dtor.pc = "wait" /\ conns = {}) \/ dtor.pc = "abandoned"
    BY <1>3 DEF DtorDrained, DtorAbandoned, NobodyElseInCallback
  <2>2. dtor' \in [pc : {"none", "notify", "wait", "abandoned", "done"}, on : Threads \cup {NULL}]
        /\ dtor'.pc = "done" /\ dtor'.on = dtor.on
    BY <1>0, <2>1
  <2>3. DtorGood'
    BY <1>0, <1>1, <2>1, <2>2 DEF DtorGood
  <2> QED BY <1>1, <1>2, <2>2, <2>3 DEF IInv
<1>4. ASSUME NEW t \in Threads, CallbackReturns(t) PROVE IInv'
  <2>1. inFlight' = inFlight \ {t} /\ dtor' = dtor
    BY <1>4 DEF CallbackReturns
  <2>2. DtorGood'
    BY <1>0, <1>1, <2>1 DEF DtorGood
  <2> QED BY <1>1, <1>2, <2>1, <2>2 DEF IInv
<1> QED BY <1>3, <1>4

-----------------------------------------------------------------------------
(* Every reachable state of WSConnector keeps what IInv states: a channel  *)
(* is opened once, the flags of a connection agree with what its handler   *)
(* was told, and until OnChannelClosed posted its removal the connector    *)
(* knows every connection it opened.                                       *)
THEOREM Invariance == Spec => []IInv
<1>1. Init => IInv
  <2> SUFFICES ASSUME Init PROVE IInv
    OBVIOUS
  <2>1. NewConnection \in ConnType
    BY DEF NewConnection, ConnType
  <2>2. OpensOnce(NewConnection) /\ Knows(NewConnection) /\ ~Active(NewConnection)
    BY DEF NewConnection, OpensOnce, Knows, Active
  <2>3. \A x \in Conns : Good(c[x]) /\ Known(c[x], x)
    BY <2>1, <2>2 DEF Init, Good, Known
  <2>4. st \in StType /\ st.handler = TRUE /\ st.abandoned = FALSE
    BY DEF Init, NewState, StType
  <2>5. dtor.pc = "none"
    BY DEF Init
  <2>6. DtorGood
    BY <2>4, <2>5 DEF DtorGood
  <2> QED BY <2>1, <2>3, <2>4, <2>6 DEF Init, IInv
<1>2. IInv /\ [Next]_vars => IInv'
  <2> SUFFICES ASSUME IInv, [Next]_vars PROVE IInv'
    OBVIOUS
  <2>1. CASE UNCHANGED vars
    BY <2>1 DEF vars, IInv, DtorGood, Known
  <2>2. ASSUME NEW x \in Conns,
               \/ CreateConnection(x) \/ ConnectBegin(x) \/ ConnectStep(x) \/ Close(x)
               \/ OnChannelReady(x) \/ HandshakeTimeout(x) \/ OnHandshakeResponse(x)
               \/ OnMessageFrame(x) \/ OnCloseFrame(x) \/ OnBadFrame(x) \/ IdleTimeout(x)
               \/ OnChannelClosed(x) \/ QueueStep(x) \/ RemoveConnAndMaybeNotify(x)
        PROVE  IInv'
    <3>1. CASE CreateConnection(x)
      BY <3>1, CreateStep
    <3>2. CASE ConnectBegin(x) \/ ConnectStep(x)
      BY <3>2, ConnectSteps, OpenStep, RecheckStep DEF ConnectStep
    <3>3. CASE Close(x) \/ OnCloseFrame(x) \/ IdleTimeout(x)
      BY <3>3, AskStep
    <3>4. CASE OnChannelReady(x)
      BY <3>4, ReadyStep
    <3>5. CASE HandshakeTimeout(x)
      BY <3>5, HsTimeoutStep
    <3>6. CASE OnHandshakeResponse(x)
      BY <3>6, ResponseStep
    <3>7. CASE OnMessageFrame(x) \/ OnBadFrame(x)
      BY <3>7, FrameStep
    <3>8. CASE OnChannelClosed(x)
      BY <3>8, ClosedStep
    <3>9. CASE QueueStep(x)
      BY <3>9, QueueSteps DEF QueueStep
    <3>10. CASE RemoveConnAndMaybeNotify(x)
      BY <3>10, RemoveStep
    <3> QED
      BY <2>2, <3>1, <3>2, <3>3, <3>4, <3>5, <3>6, <3>7, <3>8, <3>9, <3>10
  <2>3. CASE UserClose \/ \E on \in Threads \cup {NULL} : DtorBegin(on)
    BY <2>3, CloseSteps
  <2>4. CASE UserNotify \/ DtorNotify
    BY <2>4, NotifySteps
  <2>5. CASE DtorAbandon
    BY <2>5, AbandonStep
  <2>6. CASE DtorDrained \/ DtorAbandoned \/ \E t \in Threads : CallbackReturns(t)
    BY <2>6, WaitSteps
  <2> QED
    BY <2>1, <2>2, <2>3, <2>4, <2>5, <2>6 DEF Next, DtorStep
<1> QED BY <1>1, <1>2, PTL DEF Spec

(* IWSConnectionHandler's contract, for every connection at once: one      *)
(* connect result; messages, exceptions and one OnClosed only after a      *)
(* successful one; nothing after OnClosed or a failed one.                 *)
THEOREM ContractKept == Spec => []HandlerContractKept
<1>1. IInv => HandlerContractKept
  BY Fields DEF IInv, HandlerContractKept
<1> QED BY <1>1, Invariance, PTL

(* Once ~WSConnector returned, drained or having given up, no handler of a *)
(* connection it knew runs or will be called, except the one the           *)
(* destructor was called from.                                             *)
THEOREM SilentAfterDestruction == Spec => []NoCallbackAfterDestruction
<1>1. IInv => NoCallbackAfterDestruction
  <2> SUFFICES ASSUME IInv, dtor.pc = "done"
               PROVE  /\ inFlight \subseteq {dtor.on} \cup {x \in Conns : c[x].outside}
                      /\ \A x \in Conns :
                           \/ c[x].outside \/ ~c[x].handler \/ x = dtor.on
                           \/ c[x].phase = "idle" \/ c[x].q \in {"detach", "over"}
    BY DEF NoCallbackAfterDestruction
  <2>1. \A x \in conns : ~c[x].handler
    BY DEF IInv, DtorGood
  <2>2. ASSUME NEW x \in Conns
        PROVE  c[x].outside \/ ~c[x].handler \/ c[x].phase = "idle" \/ c[x].q = "over"
    BY <2>1, ConnFacts DEF Active
  <2> QED BY <2>2 DEF IInv, DtorGood
<1> QED BY <1>1, Invariance, PTL
=============================================================================
