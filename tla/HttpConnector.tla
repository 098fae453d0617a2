---------------------------- MODULE HttpConnector ----------------------------
(***************************************************************************)
(* HttpConnector (src/src/cpp/HttpConnector.cpp): requests, the keep-alive *)
(* pool of one pool key, Close and the draining destructor.                *)
(*                                                                         *)
(* Four kinds of thread meet in HttpConnectorState: threads inside         *)
(* Request, the event queue of each TcpChannel, the Runtime queue that     *)
(* deletes what is finished, and the threads in Close and ~HttpConnector.  *)
(* A critical section of state->lock is one action; between two of them    *)
(* everyone else may run.  A callback into the application is a time       *)
(* during which its thread is in `inFlight'.                               *)
(*                                                                         *)
(* A TcpChannel is reduced to what module TcpChannel shows of it: Open and *)
(* Close are atomic here (a close that overtakes Open is left to that      *)
(* module), a channel that is `down' runs its posted tasks and is then     *)
(* `over', after which it calls nobody.                                    *)
(***************************************************************************)
EXTENDS Integers, Sequences, FiniteSets

CONSTANTS
  Requests,   \* one Request call each; also names its HttpConnection
  Chans,      \* TcpChannel objects
  Untimed,    \* those whose Open could not arm its connect timer
  Pooleds,    \* PooledChannel objects
  NULL,
  MaxIdle,    \* max_idle_per_key
  Destroys    \* whether the connector may be destroyed

ASSUME ConnectorAssumption ==
  /\ NULL \notin Requests \cup Chans \cup Pooleds
  /\ Requests \cap Pooleds = {} /\ "close" \notin Requests
  /\ MaxIdle \in Nat /\ Destroys \in BOOLEAN
  /\ Untimed \subseteq Chans

VARIABLES
  req,       \* the thread inside Request
  conn,      \* HttpConnection of each request
  pool,      \* PooledChannel objects
  chan,      \* TcpChannel objects and what their queue thread is doing
  st,        \* HttpConnectorState
  posted,    \* Runtime::PostTask queue
  inFlight,  \* threads inside an application callback
  closer,    \* the application thread that calls Close
  dtor       \* ~HttpConnector

vars == <<req, conn, pool, chan, st, posted, inFlight, closer, dtor>>

Threads == Chans \cup Requests \cup {"runtime", "user", "dtor"}

Idle == [at |-> "idle", r |-> NULL]

NoConn == [where |-> "none", chan |-> NULL, done |-> FALSE, failed |-> FALSE,
           delivered |-> FALSE, handler |-> TRUE]

Init ==
  /\ req = [r \in Requests |-> [pc |-> "idle", borrowed |-> NULL,
                                result |-> "none", told |-> 0]]
  /\ conn = [r \in Requests |-> NoConn]
  /\ pool = [p \in Pooleds |-> [chan |-> NULL, held |-> FALSE,
                                pending |-> "none", life |-> "none"]]
  /\ chan = [c \in Chans |-> [phase |-> "none", handler |-> NULL, tasks |-> <<>>,
                              spoiled |-> FALSE, step |-> Idle]]
  /\ st = [idle |-> <<>>, idleDestroying |-> 0, closing |-> FALSE,
           notified |-> FALSE, abandoned |-> FALSE, handler |-> TRUE]
  /\ posted = <<>>
  /\ inFlight = {}
  /\ closer = "idle"
  /\ dtor = [pc |-> "none", on |-> NULL]

-----------------------------------------------------------------------------
(* The channel as its users see it.                                        *)

(* The object the next `new' returns: which one is immaterial. *)
Some(S) == IF S = {} THEN {} ELSE {CHOOSE x \in S : TRUE}
FreshChan == Some({c \in Chans : chan[c].phase = "none"})
FreshPooled == Some({p \in Pooleds : pool[p].life = "none"})

Elems(s) == {s[i] : i \in DOMAIN s}

(* TcpChannel::Close posts a task; a channel that was never opened, or is  *)
(* closing already, is left alone.                                         *)
CloseAll(ch, S) ==
  [c \in Chans |->
     IF /\ c \in S /\ ch[c].phase \in {"opening", "up", "parked"}
        /\ "close" \notin Elems(ch[c].tasks)
     THEN [ch[c] EXCEPT !.tasks = Append(@, "close")]
     ELSE ch[c]]

Close(ch, c) == CloseAll(ch, {c})

Usable(c) == chan[c].phase = "parked" /\ ~chan[c].spoiled

-----------------------------------------------------------------------------
(* Draining: who still counts, and the single OnClosed.                    *)

AllDrainedLocked(cn, s) ==
  /\ \A r \in Requests : cn[r].where \notin {"conns", "destroying"}
  /\ s.idle = <<>>
  /\ s.idleDestroying = 0

(* The end of a critical section that removed something, on thread t: if   *)
(* nothing is left and the connector is closing, OnClosed is called.       *)
NotifyIfDrained(t, cn, s) ==
  IF /\ ~s.abandoned /\ s.closing /\ ~s.notified
     /\ AllDrainedLocked(cn, s) /\ s.handler
  THEN /\ st' = [s EXCEPT !.notified = TRUE]
       /\ inFlight' = inFlight \cup {t}
  ELSE /\ st' = s
       /\ UNCHANGED inFlight

CallbackReturns(t) ==
  /\ t \in inFlight
  /\ dtor.on = t => dtor.pc = "done"
  /\ inFlight' = inFlight \ {t}
  /\ UNCHANGED <<req, conn, pool, chan, st, posted, closer, dtor>>

-----------------------------------------------------------------------------
(* PooledChannel.                                                          *)

Schedule(q, p, how) == Append(q, [kind |-> how, of |-> p])

(* Mutant: what came while the channel was held is forgotten. *)
ReleaseForgets(p) ==
  /\ pool' = [pool EXCEPT ![p].held = FALSE]
  /\ UNCHANGED posted

(* Release(p): the Request thread lets go; a terminal event that came      *)
(* meanwhile is acted on now.                                              *)
Release(p) ==
  /\ pool' = [pool EXCEPT ![p].held = FALSE]
  /\ posted' = IF pool[p].pending = "none" THEN posted
               ELSE Schedule(posted, p, pool[p].pending)

(* PooledChannel::OnChannelDetached and the second half of OnChannelClosed.*)
Terminal(p, how) ==
  IF pool[p].held
  THEN /\ pool' = [pool EXCEPT ![p].pending = how]
       /\ UNCHANGED posted
  ELSE /\ posted' = Schedule(posted, p, how)
       /\ UNCHANGED pool

(* Erases the first entry that is p. *)
Without(seq, p) ==
  LET k == CHOOSE i \in DOMAIN seq : seq[i] = p /\ \A j \in 1..(i - 1) : seq[j] # p
  IN  IF p \notin Elems(seq) THEN seq
      ELSE [i \in 1..(Len(seq) - 1) |-> seq[IF i < k THEN i ELSE i + 1]]

RemoveFromPoolLocked(s, p) == [s EXCEPT !.idle = Without(s.idle, p)]

-----------------------------------------------------------------------------
(* HttpConnector::Request, on the thread of r.                             *)

(* Mutant: the channel taken from the pool is not held. *)
RequestUnheld(r) ==
  /\ req[r].pc = "idle" /\ dtor.pc = "none"
  /\ IF st.idle = <<>>
     THEN /\ req' = [req EXCEPT ![r].pc = "taken"]
          /\ UNCHANGED st
     ELSE /\ st' = [st EXCEPT !.idle = SubSeq(@, 1, Len(@) - 1)]
          /\ req' = [req EXCEPT ![r].pc = "taken",
                                ![r].borrowed = st.idle[Len(st.idle)]]
  /\ UNCHANGED <<conn, pool, chan, posted, inFlight, closer, dtor>>

(* _TakeFromPool: the most recently parked channel, held. *)
Request(r) ==
  /\ req[r].pc = "idle" /\ dtor.pc = "none"
  /\ IF st.idle = <<>>
     THEN /\ req' = [req EXCEPT ![r].pc = "taken"]
          /\ UNCHANGED <<st, pool>>
     ELSE LET p == st.idle[Len(st.idle)]
          IN  /\ st' = [st EXCEPT !.idle = SubSeq(@, 1, Len(@) - 1)]
              /\ pool' = [pool EXCEPT ![p].held = TRUE]
              /\ req' = [req EXCEPT ![r].pc = "taken", ![r].borrowed = p]
  /\ UNCHANGED <<conn, chan, posted, inFlight, closer, dtor>>

(* A new HttpConnection with a TcpChannel of its own. *)
InsertFresh(r, pc) ==
  \E c \in FreshChan :
    /\ chan' = [chan EXCEPT ![c].phase = "new"]
    /\ conn' = [conn EXCEPT ![r] = [NoConn EXCEPT !.where = "conns", !.chan = c]]
    /\ req' = [req EXCEPT ![r].pc = pc]

Insert(r) ==
  /\ req[r].pc = "taken"
  /\ LET p == req[r].borrowed
     IN  \/ /\ st.closing /\ p = NULL
            /\ req' = [req EXCEPT ![r].pc = "returned", ![r].result = "refused"]
            /\ UNCHANGED <<conn, chan, pool, posted>>
         \/ /\ st.closing /\ p # NULL
            /\ chan' = Close(chan, pool[p].chan)
            /\ Release(p)
            /\ req' = [req EXCEPT ![r] = [@ EXCEPT !.pc = "returned",
                                          !.result = "refused", !.borrowed = NULL]]
            /\ UNCHANGED conn
         \/ /\ ~st.closing /\ p = NULL
            /\ InsertFresh(r, "inserted")
            /\ UNCHANGED <<pool, posted>>
         \/ /\ ~st.closing /\ p # NULL
            /\ conn' = [conn EXCEPT ![r] = [NoConn EXCEPT !.where = "conns",
                                                          !.chan = pool[p].chan]]
            /\ req' = [req EXCEPT ![r].pc = "inserted"]
            /\ UNCHANGED <<chan, pool, posted>>
  /\ UNCHANGED <<st, inFlight, closer, dtor>>

(* HttpConnection::Start.  Adopt tests the channel before it posts, so a   *)
(* channel that goes down meanwhile may be refused or accepted.            *)
Start(r) ==
  /\ req[r].pc = "inserted"
  /\ LET c == conn[r].chan
     IN  \/ /\ req[r].borrowed # NULL /\ chan[c].phase \in {"parked", "down"}
            /\ chan' = [chan EXCEPT ![c].tasks = Append(@, r)]
            /\ req' = [req EXCEPT ![r].pc = "release"]
         \/ /\ req[r].borrowed # NULL /\ ~Usable(c)
            /\ req' = [req EXCEPT ![r].pc = "disown"]
            /\ UNCHANGED chan
         \/ /\ req[r].borrowed = NULL
            /\ chan' = [chan EXCEPT ![c].phase = "opening", ![c].handler = r]
            /\ req' = [req EXCEPT ![r].pc = "check"]
         \/ /\ req[r].borrowed = NULL
            /\ req' = [req EXCEPT ![r].pc = "failed"]
            /\ UNCHANGED chan
  /\ UNCHANGED <<conn, pool, st, posted, inFlight, closer, dtor>>

ReleaseBorrowed(r) ==
  /\ req[r].pc = "release"
  /\ Release(req[r].borrowed)
  /\ req' = [req EXCEPT ![r].pc = "check", ![r].borrowed = NULL]
  /\ UNCHANGED <<conn, chan, st, inFlight, closer, dtor>>

(* A refused adoption: the connection object goes, without the channel,    *)
(* the channel is closed and released, and a new one is tried.             *)
Disown(r) ==
  /\ req[r].pc = "disown"
  /\ conn' = [conn EXCEPT ![r] = NoConn]
  /\ NotifyIfDrained(r, conn', st)
  /\ req' = [req EXCEPT ![r].pc = "reclose"]
  /\ UNCHANGED <<pool, chan, posted, closer, dtor>>

CloseBorrowed(r) ==
  /\ req[r].pc = "reclose" /\ r \notin inFlight
  /\ chan' = Close(chan, pool[req[r].borrowed].chan)
  /\ Release(req[r].borrowed)
  /\ req' = [req EXCEPT ![r].pc = "reinsert", ![r].borrowed = NULL]
  /\ UNCHANGED <<conn, st, inFlight, closer, dtor>>

Reinsert(r) ==
  /\ req[r].pc = "reinsert"
  /\ IF st.closing
     THEN /\ req' = [req EXCEPT ![r].pc = "returned", ![r].result = "refused"]
          /\ UNCHANGED <<conn, chan>>
     ELSE InsertFresh(r, "inserted")
  /\ UNCHANGED <<pool, st, posted, inFlight, closer, dtor>>

(* Open failed: the connection and its unopened channel are deleted here.  *)
Abort(r) ==
  /\ req[r].pc = "failed"
  /\ chan' = [chan EXCEPT ![conn[r].chan].phase = "freed"]
  /\ conn' = [conn EXCEPT ![r] = NoConn]
  /\ NotifyIfDrained(r, conn', st)
  /\ req' = [req EXCEPT ![r].pc = "aborted"]
  /\ UNCHANGED <<pool, posted, closer, dtor>>

Aborted(r) ==
  /\ req[r].pc = "aborted" /\ r \notin inFlight
  /\ req' = [req EXCEPT ![r].pc = "returned", ![r].result = "refused"]
  /\ UNCHANGED <<conn, pool, chan, st, posted, inFlight, closer, dtor>>

(* Mutant: a request overtaken by Close is refused as well as cancelled. *)
CheckRefuses(r) ==
  /\ req[r].pc = "check"
  /\ chan' = IF st.closing /\ conn[r].where = "conns"
             THEN Close(chan, conn[r].chan) ELSE chan
  /\ req' = [req EXCEPT ![r].pc = "returned",
                        ![r].result = IF st.closing THEN "refused" ELSE "accepted"]
  /\ UNCHANGED <<conn, pool, st, posted, inFlight, closer, dtor>>

Check(r) ==
  /\ req[r].pc = "check"
  /\ chan' = IF st.closing /\ conn[r].where = "conns"
             THEN Close(chan, conn[r].chan) ELSE chan
  /\ req' = [req EXCEPT ![r].pc = "returned", ![r].result = "accepted"]
  /\ UNCHANGED <<conn, pool, st, posted, inFlight, closer, dtor>>

-----------------------------------------------------------------------------
(* The event queue of channel c calls its handler, one callback at a time. *)

QueueIdle(c) == chan[c].step.at = "idle"

(* _DeliverOnce(r) on thread c, after which the thread is at `next'.  A    *)
(* request whose handler was cleared is not told.                          *)
DeliverOnce(c, r, next, ch) ==
  /\ chan' = [ch EXCEPT ![c].step = [at |-> next, r |-> r]]
  /\ conn' = [conn EXCEPT ![r].delivered = TRUE]
  /\ IF ~conn[r].delivered /\ conn[r].handler
     THEN /\ req' = [req EXCEPT ![r].told = @ + 1]
          /\ inFlight' = inFlight \cup {c}
     ELSE UNCHANGED <<req, inFlight>>

(* OnChannelReady: the request is sent and the response timer armed; if    *)
(* either fails the channel is closed.                                     *)
ChannelReady(c, r, ch) ==
  \/ chan' = ch /\ UNCHANGED conn
  \/ /\ chan' = Close(ch, c)
     /\ conn' = [conn EXCEPT ![r].failed = TRUE]

OnChannelReady(c) ==
  /\ QueueIdle(c) /\ chan[c].phase = "opening"
  /\ ChannelReady(c, chan[c].handler, [chan EXCEPT ![c].phase = "up"])
  /\ UNCHANGED <<req, pool, st, posted, inFlight, closer, dtor>>

(* OnChannelData with a complete response.  It is kept alive only if the   *)
(* pool is on, both sides agree and nothing failed before.                 *)
OnResponse(c) ==
  /\ QueueIdle(c) /\ chan[c].phase = "up"
  /\ LET r == chan[c].handler
     IN  /\ ~conn[r].delivered
         /\ \/ /\ MaxIdle > 0 /\ ~conn[r].failed /\ ~conn[r].done
               /\ DeliverOnce(c, r, "park", chan)
            \/ /\ conn' = [conn EXCEPT ![r].done = TRUE]
               /\ chan' = Close(chan, c)
               /\ UNCHANGED <<req, inFlight>>
  /\ UNCHANGED <<pool, st, posted, closer, dtor>>

(* A response the parser rejects, a limit exceeded, or the response timer. *)
OnRequestFailed(c) ==
  /\ QueueIdle(c) /\ chan[c].phase = "up"
  /\ conn' = [conn EXCEPT ![chan[c].handler].failed = TRUE]
  /\ chan' = Close(chan, c)
  /\ UNCHANGED <<req, pool, st, posted, inFlight, closer, dtor>>

(* Bytes on a parked channel. *)
StrayData(c) ==
  /\ QueueIdle(c) /\ chan[c].phase = "parked"
  /\ chan' = [chan EXCEPT ![c].spoiled = TRUE]
  /\ UNCHANGED <<req, conn, pool, st, posted, inFlight, closer, dtor>>

(* The connect or idle timer, the peer or the network ends the channel.    *)
ChannelFails(c) ==
  /\ QueueIdle(c) /\ chan[c].phase \in {"opening", "up", "parked"}
  /\ chan' = [chan EXCEPT ![c].phase = "down"]
  /\ UNCHANGED <<req, conn, pool, st, posted, inFlight, closer, dtor>>

(* _FinishAndReturnChannelToPool, after the response was delivered: Park,  *)
(* then the critical section that pools the channel or not.                *)
ReturnToPool(c) ==
  /\ chan[c].step.at = "park" /\ c \notin inFlight
  /\ LET r    == chan[c].step.r
         keep == ~st.closing /\ ~st.abandoned /\ Len(st.idle) < MaxIdle
     IN  \E p \in FreshPooled :
           /\ pool' = [pool EXCEPT ![p].chan = c, ![p].life = "live"]
           /\ chan' = [chan EXCEPT ![c] = [@ EXCEPT !.phase = "parked", !.handler = p,
                         !.step = [at |-> IF keep THEN "detach" ELSE "discard", r |-> r]]]
           /\ conn' = [conn EXCEPT ![r].chan = NULL]
           /\ st' = IF keep THEN [st EXCEPT !.idle = Append(@, p)] ELSE st
  /\ UNCHANGED <<req, posted, inFlight, closer, dtor>>

(* _DetachAndScheduleDestroy; a channel that was not pooled is closed, and *)
(* one whose adoption failed is failed by Adopt when the callback returns. *)
DetachAndScheduleDestroy(c) ==
  /\ chan[c].step.at \in {"detach", "discard", "giveUp"} /\ c \notin inFlight
  /\ LET r == chan[c].step.r
         ch == [chan EXCEPT ![c].step = Idle]
     IN  /\ conn' = [conn EXCEPT ![r].where = "destroying"]
         /\ posted' = Append(posted, [kind |-> "conn", of |-> r])
         /\ chan' = CASE chan[c].step.at = "discard" -> Close(ch, c)
                      [] chan[c].step.at = "giveUp"  ->
                           [ch EXCEPT ![c].phase = "down"]
                      [] OTHER -> ch
  /\ UNCHANGED <<req, pool, st, inFlight, closer, dtor>>

-----------------------------------------------------------------------------
(* Tasks of the channel: Close and Adopt.                                  *)

RunClose(c) ==
  /\ QueueIdle(c) /\ chan[c].tasks # <<>> /\ Head(chan[c].tasks) = "close"
  /\ chan' = [chan EXCEPT ![c].tasks = Tail(@), ![c].phase = "down"]
  /\ UNCHANGED <<req, conn, pool, st, posted, inFlight, closer, dtor>>

(* The hand-over: the PooledChannel is detached, then r is ready. *)
RunAdopt(c) ==
  /\ QueueIdle(c) /\ chan[c].tasks # <<>> /\ Head(chan[c].tasks) \in Requests
  /\ Usable(c)
  /\ LET r == Head(chan[c].tasks)
     IN  ChannelReady(c, r, [chan EXCEPT ![c].tasks = Tail(@), ![c].phase = "up",
                                         ![c].handler = r])
  /\ Terminal(chan[c].handler, "detached")
  /\ UNCHANGED <<req, st, inFlight, closer, dtor>>

(* OnChannelAdoptFailed, first critical section: a new channel. *)
AdoptFailed(c) ==
  /\ QueueIdle(c) /\ chan[c].tasks # <<>> /\ Head(chan[c].tasks) \in Requests
  /\ ~Usable(c)
  /\ LET r == Head(chan[c].tasks)
     IN  \E f \in FreshChan :
           /\ conn' = [conn EXCEPT ![r].chan = f]
           /\ LET ch == [chan EXCEPT ![f].phase = "new"]
              IN  chan' = [ch EXCEPT ![c].tasks = Tail(@),
                    ![c].step = [at |-> IF st.closing THEN "closing" ELSE "reopen",
                                 r |-> r]]
  /\ UNCHANGED <<req, pool, st, posted, inFlight, closer, dtor>>

(* Mutant: a request that cannot be retried is dropped silently. *)
ReopenSilently(c) ==
  LET r == chan[c].step.r
      f == conn[r].chan
  IN  /\ \/ /\ chan[c].step.at = "reopen"
            /\ LET ch == [chan EXCEPT ![f].phase = "opening", ![f].handler = r]
               IN  chan' = [ch EXCEPT ![c].step = [at |-> "recheck", r |-> r]]
         \/ /\ chan[c].step.at \in {"reopen", "closing"}
            /\ chan' = [chan EXCEPT ![c].step.at = "giveUp"]
      /\ UNCHANGED <<req, conn, pool, st, posted, inFlight, closer, dtor>>

Reopen(c) ==
  LET r == chan[c].step.r
      f == conn[r].chan
  IN  /\ \/ /\ chan[c].step.at = "reopen"
            /\ LET ch == [chan EXCEPT ![f].phase = "opening", ![f].handler = r]
               IN  chan' = [ch EXCEPT ![c].step = [at |-> "recheck", r |-> r]]
            /\ UNCHANGED <<req, conn, inFlight>>
         \/ /\ chan[c].step.at \in {"reopen", "closing"}
            /\ DeliverOnce(c, r, "giveUp", chan)
      /\ UNCHANGED <<pool, st, posted, closer, dtor>>

(* Second critical section; then Adopt fails the old channel. *)
Recheck(c) ==
  /\ chan[c].step.at = "recheck"
  /\ LET r  == chan[c].step.r
         ch == [chan EXCEPT ![c].step = Idle, ![c].phase = "down"]
     IN  chan' = IF st.closing /\ conn[r].where = "conns"
                 THEN Close(ch, conn[r].chan) ELSE ch
  /\ UNCHANGED <<req, conn, pool, st, posted, inFlight, closer, dtor>>

(* The last callback of a channel: OnChannelClosed. *)
OnConnClosed(c) ==
  /\ QueueIdle(c) /\ chan[c].phase = "down" /\ chan[c].tasks = <<>>
  /\ chan[c].handler \in Requests
  /\ DeliverOnce(c, chan[c].handler, "detach",
                 [chan EXCEPT ![c].phase = "over", ![c].handler = NULL])
  /\ UNCHANGED <<pool, st, posted, closer, dtor>>

OnPooledClosed(c) ==
  /\ QueueIdle(c) /\ chan[c].phase = "down" /\ chan[c].tasks = <<>>
  /\ chan[c].handler \in Pooleds
  /\ chan' = [chan EXCEPT ![c].phase = "over", ![c].handler = NULL]
  /\ st' = [RemoveFromPoolLocked(st, chan[c].handler)
              EXCEPT !.idleDestroying = @ + 1]
  /\ Terminal(chan[c].handler, "closed")
  /\ UNCHANGED <<req, conn, inFlight, closer, dtor>>

-----------------------------------------------------------------------------
(* The Runtime queue deletes finished objects.                             *)

DestroyConn ==
  /\ posted # <<>> /\ Head(posted).kind = "conn" /\ "runtime" \notin inFlight
  /\ LET r == Head(posted).of
     IN  /\ chan' = IF conn[r].chan = NULL THEN chan
                    ELSE [chan EXCEPT ![conn[r].chan].phase = "freed"]
         /\ conn' = [conn EXCEPT ![r] = [NoConn EXCEPT !.delivered = TRUE]]
  /\ posted' = Tail(posted)
  /\ NotifyIfDrained("runtime", conn', st)
  /\ UNCHANGED <<req, pool, closer, dtor>>

(* Mutant: the count of dying idle channels is not taken down. *)
DestroyPooledUncounted ==
  /\ posted # <<>> /\ Head(posted).kind # "conn" /\ "runtime" \notin inFlight
  /\ LET p == Head(posted).of
     IN  /\ pool' = [pool EXCEPT ![p].life = "dead"]
         /\ IF Head(posted).kind = "closed"
            THEN /\ chan' = [chan EXCEPT ![pool[p].chan].phase = "freed"]
                 /\ NotifyIfDrained("runtime", conn, st)
            ELSE UNCHANGED <<chan, st, inFlight>>
  /\ posted' = Tail(posted)
  /\ UNCHANGED <<req, conn, closer, dtor>>

DestroyPooled ==
  /\ posted # <<>> /\ Head(posted).kind # "conn" /\ "runtime" \notin inFlight
  /\ LET p == Head(posted).of
     IN  /\ pool' = [pool EXCEPT ![p].life = "dead"]
         /\ IF Head(posted).kind = "closed"
            THEN /\ chan' = [chan EXCEPT ![pool[p].chan].phase = "freed"]
                 /\ NotifyIfDrained("runtime", conn,
                      [st EXCEPT !.idleDestroying = IF @ > 0 THEN @ - 1 ELSE 0])
            ELSE UNCHANGED <<chan, st, inFlight>>
  /\ posted' = Tail(posted)
  /\ UNCHANGED <<req, conn, closer, dtor>>

-----------------------------------------------------------------------------
(* HttpConnector::Close, from the application or from the destructor.      *)

CloseLocked ==
  /\ st' = [st EXCEPT !.closing = TRUE]
  /\ chan' = CloseAll(chan,
               {conn[r].chan : r \in {x \in Requests : conn[x].where = "conns"}}
               \cup {pool[p].chan : p \in Elems(st.idle)})

UserClose ==
  /\ closer = "idle" /\ dtor.pc = "none"
  /\ closer' = "notify"
  /\ CloseLocked
  /\ UNCHANGED <<req, conn, pool, posted, inFlight, dtor>>

UserNotify ==
  /\ closer = "notify"
  /\ closer' = "done"
  /\ NotifyIfDrained("user", conn, st)
  /\ UNCHANGED <<req, conn, pool, chan, posted, dtor>>

-----------------------------------------------------------------------------
(* ~HttpConnector, on a thread of its own or inside a callback (`on').  No *)
(* thread is inside Request or Close then, except below that callback.     *)

DtorBegin(on) ==
  /\ Destroys /\ dtor.pc = "none"
  /\ \A r \in Requests : req[r].pc \in {"idle", "returned"}
  /\ closer # "notify" /\ ("user" \in inFlight => on = "user")
  /\ on = NULL \/ on \in inFlight \ Requests
  /\ dtor' = [pc |-> "notify", on |-> on]
  /\ CloseLocked
  /\ UNCHANGED <<req, conn, pool, posted, inFlight, closer>>

DtorNotify ==
  /\ dtor.pc = "notify"
  /\ dtor' = [dtor EXCEPT !.pc = "wait"]
  /\ NotifyIfDrained("dtor", conn, st)
  /\ UNCHANGED <<req, conn, pool, chan, posted, closer>>

NobodyElseInCallback == inFlight \subseteq {dtor.on}

DtorDrained ==
  /\ dtor.pc = "wait" /\ "dtor" \notin inFlight
  /\ AllDrainedLocked(conn, st) /\ NobodyElseInCallback
  /\ dtor' = [dtor EXCEPT !.pc = "done"]
  /\ UNCHANGED <<req, conn, pool, chan, st, posted, inFlight, closer>>

(* Mutant: the handlers of requests in progress are left set. *)
DtorAbandonKeepsHandlers ==
  /\ dtor.pc = "wait" /\ "dtor" \notin inFlight
  /\ ~(AllDrainedLocked(conn, st) /\ NobodyElseInCallback)
  /\ dtor' = [dtor EXCEPT !.pc = "abandoned"]
  /\ st' = [st EXCEPT !.abandoned = TRUE, !.handler = FALSE]
  /\ UNCHANGED <<req, conn, pool, chan, posted, inFlight, closer>>

(* drainTimeoutMs passed: whoever is left is cut off. *)
DtorAbandon ==
  /\ dtor.pc = "wait" /\ "dtor" \notin inFlight
  /\ ~(AllDrainedLocked(conn, st) /\ NobodyElseInCallback)
  /\ dtor' = [dtor EXCEPT !.pc = "abandoned"]
  /\ st' = [st EXCEPT !.abandoned = TRUE, !.handler = FALSE]
  /\ conn' = [r \in Requests |-> IF conn[r].where = "conns"
                                 THEN [conn[r] EXCEPT !.handler = FALSE]
                                 ELSE conn[r]]
  /\ UNCHANGED <<req, pool, chan, posted, inFlight, closer>>

DtorAbandoned ==
  /\ dtor.pc = "abandoned" /\ NobodyElseInCallback
  /\ dtor' = [dtor EXCEPT !.pc = "done"]
  /\ UNCHANGED <<req, conn, pool, chan, st, posted, inFlight, closer>>

-----------------------------------------------------------------------------
RequestStep(r) ==
  \/ Insert(r) \/ Start(r) \/ ReleaseBorrowed(r) \/ Disown(r)
  \/ CloseBorrowed(r) \/ Reinsert(r) \/ Abort(r) \/ Aborted(r) \/ Check(r)

QueueStep(c) ==
  \/ ReturnToPool(c) \/ DetachAndScheduleDestroy(c) \/ RunClose(c)
  \/ RunAdopt(c) \/ AdoptFailed(c) \/ Reopen(c) \/ Recheck(c)
  \/ OnConnClosed(c) \/ OnPooledClosed(c)

RuntimeStep == DestroyConn \/ DestroyPooled

DtorStep == DtorNotify \/ DtorDrained \/ DtorAbandoned

Next ==
  \/ \E r \in Requests : Request(r) \/ RequestStep(r)
  \/ \E c \in Chans : \/ OnChannelReady(c) \/ OnResponse(c) \/ OnRequestFailed(c)
                      \/ StrayData(c) \/ ChannelFails(c) \/ QueueStep(c)
  \/ RuntimeStep
  \/ UserClose \/ UserNotify
  \/ \E on \in Threads \cup {NULL} : DtorBegin(on)
  \/ DtorStep \/ DtorAbandon
  \/ \E t \in Threads : CallbackReturns(t)

Spec == Init /\ [][Next]_vars

(***************************************************************************)
(* Fairness: threads in the middle of something go on, callbacks return,   *)
(* and timers that are armed fire: connect (TcpChannel's OpenSettles),     *)
(* response, and the destructor's wait.  Nothing is assumed of peers or of *)
(* anyone calling.                                                         *)
(***************************************************************************)
Fairness ==
  /\ \A r \in Requests : WF_vars(RequestStep(r))
  /\ \A c \in Chans :
       /\ WF_vars(QueueStep(c))
       /\ c \notin Untimed => WF_vars(chan[c].phase = "opening" /\ ChannelFails(c))
       /\ WF_vars(OnRequestFailed(c))
  /\ WF_vars(RuntimeStep)
  /\ WF_vars(UserNotify)
  /\ WF_vars(DtorStep)
  /\ WF_vars(DtorAbandon)
  /\ \A t \in Threads : WF_vars(CallbackReturns(t))

FairSpec == Spec /\ Fairness

-----------------------------------------------------------------------------
RequestType ==
  [pc : {"idle", "taken", "inserted", "release", "disown", "reclose", "reinsert",
         "failed", "aborted", "check", "returned"},
   borrowed : Pooleds \cup {NULL}, result : {"none", "accepted", "refused"}, told : Nat]

ConnType ==
  [where : {"none", "conns", "destroying"}, chan : Chans \cup {NULL}, done : BOOLEAN,
   failed : BOOLEAN, delivered : BOOLEAN, handler : BOOLEAN]

PooledType ==
  [chan : Chans \cup {NULL}, held : BOOLEAN, pending : {"none", "closed", "detached"},
   life : {"none", "live", "dead"}]

TaskType == {"close"} \cup Requests

ChanType ==
  [phase : {"none", "new", "opening", "up", "parked", "down", "over", "freed"},
   handler : Requests \cup Pooleds \cup {NULL}, tasks : Seq(TaskType),
   spoiled : BOOLEAN,
   step : [at : {"idle", "park", "discard", "detach", "giveUp", "closing", "reopen", "recheck"},
           r : Requests \cup {NULL}]]

StateType ==
  [idle : Seq(Pooleds), idleDestroying : Nat, closing : BOOLEAN, notified : BOOLEAN,
   abandoned : BOOLEAN, handler : BOOLEAN]

DeathType == [kind : {"conn"}, of : Requests] \cup [kind : {"closed", "detached"}, of : Pooleds]

(***************************************************************************)
(* Type correctness of the connector state and of every object in it.      *)
(***************************************************************************)
TypeOK ==
  /\ req \in [Requests -> RequestType]
  /\ conn \in [Requests -> ConnType]
  /\ pool \in [Pooleds -> PooledType]
  /\ chan \in [Chans -> ChanType]
  /\ st \in StateType
  /\ posted \in Seq(DeathType)
  /\ inFlight \subseteq Threads
  /\ closer \in {"idle", "notify", "done"}
  /\ dtor \in [pc : {"none", "notify", "wait", "abandoned", "done"},
               on : Threads \cup {NULL}]

(***************************************************************************)
(* A request is told its outcome at most once, and never when Request      *)
(* itself returned an error (IHttpRequestHandler, _DeliverOnce).           *)
(***************************************************************************)
ToldOnce ==
  \A r \in Requests : /\ req[r].told <= 1
                      /\ req[r].result = "refused" => req[r].told = 0

(***************************************************************************)
(* Nobody holds a pointer to a deleted object: not the pool, not a         *)
(* connection that Close may cancel, not a Request thread with a borrowed  *)
(* channel, not a channel with a handler (held_, DisownChannel, Park).     *)
(***************************************************************************)
NoDangling ==
  /\ \A p \in Elems(st.idle) :
       pool[p].life = "live" /\ chan[pool[p].chan].handler = p
  /\ \A r \in Requests :
       /\ conn[r].where = "conns" /\ conn[r].chan # NULL
            => chan[conn[r].chan].phase # "freed"
       /\ req[r].borrowed # NULL
            => /\ pool[req[r].borrowed].life = "live"
               /\ req[r].pc # "release"
                    => chan[pool[req[r].borrowed].chan].phase # "freed"
  /\ \A c \in Chans :
       /\ chan[c].handler \in Requests => conn[chan[c].handler].chan = c
       /\ chan[c].handler \in Pooleds => pool[chan[c].handler].life = "live"

(***************************************************************************)
(* After ~HttpConnector has returned no callback runs, but the one it was  *)
(* destroyed in: the application may free its handlers.                    *)
(***************************************************************************)
NoCallbackAfterDestruction == dtor.pc = "done" => NobodyElseInCallback

(***************************************************************************)
(* A request that was accepted is told its outcome, unless the destructor  *)
(* gave up on it or its channel opens without a connect timer (timers,     *)
(* _DeliverOnce on every path).                                            *)
(***************************************************************************)
RequestSettles ==
  \A r \in Requests :
    req[r].result = "accepted" ~>
      \/ req[r].told = 1 \/ st.abandoned
      \/ \E c \in Untimed : [](chan[c].phase = "opening" /\ chan[c].handler = r)

(***************************************************************************)
(* Close leads to OnClosed, unless the destructor gave up.                 *)
(***************************************************************************)
CloseSettles == st.closing ~> (st.notified \/ st.abandoned)

(***************************************************************************)
(* After Close every channel is deleted in the end: none is forgotten in   *)
(* the hand-over between the pool, a borrower and the Runtime queue.       *)
(***************************************************************************)
NothingLeaks ==
  st.closing ~> \A c \in Chans : chan[c].phase \in {"none", "freed"}
=============================================================================
