----------------------------- MODULE SMPStream -----------------------------
(***************************************************************************)
(* One QUIC stream that carries SMP packets: SMPParser, and the streams of *)
(* SMPConnector.cpp (SMPStream) and SMPServer.cpp (SMPServerStream) as     *)
(* sender and receiver, up to the stream events of src/src/js/index.js.    *)
(*                                                                         *)
(* QUIC is what the code sees of it: xqc_stream_send takes as many bytes   *)
(* as flow control has room for, and the bytes arrive in order, in pieces  *)
(* of any size.  A byte is <<packet, position>>.                           *)
(***************************************************************************)
EXTENDS Integers, SequencesExt

CONSTANTS
  HeaderSize,   \* DEFAULT_HEADER_SIZE, 17
  Sizes,        \* payload sizes
  MaxPackets,   \* bound on the packets sent
  Window        \* room of the stream's flow control

ASSUME SMPStreamAssumption ==
  /\ HeaderSize \in Nat \ {0} /\ Sizes \subseteq Nat
  /\ MaxPackets \in Nat /\ Window \in Nat \ {0}

VARIABLES
  side,      \* who sends: the client's SMPStream or the server's
  packets,   \* payload sizes of the packets given to SendPacket
  pending,   \* bytes left in send_buff_list_
  credit,    \* bytes QUIC will take now
  net,       \* bytes on their way
  lost,      \* packets the server's Send dropped bytes of
  stream,    \* the sender's stream object
  parser,    \* the receiver's SMPParser
  got,       \* the packets OnPacketParsed was called with
  js         \* the stream in JavaScript: listed in `streams', and its events

smpVars == <<side, packets, pending, credit, net, lost, stream, parser, got, js>>

Parser0 == [stage |-> "header", need |-> HeaderSize, buf |-> <<>>, cur |-> 0,
            running |-> FALSE, id |-> 0]

(* After OnStreamCreate and the event it raises. *)
StreamInit ==
  /\ side \in {"client", "server"}
  /\ packets = <<>> /\ pending = <<>> /\ net = <<>> /\ got = <<>>
  /\ credit = Window
  /\ lost = {}
  /\ stream = "open"
  /\ parser = Parser0
  /\ js = [listed |-> TRUE, events |-> <<>>]

-----------------------------------------------------------------------------
(* Sending.                                                                *)

(* SMPParser::PackPacket and PackData *)
Packed(i, size) == [k \in 1 .. HeaderSize + size |-> <<i, k>>]

Least(a, b) == IF a < b THEN a ELSE b

(* The packets of given sizes whose last byte is among these. *)
Through(bytes, sizes) ==
  Len(SelectSeq(bytes, LAMBDA b : b[2] = HeaderSize + sizes[b[1]]))

(* ttsignal.Connection's _internalCallback: only a listed stream hears. *)
Emit(x, events) == IF x.listed THEN [x EXCEPT !.events = @ \o events] ELSE x

EmitClosed(x) ==
  [Emit(x, <<"closed">>) EXCEPT !.listed = FALSE]

(* _SendBuffList: blocks are offered in order until one is not taken       *)
(* whole, and a packet that is through is reported.                        *)
SendBuffList(bytes, room, sizes) ==
  LET n == IF stream = "open" THEN Least(Len(bytes), room) ELSE 0
      taken == SubSeq(bytes, 1, n)
  IN /\ net' = net \o taken
     /\ credit' = room - n
     /\ pending' = SubSeq(bytes, n + 1, Len(bytes))
     /\ js' = Emit(js, [k \in 1 .. Through(taken, sizes) |-> "dataSent"])

(* SMPServerStream::Send ignores what was not taken. *)
ServerSend(bytes) ==
  LET n == Least(Len(bytes), credit)
  IN /\ net' = net \o SubSeq(bytes, 1, n)
     /\ credit' = credit - n
     /\ lost' = IF n < Len(bytes) THEN lost \cup {bytes[1][1]} ELSE lost
     /\ UNCHANGED <<pending, js>>

(* Mutant: a packet is offered before the bytes that wait. *)
SendPacketAhead(size) ==
  /\ Len(packets) < MaxPackets /\ stream # "gone"
  /\ packets' = Append(packets, size)
  /\ LET bytes == Packed(Len(packets) + 1, size)
     IN IF side = "client" THEN SendBuffList(bytes \o pending, credit, packets') /\ UNCHANGED lost
                           ELSE ServerSend(bytes)
  /\ UNCHANGED <<side, stream, parser, got>>

(* SendPacket of a connection that knows the stream. *)
SendPacket(size) ==
  /\ Len(packets) < MaxPackets /\ stream # "gone"
  /\ packets' = Append(packets, size)
  /\ LET bytes == Packed(Len(packets) + 1, size)
     IN IF side = "client" THEN SendBuffList(pending \o bytes, credit, packets') /\ UNCHANGED lost
                           ELSE ServerSend(bytes)
  /\ UNCHANGED <<side, stream, parser, got>>

(* Mutant: what waits is not offered again. *)
OnWriteNotifyIgnored ==
  /\ credit + Len(net) + Len(parser.buf) < Window /\ stream # "gone"
  /\ credit' = Window - Len(net) - Len(parser.buf)
  /\ UNCHANGED <<side, packets, lost, stream, parser, got, net, pending, js>>

(* The peer has read: there is room again, and QUIC says so.  The server's *)
(* write notification does nothing.                                        *)
OnWriteNotify ==
  /\ credit + Len(net) + Len(parser.buf) < Window /\ stream # "gone"
  /\ LET room == Window - Len(net) - Len(parser.buf)
     IN IF side = "client" THEN SendBuffList(pending, room, packets)
        ELSE credit' = room /\ UNCHANGED <<net, pending, js>>
  /\ UNCHANGED <<side, packets, lost, stream, parser, got>>

(* CloseStream, of a client. *)
CloseStream ==
  /\ side = "client" /\ stream = "open"
  /\ stream' = "closed"
  /\ UNCHANGED <<side, packets, pending, credit, net, lost, parser, got, js>>

(* on_raw_stream_close_notify: OnClose reports the end and deletes the     *)
(* stream, then the end is reported again.  What had not arrived of a      *)
(* stream that was closed is discarded.                                    *)
OnCloseNotify ==
  /\ stream = "closed"
  /\ stream' = "gone"
  /\ pending' = <<>>
  /\ net' = <<>>
  /\ js' = EmitClosed(EmitClosed(js))
  /\ UNCHANGED <<side, packets, credit, lost, parser, got>>

-----------------------------------------------------------------------------
(* Receiving.                                                              *)

Ready(q) == Len(q.buf) - q.cur

RequireBytes(q, n, stage) ==
  [q EXCEPT !.stage = IF q.need = 0 THEN stage ELSE @,
            !.need = @ + n, !.running = Ready(q) >= q.need + n]

(* The rest of Parse after a round: consumed bytes are moved out. *)
Compact(q) ==
  IF q.running THEN q
  ELSE [q EXCEPT !.buf = SubSeq(q.buf, q.cur + 1, Len(q.buf)), !.cur = 0]

(* OnRead, with what xqc_stream_recv returned. *)
Parse(n) ==
  /\ ~parser.running /\ parser.stage # "garbled"
  /\ n <= Len(net)
  /\ net' = SubSeq(net, n + 1, Len(net))
  /\ parser' = [parser EXCEPT !.buf = @ \o SubSeq(net, 1, n), !.running = TRUE]
  /\ UNCHANGED <<side, packets, pending, credit, lost, stream, got, js>>

(* A header read at the wrong place is the end here. *)
ParseHeader ==
  LET i == parser.buf[parser.cur + 1][1]
      head == SubSeq(parser.buf, parser.cur + 1, parser.cur + HeaderSize)
  IN /\ parser' = IF head # SubSeq(Packed(i, 0), 1, HeaderSize)
                  THEN [parser EXCEPT !.stage = "garbled", !.running = FALSE]
                  ELSE Compact(RequireBytes(
                    [parser EXCEPT !.cur = @ + HeaderSize, !.need = @ - HeaderSize, !.id = i],
                    packets[i], "payload"))
     /\ UNCHANGED got

ParsePacket ==
  LET size == packets[parser.id]
      q == [parser EXCEPT !.cur = @ + size, !.need = @ - size]
      data == SubSeq(parser.buf, parser.cur + 1, parser.cur + size)
  IN /\ got' = Append(got, [id |-> parser.id, data |-> data])
     /\ parser' = Compact(RequireBytes(q, HeaderSize, "header"))

ParseRound ==
  /\ parser.running
  /\ IF parser.need > Ready(parser)
     THEN parser' = Compact([parser EXCEPT !.running = FALSE]) /\ UNCHANGED got
     ELSE IF parser.stage = "header" THEN ParseHeader ELSE ParsePacket
  /\ UNCHANGED <<side, packets, pending, credit, net, lost, stream, js>>

-----------------------------------------------------------------------------
StreamNext ==
  \/ \E size \in Sizes : SendPacket(size)
  \/ OnWriteNotify \/ CloseStream \/ OnCloseNotify
  \/ \E n \in 1 .. Len(net) : Parse(n)
  \/ ParseRound

StreamSpec == StreamInit /\ [][StreamNext]_smpVars

(* QUIC goes on asking for data it has room for, and hands over what came. *)
StreamFairness ==
  /\ WF_smpVars(OnWriteNotify) /\ WF_smpVars(ParseRound)
  /\ WF_smpVars(\E n \in 1 .. Len(net) : Parse(n))

-----------------------------------------------------------------------------
(* The packets before the first one that lost bytes. *)
Intact == {i \in DOMAIN packets : \A j \in lost : i < j}

(***************************************************************************)
(* The receiver gets the packets in the order they were sent, each once    *)
(* and with its own bytes, however flow control and the network cut the    *)
(* stream into pieces; only behind a packet that the server's Send could   *)
(* not place whole is anything else possible.                              *)
(***************************************************************************)
PacketsInOrder ==
  /\ \A i \in Intact : i \in DOMAIN got =>
       got[i] = [id |-> i, data |-> [k \in 1 .. packets[i] |-> <<i, HeaderSize + k>>]]
  /\ lost = {} => parser.stage # "garbled" /\ Len(got) <= Len(packets)

(***************************************************************************)
(* Every packet the client accepted for an open stream arrives, also when  *)
(* its bytes had to wait in send_buff_list_ for a write notification,      *)
(* unless the stream is closed first.                                      *)
(***************************************************************************)
EverythingArrives ==
  \A i \in 1 .. MaxPackets :
    (side = "client" /\ i \in DOMAIN packets) ~> (i \in DOMAIN got \/ stream # "open")
=============================================================================
