------------------------------ MODULE WSParser ------------------------------
(***************************************************************************)
(* WSParser (src/src/cpp/WSParser.cpp) and the frame traffic of an         *)
(* upgraded WSConnection (src/src/cpp/WSConnector.cpp): BuildFrame, and    *)
(* the incremental parser fed with whatever pieces the channel delivers.   *)
(*                                                                         *)
(* A byte on the wire is <<kind, frame, position>>; header bytes are read  *)
(* back as the fields of the frame they belong to.  The widths of the code *)
(* are parameters: Small is 126, Big 2^16, the extended lengths take 2 and *)
(* 8 bytes, the mask 4.                                                    *)
(***************************************************************************)
EXTENDS Integers, SequencesExt

CONSTANTS
  Small, Big,       \* lengths from which on 2 and 8 extra bytes hold them
  E16, E64,         \* how many bytes these are
  MaskBytes,
  max_frame_bytes,  \* max_frame_bytes_
  PeerFrames,       \* the frames the peer may send
  MaxFrames,        \* bound on them in one behaviour
  SendSizes         \* payload sizes the application may send

ASSUME WSParserAssumption ==
  /\ Small \in Nat \ {0, 1} /\ Big \in Nat /\ Big > Small
  /\ {E16, E64, MaskBytes} \subseteq Nat \ {0}
  /\ max_frame_bytes \in Nat /\ MaxFrames \in Nat /\ SendSizes \subseteq Nat

Continue == 0
Text == 1
Binary == 2
CloseOp == 8
Ping == 9
Pong == 10

Control(op) == op >= 8
Reserved(op) == op > Pong \/ (op > Binary /\ op < CloseOp)

VARIABLES
  sent,       \* the frames of the peer
  wire,       \* their bytes that have not arrived
  p,          \* the parser
  told,       \* what OnRecvWSFrame and OnException were called with
  wrote,      \* the frames this side has sent
  closeSent   \* close_frame_sent_

wsVars == <<sent, wire, p, told, wrote, closeSent>>

-----------------------------------------------------------------------------
(* Frames.                                                                 *)

(* `code' is the 7-bit length, `ext' the extended one, n the bytes of      *)
(* payload that follow.                                                    *)
BuildFrame(op, n, mask) ==
  [fin |-> TRUE, rsv |-> FALSE, op |-> op, mask |-> mask, n |-> n,
   code |-> IF n < Small THEN n ELSE IF n < Big THEN Small ELSE Small + 1,
   ext  |-> IF n < Big THEN n % Big ELSE n]

DeclaredSize(f) == IF f.code < Small THEN f.code ELSE f.ext

Bytes(kind, i, n) == [k \in 1 .. n |-> <<kind, i, k>>]

ExtBytes(f) == IF f.code < Small THEN 0 ELSE IF f.code = Small THEN E16 ELSE E64

FrameBytes(i, f) ==
  Bytes("header", i, 2) \o Bytes("size", i, ExtBytes(f))
    \o Bytes("mask", i, IF f.mask THEN MaskBytes ELSE 0) \o Bytes("data", i, f.n)

-----------------------------------------------------------------------------
(* The parser: `buf' is buffer_ with its reader at `cur', `need' is        *)
(* require_data_size_, `running' that ParseWSFrame is in its loop.         *)

NoHeader == [fin |-> FALSE, op |-> Continue, mask |-> FALSE, size |-> 0, key |-> 0]

Avail(r) == Len(r.buf) - r.cur
Ahead(r, n) == SubSeq(r.buf, r.cur + 1, r.cur + n)
Took(r, n) == [r EXCEPT !.cur = @ + n, !.need = @ - n]

RequireData(r, n, stage) ==
  [r EXCEPT !.stage = IF r.need = 0 THEN stage ELSE @,
            !.need = @ + n,
            !.running = Avail(r) >= r.need + n]

Parser ==
  [stage |-> "first2", need |-> 2, buf |-> <<>>, cur |-> 0, running |-> FALSE,
   hdr |-> NoHeader, in_fragment |-> FALSE, frag_opcode |-> Continue, frag |-> <<>>]

WSInit ==
  /\ sent \in [1 .. MaxFrames -> PeerFrames]
  /\ wire = FlattenSeq([i \in 1 .. MaxFrames |-> FrameBytes(i, sent[i])])
  /\ p = Parser
  /\ told = <<>>
  /\ wrote = <<>>
  /\ closeSent = FALSE

(* _SendFrame and _SendRawFrame: masked, whole, and no control frame that  *)
(* is too long.                                                            *)
SendFrame(op, n) ==
  IF Control(op) /\ n > Small - 1 THEN <<>> ELSE <<BuildFrame(op, n, TRUE)>>

(* _SendCloseFrame, once for all reasons. *)
SendCloseFrame ==
  /\ closeSent' = TRUE
  /\ wrote' = wrote \o (IF closeSent THEN <<>> ELSE SendFrame(CloseOp, 2))

Event(what, op, data) == [what |-> what, op |-> op, data |-> data]

(* PARSE_ERROR rewinds the buffer and throws out of ParseWSFrame;          *)
(* _FeedFrames reports it, sends a close frame and asks for the end of the *)
(* channel, which may still deliver before it closes.                      *)
ParseError(r) ==
  /\ p' = [r EXCEPT !.cur = 0, !.running = FALSE]
  /\ told' = Append(told, Event("error", Continue, <<>>))
  /\ SendCloseFrame

(* A failed ASSERT or a header read at the wrong place is the end here.    *)
ParseStops(what) ==
  /\ p' = [p EXCEPT !.stage = what, !.running = FALSE]
  /\ told' = Append(told, Event(what, Continue, <<>>))
  /\ UNCHANGED <<wrote, closeSent>>

(* The end of one round of the loop. *)
Go(r) ==
  p' = IF r.running THEN r ELSE [r EXCEPT !.buf = Ahead(r, Avail(r)), !.cur = 0]

Quietly(r) == Go(r) /\ UNCHANGED <<told, wrote, closeSent>>

(* _EnterPayloadStage *)
EnterPayloadStage(r) ==
  IF \/ r.hdr.size > max_frame_bytes
     \/ ~Control(r.hdr.op) /\ Len(r.frag) + r.hdr.size > max_frame_bytes
  THEN ParseError(r)
  ELSE Quietly(IF r.hdr.mask THEN RequireData(r, MaskBytes, "mask")
                             ELSE RequireData(r, r.hdr.size, "payload"))

(* Mutant: a continuation of nothing is let through. *)
HeaderRefusedLate(f) ==
  \/ f.rsv
  \/ Reserved(f.op)
  \/ f.op \in {Text, Binary} /\ p.in_fragment
  \/ Control(f.op) /\ (~f.fin \/ f.code > Small - 1 \/ (f.op = CloseOp /\ f.code = 1))

(* What makes _ParseFirst2Bytes refuse a frame. *)
HeaderRefused(f) ==
  \/ f.rsv
  \/ Reserved(f.op)
  \/ f.op = Continue /\ ~p.in_fragment
  \/ f.op \in {Text, Binary} /\ p.in_fragment
  \/ Control(f.op) /\ (~f.fin \/ f.code > Small - 1 \/ (f.op = CloseOp /\ f.code = 1))

ParseFirst2Bytes ==
  LET i == Ahead(p, 2)[1][2]
      f == sent[i]
      r == [Took(p, 2) EXCEPT
              !.hdr = [fin |-> f.fin, mask |-> f.mask, size |-> f.code, key |-> 0,
                       op |-> IF f.op = Continue THEN p.frag_opcode ELSE f.op]]
  IN IF p.need < 2 THEN ParseStops("assert")
     ELSE IF Ahead(p, 2) # Bytes("header", i, 2) THEN ParseStops("garbled")
     ELSE IF HeaderRefused(f) THEN ParseError(Took(p, 2))
     ELSE IF f.code = Small THEN Quietly(RequireData(r, E16, "size"))
     ELSE IF f.code = Small + 1 THEN Quietly(RequireData(r, E64, "size"))
     ELSE EnterPayloadStage(r)

(* The length is the one of the frame its bytes belong to.  After an error *)
(* here the size is neither of the two marks, and parsing goes on with it. *)
ParsePayloadSize ==
  LET long == p.hdr.size = Small + 1
      n == IF long THEN E64 ELSE E16
      i == Ahead(p, n)[1][2]
      r == [Took(p, n) EXCEPT !.hdr.size = sent[i].ext]
  IN IF p.hdr.size \notin {Small, Small + 1} THEN EnterPayloadStage(p)
     ELSE IF Avail(p) < n THEN ParseStops("assert")
     ELSE IF Ahead(p, n) # Bytes("size", i, n) THEN ParseStops("garbled")
     ELSE IF long /\ sent[i].ext > max_frame_bytes
          THEN ParseError([r EXCEPT !.hdr.size = 0])
     ELSE EnterPayloadStage(r)

ParseMask ==
  LET r == [Took(p, MaskBytes) EXCEPT !.hdr.key = Ahead(p, MaskBytes)[1][2]]
  IN Quietly(RequireData(r, r.hdr.size, "payload"))

Noise == <<0, 0>>

(* Byte k of the payload as _ParsePayload hands it on: with the mask of    *)
(* its own frame and the byte of it that BuildFrame used.                  *)
Unmasked(r, b, k) ==
  IF /\ b[1] = "data" /\ sent[b[2]].mask = r.hdr.mask
     /\ r.hdr.mask => r.hdr.key = b[2] /\ (b[3] - 1) % MaskBytes = (k - 1) % MaskBytes
  THEN <<b[2], b[3]>> ELSE Noise

(* OnRecvWSFrame *)
Received(r, op, data) ==
  /\ Go(r)
  /\ told' = Append(told, Event("frame", op, data))
  /\ CASE op = Ping -> wrote' = wrote \o SendFrame(Pong, Len(data)) /\ UNCHANGED closeSent
       [] op = CloseOp -> SendCloseFrame
       [] OTHER -> UNCHANGED <<wrote, closeSent>>

(* _DeliverPayload, and the next frame's header is asked for.              *)
DeliverPayload(r, data) ==
  LET next(s) == RequireData(s, 2, "first2")
  IN IF Control(r.hdr.op) \/ (r.hdr.fin /\ ~r.in_fragment)
     THEN Received(next(r), r.hdr.op, data)
     ELSE IF ~r.hdr.fin
     THEN Quietly(next([r EXCEPT !.frag = @ \o data, !.in_fragment = TRUE,
                                 !.frag_opcode = r.hdr.op]))
     ELSE Received(next([r EXCEPT !.frag = <<>>, !.in_fragment = FALSE,
                                  !.frag_opcode = Continue]),
                   r.hdr.op, r.frag \o data)

ParsePayload ==
  IF p.need < p.hdr.size THEN ParseError(p)
  ELSE DeliverPayload(Took(p, p.hdr.size),
         [k \in 1 .. p.hdr.size |-> Unmasked(p, Ahead(p, p.hdr.size)[k], k)])

-----------------------------------------------------------------------------
(* Next *)

(* OnChannelData with n bytes, of however many frames. *)
ParseWSFrame(n) ==
  /\ ~p.running /\ p.stage \notin {"assert", "garbled"}
  /\ n <= Len(wire)
  /\ wire' = SubSeq(wire, n + 1, Len(wire))
  /\ p' = [p EXCEPT !.buf = @ \o SubSeq(wire, 1, n), !.running = TRUE]
  /\ UNCHANGED <<sent, told, wrote, closeSent>>

ParseStep ==
  /\ p.running
  /\ IF p.need > Avail(p) THEN Quietly([p EXCEPT !.running = FALSE])
     ELSE CASE p.stage = "first2" -> ParseFirst2Bytes
            [] p.stage = "size" -> ParsePayloadSize
            [] p.stage = "mask" -> ParseMask
            [] p.stage = "payload" -> ParsePayload
  /\ UNCHANGED <<sent, wire>>

(* SendText, SendData, SendPacket, and SendPing with its 8 bytes. *)
Send(op, n) ==
  /\ wrote' = wrote \o SendFrame(op, n)
  /\ UNCHANGED <<sent, wire, p, told, closeSent>>

(* WSConnection::Close *)
CloseLocally == SendCloseFrame /\ UNCHANGED <<sent, wire, p, told>>

WSNext ==
  \/ \E n \in 1 .. Len(wire) : ParseWSFrame(n)
  \/ ParseStep
  \/ \E op \in {Text, Binary, Ping}, n \in SendSizes : Send(op, n)
  \/ CloseLocally

-----------------------------------------------------------------------------
(* A reference: what RFC 6455 makes of the frames, with nothing of the     *)
(* parser's state in it.                                                   *)

Data(i) == ~Control(sent[i].op)

(* The first frame of the message that data frame i belongs to. *)
Beginning(i) ==
  CHOOSE b \in 1 .. i :
    /\ Data(b)
    /\ \A j \in b .. i - 1 : Data(j) => ~sent[j].fin
    /\ b = 1 \/ \A j \in 1 .. b - 1 :
         (Data(j) /\ \A m \in j + 1 .. b - 1 : ~Data(m)) => sent[j].fin

Open(i) == \E j \in 1 .. i - 1 :
             /\ Data(j) /\ ~sent[j].fin
             /\ \A m \in j + 1 .. i - 1 : ~Data(m)

Message(i) ==
  FlattenSeq([j \in 1 .. i |->
    IF j < Beginning(i) \/ ~Data(j) THEN <<>>
    ELSE [k \in 1 .. DeclaredSize(sent[j]) |-> <<j, k>>]])

Refused(i) ==
  LET f == sent[i]
  IN \/ f.rsv \/ Reserved(f.op)
     \/ Control(f.op) /\ \/ ~f.fin \/ f.code >= Small
                         \/ f.op = CloseOp /\ DeclaredSize(f) = 1
     \/ (f.op = Continue) # Open(i) /\ Data(i)
     \/ DeclaredSize(f) > max_frame_bytes
     \/ Data(i) /\ Len(Message(i)) > max_frame_bytes

(* What the first n frames have to be delivered as. *)
Delivery(i) ==
  IF Control(sent[i].op)
  THEN <<Event("frame", sent[i].op, [k \in 1 .. DeclaredSize(sent[i]) |-> <<i, k>>])>>
  ELSE IF sent[i].fin
  THEN <<Event("frame", sent[Beginning(i)].op, Message(i))>>
  ELSE <<>>

Deliveries(n) == FlattenSeq([i \in 1 .. n |-> Delivery(i)])

(* How many frames have arrived from the first byte to the last. *)
Arrived == IF wire = <<>> THEN MaxFrames ELSE wire[1][2] - 1

(***************************************************************************)
(* However the bytes are cut into pieces, the parser delivers exactly the  *)
(* messages of the frames that have arrived, with their own bytes in       *)
(* order, control frames between fragments included, and reports the first *)
(* frame that is illegal or too long before anything that comes after it.  *)
(***************************************************************************)
ParsedAsSent ==
  LET errors == {k \in DOMAIN told : told[k].what # "frame"}
      bad == {i \in 1 .. MaxFrames : Refused(i) /\ \A j \in 1 .. i - 1 : ~Refused(j)}
  IN ~p.running =>
       IF errors = {}
       THEN told = Deliveries(Arrived) /\ \A i \in bad : i > Arrived
       ELSE \E i \in bad : \E k \in errors :
              /\ told[k].what = "error"
              /\ SubSeq(told, 1, k - 1) = Deliveries(i - 1)
=============================================================================
