--------------------------- MODULE MasqueFraming ---------------------------
(***************************************************************************)
(* HTTP datagrams of a CONNECT-UDP tunnel (MasqueFraming.cpp): a quarter   *)
(* stream id and a context id, both QUIC variable-length integers, then    *)
(* the payload.  A byte string is a sequence of bytes; a payload is only   *)
(* its length, behind the bytes of the header.                             *)
(***************************************************************************)
EXTENDS Integers, Sequences

kUdpContextId == 0

QuarterStreamId(id) == id \div 4

VarintLen(v) == IF v <= 63 THEN 1 ELSE IF v <= 16383 THEN 2 ELSE IF v <= 1073741823 THEN 4 ELSE 8

(* v >> 0, v >> 8, ..., v >> 56 *)
Shifts(v) ==
  LET a == v \div 256
      b == a \div 256
      c == b \div 256
      d == c \div 256
      e == d \div 256
      f == e \div 256
  IN <<v, a, b, c, d, e, f, f \div 256>>

(* Byte i, counted from the least significant, of v. *)
Byte(v, i) == Shifts(v)[i + 1] % 256

(* VarintEncode: big-endian, the two high bits of the first byte say how   *)
(* long it is; <<>> when it does not fit in cap bytes.  The prefix is      *)
(* or-ed to the first byte, whose high bits are clear when the length is   *)
(* right.                                                                  *)
Prefix(len) == CASE len = 1 -> 0 [] len = 2 -> 64 [] len = 4 -> 128 [] OTHER -> 192

OrPrefix(b, p) == IF p = 0 THEN b ELSE p + (b % 64)

VarintEncode(cap, v) ==
  LET len == VarintLen(v) IN
  IF cap < len THEN <<>>
  ELSE [k \in 1..len |-> IF k = 1 THEN OrPrefix(Byte(v, len - 1), Prefix(len))
                                  ELSE Byte(v, len - k)]

(* VarintDecode of the front of s: its value and its length, which is 0    *)
(* when s ends too early.                                                  *)
EncLen(b) == <<1, 2, 4, 8>>[b \div 64 + 1]

Value(s, len) ==
  LET Acc[k \in 1..len] == IF k = 1 THEN s[1] % 64 ELSE Acc[k - 1] * 256 + s[k]
  IN Acc[len]

VarintDecode(s) ==
  IF Len(s) < 1 \/ Len(s) < EncLen(s[1]) THEN [len |-> 0, value |-> 0]
  ELSE [len |-> EncLen(s[1]), value |-> Value(s, EncLen(s[1]))]

DatagramOverhead(qsid) == VarintLen(qsid) + VarintLen(kUdpContextId)

EncodeDatagram(qsid, size) ==
  LET overhead == DatagramOverhead(qsid)
      q == VarintEncode(overhead, qsid)
      c == VarintEncode(overhead - Len(q), kUdpContextId)
  IN [ok |-> q # <<>> /\ c # <<>>, head |-> q \o c, size |-> size]

DecodeDatagram(d) ==
  LET q == VarintDecode(d.head)
      c == VarintDecode(SubSeq(d.head, q.len + 1, Len(d.head)))
  IN [ok |-> q.len # 0 /\ c.len # 0, qsid |-> q.value, ctx |-> c.value,
      size |-> Len(d.head) + d.size - q.len - c.len]
=============================================================================
