----------------------------- MODULE Segmenting -----------------------------
(***************************************************************************)
(* How a packed message is cut: TxTray.pack and packetize in               *)
(* raet/road/packeting.py make segments of it that fit into packets,       *)
(* TxBook.pack and paginate in raet/lane/paging.py pages.  The room that   *)
(* is left for a segment is computed before its head is packed, with an    *)
(* estimate of how much longer that head is than the one of the message.   *)
(***************************************************************************)
EXTENDS Integers, Sequences

UDP_MAX_PACKET_SIZE == 1024
UXD_MAX_PACKET_SIZE == 65535
MAX_SEGMENT_COUNT   == 65535
MAX_MESSAGE_SIZE    == 67107840   \* UDP_MAX_PACKET_SIZE * MAX_SEGMENT_COUNT
MAX_HEAD_SIZE       == 255

HeadKinds == {"raet", "json"}

(* What was packed, before it is cut: hk says how the head is written, head
   and foot are their sizes, size is that of the coat with the body in it. *)
Bodies ==
  [hk: HeadKinds, head: 1 .. MAX_HEAD_SIZE, foot: {0, 64}, size: 0 .. MAX_MESSAGE_SIZE]

-----------------------------------------------------------------------------
(* Cutting size bytes into pieces of room bytes.                            *)

(* Number of pieces (segcount, seccount). *)
Pieces(size, room) == size \div room + (IF size % room # 0 THEN 1 ELSE 0)

(* The piece i, from First up to but not including Limit. *)
First(room, i) == i * room
Limit(size, room, i) == IF i = Pieces(size, room) - 1 THEN size ELSE (i + 1) * room
Length(size, room, i) == Limit(size, room, i) - First(room, i)

-----------------------------------------------------------------------------
(* The heads.  TxHead.pack writes a field if its value is not the default,  *)
(* numbers in hex (raet) or decimal digits (json); the lengths and flags    *)
(* have a fixed width.                                                      *)

Powers(hk) ==
  IF hk = "raet"
  THEN <<16, 256, 4096, 65536, 1048576, 16777216, 268435456>>
  ELSE <<10, 100, 1000, 10000, 100000, 1000000, 10000000, 100000000>>

Digits(hk, n) ==
  CHOOSE d \in DOMAIN Powers(hk) :
    n < Powers(hk)[d] /\ \A e \in 1 .. d - 1 : n >= Powers(hk)[e]

Label(hk) == IF hk = "raet" THEN 4 ELSE 6   \* a line with a name, or ,"sn":

FieldSize(hk, n, default) == IF n = default THEN 0 ELSE Label(hk) + Digits(hk, n)

(* How much longer the head is with sn, sc and ml. *)
Growth(hk, sn, sc, ml) ==
  FieldSize(hk, sn, 0) + FieldSize(hk, sc, 1) + FieldSize(hk, ml, 0)

(* extrasize in packetize *)
Extra(hk) == IF hk = "raet" THEN 27 ELSE 36

-----------------------------------------------------------------------------
(* TxTray.                                                                  *)

Segmented(b) == b.head + b.size + b.foot > UDP_MAX_PACKET_SIZE

(* Mutant: the heads of segments are as long as the one of the message. *)
SegSizeBare(b) == UDP_MAX_PACKET_SIZE - (b.head + b.foot)

SegSize(b) == UDP_MAX_PACKET_SIZE - (b.head + Extra(b.hk) + b.foot)

Packets(b) == IF Segmented(b) THEN Pieces(b.size, SegSize(b)) ELSE 1

(* The size of packet sn. *)
PacketSize(b, sn) ==
  IF Segmented(b)
  THEN b.head + Growth(b.hk, sn, Packets(b), b.size)
         + Length(b.size, SegSize(b), sn) + b.foot
  ELSE b.head + b.size + b.foot

-----------------------------------------------------------------------------
(* TxBook: the head of a page has all fields always, pn and pc in hex with   *)
(* four digits at least.                                                    *)

SecSize(head) == UXD_MAX_PACKET_SIZE - (head + 2)

MoreDigits(n) == IF n < 65536 THEN 0 ELSE Digits("raet", n) - 4

PageSize(head, size, pn) ==
  head + MoreDigits(pn) + MoreDigits(Pieces(size, SecSize(head)))
       + Length(size, SecSize(head), pn)
=============================================================================
