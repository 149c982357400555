----------------------------- MODULE MCMessaging -----------------------------
(* Instance of Messaging for TLC: two messages, one cut into three segments
   that fill their packets and one of a single segment, the first
   burst-limited. *)
EXTENDS Cutting

CONSTANTS long, short

(* Signed messages with a raet head.  That of long is a whole number of
   segments, that of short just does not need to be cut. *)
TwoBodies ==
  [m \in Msgs |->
     [hk |-> "raet", head |-> 100, foot |-> 64, size |-> IF m = long THEN 2499 ELSE 860]]

(* A message of one segment more than MAX_SEGMENT_COUNT. *)
HugeBody == [m \in Msgs |-> [hk |-> "raet", head |-> 100, foot |-> 64, size |-> 54591488]]
HugeSegs == [m \in Msgs |-> Cut!Packets(HugeBody[m])]

TwoMsgs  == {long, short}
LongOnly == {long}
Both     == {"tx", "rx"}
TxOnly   == {"tx"}
SegsOf   == [m \in Msgs |-> Cut!Packets(TwoBodies[m])]
=============================================================================
