------------------------------ MODULE Cutting ------------------------------
(***************************************************************************)
(* Messaging put together with Segmenting: the segments a Messenger sends   *)
(* are the packets that TxTray.pack (raet/road/packeting.py) makes of the   *)
(* message, and a flag is packed into each again when it is sent.           *)
(***************************************************************************)
EXTENDS Messaging

Cut == INSTANCE Segmenting

CONSTANT BodyOf   \* BodyOf[m]: what Messenger.message packed of m, before it is cut

(* Every message leaves room for a byte of it in a segment, and SegCount counts
   its segments. *)
ASSUME BodyAssumption ==
  \A m \in Msgs :
    /\ BodyOf[m] \in Cut!Bodies /\ Cut!SegSize(BodyOf[m]) > 0
    /\ SegCount[m] = Cut!Packets(BodyOf[m])

Fits(m, sn) == Cut!PacketSize(BodyOf[m], sn) <= Cut!UDP_MAX_PACKET_SIZE

(* No packet of a message that was cut into at most MAX_SEGMENT_COUNT segments
   is larger than a datagram may be, so that the repack of SendBurst and
   SendMisseds, outside of any try, does not raise PacketError.  The room was
   computed before the heads of the segments were packed.  (TxTray.packetize,
   Messenger.message, Messenger.sendMisseds) *)
PacketsFit ==
  \A p \in net :
    p.pk = "message" /\ Cut!Packets(BodyOf[p.m]) <= Cut!MAX_SEGMENT_COUNT => Fits(p.m, p.sn)

(* "extra header size as a result of segmentation": what packetize allows for
   is enough for the packet that is packed again at the end of a burst, whatever
   message MAX_MESSAGE_SIZE lets pass. *)
RepackedFits == \A m \in Msgs : Active(m) => Fits(m, messenger[m].tx)
=============================================================================
