------------------------------ MODULE Messaging ------------------------------
(***************************************************************************)
(* The message transaction of RAET (raet/road/transacting.py): a Messenger *)
(* on the initiating stack sends the segments of a message in bursts, a    *)
(* Messengent on the other stack collects them, asks for what is missing   *)
(* and hands the complete message to the application.  Both ends resend on *)
(* a timer; UDP loses, duplicates and reorders what they send.             *)
(*                                                                         *)
(* One session (one pair of session ids) between two stacks, "tx" the      *)
(* initiating one and "rx" the corresponding one.  A message is named by   *)
(* its transaction id.                                                     *)
(***************************************************************************)
EXTENDS Integers, FiniteSets, FiniteSetsExt

CONSTANTS
  Msgs,      \* the messages, that is the transaction ids nextTid hands out
  SegCount,  \* SegCount[m]: number of packets TxTray.pack makes of m
  Burst,     \* RoadStack.BurstSize, 0 for no limit
  Chunk,     \* most segment numbers in one resend request (64 in the code)
  Timed,     \* the messages sent with a timeout, the others never time out
  Brief,     \* those of them with one of at most MsgStaleTimeout
  MaxNet,    \* bound: packets in flight, the path drops what does not fit
  Unallowable \* the sides that may stop allowing messages

ASSUME SegCountAssumption == SegCount \in [Msgs -> Nat \ {0}]
ASSUME BurstAssumption == Burst \in Nat /\ Chunk \in Nat \ {0}
ASSUME TimedAssumption == Timed \subseteq Msgs /\ Brief \subseteq Timed
ASSUME SidesAssumption == Unallowable \subseteq {"tx", "rx"}

VARIABLES
  messenger,   \* Messenger of each message, on tx
  messengent,  \* Messengent of each message, on rx
  doneTransactions, \* rx: ids of messages already handled
  delivered,   \* rx: how often the message was appended to rxMsgs
  allowed,     \* remote.allowed on each side
  net,         \* packets in flight
  lossy,       \* the path may still lose packets
  forgotten    \* history: ids forgotten while their Messenger was at work

vars == <<messenger, messengent, doneTransactions, delivered, allowed, net, lossy, forgotten>>

Segs(m) == 0 .. SegCount[m] - 1

-----------------------------------------------------------------------------
(* Packets.  From the initiator: message and nack.  To the initiator: ack,  *)
(* resend, done and nack.                                                   *)

MessagePkt(m, s, again, wait) ==
  [pk |-> "message", m |-> m, sn |-> s, af |-> again, wf |-> wait]
AckPkt(m, s)         == [pk |-> "ack", m |-> m, sn |-> s]
ResendPkt(m, missed) == [pk |-> "resend", m |-> m, misseds |-> missed]
DonePkt(m)           == [pk |-> "done", m |-> m]
NackPkt(m, to)       == [pk |-> "nack", m |-> m, to |-> to]

MessagePkts(m) == {MessagePkt(m, s, a, w) : s \in Segs(m), a \in BOOLEAN, w \in BOOLEAN}
ReplyPkts(m) ==
  {AckPkt(m, s) : s \in Segs(m)} \cup {ResendPkt(m, M) : M \in SUBSET Segs(m)}
    \cup {DonePkt(m)}
Packets ==
  UNION {MessagePkts(m) \cup ReplyPkts(m) \cup {NackPkt(m, "rx"), NackPkt(m, "tx")} : m \in Msgs}

(* The packets of S enter the path; when they do not fit they are lost. *)
Transmit(S, path) ==
  net' = IF Cardinality(path \cup S) <= MaxNet THEN path \cup S ELSE path

-----------------------------------------------------------------------------
(* The two transactions.                                                    *)

NoMessenger ==
  [state |-> "idle", current |-> 0, acked |-> FALSE, tx |-> 0,
   af |-> {}, wf |-> {}, misseds |-> {}]

NoMessengent == [live |-> FALSE, segs |-> {}, highest |-> 0, lowest |-> 0]

MessengerStates == {"idle", "active", "done", "rejected", "timedout", "unallowed"}

MessengerRecords(m) ==
  [state: MessengerStates, current: 0 .. SegCount[m], acked: BOOLEAN, tx: Segs(m),
   af: SUBSET Segs(m), wf: SUBSET Segs(m), misseds: SUBSET Segs(m)]

MessengentRecords(m) ==
  [live: BOOLEAN, segs: SUBSET Segs(m), highest: Segs(m), lowest: Segs(m)]

(* State and packet shapes. *)
TypeOK ==
  /\ DOMAIN messenger = Msgs
  /\ \A m \in Msgs : messenger[m] \in MessengerRecords(m)
  /\ DOMAIN messengent = Msgs
  /\ \A m \in Msgs : messengent[m] \in MessengentRecords(m)
  /\ doneTransactions \subseteq Msgs
  /\ delivered \in [Msgs -> Nat]
  /\ allowed \in [{"tx", "rx"} -> BOOLEAN]
  /\ net \subseteq Packets
  /\ lossy \in BOOLEAN
  /\ forgotten \subseteq Msgs \ Brief

Init ==
  /\ messenger = [m \in Msgs |-> NoMessenger]
  /\ messengent = [m \in Msgs |-> NoMessengent]
  /\ doneTransactions = {}
  /\ delivered = [m \in Msgs |-> 0]
  /\ allowed = [side \in {"tx", "rx"} |-> TRUE]
  /\ net = {}
  /\ lossy = TRUE
  /\ forgotten = {}

Active(m) == messenger[m].state = "active"
Live(m)   == messengent[m].live

-----------------------------------------------------------------------------
(* The initiator, class Messenger.                                          *)

BurstOf(n) == IF Burst = 0 THEN n ELSE Min({Burst, n})

TxPkt(m, r, s) == MessagePkt(m, s, s \in r.af, s \in r.wf)

Remove(m, why) == messenger' = [messenger EXCEPT ![m].state = why]

(* message(): the next burst, its last packet asks for an answer.  The guard
   current < SegCount[m] is the callers'. *)
SendBurst(m, r, path) ==
  LET last == r.current + BurstOf(SegCount[m] - r.current) - 1
      s == [r EXCEPT !.wf = @ \cup {last}, !.tx = last, !.current = last + 1]
  IN IF allowed["tx"]
     THEN /\ messenger' = [messenger EXCEPT ![m] = s]
          /\ Transmit({TxPkt(m, s, i) : i \in r.current .. last}, path)
     ELSE Remove(m, "unallowed") /\ net' = path

(* Mutant: the last of the missed segments does not wait. *)
SendMissedsNoWait(m, r, path) ==
  \E B \in SUBSET r.misseds : \E last \in B :
    /\ Cardinality(B) = BurstOf(Cardinality(r.misseds))
    /\ LET s == [r EXCEPT !.af = @ \cup B, !.wf = @ \ B, !.tx = last, !.misseds = @ \ B]
       IN /\ messenger' = [messenger EXCEPT ![m] = s]
          /\ Transmit({TxPkt(m, s, i) : i \in B}, path)

(* sendMisseds(): a burst of the segments asked for, flagged as sent again,
   only the last of them waiting.  The order of the oset is abstracted: any
   burst of that size, any last. *)
SendMisseds(m, r, path) ==
  \E B \in SUBSET r.misseds : \E last \in B :
    /\ Cardinality(B) = BurstOf(Cardinality(r.misseds))
    /\ LET s == [r EXCEPT !.af = @ \cup B, !.wf = (@ \ B) \cup {last},
                          !.tx = last, !.misseds = @ \ B]
       IN /\ messenger' = [messenger EXCEPT ![m] = s]
          /\ Transmit({TxPkt(m, s, i) : i \in B}, path)

(* RoadStack.message and the first Messenger.message. *)
Message(m) ==
  /\ messenger[m].state = "idle"
  /\ SendBurst(m, [NoMessenger EXCEPT !.state = "active"], net)
  /\ UNCHANGED <<messengent, doneTransactions, delivered, allowed, lossy, forgotten>>

(* Mutant: every redo is flagged as sent again. *)
RedoMessageFlagged(m) ==
  /\ Active(m)
  /\ LET s == [messenger[m] EXCEPT !.af = @ \cup {messenger[m].tx}]
     IN /\ messenger' = [messenger EXCEPT ![m] = s]
        /\ Transmit({TxPkt(m, s, s.tx)}, net)
  /\ UNCHANGED <<messengent, doneTransactions, delivered, allowed, lossy, forgotten>>

(* Mutant: the redo timer stops with the first answer. *)
RedoMessageUnacked(m) == ~messenger[m].acked /\ RedoMessageFlagged(m)

(* Messenger.process, redo timer: the last packet again, flagged as a resend
   once anything was acknowledged. *)
RedoMessage(m) ==
  /\ Active(m)
  /\ LET r == messenger[m]
         s == [r EXCEPT !.af = IF r.acked THEN @ \cup {r.tx} ELSE @]
     IN /\ messenger' = [messenger EXCEPT ![m] = s]
        /\ Transmit({TxPkt(m, s, s.tx)}, net)
  /\ UNCHANGED <<messengent, doneTransactions, delivered, allowed, lossy, forgotten>>

(* Messenger.process, the transaction's own timeout. *)
TimeoutMessage(m) ==
  /\ Active(m) /\ m \in Timed
  /\ Remove(m, "timedout")
  /\ UNCHANGED <<messengent, doneTransactions, delivered, allowed, net, lossy, forgotten>>

(* another(): what was asked for, or from the segment after the acknowledged
   one, which may lie behind what was already sent. *)
Another(m, sn, path) ==
  LET r == [messenger[m] EXCEPT !.acked = TRUE]
      s == [r EXCEPT !.current = Min({@, sn + 1})]
  IN IF r.misseds # {} THEN SendMisseds(m, r, path)
     ELSE IF s.current < SegCount[m] THEN SendBurst(m, s, path)
     ELSE messenger' = [messenger EXCEPT ![m] = s] /\ net' = path

(* resend() *)
Resend(m, missed, path) ==
  SendMisseds(m, [messenger[m] EXCEPT !.acked = TRUE, !.misseds = @ \cup missed], path)

MessengerReceive(p, path) ==
  \/ p.pk = "ack" /\ Another(p.m, p.sn, path)
  \/ p.pk = "resend" /\ Resend(p.m, p.misseds, path)
  \/ p.pk = "done" /\ Remove(p.m, "done") /\ net' = path
  \/ p.pk = "nack" /\ Remove(p.m, "rejected") /\ net' = path

(* Mutant: a stale packet of the correspondent is ignored. *)
StaleIgnored(p, path) == UNCHANGED messenger /\ net' = path

(* No Messenger for a correspondent's packet: the Staler answers anything but
   a nack with a nack. *)
Stale(p, path) ==
  /\ UNCHANGED messenger
  /\ IF p.pk = "nack" THEN net' = path ELSE Transmit({NackPkt(p.m, "rx")}, path)

-----------------------------------------------------------------------------
(* The correspondent, class Messengent.                                     *)

(* Mutant: the id is not remembered. *)
RemoveCorrespondentOnly(m) ==
  messengent' = [messengent EXCEPT ![m] = NoMessengent] /\ UNCHANGED doneTransactions

(* Messengent.remove *)
RemoveCorrespondent(m) ==
  /\ messengent' = [messengent EXCEPT ![m] = NoMessengent]
  /\ doneTransactions' = doneTransactions \cup {m}

(* Mutant: begin is exclusive. *)
MissingAbove(r) == {i \in r.lowest + 1 .. r.highest - 1 : i \notin r.segs}

(* RxTray.missing(begin=lowest): what lies before the highest only. *)
Missing(r) == {i \in r.lowest .. r.highest - 1 : i \notin r.segs}

(* resend(): at most Chunk numbers a packet, in ascending order. *)
ResendPkts(m, missed) ==
  {ResendPkt(m, {i \in missed : Cardinality({j \in missed : j < i}) \div Chunk = k}) :
      k \in 0 .. (Cardinality(missed) - 1) \div Chunk}

(* Mutant: lowest moves past the segment still to come. *)
AskMoreAbove(m, r, path) ==
  LET missed == Missing(r)
      s == [r EXCEPT !.lowest = IF missed = {} THEN @ ELSE Min(missed) + 1]
  IN /\ messengent' = [messengent EXCEPT ![m] = s]
     /\ UNCHANGED doneTransactions
     /\ Transmit(IF missed = {} THEN {AckPkt(m, r.highest)} ELSE ResendPkts(m, missed), path)

(* Ask for the missing segments, or else for the ones after the highest. *)
AskMore(m, r, path) ==
  LET missed == Missing(r)
      s == [r EXCEPT !.lowest = IF missed = {} THEN @ ELSE Min(missed)]
  IN /\ messengent' = [messengent EXCEPT ![m] = s]
     /\ UNCHANGED doneTransactions
     /\ Transmit(IF missed = {} THEN {AckPkt(m, r.highest)} ELSE ResendPkts(m, missed), path)

(* Mutant: highest is the number of segments instead of the last one's. *)
ParseCount(r, sn) ==
  [r EXCEPT !.live = TRUE, !.segs = @ \cup {sn}, !.highest = Max({@, sn + 1})]

(* RxTray.parse *)
Parse(r, sn) ==
  [r EXCEPT !.live = TRUE, !.segs = @ \cup {sn}, !.highest = Max({@, sn})]

(* Messengent.message: collect, then complete or ask. *)
Collect(m, p, path) ==
  LET r == Parse(messengent[m], p.sn)
  IN IF ~allowed["rx"]
     THEN /\ RemoveCorrespondent(m)
          /\ Transmit({NackPkt(m, "tx")}, path)
          /\ UNCHANGED delivered
     ELSE IF r.segs = Segs(m)
     THEN /\ RemoveCorrespondent(m)
          /\ Transmit({DonePkt(m)}, path)
          /\ delivered' = [delivered EXCEPT ![m] = @ + 1]
     ELSE /\ IF p.wf THEN AskMore(m, r, path)
             ELSE /\ messengent' = [messengent EXCEPT ![m] = r]
                  /\ net' = path
                  /\ UNCHANGED doneTransactions
          /\ UNCHANGED delivered

(* Mutant: the ids already handled are not consulted. *)
IsFlagged(p) == p.af

(* RoadStack.correspond: a message packet without its Messengent is stale when
   it is flagged as a resend or its id is done, and is then nacked. *)
IsStale(p) == p.af \/ p.m \in doneTransactions

ReplyStale(p, path) ==
  /\ Transmit({NackPkt(p.m, "tx")}, path)
  /\ UNCHANGED <<messengent, doneTransactions, delivered>>

MessengentReceive(p, path) ==
  \/ p.pk = "message" /\ (Live(p.m) \/ ~IsStale(p)) /\ Collect(p.m, p, path)
  \/ p.pk = "message" /\ ~Live(p.m) /\ IsStale(p) /\ ReplyStale(p, path)
  \/ p.pk = "nack" /\ Live(p.m) /\ RemoveCorrespondent(p.m) /\ net' = path /\ UNCHANGED delivered
  \/ p.pk = "nack" /\ ~Live(p.m) /\ net' = path
     /\ UNCHANGED <<messengent, doneTransactions, delivered>>

(* Messengent.process, redo timer.  The tray of a transaction that still
   exists is never complete. *)
RedoAsk(m) ==
  /\ Live(m)
  /\ AskMore(m, messengent[m], net)
  /\ UNCHANGED <<messenger, delivered, allowed, lossy, forgotten>>

OutOfNet(m) == \A p \in net : ~(p.m = m /\ p.pk = "message")

(* cleanupDoneTransactions: an id is forgotten MsgStaleTimeout (600 s) after it
   was done, when no packet from before is left in the network.  A Messenger
   with a brief timeout has ended by then; any other may be at work still, since
   by default it retries for ever.  (Bound: it lives to see that once.) *)
CleanupDone(m) ==
  /\ m \in doneTransactions
  /\ OutOfNet(m)
  /\ Active(m) => m \notin Brief \cup forgotten
  /\ doneTransactions' = doneTransactions \ {m}
  /\ forgotten' = IF Active(m) THEN forgotten \cup {m} ELSE forgotten
  /\ UNCHANGED <<messenger, messengent, delivered, allowed, net, lossy>>

-----------------------------------------------------------------------------
(* The stack and the network.                                               *)

ToTx(p) == p.pk \in {"ack", "resend", "done"} \/ (p.pk = "nack" /\ p.to = "tx")

(* processRx: the packet is read off the path, or a copy of it stays behind. *)
ReceiveTx(p, copies) ==
  LET path == net \ ({p} \ copies)
  IN /\ p \in net /\ ToTx(p)
     /\ IF Active(p.m) THEN MessengerReceive(p, path) ELSE Stale(p, path)
     /\ UNCHANGED <<messengent, doneTransactions, delivered, allowed, lossy, forgotten>>

ReceiveRx(p, copies) ==
  LET path == net \ ({p} \ copies)
  IN /\ p \in net /\ ~ToTx(p)
     /\ MessengentReceive(p, path)
     /\ UNCHANGED <<messenger, allowed, lossy, forgotten>>

Lose(p) ==
  /\ p \in net /\ lossy
  /\ net' = net \ {p}
  /\ UNCHANGED <<messenger, messengent, doneTransactions, delivered, allowed, lossy, forgotten>>

(* The network recovers for good: used by the liveness properties only. *)
Recover ==
  /\ lossy
  /\ lossy' = FALSE
  /\ UNCHANGED <<messenger, messengent, doneTransactions, delivered, allowed, net, forgotten>>

(* An allow transaction starts afresh (rekey) or is rejected: messages on this
   side stop.  Only a new session ends this, and that is another module. *)
Unallow(side) ==
  /\ allowed[side]
  /\ allowed' = [allowed EXCEPT ![side] = FALSE]
  /\ UNCHANGED <<messenger, messengent, doneTransactions, delivered, net, lossy, forgotten>>

Next ==
  \/ \E m \in Msgs : Message(m) \/ RedoMessage(m) \/ TimeoutMessage(m)
                        \/ RedoAsk(m) \/ CleanupDone(m)
  \/ \E p \in net : \E copies \in {{}, {p}} : ReceiveTx(p, copies) \/ ReceiveRx(p, copies)
  \/ \E p \in net : Lose(p)
  \/ \E side \in Unallowable : Unallow(side)
  \/ Recover

Spec == Init /\ [][Next]_vars

-----------------------------------------------------------------------------
(* Safety.                                                                  *)

(* A message reaches the application at most once in a session, whatever the
   network repeats (doneTransactions and the af flag in correspond), unless its
   id was forgotten while its Messenger still retried, which never happens to a
   message with a brief timeout. *)
AtMostOnce == \A m \in Msgs : delivered[m] <= 1 \/ m \in forgotten

(* "transaction with this ID already handled and removed packet is a stale
   resend": a message is never taken twice (correspond). *)
NeverTwice == \A m \in Msgs : delivered[m] <= 1

(* The Messenger's view of a message, as the abstract Delivery sees it. *)
StatusOf(r) ==
  CASE r.state = "idle"   -> "idle"
    [] r.state = "active" -> "pending"
    [] r.state = "done"   -> "done"
    [] OTHER              -> "failed"

(* The transaction implements Delivery: complete() at the initiator is only
   reached after a delivery at the correspondent, the only one unless the
   message was forgotten there. *)
D == INSTANCE Delivery WITH status <- [m \in Msgs |-> StatusOf(messenger[m])]
ImplementsDelivery == D!DSpec

(* A message the correspondent's stack rejected was in fact delivered, and only
   its done was lost, unless the correspondent stopped allowing messages:
   reject() counts a failure for what the other application has got. *)
RejectedWasDelivered ==
  \A m \in Msgs :
    messenger[m].state = "rejected" => delivered[m] > 0 \/ ~allowed["rx"]

(* Stale nacks (Staler, Stalent) never hit a transaction that is still at work:
   a nack on its way to the Messengent means that the Messenger is finished, and
   the other way round, unless the id was forgotten, when the Messengent may be
   a new one. *)
NackMeansGone ==
  \A m \in Msgs :
    /\ NackPkt(m, "rx") \in net => ~Active(m)
    /\ NackPkt(m, "tx") \in net => ~Live(m) \/ m \in forgotten

(* What the Messenger's redo timer repeats always carries the wait flag, and so
   draws an answer; without it both ends could wait for each other. *)
RedoAsks == \A m \in Msgs : Active(m) => messenger[m].tx \in messenger[m].wf

(* The correspondent never asks below .lowest again, and need not: everything
   below it is there, and what it believes to be the highest segment is too. *)
LowestIsReceived ==
  \A m \in Msgs : Live(m) =>
    LET r == messengent[m] IN
      /\ 0 .. r.lowest - 1 \subseteq r.segs
      /\ r.highest \in r.segs
      /\ r.segs \subseteq 0 .. r.highest

-----------------------------------------------------------------------------
(* Liveness.  The redo timers of a serviced stack keep expiring; the network    *)
(* stops losing packets some time, and then every packet is read in the end,   *)
(* though not in order nor only once.  MaxNet must hold all packets.           *)

Fairness ==
  /\ WF_vars(Recover)
  /\ \A m \in Msgs : WF_vars(RedoMessage(m)) /\ WF_vars(RedoAsk(m))
  /\ \A p \in Packets : WF_vars(ReceiveTx(p, {}) \/ ReceiveRx(p, {}))

FairSpec == Spec /\ Fairness

(* Every message transaction ends at its initiator, one way or another. *)
EveryMessageEnds == \A m \in Msgs : Active(m) ~> ~Active(m)

(* No Messengent outlives its Messenger for good: its questions are nacked. *)
NoOrphan == \A m \in Msgs : Live(m) ~> ~Live(m)

(* A message is delivered unless someone gave up on purpose. *)
EventuallyDelivered ==
  \A m \in Msgs :
    Active(m) ~> \/ delivered[m] > 0
                \/ messenger[m].state = "timedout"
                \/ ~allowed["tx"] \/ ~allowed["rx"]

=============================================================================
