-------------------------- MODULE Messaging_proofs --------------------------
(***************************************************************************)
(* Proofs about the message transaction: types, at-most-once delivery, what *)
(* a rejection means, the refinement of Delivery, and how messages are cut, *)
(* for any number of messages and segments, any burst and any path.         *)
(***************************************************************************)
EXTENDS Cutting, FiniteSetTheorems, NaturalsInduction, TLAPS

-----------------------------------------------------------------------------
(* The inductive invariant.                                                 *)

Gone(m) == messenger[m].state \notin {"idle", "active"}

Quiet(m) == Gone(m) /\ OutOfNet(m)

(* The correspondent is through with m and cannot start it again: its id is
   remembered, or there is nothing left that could start it. *)
Closed(m) == ~Live(m) /\ (m \in doneTransactions \/ Quiet(m))

(* Some packet or flag shows that the correspondent has seen m before. *)
HeardOf(m) ==
  \/ messenger[m].acked
  \/ messenger[m].af # {}
  \/ \E p \in net : p.m = m /\ (ToTx(p) \/ (p.pk = "message" /\ p.af))

Untouched(m) ==
  /\ messenger[m] = NoMessenger /\ messengent[m] = NoMessengent
  /\ m \notin doneTransactions /\ m \notin forgotten /\ delivered[m] = 0
  /\ \A p \in net : p.m # m

Excused(m) == delivered[m] > 0 \/ ~allowed["rx"]

(* What holds of a message that was not forgotten too early. *)
Remembered(m) ==
  /\ delivered[m] \in {0, 1}
  /\ delivered[m] = 1 \/ NackPkt(m, "tx") \in net => Closed(m)
  /\ HeardOf(m) => Live(m) \/ Closed(m)
  /\ Closed(m) => Excused(m) \/ Gone(m)

MsgInv(m) ==
  /\ messenger[m].state = "idle" => Untouched(m)
  /\ m \in forgotten => Excused(m)
  /\ m \notin forgotten => Remembered(m)
  /\ m \in doneTransactions => ~Live(m)
  /\ DonePkt(m) \in net \/ messenger[m].state = "done" => delivered[m] > 0
  /\ NackPkt(m, "rx") \in net => Gone(m)
  /\ messenger[m].state = "rejected" => Excused(m)

IInv == TypeOK /\ \A m \in Msgs : MsgInv(m)

-----------------------------------------------------------------------------
(* Facts about the helpers.                                                 *)

(* Min of a nonempty set of naturals is its least element. *)
LEMMA MinOfNats ==
  ASSUME NEW S \in SUBSET Nat, S # {}
  PROVE  Min(S) \in S /\ \A y \in S : Min(S) <= y
<1> DEFINE R == OpToRel(<, Nat)
<1>1. IsWellFoundedOn(R, Nat)
  BY NatLessThanWellFounded
<1>2. \A x, y \in Nat : x < y => <<x, y>> \in R
  BY DEF OpToRel
<1> HIDE DEF R
<1>3. \E x \in S : \A y \in S : <<y, x>> \notin R
  BY <1>1, WFMin
<1>4. \E x \in S : \A y \in S : x <= y
  <2>1. PICK x \in S : \A y \in S : <<y, x>> \notin R
    BY <1>3
  <2>2. ASSUME NEW y \in S PROVE x <= y
    <3>1. ~(y < x)
      BY <1>2, <2>1
    <3> QED
      BY <3>1
  <2> QED
    BY <2>2
<1> QED
  BY <1>4 DEF Min

(* A burst of n segments has at least one of them and at most all of them. *)
LEMMA BurstBounds ==
  ASSUME NEW n \in Nat \ {0}
  PROVE  BurstOf(n) \in 1 .. n
<1>1. CASE Burst = 0
  BY <1>1 DEF BurstOf
<1>2. CASE Burst # 0
  <2>1. Min({Burst, n}) \in {Burst, n} /\ Min({Burst, n}) <= n
    BY BurstAssumption, MinOfNats
  <2> QED
    BY <1>2, <2>1, BurstAssumption DEF BurstOf
<1> QED
  BY <1>1, <1>2

(* What is sent either joins the path or is lost; nothing else happens there. *)
LEMMA TransmitEffect ==
  ASSUME NEW S, NEW path, Transmit(S, path)
  PROVE  net' \subseteq path \cup S
BY DEF Transmit

-----------------------------------------------------------------------------
(* What the operations do, in the terms of the invariant.                   *)

(* A step of m's Messenger: it becomes s, and S of its packets are sent. *)
MessengerStep(m, s, S) ==
  /\ messenger' = [messenger EXCEPT ![m] = s]
  /\ net' \subseteq net \cup S
  /\ messenger[m].state \in {"idle", "active"} /\ s.state # "idle"
  /\ S # {} => s.state = "active"
  /\ s.acked \/ s.af # {} \/ (\E p \in S : p.af) => HeardOf(m)
  /\ s.state = "done" => DonePkt(m) \in net
  /\ s.state = "rejected" => NackPkt(m, "tx") \in net
  /\ UNCHANGED <<messengent, doneTransactions, delivered, allowed, lossy, forgotten>>

(* A Messenger's packet is a message packet, flagged when the segment is. *)
LEMMA TxPktType ==
  ASSUME NEW m, NEW r, NEW s \in Segs(m)
  PROVE  TxPkt(m, r, s) \in MessagePkts(m) /\ (TxPkt(m, r, s).af => s \in r.af)
<1> DEFINE a == s \in r.af
           w == s \in r.wf
<1>1. a \in BOOLEAN /\ w \in BOOLEAN
  OBVIOUS
<1>2. TxPkt(m, r, s) = MessagePkt(m, s, a, w)
  BY DEF TxPkt
<1> HIDE DEF a, w
<1>3. MessagePkt(m, s, a, w) \in MessagePkts(m)
  BY <1>1 DEF MessagePkts
<1>4. MessagePkt(m, s, a, w).af = a
  BY DEF MessagePkt
<1> QED
  BY <1>2, <1>3, <1>4 DEF a

(* SendBurst sends segments in range, with the flags they had, or removes. *)
LEMMA SendBurstEffect ==
  ASSUME NEW m \in Msgs, TypeOK, NEW r \in MessengerRecords(m),
         r.current < SegCount[m], NEW path, SendBurst(m, r, path)
  PROVE  \E s \in MessengerRecords(m), S \in SUBSET MessagePkts(m) :
           /\ messenger' = [messenger EXCEPT ![m] = s]
           /\ net' \subseteq path \cup S
           /\ \/ s.state = r.state /\ s.acked = r.acked /\ s.af = r.af
              \/ S = {} /\ s = [messenger[m] EXCEPT !.state = "unallowed"]
           /\ \A p \in S : p.af => r.af # {}
<1> DEFINE last == r.current + BurstOf(SegCount[m] - r.current) - 1
           t == [r EXCEPT !.wf = @ \cup {last}, !.tx = last, !.current = last + 1]
           T == {TxPkt(m, t, i) : i \in r.current .. last}
<1>1. CASE ~allowed["tx"]
  <2>1. [messenger[m] EXCEPT !.state = "unallowed"] \in MessengerRecords(m)
    BY DEF TypeOK, MessengerRecords, MessengerStates
  <2> QED
    BY <1>1, <2>1 DEF SendBurst, Remove
<1>2. CASE allowed["tx"]
  <2>1. /\ SegCount[m] \in Nat /\ r.current \in Nat
        /\ SegCount[m] - r.current \in Nat \ {0}
    BY SegCountAssumption DEF MessengerRecords
  <2>2. BurstOf(SegCount[m] - r.current) \in 1 .. (SegCount[m] - r.current)
    BY <2>1, BurstBounds
  <2>3. last \in Segs(m) /\ r.current .. last \subseteq Segs(m) /\ last + 1 \in 0 .. SegCount[m]
    BY <2>1, <2>2 DEF Segs
  <2> HIDE DEF last
  <2>4. t \in MessengerRecords(m) /\ t.state = r.state /\ t.acked = r.acked /\ t.af = r.af
    BY <2>3 DEF MessengerRecords
  <2>6. messenger' = [messenger EXCEPT ![m] = t] /\ Transmit(T, path)
    BY <1>2 DEF SendBurst, last
  <2> HIDE DEF t
  <2>5. T \subseteq MessagePkts(m) /\ \A p \in T : p.af => r.af # {}
    <3> SUFFICES ASSUME NEW i \in r.current .. last
                 PROVE  /\ TxPkt(m, t, i) \in MessagePkts(m)
                        /\ TxPkt(m, t, i).af => r.af # {}
      OBVIOUS
    <3>1. i \in Segs(m)
      BY <2>3
    <3>2. TxPkt(m, t, i) \in MessagePkts(m) /\ (TxPkt(m, t, i).af => i \in t.af)
      BY <3>1, TxPktType
    <3> QED
      BY <2>4, <3>2
  <2> HIDE DEF T
  <2> QED
    BY <2>4, <2>5, <2>6, TransmitEffect
<1> QED
  BY <1>1, <1>2

(* SendMisseds flags every segment it sends as sent again. *)
LEMMA SendMissedsEffect ==
  ASSUME NEW m \in Msgs, NEW r \in MessengerRecords(m), NEW path, SendMisseds(m, r, path)
  PROVE  \E s \in MessengerRecords(m), S \in SUBSET MessagePkts(m) :
           /\ messenger' = [messenger EXCEPT ![m] = s]
           /\ net' \subseteq path \cup S
           /\ s.state = r.state
<1>1. PICK B \in SUBSET r.misseds : \E last \in B :
        LET s == [r EXCEPT !.af = @ \cup B, !.wf = (@ \ B) \cup {last},
                           !.tx = last, !.misseds = @ \ B]
        IN /\ messenger' = [messenger EXCEPT ![m] = s]
           /\ Transmit({TxPkt(m, s, i) : i \in B}, path)
  BY DEF SendMisseds
<1>2. PICK last \in B :
        LET s == [r EXCEPT !.af = @ \cup B, !.wf = (@ \ B) \cup {last},
                           !.tx = last, !.misseds = @ \ B]
        IN /\ messenger' = [messenger EXCEPT ![m] = s]
           /\ Transmit({TxPkt(m, s, i) : i \in B}, path)
  BY <1>1
<1> DEFINE s == [r EXCEPT !.af = @ \cup B, !.wf = (@ \ B) \cup {last},
                          !.tx = last, !.misseds = @ \ B]
           S == {TxPkt(m, s, i) : i \in B}
<1>3. B \subseteq Segs(m) /\ last \in Segs(m)
  BY DEF MessengerRecords
<1>4. s \in MessengerRecords(m) /\ s.state = r.state
  BY <1>3 DEF MessengerRecords
<1>5. S \subseteq MessagePkts(m)
  BY <1>3, TxPktType
<1>6. messenger' = [messenger EXCEPT ![m] = s] /\ Transmit(S, path)
  BY <1>2
<1> HIDE DEF s, S
<1> QED
  BY <1>4, <1>5, <1>6, TransmitEffect

(* Every operation of an idle or active Messenger is such a step. *)
MessengerSteps(m) ==
  \E s \in MessengerRecords(m), S \in SUBSET MessagePkts(m) : MessengerStep(m, s, S)

LEMMA MessageStep ==
  ASSUME NEW m \in Msgs, TypeOK, Message(m)
  PROVE  MessengerSteps(m)
<1> DEFINE r == [NoMessenger EXCEPT !.state = "active"]
<1>0. SegCount[m] \in Nat /\ SegCount[m] > 0
  BY SegCountAssumption
<1>a. 0 \in Segs(m) /\ 0 \in 0 .. SegCount[m]
  BY <1>0 DEF Segs
<1>b. r \in MessengerRecords(m)
  BY <1>a DEF MessengerRecords, MessengerStates, NoMessenger
<1>c. r.current = 0 /\ ~r.acked /\ r.af = {} /\ r.state = "active"
  BY DEF NoMessenger
<1>1. /\ r \in MessengerRecords(m) /\ r.current < SegCount[m]
      /\ ~r.acked /\ r.af = {} /\ r.state = "active"
  BY <1>0, <1>b, <1>c
<1>2. SendBurst(m, r, net) /\ messenger[m].state = "idle"
  BY DEF Message
<1>3. messenger[m] \in MessengerRecords(m)
  BY DEF TypeOK
<1> HIDE DEF r
<1>4. PICK s \in MessengerRecords(m), S \in SUBSET MessagePkts(m) :
           /\ messenger' = [messenger EXCEPT ![m] = s]
           /\ net' \subseteq net \cup S
           /\ \/ s.state = r.state /\ s.acked = r.acked /\ s.af = r.af
              \/ S = {} /\ s = [messenger[m] EXCEPT !.state = "unallowed"]
           /\ \A p \in S : p.af => r.af # {}
  BY <1>1, <1>2, SendBurstEffect
<1>5. /\ s.state \in {"active", "unallowed"} /\ (S # {} => s.state = "active")
      /\ s.acked \/ s.af # {} => messenger[m].acked \/ messenger[m].af # {}
  BY <1>1, <1>3, <1>4 DEF MessengerRecords
<1>6. MessengerStep(m, s, S)
  BY <1>1, <1>2, <1>4, <1>5 DEF MessengerStep, HeardOf, Message
<1> QED
  BY <1>6 DEF MessengerSteps

LEMMA RedoMessageStep ==
  ASSUME NEW m \in Msgs, TypeOK, RedoMessage(m)
  PROVE  MessengerSteps(m)
<1> DEFINE r == messenger[m]
           s == [r EXCEPT !.af = IF r.acked THEN @ \cup {r.tx} ELSE @]
           S == {TxPkt(m, s, s.tx)}
<1>1. r \in MessengerRecords(m) /\ r.state = "active"
  BY DEF TypeOK, RedoMessage, Active
<1>2. /\ s \in MessengerRecords(m) /\ s.state = "active" /\ s.acked = r.acked
      /\ s.af # {} => r.acked \/ r.af # {}
  BY <1>1 DEF MessengerRecords
<1>3. s.tx \in Segs(m)
  BY <1>2 DEF MessengerRecords
<1>4. messenger' = [messenger EXCEPT ![m] = s] /\ Transmit(S, net)
  BY DEF RedoMessage
<1> HIDE DEF s
<1>5. S \in SUBSET MessagePkts(m) /\ \A p \in S : p.af => s.af # {}
  BY <1>3, TxPktType
<1> HIDE DEF S
<1>6. net' \subseteq net \cup S
  BY <1>4, TransmitEffect
<1>7. MessengerStep(m, s, S)
  BY <1>1, <1>2, <1>4, <1>5, <1>6 DEF MessengerStep, HeardOf, RedoMessage
<1> QED
  BY <1>2, <1>5, <1>7 DEF MessengerSteps

LEMMA TimeoutMessageStep ==
  ASSUME NEW m \in Msgs, TypeOK, TimeoutMessage(m)
  PROVE  MessengerSteps(m)
<1> DEFINE s == [messenger[m] EXCEPT !.state = "timedout"]
<1>1. messenger[m] \in MessengerRecords(m) /\ messenger[m].state = "active"
  BY DEF TypeOK, TimeoutMessage, Active
<1>2. /\ s \in MessengerRecords(m) /\ s.state = "timedout"
      /\ s.acked = messenger[m].acked /\ s.af = messenger[m].af
  BY <1>1 DEF MessengerRecords, MessengerStates
<1>3. messenger' = [messenger EXCEPT ![m] = s] /\ net' = net
  BY DEF TimeoutMessage, Remove
<1> HIDE DEF s
<1>4. MessengerStep(m, s, {})
  BY <1>1, <1>2, <1>3 DEF MessengerStep, HeardOf, TimeoutMessage
<1> QED
  BY <1>2, <1>4 DEF MessengerSteps

(* Reading an answer: whatever follows, the correspondent has seen m. *)
LEMMA ReceiveTxStep ==
  ASSUME NEW m \in Msgs, NEW p \in net, p.m = m, NEW copies,
         TypeOK, Active(m), ReceiveTx(p, copies)
  PROVE  MessengerSteps(m)
<1> DEFINE path == net \ ({p} \ copies)
           r == messenger[m]
<1>1. /\ r \in MessengerRecords(m) /\ r.state = "active"
      /\ MessengerReceive(p, path) /\ path \subseteq net /\ ToTx(p) /\ HeardOf(m)
      /\ UNCHANGED <<messengent, doneTransactions, delivered, allowed, lossy, forgotten>>
  BY DEF TypeOK, Active, ReceiveTx, HeardOf
<1>a. p \in Packets
  BY DEF TypeOK
<1> HIDE DEF path
<1> SUFFICES ASSUME TRUE
             PROVE \E s \in MessengerRecords(m), S \in SUBSET MessagePkts(m) :
                     /\ messenger' = [messenger EXCEPT ![m] = s]
                     /\ net' \subseteq path \cup S
                     /\ s.state # "idle" /\ (S # {} => s.state = "active")
                     /\ s.state = "done" => DonePkt(m) \in net
                     /\ s.state = "rejected" => NackPkt(m, "tx") \in net
  BY <1>1 DEF MessengerSteps, MessengerStep
<1>2. CASE p.pk = "ack"
  <2> DEFINE r1 == [r EXCEPT !.acked = TRUE]
             r2 == [r1 EXCEPT !.current = Min({@, p.sn + 1})]
  <2>1. p.sn \in Segs(m)
    BY <1>a, <1>2 DEF Packets, ReplyPkts, MessagePkts, MessagePkt, AckPkt, ResendPkt, DonePkt, NackPkt
  <2>2. r1 \in MessengerRecords(m) /\ r1.state = "active"
    BY <1>1 DEF MessengerRecords
  <2>3. Min({r.current, p.sn + 1}) \in 0 .. SegCount[m]
    <3>1. r.current \in 0 .. SegCount[m] /\ p.sn + 1 \in 0 .. SegCount[m] /\ SegCount[m] \in Nat
      BY <1>1, <2>1, SegCountAssumption DEF MessengerRecords, Segs
    <3>2. {r.current, p.sn + 1} \in SUBSET Nat
      BY <3>1
    <3>3. Min({r.current, p.sn + 1}) \in {r.current, p.sn + 1}
      BY <3>2, MinOfNats
    <3> QED
      BY <3>1, <3>3
  <2>4. r2 \in MessengerRecords(m) /\ r2.state = "active"
    BY <2>2, <2>3 DEF MessengerRecords
  <2>5. Another(m, p.sn, path)
    BY <1>1, <1>2 DEF MessengerReceive
  <2>6. CASE r1.misseds # {}
    <3>1. SendMisseds(m, r1, path)
      BY <2>5, <2>6 DEF Another
    <3> HIDE DEF r1
    <3> QED
      BY <2>2, <3>1, SendMissedsEffect
  <2>7. CASE r1.misseds = {} /\ r2.current < SegCount[m]
    <3>1. SendBurst(m, r2, path)
      BY <2>5, <2>7 DEF Another
    <3>2. [r EXCEPT !.state = "unallowed"].state = "unallowed"
      BY <1>1 DEF MessengerRecords
    <3> HIDE DEF r1, r2
    <3>3. PICK s \in MessengerRecords(m), S \in SUBSET MessagePkts(m) :
           /\ messenger' = [messenger EXCEPT ![m] = s]
           /\ net' \subseteq path \cup S
           /\ \/ s.state = r2.state /\ s.acked = r2.acked /\ s.af = r2.af
              \/ S = {} /\ s = [messenger[m] EXCEPT !.state = "unallowed"]
           /\ \A q \in S : q.af => r2.af # {}
      BY <2>4, <2>7, <3>1, SendBurstEffect
    <3> QED
      BY <2>4, <3>2, <3>3
  <2>8. CASE r1.misseds = {} /\ ~(r2.current < SegCount[m])
    <3>1. messenger' = [messenger EXCEPT ![m] = r2] /\ net' = path
      BY <2>5, <2>8 DEF Another
    <3> QED
      BY <2>4, <3>1
  <2> QED
    BY <2>6, <2>7, <2>8
<1>3. CASE p.pk = "resend"
  <2> DEFINE r1 == [r EXCEPT !.acked = TRUE, !.misseds = @ \cup p.misseds]
  <2>1. p.misseds \subseteq Segs(m)
    BY <1>a, <1>3 DEF Packets, ReplyPkts, MessagePkts, MessagePkt, AckPkt, ResendPkt, DonePkt, NackPkt
  <2>2. r1 \in MessengerRecords(m) /\ r1.state = "active"
    BY <1>1, <2>1 DEF MessengerRecords
  <2>3. SendMisseds(m, r1, path)
    BY <1>1, <1>3 DEF MessengerReceive, Resend
  <2> HIDE DEF r1
  <2> QED
    BY <2>2, <2>3, SendMissedsEffect
<1>4. CASE p.pk = "done"
  <2>1. p = DonePkt(m)
    BY <1>a, <1>4 DEF Packets, ReplyPkts, MessagePkts, MessagePkt, AckPkt, ResendPkt, DonePkt, NackPkt
  <2> DEFINE t == [r EXCEPT !.state = "done"]
  <2>2. messenger' = [messenger EXCEPT ![m] = t] /\ net' = path
    BY <1>1, <1>4 DEF MessengerReceive, Remove
  <2>3. t \in MessengerRecords(m) /\ t.state = "done"
    BY <1>1 DEF MessengerRecords, MessengerStates
  <2> HIDE DEF t
  <2>4. {} \in SUBSET MessagePkts(m) /\ net' \subseteq path \cup {}
    BY <2>2
  <2> QED
    BY <2>1, <2>2, <2>3, <2>4
<1>5. CASE p.pk = "nack"
  <2>1. p = NackPkt(m, "tx")
    BY <1>a, <1>1, <1>5
    DEF ToTx, Packets, ReplyPkts, MessagePkts, MessagePkt, AckPkt, ResendPkt, DonePkt, NackPkt
  <2> DEFINE t == [r EXCEPT !.state = "rejected"]
  <2>2. messenger' = [messenger EXCEPT ![m] = t] /\ net' = path
    BY <1>1, <1>5 DEF MessengerReceive, Remove
  <2>3. t \in MessengerRecords(m) /\ t.state = "rejected"
    BY <1>1 DEF MessengerRecords, MessengerStates
  <2> HIDE DEF t
  <2>4. {} \in SUBSET MessagePkts(m) /\ net' \subseteq path \cup {}
    BY <2>2
  <2> QED
    BY <2>1, <2>2, <2>3, <2>4
<1> QED
  BY <1>1, <1>2, <1>3, <1>4, <1>5 DEF MessengerReceive

(* What a Messengent asks with. *)
Questions(m) == {AckPkt(m, s) : s \in Segs(m)} \cup {ResendPkt(m, M) : M \in SUBSET Segs(m)}

(* AskMore keeps the transaction alive and sends only questions. *)
LEMMA AskMoreEffect ==
  ASSUME NEW m \in Msgs, NEW r \in MessengentRecords(m), NEW path, AskMore(m, r, path)
  PROVE  \E s \in MessengentRecords(m) :
           /\ messengent' = [messengent EXCEPT ![m] = s]
           /\ s.live = r.live
           /\ net' \subseteq path \cup Questions(m)
           /\ UNCHANGED doneTransactions
<1> DEFINE missed == Missing(r)
           s == [r EXCEPT !.lowest = IF missed = {} THEN @ ELSE Min(missed)]
           S == IF missed = {} THEN {AckPkt(m, r.highest)} ELSE ResendPkts(m, missed)
<1>1. missed \in SUBSET Segs(m) /\ missed \in SUBSET Nat
  BY SegCountAssumption DEF Missing, MessengentRecords, Segs
<1>2. missed # {} => Min(missed) \in Segs(m)
  BY <1>1, MinOfNats
<1>3. messengent' = [messengent EXCEPT ![m] = s] /\ UNCHANGED doneTransactions /\ Transmit(S, path)
  BY DEF AskMore
<1>4. S \subseteq Questions(m)
  BY <1>1 DEF ResendPkts, Questions, MessengentRecords
<1> HIDE DEF missed, S
<1>5. s \in MessengentRecords(m) /\ s.live = r.live
  BY <1>2 DEF MessengentRecords
<1> HIDE DEF s
<1> QED
  BY <1>3, <1>4, <1>5, TransmitEffect

-----------------------------------------------------------------------------
(* A correspondent's step for m, by kind.                                   *)

(* It is at work, before or after: asks or just collects. *)
Working(m) ==
  \E s \in MessengentRecords(m) :
    /\ messengent' = [messengent EXCEPT ![m] = s] /\ s.live
    /\ net' \subseteq net \cup Questions(m)
    /\ UNCHANGED <<messenger, doneTransactions, delivered, allowed, lossy, forgotten>>

(* It ends m with S as its last word. *)
Ending(m, S) ==
  /\ RemoveCorrespondent(m)
  /\ net' \subseteq net \cup S
  /\ UNCHANGED <<messenger, allowed, lossy, forgotten>>

(* A packet of m that was read tells that m has been started. *)
CorrespondentSteps(m) ==
  \/ Working(m) /\ (Live(m) \/ (~Closed(m) /\ ~Untouched(m)))
  \/ Ending(m, {NackPkt(m, "tx")}) /\ ~allowed["rx"] /\ UNCHANGED delivered /\ ~Untouched(m)
  \/ /\ Ending(m, {DonePkt(m)})
     /\ delivered' = [delivered EXCEPT ![m] = @ + 1]
     /\ ~Closed(m) /\ ~Untouched(m)
  \/ Ending(m, {}) /\ NackPkt(m, "rx") \in net /\ UNCHANGED delivered
  \/ /\ ~Live(m) /\ (m \in doneTransactions \/ HeardOf(m))
     /\ net' \subseteq net \cup {NackPkt(m, "tx")}
     /\ UNCHANGED <<messenger, messengent, doneTransactions, delivered, allowed, lossy, forgotten>>
  \/ /\ net' \subseteq net
     /\ UNCHANGED <<messenger, messengent, doneTransactions, delivered, allowed, lossy, forgotten>>

LEMMA RedoAskStep ==
  ASSUME NEW m \in Msgs, TypeOK, RedoAsk(m)
  PROVE  CorrespondentSteps(m)
<1>1. messengent[m] \in MessengentRecords(m) /\ messengent[m].live
  BY DEF TypeOK, RedoAsk, Live
<1>2. AskMore(m, messengent[m], net)
  BY DEF RedoAsk
<1> QED
  BY <1>1, <1>2, AskMoreEffect DEF CorrespondentSteps, Working, RedoAsk

(* Collecting a segment: refused, the last one, or one of several. *)
LEMMA CollectStep ==
  ASSUME NEW m \in Msgs, NEW p \in net, p.m = m, p.pk = "message", p.sn \in Segs(m),
         NEW path, path \subseteq net, TypeOK, Collect(m, p, path),
         Live(m) \/ ~IsStale(p), UNCHANGED <<messenger, allowed, lossy, forgotten>>
  PROVE  CorrespondentSteps(m)
<1>1. ~Untouched(m) /\ ~Closed(m)
  BY DEF Untouched, Closed, Quiet, OutOfNet, IsStale
<1> DEFINE r == Parse(messengent[m], p.sn)
<1>2. CASE ~allowed["rx"]
  BY <1>1, <1>2, TransmitEffect DEF Collect, CorrespondentSteps, Ending
<1>3. CASE allowed["rx"] /\ r.segs = Segs(m)
  BY <1>1, <1>3, TransmitEffect DEF Collect, CorrespondentSteps, Ending
<1>4. CASE allowed["rx"] /\ r.segs # Segs(m)
  <2>1. messengent[m] \in MessengentRecords(m)
    BY DEF TypeOK
  <2>2. Max({messengent[m].highest, p.sn}) \in Segs(m)
    <3>1. messengent[m].highest \in Nat /\ p.sn \in Nat
      BY <2>1, SegCountAssumption DEF MessengentRecords, Segs
    <3>2. Max({messengent[m].highest, p.sn}) \in {messengent[m].highest, p.sn}
      BY <3>1 DEF Max
    <3> QED
      BY <2>1, <3>2 DEF MessengentRecords
  <2>3. r \in MessengentRecords(m) /\ r.live
    BY <2>1, <2>2 DEF Parse, MessengentRecords
  <2>4. \/ p.wf /\ AskMore(m, r, path)
        \/ messengent' = [messengent EXCEPT ![m] = r] /\ net' = path /\ UNCHANGED doneTransactions
    BY <1>4 DEF Collect
  <2>5. UNCHANGED delivered
    BY <1>4 DEF Collect
  <2> HIDE DEF r
  <2>6. Working(m)
    <3>1. CASE AskMore(m, r, path)
      BY <2>3, <2>5, <3>1, AskMoreEffect DEF Working
    <3>2. CASE messengent' = [messengent EXCEPT ![m] = r] /\ net' = path /\ UNCHANGED doneTransactions
      BY <2>3, <2>5, <3>2 DEF Working
    <3> QED
      BY <2>4, <3>1, <3>2
  <2> QED
    BY <1>1, <2>6 DEF CorrespondentSteps
<1> QED
  BY <1>2, <1>3, <1>4

LEMMA ReceiveRxStep ==
  ASSUME NEW m \in Msgs, NEW p \in net, p.m = m, NEW copies, TypeOK, ReceiveRx(p, copies)
  PROVE  CorrespondentSteps(m)
<1> DEFINE path == net \ ({p} \ copies)
<1>1. /\ path \subseteq net /\ MessengentReceive(p, path) /\ ~ToTx(p)
      /\ UNCHANGED <<messenger, allowed, lossy, forgotten>>
  BY DEF ReceiveRx
<1>2. p \in Packets
  BY DEF TypeOK
<1> HIDE DEF path
<1>3. CASE p.pk = "message" /\ (Live(m) \/ ~IsStale(p)) /\ Collect(m, p, path)
  <2>1. p.sn \in Segs(m)
    BY <1>2, <1>3 DEF Packets, ReplyPkts, MessagePkts, MessagePkt, AckPkt, ResendPkt, DonePkt, NackPkt
  <2> QED
    BY <1>1, <1>3, <2>1, CollectStep
<1>4. CASE p.pk = "message" /\ ~Live(m) /\ IsStale(p) /\ ReplyStale(p, path)
  <2>1. m \in doneTransactions \/ HeardOf(m)
    BY <1>4 DEF IsStale, HeardOf
  <2>2. net' \subseteq net \cup {NackPkt(m, "tx")}
    BY <1>1, <1>4, TransmitEffect DEF ReplyStale
  <2> QED
    BY <1>1, <1>4, <2>1, <2>2 DEF CorrespondentSteps, ReplyStale
<1>5. CASE p.pk = "nack" /\ Live(m) /\ RemoveCorrespondent(m) /\ net' = path /\ UNCHANGED delivered
  <2>1. p = NackPkt(m, "rx")
    BY <1>1, <1>2, <1>5
    DEF ToTx, Packets, ReplyPkts, MessagePkts, MessagePkt, AckPkt, ResendPkt, DonePkt, NackPkt
  <2> QED
    BY <1>1, <1>5, <2>1 DEF CorrespondentSteps, Ending
<1>6. CASE /\ p.pk = "nack" /\ ~Live(m) /\ net' = path
           /\ UNCHANGED <<messengent, doneTransactions, delivered>>
  BY <1>1, <1>6 DEF CorrespondentSteps
<1> QED
  BY <1>1, <1>3, <1>4, <1>5, <1>6 DEF MessengentReceive

-----------------------------------------------------------------------------
(* Every step is one of these.                                              *)

(* The Staler's nack. *)
Staling(m) ==
  /\ ~Active(m) /\ ~Untouched(m)
  /\ net' \subseteq net \cup {NackPkt(m, "rx")}
  /\ UNCHANGED <<messenger, messengent, doneTransactions, delivered, allowed, lossy, forgotten>>

(* Environment: losses, the end of losses, and the end of being allowed. *)
Outside ==
  /\ net' \subseteq net
  /\ lossy' \in BOOLEAN
  /\ allowed' \in [{"tx", "rx"} -> BOOLEAN] /\ (allowed'["rx"] => allowed["rx"])
  /\ UNCHANGED <<messenger, messengent, doneTransactions, delivered, forgotten>>

LEMMA PacketOfMessage ==
  ASSUME NEW p \in Packets
  PROVE  p.m \in Msgs
BY DEF Packets, ReplyPkts, MessagePkts, MessagePkt, AckPkt, ResendPkt, DonePkt, NackPkt

LEMMA StepCases ==
  ASSUME TypeOK, Next
  PROVE  \/ \E m \in Msgs : MessengerSteps(m) \/ CorrespondentSteps(m) \/ Staling(m) \/ CleanupDone(m)
         \/ Outside
<1>1. ASSUME NEW m \in Msgs,
             Message(m) \/ RedoMessage(m) \/ TimeoutMessage(m) \/ RedoAsk(m) \/ CleanupDone(m)
      PROVE  MessengerSteps(m) \/ CorrespondentSteps(m) \/ CleanupDone(m)
  BY <1>1, MessageStep, RedoMessageStep, TimeoutMessageStep, RedoAskStep
<1>2. ASSUME NEW p \in net, NEW copies, ReceiveTx(p, copies)
      PROVE  \E m \in Msgs : MessengerSteps(m) \/ Staling(m)
  <2>1. p.m \in Msgs
    BY PacketOfMessage DEF TypeOK
  <2>2. CASE Active(p.m)
    BY <1>2, <2>1, <2>2, ReceiveTxStep
  <2>3. CASE ~Active(p.m)
    <3>1. Stale(p, net \ ({p} \ copies)) /\ UNCHANGED <<messengent, doneTransactions, delivered, allowed, lossy, forgotten>>
      BY <1>2, <2>3 DEF ReceiveTx
    <3>2. net' \subseteq net \cup {NackPkt(p.m, "rx")} /\ UNCHANGED messenger
      BY <3>1, TransmitEffect DEF Stale
    <3>3. ~Untouched(p.m)
      BY DEF Untouched
    <3> QED
      BY <2>1, <2>3, <3>1, <3>2, <3>3 DEF Staling
  <2> QED
    BY <2>2, <2>3
<1>3. ASSUME NEW p \in net, NEW copies, ReceiveRx(p, copies)
      PROVE  \E m \in Msgs : CorrespondentSteps(m)
  <2>1. p.m \in Msgs
    BY PacketOfMessage DEF TypeOK
  <2> QED
    BY <1>3, <2>1, ReceiveRxStep
<1>4. ASSUME NEW p \in net, Lose(p) PROVE Outside
  BY <1>4 DEF Lose, Outside, TypeOK
<1>5. ASSUME NEW side \in Unallowable, Unallow(side) PROVE Outside
  BY <1>5, SidesAssumption DEF Unallow, Outside, TypeOK
<1>6. ASSUME Recover PROVE Outside
  BY <1>6 DEF Recover, Outside, TypeOK
<1> QED
  BY <1>1, <1>2, <1>3, <1>4, <1>5, <1>6 DEF Next

-----------------------------------------------------------------------------
(* Types.                                                                   *)

LEMMA PacketTypes ==
  ASSUME NEW m \in Msgs
  PROVE  /\ MessagePkts(m) \subseteq Packets
         /\ Questions(m) \subseteq Packets
         /\ {DonePkt(m), NackPkt(m, "tx"), NackPkt(m, "rx")} \subseteq Packets
BY DEF Packets, ReplyPkts, Questions

LEMMA InitTypeOK == Init => TypeOK
<1> SUFFICES ASSUME Init PROVE TypeOK
  OBVIOUS
<1>1. ASSUME NEW m \in Msgs
      PROVE  NoMessenger \in MessengerRecords(m) /\ NoMessengent \in MessengentRecords(m)
  <2>1. SegCount[m] \in Nat /\ SegCount[m] > 0
    BY SegCountAssumption
  <2>2. 0 \in Segs(m) /\ 0 \in 0 .. SegCount[m]
    BY <2>1 DEF Segs
  <2> QED
    BY <2>2 DEF NoMessenger, NoMessengent, MessengerRecords, MessengentRecords, MessengerStates
<1> QED
  BY <1>1 DEF Init, TypeOK

LEMMA NextTypeOK == TypeOK /\ [Next]_vars => TypeOK'
<1> SUFFICES ASSUME TypeOK, [Next]_vars PROVE TypeOK'
  OBVIOUS
<1>1. ASSUME NEW m \in Msgs, MessengerSteps(m) PROVE TypeOK'
  <2>1. PICK s \in MessengerRecords(m), S \in SUBSET MessagePkts(m) : MessengerStep(m, s, S)
    BY <1>1 DEF MessengerSteps
  <2> QED
    BY <2>1, PacketTypes DEF MessengerStep, TypeOK
<1>2. ASSUME NEW m \in Msgs, CorrespondentSteps(m) PROVE TypeOK'
  <2>1. NoMessengent \in MessengentRecords(m)
    <3>1. SegCount[m] \in Nat /\ SegCount[m] > 0
      BY SegCountAssumption
    <3> QED
      BY <3>1 DEF NoMessengent, MessengentRecords, Segs
  <2>2. CASE Working(m)
    BY <2>2, PacketTypes DEF Working, TypeOK
  <2>3. ASSUME NEW S, S \subseteq Packets, Ending(m, S),
               delivered' \in [Msgs -> Nat]
        PROVE  TypeOK'
    BY <2>1, <2>3 DEF Ending, RemoveCorrespondent, TypeOK
  <2>4. CASE /\ net' \subseteq net \cup {NackPkt(m, "tx")}
             /\ UNCHANGED <<messenger, messengent, doneTransactions, delivered, allowed, lossy, forgotten>>
    BY <2>4, PacketTypes DEF TypeOK
  <2>5. delivered \in [Msgs -> Nat] /\ [delivered EXCEPT ![m] = @ + 1] \in [Msgs -> Nat]
    BY DEF TypeOK
  <2> QED
    BY <1>2, <2>2, <2>3, <2>4, <2>5, PacketTypes DEF CorrespondentSteps
<1>3. ASSUME NEW m \in Msgs, Staling(m) PROVE TypeOK'
  BY <1>3, PacketTypes DEF Staling, TypeOK
<1>4. ASSUME NEW m \in Msgs, CleanupDone(m) PROVE TypeOK'
  BY <1>4 DEF CleanupDone, TypeOK
<1>5. ASSUME Outside PROVE TypeOK'
  BY <1>5 DEF Outside, TypeOK
<1>6. ASSUME UNCHANGED vars PROVE TypeOK'
  BY <1>6 DEF vars, TypeOK
<1> QED
  BY <1>1, <1>2, <1>3, <1>4, <1>5, <1>6, StepCases

(* Every reachable state has the shape TypeOK says: in particular no handler
   asks for, sends or counts a segment the message does not have. *)
THEOREM TypeCorrect == Spec => []TypeOK
<1>1. Init => TypeOK
  BY InitTypeOK
<1>2. TypeOK /\ [Next]_vars => TypeOK'
  BY NextTypeOK
<1> QED
  BY <1>1, <1>2, PTL DEF Spec

-----------------------------------------------------------------------------
(* The invariant.                                                           *)

(* What does not touch m, but may lose its packets or stop allowing, keeps
   MsgInv(m). *)
LEMMA Frame ==
  ASSUME NEW m \in Msgs, MsgInv(m),
         messenger'[m] = messenger[m], messengent'[m] = messengent[m],
         m \in doneTransactions' <=> m \in doneTransactions,
         m \in forgotten' <=> m \in forgotten,
         delivered'[m] = delivered[m],
         allowed'["rx"] => allowed["rx"],
         \A p \in net' : p.m = m => p \in net
  PROVE  MsgInv(m)'
<1>1. NackPkt(m, "tx").m = m /\ NackPkt(m, "rx").m = m /\ DonePkt(m).m = m
  BY DEF NackPkt, DonePkt
<1>2. HeardOf(m)' => HeardOf(m)
  BY DEF HeardOf, ToTx
<1>3. Closed(m) => Closed(m)'
  BY DEF Closed, Live, Quiet, Gone, OutOfNet
<1>4. Closed(m)' /\ ~Closed(m) => Gone(m)'
  BY DEF Closed, Live, Quiet, Gone
<1>5. Excused(m) => Excused(m)'
  BY DEF Excused
<1>6. Gone(m) <=> Gone(m)'
  BY DEF Gone
<1>7. Untouched(m) => Untouched(m)'
  BY DEF Untouched
<1>8. Live(m)' <=> Live(m)
  BY DEF Live
<1>9. Remembered(m) => Remembered(m)'
  BY <1>1, <1>2, <1>3, <1>4, <1>5, <1>6, <1>8 DEF Remembered
<1> QED
  BY <1>1, <1>5, <1>6, <1>7, <1>8, <1>9 DEF MsgInv

(* An untouched message has not been heard of. *)
LEMMA UntouchedNotHeardOf ==
  ASSUME NEW m \in Msgs, Untouched(m)
  PROVE  ~HeardOf(m) /\ ~Live(m) /\ ~Closed(m)
BY DEF Untouched, HeardOf, Live, Closed, Quiet, Gone, NoMessenger, NoMessengent

LEMMA MessengerInv ==
  ASSUME NEW m \in Msgs, TypeOK, MsgInv(m), MessengerSteps(m)
  PROVE  MsgInv(m)'
<1>1. PICK s \in MessengerRecords(m), S \in SUBSET MessagePkts(m) : MessengerStep(m, s, S)
  BY DEF MessengerSteps
<1>2. messenger'[m] = s
  BY <1>1 DEF MessengerStep, TypeOK
<1>3. \A p \in S : p.pk = "message"
  BY DEF MessagePkts, MessagePkt
<1>4. /\ DonePkt(m) \in net' => DonePkt(m) \in net
      /\ NackPkt(m, "tx") \in net' => NackPkt(m, "tx") \in net
      /\ NackPkt(m, "rx") \in net' => NackPkt(m, "rx") \in net
  BY <1>1, <1>3 DEF MessengerStep, DonePkt, NackPkt
<1>5. ~Gone(m) /\ (Live(m)' <=> Live(m)) /\ (Excused(m)' <=> Excused(m))
  BY <1>1 DEF MessengerStep, Gone, Live, Excused
<1>6. HeardOf(m)' => HeardOf(m)
  <2>1. ASSUME NEW p \in net', p.m = m, ToTx(p) \/ (p.pk = "message" /\ p.af)
        PROVE  HeardOf(m)
    <3>1. CASE p \in net
      BY <2>1, <3>1 DEF HeardOf
    <3>2. CASE p \in S
      BY <1>1, <1>3, <2>1, <3>2 DEF MessengerStep, ToTx
    <3> QED
      BY <1>1, <3>1, <3>2 DEF MessengerStep
  <2> QED
    BY <1>1, <1>2, <2>1 DEF HeardOf, MessengerStep, ToTx
<1>7. Closed(m) => Closed(m)'
  BY <1>1, <1>5 DEF Closed, Quiet, MessengerStep
<1>8. Closed(m)' => Closed(m) \/ Gone(m)'
  BY <1>1, <1>5 DEF Closed, Quiet, MessengerStep
<1>9. s.state = "rejected" => Excused(m)
  <2>1. NackPkt(m, "tx") \in net /\ m \notin forgotten => Excused(m)
    BY <1>5 DEF MsgInv, Remembered
  <2>2. m \in forgotten => Excused(m)
    BY DEF MsgInv
  <2> QED
    BY <1>1, <2>1, <2>2 DEF MessengerStep
<1>10. /\ delivered' = delivered /\ s.state # "idle"
       /\ s.state = "done" => delivered[m] > 0
       /\ UNCHANGED <<doneTransactions, forgotten>>
  BY <1>1 DEF MessengerStep, MsgInv
<1>11. NackPkt(m, "rx") \notin net'
  BY <1>4, <1>5 DEF MsgInv
<1>12. Remembered(m) => Remembered(m)'
  BY <1>4, <1>5, <1>6, <1>7, <1>8, <1>10 DEF Remembered
<1> QED
  BY <1>2, <1>4, <1>5, <1>9, <1>10, <1>11, <1>12 DEF MsgInv

LEMMA CorrespondentInv ==
  ASSUME NEW m \in Msgs, TypeOK, MsgInv(m), CorrespondentSteps(m)
  PROVE  MsgInv(m)'
<1>1. CASE Working(m) /\ (Live(m) \/ (~Closed(m) /\ ~Untouched(m)))
  <2>1. /\ Live(m)' /\ UNCHANGED <<messenger, delivered, doneTransactions, forgotten>>
        /\ net' \subseteq net \cup Questions(m)
    BY <1>1 DEF Working, Live, TypeOK
  <2>2. ~Closed(m) /\ ~Untouched(m)
    BY <1>1, UntouchedNotHeardOf DEF Closed
  <2>3. \A p \in Questions(m) : p.pk \in {"ack", "resend"}
    BY DEF Questions, AckPkt, ResendPkt
  <2>4. /\ DonePkt(m) \in net' => DonePkt(m) \in net
        /\ NackPkt(m, "tx") \in net' => NackPkt(m, "tx") \in net
        /\ NackPkt(m, "rx") \in net' => NackPkt(m, "rx") \in net
    BY <2>1, <2>3 DEF DonePkt, NackPkt
  <2>5. ~Closed(m)' /\ (Gone(m)' <=> Gone(m)) /\ (Excused(m) => Excused(m)')
    BY <1>1, <2>1 DEF Closed, Gone, Excused, Working
  <2>6. m \notin doneTransactions
    BY <1>1 DEF MsgInv, Closed
  <2>7. Remembered(m) => Remembered(m)'
    BY <2>1, <2>2, <2>4, <2>5 DEF Remembered
  <2> QED
    BY <2>1, <2>2, <2>4, <2>5, <2>6, <2>7 DEF MsgInv
<1>2. ASSUME NEW S \in {{NackPkt(m, "tx")}, {DonePkt(m)}, {}}, Ending(m, S), ~Untouched(m),
             m \in forgotten \/ delivered'[m] \in {delivered[m], 1},
             Excused(m)' \/ Gone(m), Excused(m) => Excused(m)',
             delivered[m] > 0 => delivered'[m] > 0,
             S = {DonePkt(m)} => delivered'[m] > 0
      PROVE  MsgInv(m)'
  <2>1. /\ Closed(m)' /\ messenger' = messenger /\ forgotten' = forgotten
        /\ net' \subseteq net \cup S
    BY <1>2 DEF Ending, RemoveCorrespondent, Closed, Live, NoMessengent, TypeOK
  <2>2. NackPkt(m, "rx") \in net' => NackPkt(m, "rx") \in net
    BY <1>2, <2>1 DEF NackPkt, DonePkt
  <2>3. DonePkt(m) \in net' => DonePkt(m) \in net \/ delivered'[m] > 0
    BY <1>2, <2>1 DEF NackPkt, DonePkt
  <2>4. Gone(m)' <=> Gone(m)
    BY <2>1 DEF Gone
  <2>5. m \notin forgotten => Remembered(m)'
    BY <1>2, <2>1, <2>4 DEF MsgInv, Remembered
  <2>6. ~Live(m)'
    BY <2>1 DEF Closed
  <2> QED
    BY <1>2, <2>1, <2>2, <2>3, <2>4, <2>5, <2>6 DEF MsgInv
<1>3. CASE /\ Ending(m, {NackPkt(m, "tx")}) /\ ~allowed["rx"]
           /\ UNCHANGED delivered /\ ~Untouched(m)
  <2>0. NackPkt(m, "tx").pk # DonePkt(m).pk
    BY DEF NackPkt, DonePkt
  <2>1. {NackPkt(m, "tx")} # {DonePkt(m)}
    BY <2>0
  <2> QED
    BY <1>2, <1>3, <2>1 DEF Ending, Excused
<1>4. CASE /\ Ending(m, {DonePkt(m)})
           /\ delivered' = [delivered EXCEPT ![m] = @ + 1]
           /\ ~Closed(m) /\ ~Untouched(m)
  <2>1. delivered[m] \in Nat /\ delivered'[m] = delivered[m] + 1
    BY <1>4 DEF TypeOK
  <2>2. m \in forgotten \/ delivered[m] = 0
    BY <1>4 DEF MsgInv, Remembered
  <2> QED
    BY <1>2, <1>4, <2>1, <2>2 DEF Excused
<1>5. CASE Ending(m, {}) /\ NackPkt(m, "rx") \in net /\ UNCHANGED delivered
  <2>1. Gone(m) /\ ~Untouched(m)
    BY <1>5 DEF MsgInv, Gone, Untouched, NoMessenger
  <2> QED
    BY <1>2, <1>5, <2>1 DEF Excused, Ending
<1>6. CASE /\ ~Live(m) /\ (m \in doneTransactions \/ HeardOf(m))
           /\ net' \subseteq net \cup {NackPkt(m, "tx")}
           /\ UNCHANGED <<messenger, messengent, doneTransactions, delivered, allowed, lossy, forgotten>>
  <2>1. ~Untouched(m) /\ (Remembered(m) => Closed(m))
    BY <1>6, UntouchedNotHeardOf DEF Remembered, Closed, Untouched
  <2>2. Closed(m) => Closed(m)'
    BY <1>6 DEF Closed, Quiet, OutOfNet, Gone, Live, NackPkt
  <2>3. /\ DonePkt(m) \in net' => DonePkt(m) \in net
        /\ NackPkt(m, "rx") \in net' => NackPkt(m, "rx") \in net
    BY <1>6 DEF DonePkt, NackPkt
  <2>4. (Gone(m)' <=> Gone(m)) /\ (Excused(m)' <=> Excused(m)) /\ (Live(m)' <=> Live(m))
    BY <1>6 DEF Gone, Excused, Live
  <2>5. Remembered(m) => Remembered(m)'
    BY <1>6, <2>1, <2>2, <2>4 DEF Remembered
  <2> QED
    BY <1>6, <2>1, <2>3, <2>4, <2>5 DEF MsgInv
<1>7. CASE /\ net' \subseteq net
           /\ UNCHANGED <<messenger, messengent, doneTransactions, delivered, allowed, lossy, forgotten>>
  BY <1>7, Frame
<1> QED
  BY <1>1, <1>3, <1>4, <1>5, <1>6, <1>7 DEF CorrespondentSteps

LEMMA StalingInv ==
  ASSUME NEW m \in Msgs, TypeOK, MsgInv(m), Staling(m)
  PROVE  MsgInv(m)'
<1>1. Gone(m) /\ Gone(m)' /\ messenger' = messenger
  BY DEF Staling, MsgInv, Gone, Active
<1>2. /\ DonePkt(m) \in net' => DonePkt(m) \in net
      /\ NackPkt(m, "tx") \in net' => NackPkt(m, "tx") \in net
  BY DEF Staling, DonePkt, NackPkt
<1>3. HeardOf(m)' => HeardOf(m)
  BY <1>1 DEF HeardOf, Staling, ToTx, NackPkt
<1>4. Closed(m) => Closed(m)'
  BY <1>1 DEF Closed, Quiet, OutOfNet, Live, Staling, NackPkt
<1>5. /\ Excused(m) => Excused(m)'
      /\ Live(m)' <=> Live(m)
      /\ UNCHANGED <<delivered, doneTransactions, forgotten>>
  BY DEF Excused, Staling, Live
<1>6. messenger[m].state # "idle"
  BY <1>1 DEF Gone
<1>7. Remembered(m) => Remembered(m)'
  BY <1>1, <1>2, <1>3, <1>4, <1>5 DEF Remembered
<1> QED
  BY <1>1, <1>2, <1>5, <1>6, <1>7 DEF MsgInv

(* Forgetting an id leaves m closed, if its Messenger has finished; otherwise
   the message was done, and is forgotten from now on. *)
LEMMA CleanupInv ==
  ASSUME NEW m \in Msgs, TypeOK, MsgInv(m), CleanupDone(m)
  PROVE  MsgInv(m)'
<1>1. /\ UNCHANGED <<messenger, messengent, delivered, allowed, net>>
      /\ messenger[m].state # "idle" /\ ~Live(m) /\ OutOfNet(m)
      /\ m \in doneTransactions /\ m \notin doneTransactions'
      /\ m \in forgotten' <=> m \in forgotten \/ Active(m)
  BY DEF CleanupDone, MsgInv, Untouched
<1>2. /\ HeardOf(m)' <=> HeardOf(m)
      /\ Excused(m)' <=> Excused(m)
      /\ Live(m)' <=> Live(m)
      /\ Gone(m)' <=> Gone(m)
  BY <1>1 DEF HeardOf, Excused, Live, Gone, ToTx
<1>3. CASE Active(m)
  <2>1. m \notin forgotten /\ ~Gone(m) /\ Closed(m)
    BY <1>1, <1>3 DEF CleanupDone, Active, Gone, Closed
  <2>2. Excused(m)
    BY <2>1 DEF MsgInv, Remembered
  <2> QED
    BY <1>1, <1>2, <1>3, <2>2 DEF MsgInv
<1>4. CASE ~Active(m)
  <2>1. Gone(m) /\ Closed(m)'
    BY <1>1, <1>2, <1>4 DEF Active, Gone, Closed, Quiet, OutOfNet
  <2>2. Remembered(m) => Remembered(m)'
    BY <1>1, <1>2, <2>1 DEF Remembered
  <2> QED
    BY <1>1, <1>2, <1>4, <2>2 DEF MsgInv
<1> QED
  BY <1>3, <1>4

(* A step for one message leaves the others' packets and state alone. *)
LEMMA OthersInv ==
  ASSUME NEW m \in Msgs, NEW n \in Msgs, n # m, TypeOK, MsgInv(n),
         MessengerSteps(m) \/ CorrespondentSteps(m) \/ Staling(m) \/ CleanupDone(m)
  PROVE  MsgInv(n)'
<1>1. /\ messenger'[n] = messenger[n] /\ messengent'[n] = messengent[n]
      /\ n \in doneTransactions' <=> n \in doneTransactions
      /\ n \in forgotten' <=> n \in forgotten
      /\ delivered'[n] = delivered[n] /\ allowed' = allowed
  BY DEF TypeOK, MessengerSteps, MessengerStep, CorrespondentSteps, Working, Ending,
         RemoveCorrespondent, Staling, CleanupDone
<1>2. \A p \in net' : p \in net \/ p.m = m
  <2>1. \A p \in MessagePkts(m) \cup Questions(m) : p.m = m
    BY DEF MessagePkts, MessagePkt, Questions, AckPkt, ResendPkt
  <2>2. NackPkt(m, "rx").m = m /\ NackPkt(m, "tx").m = m /\ DonePkt(m).m = m
    BY DEF NackPkt, DonePkt
  <2>3. CASE MessengerSteps(m)
    BY <2>1, <2>3 DEF MessengerSteps, MessengerStep
  <2>4. CASE CorrespondentSteps(m)
    BY <2>1, <2>2, <2>4 DEF CorrespondentSteps, Working, Ending
  <2>5. CASE Staling(m) \/ CleanupDone(m)
    BY <2>2, <2>5 DEF Staling, CleanupDone
  <2> QED
    BY <2>3, <2>4, <2>5
<1> QED
  BY <1>1, <1>2, Frame

LEMMA InitIInv == Init => IInv
<1> SUFFICES ASSUME Init, NEW m \in Msgs PROVE MsgInv(m)
  BY InitTypeOK DEF IInv
<1>1. /\ Untouched(m) /\ ~Gone(m) /\ messenger[m].state = "idle" /\ net = {}
      /\ m \notin forgotten
  BY DEF Init, Untouched, Gone, NoMessenger
<1>2. ~HeardOf(m) /\ ~Closed(m) /\ delivered[m] = 0
  BY <1>1, UntouchedNotHeardOf DEF Untouched
<1> QED
  BY <1>1, <1>2 DEF MsgInv, Remembered, Untouched

LEMMA NextIInv == IInv /\ [Next]_vars => IInv'
<1> SUFFICES ASSUME IInv, [Next]_vars PROVE IInv'
  OBVIOUS
<1>1. TypeOK /\ TypeOK' /\ \A m \in Msgs : MsgInv(m)
  BY NextTypeOK DEF IInv
<1>2. ASSUME NEW m \in Msgs,
             MessengerSteps(m) \/ CorrespondentSteps(m) \/ Staling(m) \/ CleanupDone(m),
             NEW n \in Msgs
      PROVE  MsgInv(n)'
  <2>1. CASE n = m
    BY <1>1, <1>2, <2>1, MessengerInv, CorrespondentInv, StalingInv, CleanupInv
  <2>2. CASE n # m
    BY <1>1, <1>2, <2>2, OthersInv
  <2> QED
    BY <2>1, <2>2
<1>3. ASSUME Outside, NEW n \in Msgs PROVE MsgInv(n)'
  BY <1>1, <1>3, Frame DEF Outside
<1>4. ASSUME UNCHANGED vars, NEW n \in Msgs PROVE MsgInv(n)'
  BY <1>1, <1>4, Frame DEF vars
<1>5. \A n \in Msgs : MsgInv(n)'
  BY <1>1, <1>2, <1>3, <1>4, StepCases
<1> QED
  BY <1>1, <1>5 DEF IInv

THEOREM Invariance == Spec => []IInv
<1>1. Init => IInv
  BY InitIInv
<1>2. IInv /\ [Next]_vars => IInv'
  BY NextIInv
<1> QED
  BY <1>1, <1>2, PTL DEF Spec

-----------------------------------------------------------------------------
(* Consequences.                                                            *)

(* A message is handed to the application at most once in a session, however
   often its packets are repeated, unless its id was forgotten there while its
   Messenger was still at work.  TypeOK has that no brief message ever is. *)
THEOREM AtMostOnceTheorem == Spec => []AtMostOnce
<1>1. IInv => AtMostOnce
  BY DEF IInv, MsgInv, Remembered, AtMostOnce
<1> QED
  BY <1>1, Invariance, PTL

(* A message the other stack rejected had been delivered, or that stack had
   stopped allowing messages. *)
THEOREM RejectedTheorem == Spec => []RejectedWasDelivered
<1>1. IInv => RejectedWasDelivered
  BY DEF IInv, MsgInv, RejectedWasDelivered, Excused
<1> QED
  BY <1>1, Invariance, PTL

(* A stale nack to the correspondent never meets a Messenger that is at work,
   and one to the initiator no Messengent, unless the id was forgotten. *)
THEOREM NackTheorem == Spec => []NackMeansGone
<1>1. IInv => NackMeansGone
  BY DEF IInv, MsgInv, Remembered, NackMeansGone, Closed, Gone, Active
<1> QED
  BY <1>1, Invariance, PTL

-----------------------------------------------------------------------------
(* The refinement of Delivery.                                              *)

StatusBar == [m \in Msgs |-> StatusOf(messenger[m])]

(* A handler of one Messenger changes the status of its message only: submits
   it, completes it after its delivery, or gives it up. *)
LEMMA MessengerRefines ==
  ASSUME NEW m \in Msgs, IInv, MessengerSteps(m)
  PROVE  D!DNext \/ UNCHANGED <<StatusBar, delivered, forgotten>>
<1>1. PICK s \in MessengerRecords(m), S \in SUBSET MessagePkts(m) : MessengerStep(m, s, S)
  BY DEF MessengerSteps
<1>2. MsgInv(m) /\ messenger[m] \in MessengerRecords(m) /\ DOMAIN messenger = Msgs
  BY DEF IInv, TypeOK
<1>3. messenger' = [messenger EXCEPT ![m] = s] /\ UNCHANGED <<delivered, forgotten>>
  BY <1>1 DEF MessengerStep
<1>4. StatusBar' = [StatusBar EXCEPT ![m] = StatusOf(s)] /\ StatusBar[m] = StatusOf(messenger[m])
  BY <1>2, <1>3 DEF StatusBar
<1>5. s.state \in {"active", "done", "rejected", "timedout", "unallowed"}
  BY <1>1 DEF MessengerStep, MessengerRecords, MessengerStates
<1>6. s.state = "done" => delivered[m] > 0
  BY <1>1, <1>2 DEF MessengerStep, MsgInv
<1>7. CASE messenger[m].state = "idle"
  <2>1. delivered[m] = 0 /\ s.state # "done"
    BY <1>2, <1>6, <1>7 DEF MsgInv, Untouched
  <2>2. StatusBar[m] = "idle" /\ StatusOf(s) \in {"pending", "failed"}
    BY <1>4, <1>5, <1>7, <2>1 DEF StatusOf
  <2>3. D!Submit(m)
    BY <1>3, <1>4, <2>2 DEF D!Submit, StatusBar
  <2> QED
    BY <2>3 DEF D!DNext
<1>8. CASE messenger[m].state = "active"
  <2>1. StatusBar[m] = "pending"
    BY <1>4, <1>8 DEF StatusOf
  <2>2. CASE s.state = "active"
    <3>1. StatusOf(s) = "pending"
      BY <2>2 DEF StatusOf
    <3>2. StatusBar' = StatusBar
      BY <1>4, <2>1, <3>1 DEF StatusBar
    <3> QED
      BY <1>3, <3>2
  <2>3. CASE s.state = "done"
    <3>1. StatusOf(s) = "done"
      BY <2>3 DEF StatusOf
    <3>2. D!Complete(m)
      BY <1>3, <1>4, <1>6, <2>1, <2>3, <3>1 DEF D!Complete, StatusBar
    <3> QED
      BY <3>2 DEF D!DNext
  <2>4. CASE s.state \notin {"active", "done"}
    <3>1. StatusOf(s) = "failed"
      BY <1>5, <2>4 DEF StatusOf
    <3>2. D!GiveUp(m)
      BY <1>3, <1>4, <2>1, <3>1 DEF D!GiveUp, StatusBar
    <3> QED
      BY <3>2 DEF D!DNext
  <2> QED
    BY <2>2, <2>3, <2>4
<1> QED
  BY <1>1, <1>7, <1>8 DEF MessengerStep, Gone

(* A handler of one Messengent changes delivered at most, once, and only for a
   message that was submitted. *)
LEMMA CorrespondentRefines ==
  ASSUME NEW m \in Msgs, IInv, CorrespondentSteps(m)
  PROVE  D!DNext \/ UNCHANGED <<StatusBar, delivered, forgotten>>
<1>1. MsgInv(m) /\ DOMAIN messenger = Msgs /\ delivered \in [Msgs -> Nat]
  BY DEF IInv, TypeOK
<1>2. UNCHANGED <<messenger, forgotten>>
  BY DEF CorrespondentSteps, Working, Ending, RemoveCorrespondent
<1>3. StatusBar' = StatusBar /\ StatusBar[m] = StatusOf(messenger[m])
  BY <1>2 DEF StatusBar
<1>4. CASE /\ Ending(m, {DonePkt(m)})
           /\ delivered' = [delivered EXCEPT ![m] = @ + 1]
           /\ ~Closed(m) /\ ~Untouched(m)
  <2>1. (delivered[m] = 0 \/ m \in forgotten) /\ messenger[m].state # "idle"
    BY <1>1, <1>4 DEF MsgInv, Remembered
  <2>2. StatusBar[m] # "idle"
    BY <1>3, <2>1 DEF StatusOf
  <2>3. D!Deliver(m)
    BY <1>2, <1>3, <1>4, <2>1, <2>2 DEF D!Deliver, StatusBar
  <2> QED
    BY <2>3 DEF D!DNext
<1>5. CASE UNCHANGED delivered
  BY <1>2, <1>3, <1>5
<1> QED
  BY <1>4, <1>5 DEF CorrespondentSteps, Working

(* Forgetting a done id is of no account once its Messenger has finished. *)
LEMMA CleanupRefines ==
  ASSUME NEW m \in Msgs, CleanupDone(m)
  PROVE  D!DNext \/ UNCHANGED <<StatusBar, delivered, forgotten>>
<1>1. UNCHANGED <<StatusBar, delivered>>
  BY DEF CleanupDone, StatusBar
<1>2. CASE Active(m)
  <2>1. StatusBar[m] = "pending" /\ forgotten' = forgotten \cup {m}
    BY <1>2 DEF CleanupDone, StatusBar, StatusOf, Active
  <2>2. D!Forget(m)
    BY <1>1, <2>1 DEF D!Forget, StatusBar
  <2> QED
    BY <2>2 DEF D!DNext
<1>3. CASE ~Active(m)
  BY <1>1, <1>3 DEF CleanupDone
<1> QED
  BY <1>2, <1>3

(* The message transaction implements Delivery: to both applications, all the
   segments, resends, timers and nacks look like a message that is delivered at
   most once as long as it is remembered, and never completed without having
   been delivered. *)
THEOREM Refinement == Spec => ImplementsDelivery
<1>1. Init => D!DInit
  BY DEF Init, D!DInit, NoMessenger, StatusOf
<1>2. IInv /\ [Next]_vars => [D!DNext]_<<StatusBar, delivered, forgotten>>
  <2> SUFFICES ASSUME IInv, [Next]_vars
               PROVE  D!DNext \/ UNCHANGED <<StatusBar, delivered, forgotten>>
    OBVIOUS
  <2>1. ASSUME NEW m \in Msgs, Staling(m)
        PROVE  UNCHANGED <<StatusBar, delivered, forgotten>>
    BY <2>1 DEF Staling, StatusBar
  <2>2. ASSUME Outside \/ UNCHANGED vars PROVE UNCHANGED <<StatusBar, delivered, forgotten>>
    BY <2>2 DEF Outside, vars, StatusBar
  <2>3. TypeOK
    BY DEF IInv
  <2> QED
    BY <2>1, <2>2, <2>3, StepCases, MessengerRefines, CorrespondentRefines, CleanupRefines
<1> QED
  BY <1>1, <1>2, Invariance, PTL DEF ImplementsDelivery, D!DSpec, Spec, StatusBar

-----------------------------------------------------------------------------
(* How the two ends ask for what is missing: the packet a Messenger repeats  *)
(* always draws an answer, and a Messengent has every segment it will never  *)
(* ask for again.                                                           *)

-----------------------------------------------------------------------------
(* The initiator.                                                           *)

Asks(r) == r.state = "active" => r.tx \in r.wf

(* m's Messenger becomes a record that asks. *)
Asking(m) == \E s : messenger' = [messenger EXCEPT ![m] = s] /\ Asks(s)

(* A Messenger that is removed asks nothing more. *)
LEMMA RemoveAsks ==
  ASSUME NEW m \in Msgs, TypeOK, NEW why, why # "active", Remove(m, why)
  PROVE  Asking(m)
<1> DEFINE s == [messenger[m] EXCEPT !.state = why]
<1>1. messenger[m] \in MessengerRecords(m)
  BY DEF TypeOK
<1>2. s.state = why
  BY <1>1 DEF MessengerRecords
<1>3. messenger' = [messenger EXCEPT ![m] = s]
  BY DEF Remove
<1> QED
  BY <1>2, <1>3 DEF Asking, Asks

(* The last packet of a burst waits. *)
LEMMA SendBurstAsks ==
  ASSUME NEW m \in Msgs, TypeOK, NEW r \in MessengerRecords(m), NEW path,
         SendBurst(m, r, path)
  PROVE  Asking(m)
<1> DEFINE last == r.current + BurstOf(SegCount[m] - r.current) - 1
           s == [r EXCEPT !.wf = @ \cup {last}, !.tx = last, !.current = last + 1]
<1>1. CASE allowed["tx"]
  <2>1. messenger' = [messenger EXCEPT ![m] = s]
    BY <1>1 DEF SendBurst
  <2> HIDE DEF last
  <2>2. s.tx = last /\ s.wf = r.wf \cup {last}
    BY DEF MessengerRecords
  <2> QED
    BY <2>1, <2>2 DEF Asking, Asks
<1>2. CASE ~allowed["tx"]
  BY <1>2, RemoveAsks DEF SendBurst
<1> QED
  BY <1>1, <1>2

(* So does the last of the missed segments, and none of the others. *)
LEMMA SendMissedsAsks ==
  ASSUME NEW m \in Msgs, NEW r \in MessengerRecords(m), NEW path, SendMisseds(m, r, path)
  PROVE  Asking(m)
<1>1. PICK B \in SUBSET r.misseds : \E last \in B :
        messenger' = [messenger EXCEPT ![m] =
          [r EXCEPT !.af = @ \cup B, !.wf = (@ \ B) \cup {last},
                    !.tx = last, !.misseds = @ \ B]]
  BY DEF SendMisseds
<1>2. PICK last \in B :
        messenger' = [messenger EXCEPT ![m] =
          [r EXCEPT !.af = @ \cup B, !.wf = (@ \ B) \cup {last},
                    !.tx = last, !.misseds = @ \ B]]
  BY <1>1
<1> DEFINE s == [r EXCEPT !.af = @ \cup B, !.wf = (@ \ B) \cup {last},
                          !.tx = last, !.misseds = @ \ B]
<1>3. s.tx = last /\ s.wf = (r.wf \ B) \cup {last}
  BY DEF MessengerRecords
<1> QED
  BY <1>2, <1>3 DEF Asking, Asks

(* Reading an answer. *)
LEMMA ReceiveTxAsks ==
  ASSUME NEW m \in Msgs, TypeOK, Asks(messenger[m]), NEW p \in net, p.m = m, NEW path,
         MessengerReceive(p, path)
  PROVE  Asking(m)
<1> DEFINE r == messenger[m]
<1>1. r \in MessengerRecords(m) /\ p \in Packets
  BY DEF TypeOK
<1>2. CASE p.pk = "ack" /\ Another(m, p.sn, path)
  <2> DEFINE r1 == [r EXCEPT !.acked = TRUE]
             r2 == [r1 EXCEPT !.current = Min({@, p.sn + 1})]
  <2>1. r1 \in MessengerRecords(m)
    BY <1>1 DEF MessengerRecords
  <2>2. p.sn \in Segs(m)
    BY <1>1, <1>2 DEF Packets, ReplyPkts, MessagePkts, MessagePkt, AckPkt, ResendPkt, DonePkt, NackPkt
  <2>3. Min({r.current, p.sn + 1}) \in 0 .. SegCount[m]
    <3>1. r.current \in 0 .. SegCount[m] /\ p.sn + 1 \in 0 .. SegCount[m] /\ SegCount[m] \in Nat
      BY <1>1, <2>2, SegCountAssumption DEF MessengerRecords, Segs
    <3>2. Min({r.current, p.sn + 1}) \in {r.current, p.sn + 1}
      BY <3>1, MinOfNats
    <3> QED
      BY <3>1, <3>2
  <2>4. r2 \in MessengerRecords(m) /\ r2.state = r.state /\ r2.tx = r.tx /\ r2.wf = r.wf
    BY <1>1, <2>3 DEF MessengerRecords
  <2>5. \/ SendMisseds(m, r1, path)
        \/ SendBurst(m, r2, path)
        \/ messenger' = [messenger EXCEPT ![m] = r2]
    BY <1>2 DEF Another
  <2> HIDE DEF r1, r2
  <2>6. CASE SendMisseds(m, r1, path)
    BY <2>1, <2>6, SendMissedsAsks
  <2>7. CASE SendBurst(m, r2, path)
    BY <2>4, <2>7, SendBurstAsks
  <2>8. CASE messenger' = [messenger EXCEPT ![m] = r2]
    BY <2>4, <2>8 DEF Asking, Asks
  <2> QED
    BY <2>5, <2>6, <2>7, <2>8
<1>3. CASE p.pk = "resend" /\ Resend(m, p.misseds, path)
  <2> DEFINE r1 == [r EXCEPT !.acked = TRUE, !.misseds = @ \cup p.misseds]
  <2>1. p.misseds \subseteq Segs(m)
    BY <1>1, <1>3 DEF Packets, ReplyPkts, MessagePkts, MessagePkt, AckPkt, ResendPkt, DonePkt, NackPkt
  <2>2. r1 \in MessengerRecords(m)
    BY <1>1, <2>1 DEF MessengerRecords
  <2>3. SendMisseds(m, r1, path)
    BY <1>3 DEF Resend
  <2> HIDE DEF r1
  <2> QED
    BY <2>2, <2>3, SendMissedsAsks
<1>4. CASE Remove(m, "done") \/ Remove(m, "rejected")
  BY <1>4, RemoveAsks
<1> QED
  BY <1>2, <1>3, <1>4 DEF MessengerReceive

(* A step changes no Messenger, or one of them to one that asks. *)
LEMMA StepAsks ==
  ASSUME TypeOK, [Next]_vars, \A n \in Msgs : Asks(messenger[n])
  PROVE  UNCHANGED messenger \/ \E m \in Msgs : Asking(m)
<1>1. ASSUME NEW m \in Msgs, Message(m) PROVE Asking(m)
  <2> DEFINE r == [NoMessenger EXCEPT !.state = "active"]
  <2>1. SegCount[m] \in Nat /\ SegCount[m] > 0
    BY SegCountAssumption
  <2>2. 0 \in Segs(m) /\ 0 \in 0 .. SegCount[m]
    BY <2>1 DEF Segs
  <2>3. r \in MessengerRecords(m)
    BY <2>2 DEF NoMessenger, MessengerRecords, MessengerStates
  <2>4. SendBurst(m, r, net)
    BY <1>1 DEF Message
  <2> HIDE DEF r
  <2> QED
    BY <2>3, <2>4, SendBurstAsks
<1>2. ASSUME NEW m \in Msgs, RedoMessage(m) PROVE Asking(m)
  <2> DEFINE r == messenger[m]
             s == [r EXCEPT !.af = IF r.acked THEN @ \cup {r.tx} ELSE @]
  <2>1. messenger' = [messenger EXCEPT ![m] = s]
    BY <1>2 DEF RedoMessage
  <2>2. r \in MessengerRecords(m)
    BY DEF TypeOK
  <2>3. s.state = r.state /\ s.tx = r.tx /\ s.wf = r.wf
    BY <2>2 DEF MessengerRecords
  <2> HIDE DEF s
  <2> QED
    BY <2>1, <2>3 DEF Asking, Asks
<1>3. ASSUME NEW m \in Msgs, TimeoutMessage(m) PROVE Asking(m)
  BY <1>3, RemoveAsks DEF TimeoutMessage
<1>4. ASSUME NEW p \in net, NEW copies, ReceiveTx(p, copies)
      PROVE  UNCHANGED messenger \/ \E m \in Msgs : Asking(m)
  <2>1. p.m \in Msgs
    BY PacketOfMessage DEF TypeOK
  <2>2. CASE Active(p.m)
    BY <1>4, <2>1, <2>2, ReceiveTxAsks DEF ReceiveTx
  <2>3. CASE ~Active(p.m)
    BY <1>4, <2>3 DEF ReceiveTx, Stale
  <2> QED
    BY <2>2, <2>3
<1>5. ASSUME NEW p \in net, NEW copies, ReceiveRx(p, copies) PROVE UNCHANGED messenger
  BY <1>5 DEF ReceiveRx
<1>6. ASSUME NEW m \in Msgs, RedoAsk(m) \/ CleanupDone(m) PROVE UNCHANGED messenger
  BY <1>6 DEF RedoAsk, CleanupDone
<1>7. CASE \/ \E p \in net : Lose(p)
           \/ \E side \in Unallowable : Unallow(side)
           \/ Recover \/ UNCHANGED vars
  BY <1>7 DEF Lose, Unallow, Recover, vars
<1> QED
  BY <1>1, <1>2, <1>3, <1>4, <1>5, <1>6, <1>7 DEF Next

(* What the redo timer of a Messenger repeats always carries the wait flag, so
   that the two ends never wait for each other. *)
THEOREM RedoAsksTheorem == Spec => []RedoAsks
<1> DEFINE AskInv == TypeOK /\ \A m \in Msgs : Asks(messenger[m])
<1>1. Init => AskInv
  BY InitTypeOK DEF Init, Asks, NoMessenger
<1>2. AskInv /\ [Next]_vars => AskInv'
  <2> SUFFICES ASSUME AskInv, [Next]_vars, NEW n \in Msgs PROVE Asks(messenger[n])'
    BY NextTypeOK
  <2>1. CASE UNCHANGED messenger
    BY <2>1 DEF Asks
  <2>2. ASSUME NEW m \in Msgs, Asking(m) PROVE Asks(messenger[n])'
    <3>1. PICK s : messenger' = [messenger EXCEPT ![m] = s] /\ Asks(s)
      BY <2>2 DEF Asking
    <3>2. messenger'[n] = IF n = m THEN s ELSE messenger[n]
      BY <3>1 DEF TypeOK
    <3> QED
      BY <3>1, <3>2 DEF Asks
  <2> QED
    BY <2>1, <2>2, StepAsks
<1>3. AskInv => RedoAsks
  BY DEF RedoAsks, Active, Asks
<1> QED
  BY <1>1, <1>2, <1>3, PTL DEF Spec

-----------------------------------------------------------------------------
(* The correspondent.                                                       *)

Received(r) ==
  /\ 0 .. r.lowest - 1 \subseteq r.segs
  /\ r.highest \in r.segs
  /\ r.segs \subseteq 0 .. r.highest

(* A record of a Messengent that is not there is the empty one: the next packet
   of its message starts from nothing. *)
Collected(r) == IF r.live THEN Received(r) ELSE r = NoMessengent

Collecting(m) == \E s : messengent' = [messengent EXCEPT ![m] = s] /\ Collected(s)

(* A segment that comes in leaves highest the greatest of those collected. *)
LEMMA ParseReceived ==
  ASSUME NEW m \in Msgs, NEW r \in MessengentRecords(m), Collected(r), NEW sn \in Segs(m)
  PROVE  /\ Parse(r, sn) \in MessengentRecords(m)
         /\ Parse(r, sn).live /\ Received(Parse(r, sn))
<1> DEFINE h == Max({r.highest, sn})
<1>1. /\ r.highest \in Segs(m) /\ r.lowest \in Segs(m)
      /\ r.segs \subseteq Segs(m) /\ Segs(m) \subseteq Nat
  BY SegCountAssumption DEF MessengentRecords, Segs
<1>2. h \in {r.highest, sn} /\ h >= r.highest /\ h >= sn
  <2>1. r.highest \in Nat /\ sn \in Nat
    BY <1>1
  <2> QED
    BY <2>1 DEF Max
<1> HIDE DEF h
<1>3. Parse(r, sn) = [r EXCEPT !.live = TRUE, !.segs = @ \cup {sn}, !.highest = h]
  BY DEF Parse, h
<1>4. /\ Parse(r, sn).live /\ Parse(r, sn).lowest = r.lowest
      /\ Parse(r, sn).highest = h /\ Parse(r, sn).segs = r.segs \cup {sn}
      /\ Parse(r, sn) \in MessengentRecords(m)
  BY <1>1, <1>2, <1>3 DEF MessengentRecords
<1>5. CASE r.live
  <2>1. 0 .. r.lowest - 1 \subseteq r.segs /\ r.highest \in r.segs /\ r.segs \subseteq 0 .. r.highest
    BY <1>5 DEF Collected, Received
  <2>2. r.segs \cup {sn} \subseteq 0 .. h
    BY <1>1, <1>2, <2>1
  <2>3. h \in r.segs \cup {sn}
    BY <1>2, <2>1
  <2> QED
    BY <1>4, <2>1, <2>2, <2>3 DEF Received
<1>6. CASE ~r.live
  <2>1. r.lowest = 0 /\ r.highest = 0 /\ r.segs = {}
    BY <1>6 DEF Collected, NoMessengent
  <2>2. h = sn
    BY <1>1, <1>2, <2>1
  <2> QED
    BY <1>1, <1>4, <2>1, <2>2 DEF Received
<1> QED
  BY <1>4, <1>5, <1>6

(* Asking for what is missing moves lowest to the first segment missing. *)
LEMMA AskMoreCollects ==
  ASSUME NEW m \in Msgs, NEW r \in MessengentRecords(m), r.live, Received(r), NEW path,
         AskMore(m, r, path)
  PROVE  Collecting(m)
<1> DEFINE missed == Missing(r)
           low == IF missed = {} THEN r.lowest ELSE Min(missed)
           s == [r EXCEPT !.lowest = low]
<1>1. messengent' = [messengent EXCEPT ![m] = s]
  BY DEF AskMore
<1>2. /\ r.highest \in Nat /\ r.lowest \in Nat
      /\ missed = {i \in r.lowest .. r.highest - 1 : i \notin r.segs}
  BY SegCountAssumption DEF MessengentRecords, Segs, Missing
<1>3. 0 .. low - 1 \subseteq r.segs
  <2>1. CASE missed = {}
    BY <2>1 DEF Received
  <2>2. CASE missed # {}
    <3>1. missed \in SUBSET Nat
      BY <1>2
    <3>2. Min(missed) \in missed /\ \A i \in missed : Min(missed) <= i
      BY <2>2, <3>1, MinOfNats
    <3>3. ASSUME NEW i \in 0 .. low - 1 PROVE i \in r.segs
      <4>1. i \in Nat /\ i < Min(missed) /\ Min(missed) \in Nat /\ Min(missed) <= r.highest - 1
        BY <1>2, <2>2, <3>2, <3>3
      <4>2. i \notin missed
        BY <3>2, <4>1
      <4>3. CASE i < r.lowest
        <5>1. i \in 0 .. r.lowest - 1
          BY <1>2, <4>1, <4>3
        <5> QED
          BY <5>1 DEF Received
      <4>4. CASE i >= r.lowest
        BY <1>2, <4>1, <4>2, <4>4
      <4> QED
        BY <1>2, <4>1, <4>3, <4>4
    <3> QED
      BY <3>3
  <2> QED
    BY <2>1, <2>2
<1> HIDE DEF low, missed
<1>4. s.live /\ s.lowest = low /\ s.segs = r.segs /\ s.highest = r.highest
  BY DEF MessengentRecords
<1> HIDE DEF s
<1>5. Collected(s)
  BY <1>3, <1>4 DEF Collected, Received
<1> QED
  BY <1>1, <1>5 DEF Collecting

(* Removing a transaction leaves nothing of it. *)
LEMMA RemoveCollects ==
  ASSUME NEW m \in Msgs, RemoveCorrespondent(m)
  PROVE  Collecting(m)
BY DEF RemoveCorrespondent, Collecting, Collected, NoMessengent

(* A step changes no Messengent, or one of them to one that has what is below
   its lowest. *)
LEMMA StepCollects ==
  ASSUME TypeOK, [Next]_vars, \A n \in Msgs : Collected(messengent[n])
  PROVE  UNCHANGED messengent \/ \E m \in Msgs : Collecting(m)
<1>1. ASSUME NEW m \in Msgs, RedoAsk(m) PROVE Collecting(m)
  <2>1. messengent[m] \in MessengentRecords(m) /\ messengent[m].live
    BY <1>1 DEF TypeOK, RedoAsk, Live
  <2>2. Received(messengent[m]) /\ AskMore(m, messengent[m], net)
    BY <1>1, <2>1 DEF RedoAsk, Collected
  <2> QED
    BY <2>1, <2>2, AskMoreCollects
<1>2. ASSUME NEW p \in net, NEW path, MessengentReceive(p, path)
      PROVE  UNCHANGED messengent \/ Collecting(p.m)
  <2>1. p \in Packets /\ p.m \in Msgs
    BY PacketOfMessage DEF TypeOK
  <2>2. CASE p.pk = "message" /\ Collect(p.m, p, path)
    <3> DEFINE r == Parse(messengent[p.m], p.sn)
    <3>1. p.sn \in Segs(p.m)
      BY <2>1, <2>2
      DEF Packets, ReplyPkts, MessagePkts, MessagePkt, AckPkt, ResendPkt, DonePkt, NackPkt
    <3>2. messengent[p.m] \in MessengentRecords(p.m) /\ Collected(messengent[p.m])
      BY <2>1 DEF TypeOK
    <3>3. r \in MessengentRecords(p.m) /\ r.live /\ Received(r)
      BY <2>1, <3>1, <3>2, ParseReceived
    <3>4. \/ RemoveCorrespondent(p.m)
          \/ AskMore(p.m, r, path)
          \/ messengent' = [messengent EXCEPT ![p.m] = r]
      BY <2>2 DEF Collect
    <3> HIDE DEF r
    <3>5. CASE messengent' = [messengent EXCEPT ![p.m] = r]
      BY <3>3, <3>5 DEF Collecting, Collected
    <3> QED
      BY <2>1, <3>3, <3>4, <3>5, RemoveCollects, AskMoreCollects
  <2>3. CASE RemoveCorrespondent(p.m)
    BY <2>1, <2>3, RemoveCollects
  <2>4. CASE ReplyStale(p, path) \/ UNCHANGED <<messengent, doneTransactions, delivered>>
    BY <2>4 DEF ReplyStale
  <2> QED
    BY <1>2, <2>2, <2>3, <2>4 DEF MessengentReceive
<1>3. ASSUME NEW p \in net, NEW copies, ReceiveRx(p, copies)
      PROVE  UNCHANGED messengent \/ \E m \in Msgs : Collecting(m)
  <2>1. UNCHANGED messengent \/ Collecting(p.m)
    BY <1>2, <1>3 DEF ReceiveRx
  <2>2. p.m \in Msgs
    BY PacketOfMessage DEF TypeOK
  <2> QED
    BY <2>1, <2>2
<1>4. ASSUME NEW m \in Msgs, Message(m) \/ RedoMessage(m) \/ TimeoutMessage(m) \/ CleanupDone(m)
      PROVE  UNCHANGED messengent
  BY <1>4 DEF Message, RedoMessage, TimeoutMessage, CleanupDone
<1>5. CASE \/ \E p \in net : \E copies \in {{}, {p}} : ReceiveTx(p, copies)
           \/ \E p \in net : Lose(p)
           \/ \E side \in Unallowable : Unallow(side)
           \/ Recover \/ UNCHANGED vars
  BY <1>5 DEF ReceiveTx, Lose, Unallow, Recover, vars
<1> QED
  BY <1>1, <1>3, <1>4, <1>5 DEF Next

(* A correspondent never needs to ask below lowest, and what it takes for the
   highest segment is the greatest it has. *)
THEOREM LowestTheorem == Spec => []LowestIsReceived
<1> DEFINE LowInv == TypeOK /\ \A m \in Msgs : Collected(messengent[m])
<1>1. Init => LowInv
  BY InitTypeOK DEF Init, Collected, NoMessengent
<1>2. LowInv /\ [Next]_vars => LowInv'
  <2> SUFFICES ASSUME LowInv, [Next]_vars, NEW n \in Msgs PROVE Collected(messengent[n])'
    BY NextTypeOK
  <2>1. CASE UNCHANGED messengent
    BY <2>1 DEF Collected, Received
  <2>2. ASSUME NEW m \in Msgs, Collecting(m) PROVE Collected(messengent[n])'
    <3>1. PICK s : messengent' = [messengent EXCEPT ![m] = s] /\ Collected(s)
      BY <2>2 DEF Collecting
    <3>2. messengent'[n] = IF n = m THEN s ELSE messengent[n]
      BY <3>1 DEF TypeOK
    <3> QED
      BY <3>1, <3>2 DEF Collected, Received
  <2> QED
    BY <2>1, <2>2, StepCollects
<1>3. LowInv => LowestIsReceived
  BY DEF LowestIsReceived, Live, Collected, Received
<1> QED
  BY <1>1, <1>2, <1>3, PTL DEF Spec

-----------------------------------------------------------------------------
(* Division, in the form the cuts use it.                                   *)

LEMMA Quotient ==
  ASSUME NEW size \in Nat, NEW room \in Nat \ {0}
  PROVE  /\ size \div room \in Nat /\ size % room \in 0 .. room - 1
         /\ size = room * (size \div room) + (size % room)
OBVIOUS

LEMMA Times ==
  ASSUME NEW room \in Nat \ {0}, NEW i \in Int
  PROVE  /\ i * room \in Int /\ i * room = room * i
         /\ (i + 1) * room = i * room + room /\ (i - 1) * room = i * room - room
         /\ (i > 0 => i * room >= room)
OBVIOUS

(* The pieces of a message, one after another, are the message: each begins
   where the one before it ends, none is empty, and none is larger than its
   room.  (packetize, paginate, desegmentize, desectionize) *)
THEOREM PiecesTile ==
  ASSUME NEW size \in Nat \ {0}, NEW room \in Nat \ {0}
  PROVE  /\ Cut!Pieces(size, room) \in Nat \ {0}
         /\ Cut!First(room, 0) = 0
         /\ Cut!Limit(size, room, Cut!Pieces(size, room) - 1) = size
         /\ \A i \in 0 .. Cut!Pieces(size, room) - 2 : Cut!Limit(size, room, i) = Cut!First(room, i + 1)
         /\ \A i \in 0 .. Cut!Pieces(size, room) - 1 : Cut!Length(size, room, i) \in 1 .. room
<1> DEFINE q == size \div room
           r == size % room
           n == Cut!Pieces(size, room)
<1>1. /\ q \in Nat /\ r \in 0 .. room - 1 /\ size = room * q + r
      /\ n = q + (IF r # 0 THEN 1 ELSE 0)
  BY Quotient DEF Cut!Pieces
<1> HIDE DEF q, r, n
<1>2. q * room = room * q
  BY <1>1, Times
<1>3. n \in Nat \ {0}
  <2>1. CASE r # 0
    BY <1>1, <2>1
  <2>2. CASE r = 0
    <3>1. q # 0
      <4> SUFFICES ASSUME q = 0 PROVE FALSE
        OBVIOUS
      <4>1. room * q = 0
        OBVIOUS
      <4> QED
        BY <1>1, <2>2, <4>1
    <3> QED
      BY <1>1, <2>2, <3>1
  <2> QED
    BY <2>1, <2>2
<1>4. /\ \A i \in 0 .. n - 2 : Cut!Limit(size, room, i) = Cut!First(room, i + 1)
      /\ Cut!Limit(size, room, n - 1) = size /\ Cut!First(room, 0) = 0
  BY <1>3 DEF Cut!Limit, Cut!First, n
<1>5. ASSUME NEW i \in 0 .. n - 1 PROVE Cut!Length(size, room, i) \in 1 .. room
  <2>1. CASE i # n - 1
    <3>1. Cut!Length(size, room, i) = (i + 1) * room - i * room
      BY <1>3, <2>1 DEF Cut!Length, Cut!Limit, Cut!First, n
    <3>2. (i + 1) * room = i * room + room /\ i * room \in Int
      BY <1>3, Times
    <3> QED
      BY <3>1, <3>2
  <2>2. CASE i = n - 1
    <3>1. Cut!Length(size, room, i) = size - (n - 1) * room
      BY <1>3, <2>2 DEF Cut!Length, Cut!Limit, Cut!First, n
    <3>2. CASE r # 0
      <4>1. n - 1 = q
        BY <1>1, <3>2
      <4>2. size - q * room = r
        <5>1. room * q \in Int
          BY <1>1
        <5> QED
          BY <1>1, <1>2, <5>1
      <4> QED
        BY <1>1, <3>1, <3>2, <4>1, <4>2
    <3>3. CASE r = 0
      <4>1. n - 1 = q - 1
        BY <1>1, <3>3
      <4>2. (q - 1) * room = q * room - room /\ q * room \in Int
        BY <1>1, Times
      <4>3. size - (q - 1) * room = room
        BY <1>1, <1>2, <3>3, <4>2
      <4> QED
        BY <3>1, <4>1, <4>3
    <3> QED
      BY <3>2, <3>3
  <2> QED
    BY <2>1, <2>2
<1> QED
  BY <1>3, <1>4, <1>5 DEF n

-----------------------------------------------------------------------------
(* The heads of segments.                                                   *)

LEMMA Limits ==
  /\ Cut!UDP_MAX_PACKET_SIZE = 1024 /\ Cut!MAX_HEAD_SIZE = 255
  /\ Cut!MAX_SEGMENT_COUNT = 65535 /\ Cut!MAX_MESSAGE_SIZE = 67107840
BY SMT DEF Cut!UDP_MAX_PACKET_SIZE, Cut!MAX_HEAD_SIZE, Cut!MAX_SEGMENT_COUNT, Cut!MAX_MESSAGE_SIZE

(* A number below a power is written with no more digits than that power says. *)
LEMMA DigitsBound ==
  ASSUME NEW hk \in Cut!HeadKinds, NEW n \in Nat, NEW d \in DOMAIN Cut!Powers(hk), n < Cut!Powers(hk)[d]
  PROVE  Cut!Digits(hk, n) \in 1 .. d
<1> DEFINE P(e) == n < Cut!Powers(hk)[e] /\ \A f \in 1 .. e - 1 : n >= Cut!Powers(hk)[f]
<1>1. \E e \in DOMAIN Cut!Powers(hk) : P(e)
  <2>1. CASE hk = "raet"
    <3>1. /\ Cut!Powers(hk)[1] = 16 /\ Cut!Powers(hk)[2] = 256 /\ Cut!Powers(hk)[3] = 4096
          /\ Cut!Powers(hk)[4] = 65536 /\ Cut!Powers(hk)[5] = 1048576 /\ Cut!Powers(hk)[6] = 16777216
          /\ Cut!Powers(hk)[7] = 268435456 /\ DOMAIN Cut!Powers(hk) = 1 .. 7
      BY <2>1 DEF Cut!Powers
    <3> HIDE DEF P
    <3>2. \/ n < 16 \/ (n >= 16 /\ n < 256) \/ (n >= 256 /\ n < 4096) \/ (n >= 4096 /\ n < 65536)
          \/ (n >= 65536 /\ n < 1048576) \/ (n >= 1048576 /\ n < 16777216)
          \/ (n >= 16777216 /\ n < 268435456)
      BY <3>1
    <3>3. n < 16 => P(1)
      BY <3>1 DEF P
    <3>4. n >= 16 /\ n < 256 => P(2)
      BY <3>1 DEF P
    <3>5. n >= 256 /\ n < 4096 => P(3)
      BY <3>1 DEF P
    <3>6. n >= 4096 /\ n < 65536 => P(4)
      BY <3>1 DEF P
    <3>7. n >= 65536 /\ n < 1048576 => P(5)
      BY <3>1 DEF P
    <3>8. n >= 1048576 /\ n < 16777216 => P(6)
      BY <3>1 DEF P
    <3>9. n >= 16777216 /\ n < 268435456 => P(7)
      BY <3>1 DEF P
    <3> QED
      BY <3>1, <3>2, <3>3, <3>4, <3>5, <3>6, <3>7, <3>8, <3>9
  <2>2. CASE hk = "json"
    <3>1. /\ Cut!Powers(hk)[1] = 10 /\ Cut!Powers(hk)[2] = 100 /\ Cut!Powers(hk)[3] = 1000
          /\ Cut!Powers(hk)[4] = 10000 /\ Cut!Powers(hk)[5] = 100000 /\ Cut!Powers(hk)[6] = 1000000
          /\ Cut!Powers(hk)[7] = 10000000 /\ Cut!Powers(hk)[8] = 100000000 /\ DOMAIN Cut!Powers(hk) = 1 .. 8
      BY <2>2 DEF Cut!Powers
    <3> HIDE DEF P
    <3>2. \/ n < 10 \/ (n >= 10 /\ n < 100) \/ (n >= 100 /\ n < 1000) \/ (n >= 1000 /\ n < 10000)
          \/ (n >= 10000 /\ n < 100000) \/ (n >= 100000 /\ n < 1000000)
          \/ (n >= 1000000 /\ n < 10000000) \/ (n >= 10000000 /\ n < 100000000)
      BY <3>1
    <3>3. n < 10 => P(1)
      BY <3>1 DEF P
    <3>4. n >= 10 /\ n < 100 => P(2)
      BY <3>1 DEF P
    <3>5. n >= 100 /\ n < 1000 => P(3)
      BY <3>1 DEF P
    <3>6. n >= 1000 /\ n < 10000 => P(4)
      BY <3>1 DEF P
    <3>7. n >= 10000 /\ n < 100000 => P(5)
      BY <3>1 DEF P
    <3>8. n >= 100000 /\ n < 1000000 => P(6)
      BY <3>1 DEF P
    <3>9. n >= 1000000 /\ n < 10000000 => P(7)
      BY <3>1 DEF P
    <3>10. n >= 10000000 /\ n < 100000000 => P(8)
      BY <3>1 DEF P
    <3> QED
      BY <3>1, <3>2, <3>3, <3>4, <3>5, <3>6, <3>7, <3>8, <3>9, <3>10
  <2> QED
    BY <2>1, <2>2 DEF Cut!HeadKinds
<1> DEFINE c == CHOOSE e \in DOMAIN Cut!Powers(hk) : P(e)
<1>2. c \in DOMAIN Cut!Powers(hk) /\ P(c)
  BY <1>1
<1>3. Cut!Digits(hk, n) = c
  BY DEF Cut!Digits
<1> HIDE DEF c
<1>4. DOMAIN Cut!Powers(hk) \subseteq Nat \ {0} /\ \A e \in DOMAIN Cut!Powers(hk) : Cut!Powers(hk)[e] \in Nat
  BY DEF Cut!Powers, Cut!HeadKinds
<1>5. ~(c > d)
  <2> SUFFICES ASSUME c > d PROVE FALSE
    OBVIOUS
  <2>1. n >= Cut!Powers(hk)[d]
    BY <1>2, <1>4
  <2> QED
    BY <1>4, <2>1
<1> QED
  BY <1>2, <1>3, <1>4, <1>5

(* The estimate is enough as long as a message has no more than
   MAX_SEGMENT_COUNT segments. *)
LEMMA GrowthBound ==
  ASSUME NEW hk \in Cut!HeadKinds, NEW sc \in Nat, sc <= Cut!MAX_SEGMENT_COUNT,
         NEW sn \in Nat, sn < sc, NEW ml \in Nat, ml <= Cut!MAX_MESSAGE_SIZE
  PROVE  Cut!Growth(hk, sn, sc, ml) \in 0 .. Cut!Extra(hk)
<1>1. sn < 65536 /\ sc < 65536 /\ sn < 100000 /\ sc < 100000 /\ ml < 100000000 /\ ml < 268435456
  BY SMT, Limits
<1>2. CASE hk = "raet"
  <2>1. Cut!Powers(hk)[4] = 65536 /\ Cut!Powers(hk)[7] = 268435456 /\ DOMAIN Cut!Powers(hk) = 1 .. 7
    BY <1>2 DEF Cut!Powers
  <2>2. Cut!Digits(hk, sn) \in 1 .. 4 /\ Cut!Digits(hk, sc) \in 1 .. 4 /\ Cut!Digits(hk, ml) \in 1 .. 7
    BY SMT, <1>1, <2>1, DigitsBound
  <2> QED
    BY <1>2, <2>2 DEF Cut!Growth, Cut!FieldSize, Cut!Label, Cut!Extra
<1>3. CASE hk = "json"
  <2>1. Cut!Powers(hk)[5] = 100000 /\ Cut!Powers(hk)[8] = 100000000 /\ DOMAIN Cut!Powers(hk) = 1 .. 8
    BY <1>3 DEF Cut!Powers
  <2>2. Cut!Digits(hk, sn) \in 1 .. 5 /\ Cut!Digits(hk, sc) \in 1 .. 5 /\ Cut!Digits(hk, ml) \in 1 .. 8
    BY SMT, <1>1, <2>1, DigitsBound
  <2> QED
    BY <1>3, <2>2 DEF Cut!Growth, Cut!FieldSize, Cut!Label, Cut!Extra
<1> QED
  BY <1>2, <1>3 DEF Cut!HeadKinds

(* A body that leaves room for its segments. *)
Roomy(b) == b \in Cut!Bodies /\ Cut!SegSize(b) > 0

LEMMA BodyTypes ==
  ASSUME NEW b, Roomy(b)
  PROVE  /\ b.hk \in Cut!HeadKinds /\ b.head \in Nat /\ b.foot \in Nat
         /\ b.size \in Nat /\ b.size <= Cut!MAX_MESSAGE_SIZE
         /\ Cut!UDP_MAX_PACKET_SIZE \in Nat /\ Cut!MAX_SEGMENT_COUNT \in Nat /\ Cut!Extra(b.hk) \in Nat
<1>1. Cut!MAX_MESSAGE_SIZE \in Nat /\ Cut!UDP_MAX_PACKET_SIZE \in Nat /\ Cut!MAX_SEGMENT_COUNT \in Nat
      /\ Cut!MAX_HEAD_SIZE \in Nat
  BY SMT, Limits
<1> QED
  BY <1>1 DEF Roomy, Cut!Bodies, Cut!Extra

(* A message that is cut has at least two segments, since RxTray.parse takes
   one with a count of one for a message that was not cut. *)
THEOREM SegmentedMeansMany ==
  ASSUME NEW b, Roomy(b), Cut!Segmented(b)
  PROVE  Cut!Packets(b) \in Nat /\ Cut!Packets(b) >= 2
<1> DEFINE room == Cut!SegSize(b)
           n == Cut!Pieces(b.size, room)
<1>1. /\ b.size \in Nat /\ room \in Nat \ {0} /\ b.size > room /\ Cut!Packets(b) = n
  <2>1. Cut!Extra(b.hk) > 0
    BY DEF Cut!Extra
  <2> QED
    BY <2>1, BodyTypes DEF Roomy, Cut!SegSize, Cut!Segmented, Cut!Packets
<1> HIDE DEF room
<1>2. /\ n \in Nat \ {0} /\ Cut!First(room, 0) = 0 /\ Cut!Limit(b.size, room, n - 1) = b.size
      /\ \A i \in 0 .. n - 1 : Cut!Length(b.size, room, i) \in 1 .. room
  BY <1>1, PiecesTile
<1> HIDE DEF n
<1>3. n # 1
  <2> SUFFICES ASSUME n = 1 PROVE FALSE
    OBVIOUS
  <2>1. Cut!Length(b.size, room, 0) = b.size
    BY <1>1, <1>2 DEF Cut!Length
  <2> QED
    BY <1>1, <1>2, <2>1
<1> QED
  BY <1>1, <1>2, <1>3

(* Every packet of a message fits, whatever its head: repack, which raises an
   error nobody catches, never meets one that is too large.  For this the
   message must not have more than MAX_SEGMENT_COUNT segments, which the code
   does not check. *)
THEOREM PacketsFitTheorem ==
  ASSUME NEW b, Roomy(b), Cut!Packets(b) <= Cut!MAX_SEGMENT_COUNT, NEW sn \in 0 .. Cut!Packets(b) - 1
  PROVE  Cut!PacketSize(b, sn) <= Cut!UDP_MAX_PACKET_SIZE
<1>1. /\ b.hk \in Cut!HeadKinds /\ b.head \in Nat /\ b.foot \in Nat
      /\ b.size \in Nat /\ b.size <= Cut!MAX_MESSAGE_SIZE
      /\ Cut!UDP_MAX_PACKET_SIZE \in Nat /\ Cut!MAX_SEGMENT_COUNT \in Nat /\ Cut!Extra(b.hk) \in Nat
  BY BodyTypes
<1>2. CASE ~Cut!Segmented(b)
  BY <1>1, <1>2 DEF Cut!Segmented, Cut!PacketSize
<1>3. CASE Cut!Segmented(b)
  <2> DEFINE room == Cut!SegSize(b)
             n == Cut!Packets(b)
  <2>1. n \in Nat /\ n >= 2 /\ n = Cut!Pieces(b.size, room)
    BY <1>3, SegmentedMeansMany DEF Cut!Packets
  <2>2. Cut!Growth(b.hk, sn, n, b.size) \in 0 .. Cut!Extra(b.hk)
    <3> HIDE DEF n
    <3>1. n \in Nat /\ n <= Cut!MAX_SEGMENT_COUNT /\ sn \in Nat /\ sn < n
      BY <1>1, <2>1 DEF n
    <3> QED
      BY <1>1, <3>1, GrowthBound
  <2>3. room \in Nat \ {0} /\ b.size \in Nat \ {0}
    BY <1>1, <1>3 DEF Roomy, Cut!SegSize, Cut!Segmented
  <2>4. Cut!Length(b.size, room, sn) \in 1 .. room
    BY <2>1, <2>3, PiecesTile
  <2>5. Cut!PacketSize(b, sn) = b.head + Cut!Growth(b.hk, sn, n, b.size) + Cut!Length(b.size, room, sn) + b.foot
    BY <1>3 DEF Cut!PacketSize
  <2>6. room = Cut!UDP_MAX_PACKET_SIZE - (b.head + Cut!Extra(b.hk) + b.foot)
    BY DEF Cut!SegSize
  <2> HIDE DEF room, n
  <2> QED
    BY <1>1, <2>2, <2>3, <2>4, <2>5, <2>6
<1> QED
  BY <1>2, <1>3

(* Numbers with five hex digits at most, one more than a page head always has. *)
MaxPages == 1048575

LEMMA MoreDigitsBound ==
  ASSUME NEW n \in Nat, n <= MaxPages
  PROVE  Cut!MoreDigits(n) \in 0 .. 1
<1>1. n < 1048576
  BY SMT DEF MaxPages
<1>2. CASE n >= 65536
  <2>1. /\ Cut!Powers("raet")[4] = 65536 /\ Cut!Powers("raet")[5] = 1048576
        /\ DOMAIN Cut!Powers("raet") = 1 .. 7 /\ "raet" \in Cut!HeadKinds
    BY DEF Cut!Powers, Cut!HeadKinds
  <2>2. Cut!Digits("raet", n) \in 1 .. 5
    BY SMT, <1>1, <2>1, DigitsBound
  <2>3. Cut!Digits("raet", n) >= 5
    <3> DEFINE P(e) == n < Cut!Powers("raet")[e] /\ \A f \in 1 .. e - 1 : n >= Cut!Powers("raet")[f]
    <3>1. P(5)
      <4>1. /\ Cut!Powers("raet")[1] = 16 /\ Cut!Powers("raet")[2] = 256
            /\ Cut!Powers("raet")[3] = 4096 /\ Cut!Powers("raet")[4] = 65536
        BY DEF Cut!Powers
      <4> QED
        BY SMT, <1>1, <1>2, <2>1, <4>1
    <3>2. 5 \in DOMAIN Cut!Powers("raet")
      BY <2>1
    <3>3. P(CHOOSE e \in DOMAIN Cut!Powers("raet") : P(e))
      BY <3>1, <3>2
    <3>4. Cut!Digits("raet", n) = CHOOSE e \in DOMAIN Cut!Powers("raet") : P(e)
      BY DEF Cut!Digits
    <3>5. P(Cut!Digits("raet", n))
      BY <3>3, <3>4
    <3>6. n < Cut!Powers("raet")[Cut!Digits("raet", n)]
      BY <3>5
    <3>7. \A e \in 1 .. 4 : Cut!Powers("raet")[e] \in Nat /\ Cut!Powers("raet")[e] <= 65536
      BY SMT DEF Cut!Powers
    <3> DEFINE d == Cut!Digits("raet", n)
               p == Cut!Powers("raet")[d]
    <3>8. d \in 1 .. 4 => p \in Nat /\ p <= 65536
      BY <3>7
    <3>9. n < p /\ d \in 1 .. 5
      BY <2>2, <3>6
    <3> HIDE DEF d, p, P
    <3>10. d >= 5
      BY SMT, <1>2, <3>8, <3>9
    <3> QED
      BY <3>10 DEF d
  <2> QED
    BY SMT, <1>2, <2>2, <2>3 DEF Cut!MoreDigits
<1>3. CASE n < 65536
  BY SMT, <1>3 DEF Cut!MoreDigits
<1> QED
  BY SMT, <1>2, <1>3

(* Every page of a message fits into a datagram of the lane, up to a million
   pages. *)
THEOREM PagesFitTheorem ==
  ASSUME NEW head \in Nat, NEW size \in Nat \ {0}, Cut!SecSize(head) > 0,
         Cut!Pieces(size, Cut!SecSize(head)) <= MaxPages,
         NEW pn \in 0 .. Cut!Pieces(size, Cut!SecSize(head)) - 1
  PROVE  Cut!PageSize(head, size, pn) <= Cut!UXD_MAX_PACKET_SIZE
<1> DEFINE room == Cut!SecSize(head)
           n == Cut!Pieces(size, room)
<1>1. room \in Nat \ {0} /\ room = Cut!UXD_MAX_PACKET_SIZE - (head + 2) /\ Cut!UXD_MAX_PACKET_SIZE \in Nat
  BY DEF Cut!SecSize, Cut!UXD_MAX_PACKET_SIZE
<1>2. Cut!PageSize(head, size, pn) = head + Cut!MoreDigits(pn) + Cut!MoreDigits(n) + Cut!Length(size, room, pn)
  BY DEF Cut!PageSize
<1> HIDE DEF room
<1>3. n \in Nat /\ n <= MaxPages /\ Cut!Length(size, room, pn) \in 1 .. room
  BY <1>1, PiecesTile DEF room
<1> HIDE DEF n
<1>4. pn \in 0 .. n - 1
  BY DEF n, room
<1>5. pn \in Nat /\ pn <= MaxPages
  <2>1. MaxPages \in Nat
    BY SMT DEF MaxPages
  <2> QED
    BY <1>3, <1>4, <2>1
<1>6. Cut!MoreDigits(pn) \in 0 .. 1 /\ Cut!MoreDigits(n) \in 0 .. 1
  BY <1>3, <1>5, MoreDigitsBound
<1> QED
  BY <1>1, <1>2, <1>3, <1>6

(* Whatever is lost and sent again, each packet under way of a message of at
   most MAX_SEGMENT_COUNT segments fits into a datagram: SendBurst and
   SendMisseds send only segments that packetize made. *)
THEOREM NoPacketTooLarge == Spec => []PacketsFit
<1>1. TypeOK => PacketsFit
  <2> SUFFICES ASSUME TypeOK, NEW p \in net, p.pk = "message",
                      Cut!Packets(BodyOf[p.m]) <= Cut!MAX_SEGMENT_COUNT
               PROVE  Fits(p.m, p.sn)
    BY DEF PacketsFit
  <2>1. PICK m \in Msgs : p \in MessagePkts(m)
    BY DEF TypeOK, Packets, ReplyPkts, AckPkt, ResendPkt, DonePkt, NackPkt
  <2>2. p.m = m /\ p.sn \in Segs(m)
    BY <2>1 DEF MessagePkts, MessagePkt
  <2> DEFINE b == BodyOf[m]
  <2>3. Roomy(b) /\ Cut!Packets(b) <= Cut!MAX_SEGMENT_COUNT /\ p.sn \in 0 .. Cut!Packets(b) - 1
    BY <2>2, BodyAssumption DEF Roomy, Segs
  <2> HIDE DEF b
  <2>4. Cut!PacketSize(b, p.sn) <= Cut!UDP_MAX_PACKET_SIZE
    BY <2>3, PacketsFitTheorem
  <2> QED
    BY <2>2, <2>4 DEF b, Fits
<1> QED
  BY <1>1, TypeCorrect, PTL
=============================================================================
