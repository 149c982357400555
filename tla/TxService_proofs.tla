--------------------------- MODULE TxService_proofs ---------------------------
(***************************************************************************)
(* Proofs about the transmit queue: types, and the order of the packets of  *)
(* each destination, for any destinations and queues of any length.         *)
(***************************************************************************)
EXTENDS TxService, TLAPS

(* Serviced with serviceAll, the packets put aside belong to destinations found
   busy, and come before what is still to be handled. *)
Pending(s) ==
  \A i \in DOMAIN s : /\ \A k \in sent[s[i].d] : k < s[i].n
                      /\ s[i].n <= queued[s[i].d]

IInv ==
  /\ TypeOK /\ mode = "all"
  /\ servicing = "no" => laters = <<>>
  /\ \A d \in Dests : \A k \in sent[d] : k <= queued[d]
  /\ InOrder(laters) /\ InOrder(txes)
  /\ Pending(laters) /\ Pending(txes)
  /\ \A i \in DOMAIN laters : laters[i].d \in blocks
  /\ \A i \in DOMAIN laters, j \in DOMAIN txes :
       laters[i].d = txes[j].d => laters[i].n < txes[j].n

-----------------------------------------------------------------------------
(* Facts about sequences of packets.                                        *)

LEMMA Elements ==
  ASSUME NEW s \in Seq(Txs)
  PROVE  \A i \in DOMAIN s : s[i].d \in Dests /\ s[i].n \in Nat \ {0}
<1>1. \A i \in DOMAIN s : s[i] \in Txs
  OBVIOUS
<1> QED
  BY <1>1 DEF Txs

LEMMA HeadAndTail ==
  ASSUME NEW s \in Seq(Txs), s # <<>>
  PROVE  /\ Head(s) \in Txs /\ Head(s) = s[1] /\ 1 \in DOMAIN s
         /\ Tail(s) \in Seq(Txs)
         /\ \A i \in DOMAIN Tail(s) : i + 1 \in DOMAIN s /\ Tail(s)[i] = s[i + 1] /\ i \in 1 .. Len(s) - 1
  OBVIOUS

LEMMA Appended ==
  ASSUME NEW s \in Seq(Txs), NEW x \in Txs
  PROVE  /\ Append(s, x) \in Seq(Txs)
         /\ \A i \in DOMAIN Append(s, x) :
              \/ i \in DOMAIN s /\ Append(s, x)[i] = s[i]
              \/ i = Len(s) + 1 /\ Append(s, x)[i] = x
  OBVIOUS

(* A packet later than all others of its destination may follow them. *)
LEMMA AppendInOrder ==
  ASSUME NEW s \in Seq(Txs), NEW x \in Txs, InOrder(s),
         \A i \in DOMAIN s : s[i].d = x.d => s[i].n < x.n
  PROVE  InOrder(Append(s, x))
<1> DEFINE t == Append(s, x)
<1> SUFFICES ASSUME NEW i \in DOMAIN t, NEW j \in DOMAIN t, i < j, t[i].d = t[j].d
             PROVE  t[i].n < t[j].n
  BY DEF InOrder
<1>1. i \in DOMAIN s /\ t[i] = s[i]
  BY Appended
<1>2. CASE j \in DOMAIN s /\ t[j] = s[j]
  BY <1>1, <1>2 DEF InOrder
<1>3. CASE j = Len(s) + 1 /\ t[j] = x
  BY <1>1, <1>3
<1> QED
  BY <1>2, <1>3, Appended

LEMMA TailInOrder ==
  ASSUME NEW s \in Seq(Txs), s # <<>>, InOrder(s)
  PROVE  /\ InOrder(Tail(s))
         /\ \A i \in DOMAIN Tail(s) : Tail(s)[i].d = Head(s).d => Head(s).n < Tail(s)[i].n
<1> DEFINE t == Tail(s)
<1>1. ASSUME NEW i \in DOMAIN t, NEW j \in DOMAIN t, i < j, t[i].d = t[j].d
      PROVE  t[i].n < t[j].n
  <2>1. i + 1 \in DOMAIN s /\ j + 1 \in DOMAIN s /\ i + 1 < j + 1 /\ t[i] = s[i + 1] /\ t[j] = s[j + 1]
    BY <1>1, HeadAndTail
  <2> QED
    BY <1>1, <2>1 DEF InOrder
<1>2. ASSUME NEW i \in DOMAIN Tail(s), Tail(s)[i].d = Head(s).d
      PROVE  Head(s).n < Tail(s)[i].n
  <2>1. 1 \in DOMAIN s /\ i + 1 \in DOMAIN s /\ 1 < i + 1 /\ Head(s) = s[1] /\ Tail(s)[i] = s[i + 1]
    BY HeadAndTail
  <2> QED
    BY <1>2, <2>1 DEF InOrder
<1> QED
  BY <1>1, <1>2 DEF InOrder

-----------------------------------------------------------------------------
(* Type correctness.                                                        *)

LEMMA NextTypeOK == TypeOK /\ [Next]_vars => TypeOK'
<1> SUFFICES ASSUME TypeOK, [Next]_vars PROVE TypeOK'
  OBVIOUS
<1> USE DEF TypeOK
<1>1. ASSUME NEW d \in Dests, Tx(d) PROVE TypeOK'
  <2>1. [d |-> d, n |-> queued[d] + 1] \in Txs
    BY DEF Txs
  <2> QED
    BY <1>1, <2>1, Appended DEF Tx
<1>2. ASSUME NEW d \in Dests, SendOne(d) \/ SendOnce(d) PROVE TypeOK'
  <2>1. /\ txes # <<>> /\ txes' = Tail(txes) /\ Head(txes).d = d
        /\ sent' = [sent EXCEPT ![d] = @ \cup {Head(txes).n}]
        /\ UNCHANGED <<mode, servicing, laters, blocks, queued, lost>>
    BY <1>2 DEF SendOne, SendOnce, Send
  <2>2. Head(txes).n \in Nat /\ txes' \in Seq(Txs)
    BY <2>1, HeadAndTail DEF Txs
  <2>3. sent' \in [Dests -> SUBSET Nat]
    BY <2>1, <2>2
  <2> QED
    BY <2>1, <2>2, <2>3
<1>3. CASE ServiceTxes
  BY <1>3 DEF ServiceTxes
<1>4. CASE PutAside \/ FindBusy
  <2>1. Head(txes) \in Txs /\ Head(txes).d \in Dests /\ Tail(txes) \in Seq(Txs)
    BY <1>4, HeadAndTail DEF PutAside, FindBusy, Txs
  <2>2. txes' = Tail(txes) /\ laters' = Append(laters, Head(txes))
    BY <1>4 DEF PutAside, FindBusy
  <2>3. /\ blocks' = blocks \/ blocks' = blocks \cup {Head(txes).d}
        /\ UNCHANGED <<mode, servicing, queued, sent, lost>>
    BY <1>4 DEF PutAside, FindBusy
  <2>4. laters' \in Seq(Txs)
    BY <2>1, <2>2, Appended
  <2> QED
    BY <2>1, <2>2, <2>3, <2>4
<1>5. CASE Raise \/ RaiseOnce
  <2>1. Head(txes) \in Txs /\ Tail(txes) \in Seq(Txs)
    BY <1>5, HeadAndTail DEF Raise, RaiseOnce
  <2>2. lost \cup {Head(txes)} \cup {laters[i] : i \in DOMAIN laters} \subseteq Txs
    BY <2>1
  <2>3. lost' \subseteq Txs /\ txes' \in Seq(Txs) /\ UNCHANGED <<mode, queued, sent>>
    BY <1>5, <2>1, <2>2 DEF Raise, RaiseOnce
  <2>4. CASE Raise
    <3>1. laters' = <<>> /\ blocks' = {} /\ servicing' = "no"
      BY <2>4 DEF Raise
    <3> QED
      BY <2>3, <3>1
  <2>5. CASE RaiseOnce
    BY <2>3, <2>5 DEF RaiseOnce
  <2> QED
    BY <1>5, <2>4, <2>5
<1>6. CASE PutBack
  BY <1>6 DEF PutBack
<1>7. CASE FindBusyOnce
  BY <1>7, HeadAndTail, Appended DEF FindBusyOnce
<1>8. CASE UNCHANGED vars
  BY <1>8 DEF vars
<1> QED
  BY <1>1, <1>2, <1>3, <1>4, <1>5, <1>6, <1>7, <1>8 DEF Next

(* Every variable keeps its type. *)
THEOREM TxTypeCorrect == Spec => []TypeOK
<1>1. Init => TypeOK
  BY DEF Init, TypeOK
<1> QED
  BY <1>1, NextTypeOK, PTL DEF Spec

-----------------------------------------------------------------------------
(* Order.                                                                   *)

LEMMA NextIInv == IInv /\ [Next]_vars => IInv'
<1> SUFFICES ASSUME IInv, [Next]_vars PROVE IInv'
  OBVIOUS
<1>1. TypeOK /\ TypeOK'
  BY NextTypeOK DEF IInv
<1>2. ASSUME NEW d \in Dests, Tx(d) PROVE IInv'
  <2> DEFINE x == [d |-> d, n |-> queued[d] + 1]
  <2>1. x \in Txs /\ laters = <<>> /\ laters' = <<>> /\ txes' = Append(txes, x)
    BY <1>1, <1>2 DEF Tx, IInv, TypeOK, Txs
  <2>2. \A i \in DOMAIN txes : txes[i].d \in Dests /\ txes[i].n \in Nat
    BY <1>1, Elements DEF TypeOK
  <2>3. /\ queued' = [queued EXCEPT ![d] = @ + 1]
        /\ UNCHANGED <<mode, servicing, blocks, sent>>
    BY <1>2 DEF Tx
  <2>4. \A i \in DOMAIN txes : (\A k \in sent[txes[i].d] : k < txes[i].n) /\ txes[i].n <= queued[txes[i].d]
    BY DEF IInv, Pending
  <2>5. queued[d] \in Nat /\ \A k \in sent[d] : k \in Nat /\ k <= queued[d]
    BY <1>1, <1>2 DEF IInv, TypeOK
  <2>6. InOrder(txes')
    <3>1. \A i \in DOMAIN txes : txes[i].d = x.d => txes[i].n < x.n
      BY <2>2, <2>4, <2>5
    <3> QED
      BY <1>1, <2>1, <3>1, AppendInOrder DEF IInv, TypeOK
  <2>7. Pending(txes)'
    <3> SUFFICES ASSUME NEW i \in DOMAIN txes'
                 PROVE  (\A k \in sent'[txes'[i].d] : k < txes'[i].n) /\ txes'[i].n <= queued'[txes'[i].d]
      BY DEF Pending
    <3>1. CASE i \in DOMAIN txes /\ txes'[i] = txes[i]
      <4>1. txes[i].d \in Dests /\ queued[txes[i].d] <= queued'[txes[i].d]
        BY <1>1, <2>2, <2>3, <3>1 DEF TypeOK
      <4>2. queued[txes[i].d] \in Nat /\ queued'[txes[i].d] \in Nat
        BY <1>1, <4>1 DEF TypeOK
      <4> QED
        BY <2>2, <2>3, <2>4, <3>1, <4>1, <4>2
    <3>2. CASE txes'[i] = x
      <4>1. queued'[d] = queued[d] + 1 /\ x.n = queued[d] + 1 /\ x.d = d
        BY <1>1, <2>3 DEF TypeOK
      <4> QED
        BY <2>3, <2>5, <3>2, <4>1
    <3> QED
      BY <1>1, <2>1, <3>1, <3>2, Appended DEF TypeOK
  <2>8. \A e \in Dests : \A k \in sent'[e] : k <= queued'[e]
    BY <1>1, <2>3 DEF IInv, TypeOK
  <2> QED
    BY <1>1, <2>1, <2>3, <2>6, <2>7, <2>8 DEF IInv, InOrder, Pending
<1>3. ASSUME NEW d \in Dests, SendOne(d) PROVE IInv'
  <2> DEFINE h == Head(txes)
  <2>1. /\ txes # <<>> /\ txes' = Tail(txes) /\ h.d = d /\ d \notin blocks
        /\ sent' = [sent EXCEPT ![d] = @ \cup {h.n}]
        /\ UNCHANGED <<mode, servicing, laters, blocks, queued>> /\ servicing = "all"
    BY <1>3 DEF SendOne, Send, IsBlocked
  <2>2. \A i \in DOMAIN laters : laters[i].d # d
    BY <2>1 DEF IInv
  <2>3. \A i \in DOMAIN txes' : i + 1 \in DOMAIN txes /\ txes'[i] = txes[i + 1]
    BY <1>1, <2>1, HeadAndTail DEF TypeOK
  <2>4. InOrder(txes') /\ \A i \in DOMAIN txes' : txes'[i].d = d => h.n < txes'[i].n
    BY <1>1, <2>1, TailInOrder DEF IInv, TypeOK
  <2>5. sent'[d] = sent[d] \cup {h.n} /\ \A e \in Dests \ {d} : sent'[e] = sent[e]
    BY <1>1, <2>1 DEF TypeOK
  <2>6. \A i \in DOMAIN laters : laters[i].d \in Dests
    BY <1>1, Elements DEF TypeOK
  <2>7. \A i \in DOMAIN txes' : txes'[i].d \in Dests
    BY <1>1, Elements DEF TypeOK
  <2>8. Pending(laters)'
    BY <2>1, <2>2, <2>5, <2>6 DEF IInv, Pending
  <2>9. Pending(txes)'
    BY <2>1, <2>3, <2>4, <2>5, <2>7 DEF IInv, Pending
  <2>10. \A i \in DOMAIN laters', j \in DOMAIN txes' :
           laters'[i].d = txes'[j].d => laters'[i].n < txes'[j].n
    BY <2>1, <2>3 DEF IInv
  <2>11. \A e \in Dests : \A k \in sent'[e] : k <= queued'[e]
    <3>1. 1 \in DOMAIN txes /\ h = txes[1]
      BY <1>1, <2>1, HeadAndTail DEF TypeOK
    <3>2. h.n <= queued[d]
      BY <2>1, <3>1 DEF IInv, Pending
    <3> QED
      BY <2>1, <2>5, <3>2 DEF IInv
  <2> QED
    BY <1>1, <2>1, <2>4, <2>8, <2>9, <2>10, <2>11 DEF IInv, InOrder
<1>4. CASE ServiceTxes
  BY <1>1, <1>4 DEF ServiceTxes, IInv, InOrder, Pending
<1>5. CASE PutAside \/ FindBusy
  <2> DEFINE h == Head(txes)
  <2>1. /\ txes # <<>> /\ txes' = Tail(txes) /\ laters' = Append(laters, h)
        /\ UNCHANGED <<mode, servicing, queued, sent>> /\ servicing = "all"
        /\ blocks \subseteq blocks' /\ h.d \in blocks'
    BY <1>5 DEF PutAside, FindBusy, IsBlocked
  <2>2. h \in Txs /\ 1 \in DOMAIN txes /\ h = txes[1]
    BY <1>1, <2>1, HeadAndTail DEF TypeOK
  <2>3. \A i \in DOMAIN txes' : i + 1 \in DOMAIN txes /\ txes'[i] = txes[i + 1]
    BY <1>1, <2>1, HeadAndTail DEF TypeOK
  <2>4. InOrder(txes') /\ \A i \in DOMAIN txes' : txes'[i].d = h.d => h.n < txes'[i].n
    BY <1>1, <2>1, TailInOrder DEF IInv, TypeOK
  <2>5. \A i \in DOMAIN laters' : (i \in DOMAIN laters /\ laters'[i] = laters[i]) \/ laters'[i] = h
    BY <1>1, <2>1, <2>2, Appended DEF TypeOK
  <2>6. InOrder(laters')
    <3>1. \A i \in DOMAIN laters : laters[i].d = h.d => laters[i].n < h.n
      BY <2>2 DEF IInv
    <3> QED
      BY <1>1, <2>1, <2>2, <3>1, AppendInOrder DEF IInv, TypeOK
  <2>7. Pending(laters)' /\ Pending(txes)'
    BY <2>1, <2>2, <2>3, <2>5 DEF IInv, Pending
  <2>8. \A i \in DOMAIN laters' : laters'[i].d \in blocks'
    BY <2>1, <2>5 DEF IInv
  <2>9. \A i \in DOMAIN laters', j \in DOMAIN txes' :
          laters'[i].d = txes'[j].d => laters'[i].n < txes'[j].n
    BY <2>3, <2>4, <2>5 DEF IInv
  <2> QED
    BY <1>1, <2>1, <2>4, <2>6, <2>7, <2>8, <2>9 DEF IInv, InOrder
<1>6. CASE Raise
  <2>1. /\ txes # <<>> /\ txes' = Tail(txes) /\ laters' = <<>>
        /\ UNCHANGED <<mode, queued, sent>>
    BY <1>6 DEF Raise
  <2>2. InOrder(txes')
    BY <1>1, <2>1, TailInOrder DEF IInv, TypeOK
  <2>3. Pending(txes)'
    <3>1. \A i \in DOMAIN txes' : i + 1 \in DOMAIN txes /\ txes'[i] = txes[i + 1]
      BY <1>1, <2>1, HeadAndTail DEF TypeOK
    <3> QED
      BY <2>1, <3>1 DEF IInv, Pending
  <2> QED
    BY <1>1, <2>1, <2>2, <2>3 DEF IInv, InOrder, Pending
<1>7. CASE PutBack
  BY <1>1, <1>7 DEF PutBack, IInv, InOrder, Pending
<1>8. CASE UNCHANGED vars
  BY <1>1, <1>8 DEF vars, IInv, InOrder, Pending
<1> QED
  BY <1>2, <1>3, <1>4, <1>5, <1>6, <1>7, <1>8 DEF Next, SendOnce, FindBusyOnce, RaiseOnce, IInv

(* Serviced with serviceAll, the packets of each destination leave the stack in the order
   they were queued, however many destinations are busy and how often. *)
THEOREM OrderTheorem == Spec => []KeepsOrder
<1> DEFINE J == mode = "all" => IInv
<1>1. Init => J
  BY DEF Init, IInv, TypeOK, InOrder, Pending
<1>2. J /\ [Next]_vars => J'
  <2> SUFFICES ASSUME J, [Next]_vars, mode' = "all" PROVE IInv'
    OBVIOUS
  <2>1. mode' = mode
    BY DEF Next, vars, Tx, SendOne, SendOnce, ServiceTxes, PutAside, FindBusy, Raise, PutBack,
           FindBusyOnce, RaiseOnce
  <2> QED
    BY <2>1, NextIInv
<1>3. ASSUME IInv PROVE KeepsOrder
  <2> DEFINE w == laters \o txes
  <2>1. laters \in Seq(Txs) /\ txes \in Seq(Txs)
    BY <1>3 DEF IInv, TypeOK
  <2>2. \A i \in DOMAIN w :
          \/ i \in DOMAIN laters /\ w[i] = laters[i]
          \/ i > Len(laters) /\ i - Len(laters) \in DOMAIN txes /\ w[i] = txes[i - Len(laters)]
    BY <2>1
  <2> HIDE DEF w
  <2>3. ASSUME NEW i \in DOMAIN w PROVE \A k \in sent[w[i].d] : k < w[i].n
    BY <1>3, <2>2, <2>3 DEF IInv, Pending
  <2>4. ASSUME NEW i \in DOMAIN w, NEW j \in DOMAIN w, i < j, w[i].d = w[j].d
        PROVE  w[i].n < w[j].n
    <3>1. Len(laters) \in Nat /\ DOMAIN laters = 1 .. Len(laters) /\ i \in Int /\ j \in Int
      BY <2>1 DEF w
    <3>2. CASE j \in DOMAIN laters /\ w[j] = laters[j]
      <4>1. i \in DOMAIN laters /\ w[i] = laters[i]
        BY <2>2, <2>4, <3>1, <3>2
      <4> QED
        BY <1>3, <2>4, <3>2, <4>1 DEF IInv, InOrder
    <3>3. CASE j > Len(laters) /\ j - Len(laters) \in DOMAIN txes /\ w[j] = txes[j - Len(laters)]
      <4>1. CASE i \in DOMAIN laters /\ w[i] = laters[i]
        BY <1>3, <2>4, <3>3, <4>1 DEF IInv
      <4>2. CASE i > Len(laters) /\ i - Len(laters) \in DOMAIN txes /\ w[i] = txes[i - Len(laters)]
        <5>1. i - Len(laters) < j - Len(laters)
          BY <2>4, <3>1
        <5> QED
          BY <1>3, <2>4, <3>3, <4>2, <5>1 DEF IInv, InOrder
      <4> QED
        BY <2>2, <4>1, <4>2
    <3> QED
      BY <2>2, <3>2, <3>3
  <2> QED
    BY <2>3, <2>4 DEF KeepsOrder, Sequential, InOrder, w
<1>4. J => KeepsOrder
  BY <1>3 DEF KeepsOrder
<1> QED
  BY <1>1, <1>2, <1>4, PTL DEF Spec


-----------------------------------------------------------------------------
(* Nothing is lost.                                                         *)

Packets(s)  == {s[i] : i \in DOMAIN s}
Distinct(s) == \A i, j \in DOMAIN s : s[i] = s[j] => i = j
Waiting     == Packets(laters) \cup Packets(txes)

(* Each packet that was queued is in one place of one of the two queues,
   unless it was sent or dropped. *)
KeptInv ==
  /\ TypeOK
  /\ Distinct(laters) /\ Distinct(txes) /\ Packets(laters) \cap Packets(txes) = {}
  /\ \A d \in Dests : \A n \in sent[d] : n <= queued[d]
  /\ \A tx \in lost : tx.n <= queued[tx.d]
  /\ \A tx \in Txs :
       tx \in Waiting <=> tx.n <= queued[tx.d] /\ tx.n \notin sent[tx.d] /\ tx \notin lost

LEMMA PacketsTaken ==
  ASSUME NEW s \in Seq(Txs), s # <<>>
  PROVE  /\ Head(s) \in Txs /\ Tail(s) \in Seq(Txs) /\ Head(s) \in Packets(s)
         /\ Packets(s) = {Head(s)} \cup Packets(Tail(s))
         /\ Distinct(s) => Distinct(Tail(s)) /\ Head(s) \notin Packets(Tail(s))
<1> DEFINE t == Tail(s)
<1>1. /\ Len(s) \in Nat /\ Len(s) > 0 /\ DOMAIN s = 1 .. Len(s) /\ Head(s) = s[1]
      /\ t \in Seq(Txs) /\ DOMAIN t = 1 .. Len(s) - 1 /\ \A i \in 1 .. Len(s) - 1 : t[i] = s[i + 1]
      /\ Head(s) \in Txs
  BY HeadAndTail
<1> HIDE DEF t
<1>2. ASSUME NEW i \in DOMAIN t PROVE i + 1 \in DOMAIN s /\ t[i] = s[i + 1] /\ i + 1 # 1
  BY <1>1
<1>3. ASSUME NEW i \in DOMAIN s, i # 1 PROVE i - 1 \in DOMAIN t /\ t[i - 1] = s[i]
  BY <1>1, <1>3
<1>4. 1 \in DOMAIN s
  BY <1>1
<1>5. Packets(s) = {Head(s)} \cup Packets(t)
  <2>1. ASSUME NEW i \in DOMAIN s PROVE s[i] \in {Head(s)} \cup Packets(t)
    BY <1>1, <1>3 DEF Packets
  <2>2. ASSUME NEW i \in DOMAIN t PROVE t[i] \in Packets(s)
    BY <1>2 DEF Packets
  <2>3. Head(s) \in Packets(s)
    BY <1>1, <1>4 DEF Packets
  <2> QED
    BY <2>1, <2>2, <2>3 DEF Packets
<1>6. ASSUME Distinct(s) PROVE Distinct(t) /\ Head(s) \notin Packets(t)
  <2>1. ASSUME NEW i \in DOMAIN t, NEW j \in DOMAIN t, t[i] = t[j] PROVE i = j
    <3>1. i + 1 = j + 1
      BY <1>2, <1>6, <2>1 DEF Distinct
    <3> QED
      BY <1>1, <3>1
  <2>2. ASSUME NEW i \in DOMAIN t PROVE t[i] # Head(s)
    BY <1>1, <1>2, <1>4, <1>6 DEF Distinct
  <2> QED
    BY <2>1, <2>2 DEF Distinct, Packets
<1> QED
  BY <1>1, <1>5, <1>6 DEF t

LEMMA PacketsPut ==
  ASSUME NEW s \in Seq(Txs), NEW x \in Txs
  PROVE  /\ Append(s, x) \in Seq(Txs)
         /\ Packets(Append(s, x)) = Packets(s) \cup {x}
         /\ Distinct(s) /\ x \notin Packets(s) => Distinct(Append(s, x))
<1> DEFINE t == Append(s, x)
<1>1. /\ t \in Seq(Txs) /\ DOMAIN s = 1 .. Len(s) /\ DOMAIN t = 1 .. Len(s) + 1 /\ Len(s) \in Nat
      /\ t[Len(s) + 1] = x /\ \A i \in 1 .. Len(s) : t[i] = s[i]
  OBVIOUS
<1> HIDE DEF t
<1>2. \A i \in DOMAIN t : (i \in DOMAIN s /\ t[i] = s[i]) \/ (i = Len(s) + 1 /\ t[i] = x)
  BY <1>1
<1>3. \A i \in DOMAIN s : i \in DOMAIN t /\ t[i] = s[i]
  BY <1>1
<1>4. Len(s) + 1 \in DOMAIN t
  BY <1>1
<1>5. Packets(t) = Packets(s) \cup {x}
  BY <1>1, <1>2, <1>3, <1>4 DEF Packets
<1>6. ASSUME Distinct(s), x \notin Packets(s) PROVE Distinct(t)
  BY <1>2, <1>6 DEF Distinct, Packets
<1> QED
  BY <1>1, <1>5, <1>6 DEF t

LEMMA PacketsOfNone == Packets(<<>>) = {} /\ Distinct(<<>>)
BY DEF Packets, Distinct

(* A packet goes from the queue. *)
LEMMA HeadLeaves ==
  ASSUME KeptInv, txes # <<>>
  PROVE  /\ Head(txes) \in Txs /\ Tail(txes) \in Seq(Txs) /\ Distinct(Tail(txes))
         /\ Head(txes) \in Waiting /\ Head(txes) \notin Packets(laters)
         /\ Head(txes) \notin Packets(Tail(txes))
         /\ Packets(txes) = {Head(txes)} \cup Packets(Tail(txes))
         /\ Head(txes).n <= queued[Head(txes).d]
BY PacketsTaken DEF KeptInv, TypeOK, Waiting

LEMMA NextKeptInv == KeptInv /\ TypeOK' /\ [Next]_vars => KeptInv'
<1> SUFFICES ASSUME KeptInv, TypeOK', [Next]_vars PROVE KeptInv'
  OBVIOUS
<1> DEFINE h == Head(txes)
<1> USE DEF KeptInv
<1>1. TypeOK /\ laters \in Seq(Txs) /\ txes \in Seq(Txs) /\ queued \in [Dests -> Nat]
      /\ sent \in [Dests -> SUBSET Nat] /\ lost \subseteq Txs
  BY DEF TypeOK
<1>2. \A tx \in Txs : tx.d \in Dests /\ tx.n \in Nat /\ tx.n > 0
                      /\ tx = [d |-> tx.d, n |-> tx.n]
  BY DEF Txs
<1>3. ASSUME NEW d \in Dests, Tx(d) PROVE KeptInv'
  <2> DEFINE x == [d |-> d, n |-> queued[d] + 1]
  <2>1. /\ txes' = Append(txes, x) /\ queued' = [queued EXCEPT ![d] = @ + 1]
        /\ laters' = laters /\ sent' = sent /\ lost' = lost
    BY <1>3 DEF Tx
  <2>2. x \in Txs /\ x.d = d /\ x.n = queued[d] + 1 /\ queued[d] \in Nat
    BY <1>1 DEF Txs
  <2> HIDE DEF x
  <2>3. x \notin Waiting
    BY <2>2
  <2>4. /\ Packets(txes') = Packets(txes) \cup {x} /\ Distinct(txes')
    BY <1>1, <2>1, <2>2, <2>3, PacketsPut DEF Waiting
  <2>5. \A e \in Dests : queued'[e] = IF e = d THEN queued[e] + 1 ELSE queued[e]
    BY <1>1, <2>1
  <2>6. \A e \in Dests : queued[e] \in Nat /\ queued[e] <= queued'[e]
    BY <1>1, <2>5
  <2>7. Waiting' = Waiting \cup {x}
    BY <2>1, <2>4 DEF Waiting
  <2>8. /\ \A e \in Dests : \A n \in sent[e] : n <= queued'[e]
        /\ \A tx \in lost : tx.n <= queued'[tx.d]
    <3>1. ASSUME NEW e \in Dests, NEW n \in sent[e] PROVE n <= queued'[e]
      <4>1. n \in Nat /\ n <= queued[e] /\ queued'[e] \in Nat
        BY <1>1, <2>5
      <4> QED
        BY <2>6, <4>1
    <3>2. ASSUME NEW tx \in lost PROVE tx.n <= queued'[tx.d]
      <4>1. tx.d \in Dests /\ tx.n \in Nat /\ tx.n <= queued[tx.d] /\ queued'[tx.d] \in Nat
        BY <1>1, <1>2, <2>5
      <4> QED
        BY <2>6, <4>1
    <3> QED
      BY <3>1, <3>2
  <2>9. ASSUME NEW tx \in Txs
        PROVE  tx \in Waiting'
                 <=> tx.n <= queued'[tx.d] /\ tx.n \notin sent[tx.d] /\ tx \notin lost
    <3>1. tx.d \in Dests /\ tx.n \in Nat /\ tx = [d |-> tx.d, n |-> tx.n]
      BY <1>2
    <3>2. CASE tx = x
      BY <2>2, <2>5, <2>7, <3>1, <3>2
    <3>3. CASE tx # x
      <4>1. tx.n <= queued'[tx.d] <=> tx.n <= queued[tx.d]
        BY <2>2, <2>5, <2>6, <3>1, <3>3 DEF x
      <4> QED
        BY <2>7, <3>3, <4>1
    <3> QED
      BY <3>2, <3>3
  <2> QED
    BY <2>1, <2>3, <2>4, <2>8, <2>9 DEF Waiting
<1>4. ASSUME NEW d \in Dests, SendOne(d) \/ SendOnce(d) PROVE KeptInv'
  <2>1. /\ txes # <<>> /\ txes' = Tail(txes) /\ h.d = d
        /\ sent' = [sent EXCEPT ![d] = @ \cup {h.n}]
        /\ laters' = laters /\ queued' = queued /\ lost' = lost
    BY <1>4 DEF SendOne, SendOnce, Send
  <2>2. /\ h \in Txs /\ Distinct(txes') /\ h \in Waiting /\ h \notin Packets(laters)
        /\ h \notin Packets(txes') /\ Packets(txes) = {h} \cup Packets(txes')
        /\ h.n <= queued[h.d]
    BY <2>1, HeadLeaves
  <2> HIDE DEF h
  <2>3. Waiting' = Waiting \ {h}
    BY <2>1, <2>2 DEF Waiting
  <2>4. \A e \in Dests : sent'[e] = IF e = d THEN sent[e] \cup {h.n} ELSE sent[e]
    BY <1>1, <2>1
  <2>5. ASSUME NEW tx \in Txs
        PROVE  tx \in Waiting'
                 <=> tx.n <= queued[tx.d] /\ tx.n \notin sent'[tx.d] /\ tx \notin lost
    <3>1. CASE tx = h
      <4>1. h.d = d
        BY <2>1
      <4>2. sent'[d] = sent[d] \cup {h.n}
        BY <2>4
      <4>3. h.n \in sent'[h.d]
        BY <4>1, <4>2
      <4> QED
        BY <2>3, <3>1, <4>3
    <3>2. CASE tx # h
      <4>1. tx.d # d \/ tx.n # h.n
        BY <1>2, <2>1, <2>2, <3>2
      <4> QED
        BY <1>2, <2>3, <2>4, <3>2, <4>1
    <3> QED
      BY <3>1, <3>2
  <2> QED
    BY <2>1, <2>2, <2>4, <2>5
<1>5. CASE PutAside \/ FindBusy
  <2>1. /\ txes # <<>> /\ txes' = Tail(txes) /\ laters' = Append(laters, h)
        /\ queued' = queued /\ sent' = sent /\ lost' = lost
    BY <1>5 DEF PutAside, FindBusy
  <2>2. /\ h \in Txs /\ Distinct(txes') /\ h \notin Packets(laters)
        /\ h \notin Packets(txes') /\ Packets(txes) = {h} \cup Packets(txes')
    BY <2>1, HeadLeaves
  <2>3. Packets(laters') = Packets(laters) \cup {h} /\ Distinct(laters')
    BY <1>1, <2>1, <2>2, PacketsPut
  <2>4. Waiting' = Waiting /\ Packets(laters') \cap Packets(txes') = {}
    BY <2>2, <2>3 DEF Waiting
  <2> QED
    BY <2>1, <2>2, <2>3, <2>4
<1>6. CASE Raise \/ RaiseOnce
  <2>1. /\ txes # <<>> /\ txes' = Tail(txes) /\ queued' = queued /\ sent' = sent
        /\ \/ lost' = lost \cup {h} \cup Packets(laters) /\ laters' = <<>>
           \/ lost' = lost \cup {h} /\ laters' = laters
    BY <1>6 DEF Raise, RaiseOnce, Packets
  <2>2. /\ h \in Txs /\ Distinct(txes') /\ h \in Waiting /\ h \notin Packets(laters)
        /\ h \notin Packets(txes') /\ Packets(txes) = {h} \cup Packets(txes')
        /\ h.n <= queued[h.d]
    BY <2>1, HeadLeaves
  <2> HIDE DEF h
  <2>3. PICK gone : /\ gone \subseteq Waiting /\ lost' = lost \cup gone
                    /\ Waiting' = Waiting \ gone
                    /\ Distinct(laters') /\ Packets(laters') \cap Packets(txes') = {}
    <3>1. CASE lost' = lost \cup {h} \cup Packets(laters) /\ laters' = <<>>
      <4>1. Packets(laters') = {} /\ Distinct(laters')
        BY <3>1, PacketsOfNone
      <4>2. Waiting' = Waiting \ ({h} \cup Packets(laters))
        BY <2>2, <4>1 DEF Waiting
      <4>3. {h} \cup Packets(laters) \subseteq Waiting
        BY <2>2 DEF Waiting
      <4> QED
        BY <3>1, <4>1, <4>2, <4>3
    <3>2. CASE lost' = lost \cup {h} /\ laters' = laters
      <4>1. Waiting' = Waiting \ {h}
        BY <2>2, <3>2 DEF Waiting
      <4> QED
        BY <2>2, <3>2, <4>1
    <3> QED
      BY <2>1, <3>1, <3>2
  <2>4. Waiting \subseteq Txs
    BY <1>1, Elements DEF Waiting, Packets
  <2> QED
    BY <2>1, <2>2, <2>3, <2>4
<1>7. CASE FindBusyOnce
  <2>1. /\ txes # <<>> /\ txes' = Append(Tail(txes), h) /\ laters' = laters
        /\ queued' = queued /\ sent' = sent /\ lost' = lost
    BY <1>7 DEF FindBusyOnce
  <2>2. /\ h \in Txs /\ Tail(txes) \in Seq(Txs) /\ Distinct(Tail(txes))
        /\ h \notin Packets(Tail(txes)) /\ Packets(txes) = {h} \cup Packets(Tail(txes))
    BY <2>1, HeadLeaves
  <2>3. Packets(txes') = Packets(txes) /\ Distinct(txes')
    BY <2>1, <2>2, PacketsPut
  <2>4. Waiting' = Waiting
    BY <2>1, <2>3 DEF Waiting
  <2> QED
    BY <2>1, <2>3, <2>4
<1>8. CASE PutBack
  <2>1. /\ txes = <<>> /\ txes' = laters /\ laters' = <<>>
        /\ queued' = queued /\ sent' = sent /\ lost' = lost
    BY <1>8 DEF PutBack
  <2>2. Packets(laters') = {} /\ Distinct(laters') /\ Packets(txes) = {}
    BY <2>1, PacketsOfNone
  <2>3. Waiting' = Waiting
    BY <2>1, <2>2 DEF Waiting
  <2> QED
    BY <2>1, <2>2, <2>3
<1>9. CASE ServiceTxes \/ UNCHANGED vars
  BY <1>9 DEF ServiceTxes, vars, Waiting
<1> QED
  BY <1>3, <1>4, <1>5, <1>6, <1>7, <1>8, <1>9 DEF Next

(* However the stack is serviced, _handleOneTx and serviceTxes lose no packet and
   double none: each one queued waits in one place, or was sent, or was dropped by an
   exception that was raised. *)
THEOREM NothingLostTheorem == Spec => []NothingLost
<1>1. Init => KeptInv
  <2> SUFFICES ASSUME Init PROVE KeptInv
    OBVIOUS
  <2>1. /\ laters = <<>> /\ txes = <<>> /\ lost = {} /\ TypeOK
        /\ \A d \in Dests : queued[d] = 0 /\ sent[d] = {}
    BY DEF Init, TypeOK
  <2>2. Waiting = {} /\ Distinct(laters) /\ Distinct(txes)
    BY <2>1, PacketsOfNone DEF Waiting
  <2>3. ASSUME NEW tx \in Txs PROVE ~(tx.n <= queued[tx.d])
    BY <2>1 DEF Txs
  <2> QED
    BY <2>1, <2>2, <2>3, PacketsOfNone DEF KeptInv
<1>2. KeptInv /\ [Next]_vars => KeptInv'
  BY NextKeptInv, NextTypeOK DEF KeptInv
<1>3. ASSUME KeptInv PROVE NothingLost
  <2> DEFINE w == laters \o txes
  <2>1. laters \in Seq(Txs) /\ txes \in Seq(Txs)
    BY <1>3 DEF KeptInv, TypeOK
  <2>2. /\ \A i \in DOMAIN w :
             \/ i \in DOMAIN laters /\ w[i] = laters[i]
             \/ i > Len(laters) /\ i - Len(laters) \in DOMAIN txes /\ w[i] = txes[i - Len(laters)]
        /\ \A i \in DOMAIN laters : i \in DOMAIN w /\ w[i] = laters[i]
        /\ \A i \in DOMAIN txes : i + Len(laters) \in DOMAIN w /\ w[i + Len(laters)] = txes[i]
        /\ Len(laters) \in Nat /\ DOMAIN w \subseteq Nat
    BY <2>1
  <2> HIDE DEF w
  <2>3. Packets(w) = Waiting
    BY <2>2 DEF Packets, Waiting
  <2>4. ASSUME NEW i \in DOMAIN w, NEW j \in DOMAIN w, w[i] = w[j] PROVE i = j
    <3>0. /\ \A m, n \in DOMAIN laters : laters[m] = laters[n] => m = n
          /\ \A m, n \in DOMAIN txes : txes[m] = txes[n] => m = n
          /\ \A m \in DOMAIN laters, n \in DOMAIN txes : laters[m] # txes[n]
      BY <1>3 DEF KeptInv, Distinct, Packets
    <3>1. CASE i \in DOMAIN laters /\ w[i] = laters[i]
      <4>1. CASE j \in DOMAIN laters /\ w[j] = laters[j]
        BY <2>4, <3>0, <3>1, <4>1
      <4>2. CASE /\ j > Len(laters) /\ j - Len(laters) \in DOMAIN txes
                 /\ w[j] = txes[j - Len(laters)]
        BY <2>4, <3>0, <3>1, <4>2
      <4> QED
        BY <2>2, <4>1, <4>2
    <3>2. CASE /\ i > Len(laters) /\ i - Len(laters) \in DOMAIN txes
               /\ w[i] = txes[i - Len(laters)]
      <4>1. j - Len(laters) \in DOMAIN txes /\ w[j] = txes[j - Len(laters)]
        BY <2>2, <2>4, <3>0, <3>2
      <4>2. i - Len(laters) = j - Len(laters)
        BY <2>4, <3>0, <3>2, <4>1
      <4> QED
        BY <2>2, <4>2
    <3> QED
      BY <2>2, <3>1, <3>2
  <2>5. \A i \in DOMAIN w : w[i] \in Txs
    BY <2>1, <2>2
  <2>6. ASSUME NEW d \in Dests
        PROVE  /\ {w[i].n : i \in {k \in DOMAIN w : w[k].d = d}}
                    = {n \in (1 .. queued[d]) \ sent[d] : [d |-> d, n |-> n] \notin lost}
               /\ \A i, j \in {k \in DOMAIN w : w[k].d = d} : w[i].n = w[j].n => i = j
    <3>1. \A tx \in Txs : tx = [d |-> tx.d, n |-> tx.n] /\ tx.n \in Nat /\ tx.n > 0
      BY DEF Txs
    <3>2. queued[d] \in Nat
      BY <1>3 DEF KeptInv, TypeOK
    <3>3. ASSUME NEW i \in DOMAIN w, w[i].d = d
          PROVE  /\ w[i].n \in (1 .. queued[d]) \ sent[d]
                 /\ [d |-> d, n |-> w[i].n] \notin lost
      <4>1. w[i] \in Txs /\ w[i] \in Waiting
        BY <2>3, <2>5 DEF Packets
      <4> QED
        BY <1>3, <3>1, <3>2, <3>3, <4>1 DEF KeptInv
    <3>4. ASSUME NEW n \in (1 .. queued[d]) \ sent[d], [d |-> d, n |-> n] \notin lost
          PROVE  \E i \in DOMAIN w : w[i].d = d /\ w[i].n = n
      <4> DEFINE tx == [d |-> d, n |-> n]
      <4>1. tx \in Txs /\ tx.d = d /\ tx.n = n
        BY <3>2 DEF Txs
      <4>2. n <= queued[d]
        BY <3>2
      <4> HIDE DEF tx
      <4>3. tx \in Packets(w)
        BY <1>3, <2>3, <3>4, <4>1, <4>2 DEF KeptInv, tx
      <4> QED
        BY <4>1, <4>3 DEF Packets
    <3>5. ASSUME NEW i \in DOMAIN w, NEW j \in DOMAIN w, w[i].d = d, w[j].d = d, w[i].n = w[j].n
          PROVE  i = j
      <4>1. w[i] = w[j]
        BY <2>5, <3>1, <3>5
      <4> QED
        BY <2>4, <4>1
    <3> QED
      BY <3>3, <3>4, <3>5
  <2> QED
    BY <2>6 DEF NothingLost, w
<1> QED
  BY <1>1, <1>2, <1>3, PTL DEF Spec
=============================================================================
