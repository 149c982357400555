------------------------------ MODULE Lane_proofs ------------------------------
(***************************************************************************)
(* Proofs about a lane: books are delivered whole and in order, and none   *)
(* waits for a page that cannot come, for any number of sessions, books,   *)
(* pages and faults.                                                       *)
(***************************************************************************)
EXTENDS Lane, SequenceTheorems, TLAPS

-----------------------------------------------------------------------------
(* The inductive invariant.                                                 *)

(* Pages are sent in this order. *)
Before(p, q) ==
  \/ p.si < q.si
  \/ p.si = q.si /\ p.bi < q.bi
  \/ p.si = q.si /\ p.bi = q.bi /\ p.pn < q.pn

Ascending(s) == \A i, j \in DOMAIN s : i < j => Before(s[i], s[j])
AllBefore(S, T) == \A p \in S, q \in T : Before(p, q)

(* Pages the receiver has handled: in its books, or delivered. *)
Kept(y)      == UNION {y.books[index] : index \in DOMAIN y.books}
Delivered(r) == UNION {r[i] : i \in DOMAIN r}
UnderWay     == ToSet(rxes) \cup ToSet(txes)
Handled      == Kept(yard) \cup Delivered(rxMsgs)
Seen         == Handled \cup UnderWay

(* Pages of one message agree on how many there are. *)
Agree(S) == \A p, q \in S : Index(p) = Index(q) => p.pc = q.pc

Numbered(p) ==
  /\ p \in Pages /\ p.pn < p.pc
  /\ p.si < remote.sid \/ (p.si = remote.sid /\ p.bi <= remote.bid)

(* The pages of p's message from n on. *)
Rest(p, n) == {q \in ToSet(Book(p.si, p.bi, p.pc)) : q.pn >= n}

FlowInv ==
  /\ Ascending(rxes) /\ Ascending(txes)
  /\ AllBefore(ToSet(rxes), ToSet(txes)) /\ AllBefore(Handled, UnderWay)
  /\ \A p \in Seen : Numbered(p)
  /\ Agree(Seen)
  /\ ~up => rxes = <<>> /\ yard = NoYard

YardInv(y) ==
  /\ DOMAIN y = {"known", "rsid", "books"}
  /\ ~y.known => y = NoYard
  /\ \A index \in DOMAIN y.books :
       /\ index[1] = y.rsid /\ index[1] <= remote.sid /\ y.books[index] # {}
       /\ \A p \in y.books[index] : Index(p) = index /\ p.pc > 1

(* Of the present session nothing got lost but by an exception. *)
ComingInv ==
  remote.known =>
    /\ \A p \in UnderWay : p.si = remote.sid => Rest(p, p.pn + 1) \subseteq UnderWay \cup lost
    /\ \A index \in DOMAIN yard.books : index[1] = remote.sid =>
         \A p \in yard.books[index] :
           Rest(p, 0) \subseteq yard.books[index] \cup UnderWay \cup lost

IInv == TypeOK /\ FlowInv /\ YardInv(yard) /\ ComingInv /\ WholeInOrder

-----------------------------------------------------------------------------
(* Sequences of pages.                                                      *)

LEMMA PageFields ==
  ASSUME NEW p \in Pages
  PROVE  /\ p.si \in 0 .. MaxSid /\ p.bi \in 0 .. MaxBid
         /\ p.pn \in 0 .. MaxPages - 1 /\ p.pc \in 1 .. MaxPages
         /\ p.si \in Nat /\ p.bi \in Nat /\ p.pn \in Nat /\ p.pc \in Nat
         /\ p = [si |-> p.si, bi |-> p.bi, pn |-> p.pn, pc |-> p.pc]
BY ConstantsAssumption DEF Pages, Sids, Bids

LEMMA Trichotomy ==
  ASSUME NEW p \in Pages, NEW q \in Pages, NEW r \in Pages
  PROVE  /\ ~Before(p, p)
         /\ Before(p, q) => ~Before(q, p)
         /\ Before(p, q) /\ Before(q, r) => Before(p, r)
BY PageFields DEF Before

LEMMA Members ==
  /\ ToSet(<<>>) = {}
  /\ \A s \in Seq(Pages) : ToSet(s) \subseteq Pages
BY DEF ToSet

LEMMA Taken ==
  ASSUME NEW s \in Seq(Pages), s # <<>>, Ascending(s)
  PROVE  /\ Head(s) \in ToSet(s) /\ Head(s) \in Pages /\ Tail(s) \in Seq(Pages)
         /\ ToSet(s) = {Head(s)} \cup ToSet(Tail(s))
         /\ Ascending(Tail(s)) /\ AllBefore({Head(s)}, ToSet(Tail(s)))
<1>1. /\ Len(s) \in Nat /\ Len(s) > 0 /\ DOMAIN s = 1 .. Len(s) /\ Head(s) = s[1]
      /\ Tail(s) \in Seq(Pages) /\ Len(Tail(s)) = Len(s) - 1
      /\ DOMAIN Tail(s) = 1 .. Len(s) - 1
      /\ \A i \in 1 .. Len(s) - 1 : Tail(s)[i] = s[i + 1]
  BY EmptySeq, LenProperties, HeadTailProperties
<1>2. Head(s) \in ToSet(s) /\ Head(s) \in Pages
  BY <1>1 DEF ToSet
<1>3. \A i \in DOMAIN s : i = 1 \/ (i - 1 \in DOMAIN Tail(s) /\ Tail(s)[i - 1] = s[i])
  <2> TAKE i \in DOMAIN s
  <2> QED
    BY <1>1
<1>4. ToSet(s) = {Head(s)} \cup ToSet(Tail(s))
  <2>1. ASSUME NEW p \in ToSet(s) PROVE p \in {Head(s)} \cup ToSet(Tail(s))
    <3>1. PICK i \in DOMAIN s : p = s[i]
      BY DEF ToSet
    <3> QED
      BY <1>1, <1>3, <3>1 DEF ToSet
  <2>2. ASSUME NEW p \in ToSet(Tail(s)) PROVE p \in ToSet(s)
    <3>1. PICK i \in DOMAIN Tail(s) : p = Tail(s)[i]
      BY DEF ToSet
    <3>2. i + 1 \in DOMAIN s /\ p = s[i + 1]
      BY <1>1, <3>1
    <3> QED
      BY <3>2 DEF ToSet
  <2> QED
    BY <1>2, <2>1, <2>2
<1>5. ASSUME NEW i \in DOMAIN Tail(s), NEW j \in DOMAIN Tail(s), i < j
      PROVE  Before(Tail(s)[i], Tail(s)[j])
  <2>1. i + 1 \in DOMAIN s /\ j + 1 \in DOMAIN s /\ i + 1 < j + 1
    BY <1>1, <1>5
  <2> QED
    BY <1>1, <2>1 DEF Ascending
<1>6. ASSUME NEW p \in ToSet(Tail(s)) PROVE Before(Head(s), p)
  <2>1. PICK i \in DOMAIN Tail(s) : p = Tail(s)[i]
    BY DEF ToSet
  <2>2. i + 1 \in DOMAIN s /\ 1 \in DOMAIN s /\ 1 < i + 1 /\ p = s[i + 1]
    BY <1>1, <2>1
  <2> QED
    BY <1>1, <2>2 DEF Ascending
<1> QED
  BY <1>1, <1>2, <1>4, <1>5, <1>6 DEF Ascending, AllBefore

LEMMA Joined ==
  ASSUME NEW s \in Seq(Pages), NEW t \in Seq(Pages), Ascending(s), Ascending(t),
         AllBefore(ToSet(s), ToSet(t))
  PROVE  s \o t \in Seq(Pages) /\ Ascending(s \o t) /\ ToSet(s \o t) = ToSet(s) \cup ToSet(t)
<1> DEFINE u == s \o t
<1>1. /\ u \in Seq(Pages) /\ Len(s) \in Nat /\ Len(t) \in Nat
      /\ DOMAIN s = 1 .. Len(s) /\ DOMAIN t = 1 .. Len(t)
      /\ DOMAIN u = 1 .. Len(s) + Len(t)
      /\ \A i \in 1 .. Len(s) + Len(t) : u[i] = IF i <= Len(s) THEN s[i] ELSE t[i - Len(s)]
  BY LenProperties, ConcatProperties
<1> HIDE DEF u
<1>2. ASSUME NEW i \in DOMAIN u
      PROVE  \/ i \in DOMAIN s /\ u[i] = s[i]
             \/ i > Len(s) /\ i - Len(s) \in DOMAIN t /\ u[i] = t[i - Len(s)]
  BY <1>1
<1>3. ASSUME NEW i \in DOMAIN u, NEW j \in DOMAIN u, i < j PROVE Before(u[i], u[j])
  <2>1. CASE i \in DOMAIN s /\ j \in DOMAIN s
    BY <1>1, <1>3, <2>1 DEF Ascending
  <2>2. CASE i \in DOMAIN s /\ j \notin DOMAIN s
    BY <1>2, <2>2 DEF AllBefore, ToSet
  <2>3. CASE i \notin DOMAIN s
    <3>1. /\ i - Len(s) \in DOMAIN t /\ u[i] = t[i - Len(s)]
          /\ j - Len(s) \in DOMAIN t /\ u[j] = t[j - Len(s)] /\ i - Len(s) < j - Len(s)
      BY <1>1, <1>3, <2>3
    <3> QED
      BY <3>1 DEF Ascending
  <2> QED
    BY <2>1, <2>2, <2>3
<1>4. ASSUME NEW p \in ToSet(u) PROVE p \in ToSet(s) \cup ToSet(t)
  <2>1. PICK i \in DOMAIN u : p = u[i]
    BY DEF ToSet
  <2> QED
    BY <1>2, <2>1 DEF ToSet
<1>5. ASSUME NEW p \in ToSet(s) \cup ToSet(t) PROVE p \in ToSet(u)
  <2>1. CASE p \in ToSet(s)
    <3>1. PICK i \in DOMAIN s : p = s[i]
      BY <2>1 DEF ToSet
    <3>2. i \in DOMAIN u /\ p = u[i]
      BY <1>1, <3>1
    <3> QED
      BY <3>2 DEF ToSet
  <2>2. CASE p \in ToSet(t)
    <3>1. PICK i \in DOMAIN t : p = t[i]
      BY <2>2 DEF ToSet
    <3>2. i + Len(s) \in DOMAIN u /\ p = u[i + Len(s)]
      BY <1>1, <3>1
    <3> QED
      BY <3>2 DEF ToSet
  <2> QED
    BY <2>1, <2>2
<1> QED
  BY <1>1, <1>3, <1>4, <1>5 DEF Ascending, u

LEMMA Queued ==
  ASSUME NEW s \in Seq(Pages), NEW p \in Pages, Ascending(s), AllBefore(ToSet(s), {p})
  PROVE  Append(s, p) \in Seq(Pages) /\ Ascending(Append(s, p))
         /\ ToSet(Append(s, p)) = ToSet(s) \cup {p}
<1>1. /\ <<p>> \in Seq(Pages) /\ Append(s, p) = s \o <<p>>
      /\ ToSet(<<p>>) = {p} /\ Ascending(<<p>>)
  BY AppendIsConcat DEF ToSet, Ascending
<1> QED
  BY <1>1, Joined

(* The pages of a message. *)
LEMMA InBook ==
  ASSUME NEW p \in Pages, NEW q
  PROVE  q \in ToSet(Book(p.si, p.bi, p.pc)) <=>
           q \in Pages /\ Index(q) = Index(p) /\ q.pc = p.pc /\ q.pn < p.pc
<1> DEFINE b == Book(p.si, p.bi, p.pc)
<1>1. /\ p.si \in Sids /\ p.bi \in Bids /\ p.pc \in 1 .. MaxPages /\ MaxPages \in Nat
  BY ConstantsAssumption DEF Pages
<1>2. DOMAIN b = 1 .. p.pc
  BY DEF Book
<1>3. ASSUME NEW i \in 1 .. p.pc
      PROVE  /\ b[i] = [si |-> p.si, bi |-> p.bi, pn |-> i - 1, pc |-> p.pc]
             /\ i - 1 \in 0 .. MaxPages - 1 /\ i - 1 < p.pc
  BY <1>1 DEF Book
<1>4. ASSUME q \in ToSet(b)
      PROVE  q \in Pages /\ Index(q) = Index(p) /\ q.pc = p.pc /\ q.pn < p.pc
  <2>1. PICK i \in 1 .. p.pc : q = b[i]
    BY <1>2, <1>4 DEF ToSet
  <2>2. PICK n \in 0 .. MaxPages - 1 : n = i - 1 /\ n < p.pc
    BY <1>3
  <2>3. q = [si |-> p.si, bi |-> p.bi, pn |-> n, pc |-> p.pc]
    BY <1>3, <2>1, <2>2
  <2>4. q.si = p.si /\ q.bi = p.bi /\ q.pn = n /\ q.pc = p.pc
    BY <2>3
  <2>5. q \in Pages
    BY <1>1, <2>3, Zenon DEF Pages
  <2> QED
    BY <2>2, <2>4, <2>5 DEF Index
<1>5. ASSUME q \in Pages, Index(q) = Index(p), q.pc = p.pc, q.pn < p.pc
      PROVE  q \in ToSet(b)
  <2>1. q.pn + 1 \in 1 .. p.pc /\ q.pn \in Nat
    BY <1>1, <1>5, PageFields
  <2>2. q.si = p.si /\ q.bi = p.bi
    BY <1>5 DEF Index
  <2>3. q = [si |-> q.si, bi |-> q.bi, pn |-> q.pn, pc |-> q.pc]
    BY <1>5, PageFields
  <2>4. (q.pn + 1) - 1 = q.pn
    BY <2>1
  <2>5. b[q.pn + 1] = q
    BY <1>3, <1>5, <2>1, <2>2, <2>3, <2>4
  <2> QED
    BY <1>2, <2>1, <2>5 DEF ToSet
<1> QED
  BY <1>4, <1>5

LEMMA InRest ==
  ASSUME NEW p \in Pages, NEW n, NEW q
  PROVE  q \in Rest(p, n) <=>
           q \in Pages /\ Index(q) = Index(p) /\ q.pc = p.pc /\ q.pn < p.pc /\ q.pn >= n
BY InBook, Zenon DEF Rest

-----------------------------------------------------------------------------
(* What most steps leave to show.                                           *)

Later(r, s) == r.sid < s.sid \/ (r.sid = s.sid /\ r.bid <= s.bid)

LEMMA Types ==
  ASSUME TypeOK, FlowInv
  PROVE  /\ remote = [known |-> remote.known, sid |-> remote.sid, bid |-> remote.bid]
         /\ remote.sid \in Nat /\ remote.bid \in Nat /\ remote.known \in BOOLEAN
         /\ remote.sid \in Sids /\ remote.bid \in Bids
         /\ txes \in Seq(Pages) /\ rxes \in Seq(Pages)
         /\ Seen \subseteq Pages
BY ConstantsAssumption DEF TypeOK, FlowInv, Sids, Bids, Numbered

(* A step on which no page is new. *)
LEMMA Flows ==
  ASSUME TypeOK, FlowInv, Later(remote, remote'), remote'.sid \in Nat, remote'.bid \in Nat,
         Ascending(rxes'), Ascending(txes'), AllBefore(ToSet(rxes'), ToSet(txes')),
         AllBefore(Handled', UnderWay'), Seen' \subseteq Seen,
         ~up' => rxes' = <<>> /\ yard' = NoYard
  PROVE  FlowInv'
<1>1. ASSUME NEW p \in Seen' PROVE Numbered(p)'
  <2>1. p \in Pages /\ Numbered(p)
    BY <1>1, Types DEF FlowInv
  <2>2. p.si \in Nat /\ p.bi \in Nat
    BY <2>1, PageFields
  <2> QED
    BY <2>1, <2>2, Types DEF Numbered, Later
<1>2. Agree(Seen)'
  BY DEF FlowInv, Agree
<1> QED
  BY <1>1, <1>2 DEF FlowInv

LEMMA Messages ==
  ASSUME WholeInOrder, rxMsgs' = rxMsgs
  PROVE  WholeInOrder'
BY DEF WholeInOrder

LEMMA YardLater ==
  ASSUME TypeOK, FlowInv, YardInv(yard), yard' = yard, remote.sid <= remote'.sid,
         remote'.sid \in Nat
  PROVE  YardInv(yard)'
BY Types DEF YardInv, TypeOK, Sids

LEMMA NoYardInv ==
  ASSUME yard' \in {NoYard, NewYard}
  PROVE  /\ YardInv(yard)' /\ DOMAIN yard'.books = {} /\ Kept(yard') = {}
         /\ yard'.known \in BOOLEAN /\ yard'.rsid \in Sids
<1>1. DOMAIN <<>> = {}
  OBVIOUS
<1>2. /\ NoYard.known = FALSE /\ NoYard.rsid = 0 /\ NoYard.books = <<>>
      /\ DOMAIN NoYard = {"known", "rsid", "books"}
  BY DEF NoYard
<1>3. /\ NewYard.known = TRUE /\ NewYard.rsid = 0 /\ NewYard.books = <<>>
      /\ DOMAIN NewYard = {"known", "rsid", "books"}
  BY <1>2 DEF NewYard
<1>4. /\ yard'.books = <<>> /\ yard'.known \in BOOLEAN /\ yard'.rsid = 0
      /\ DOMAIN yard' = {"known", "rsid", "books"}
      /\ ~yard'.known => yard' = NoYard
  BY <1>2, <1>3
<1> QED
  BY <1>1, <1>4, ConstantsAssumption DEF YardInv, Kept, Sids

LEMMA AddsRemote ==
  ASSUME IInv, AddRemote
  PROVE  IInv'
<1> USE DEF IInv, AddRemote
<1>1. /\ remote' = [known |-> TRUE, sid |-> remote.sid + 1, bid |-> 0]
      /\ remote'.sid = remote.sid + 1 /\ remote'.bid = 0 /\ remote.sid < MaxSid
      /\ txes' = txes /\ up' = up /\ rxes' = rxes /\ yard' = yard /\ rxMsgs' = rxMsgs
      /\ lost' = lost /\ faults' = faults
  OBVIOUS
<1>2. TypeOK'
  BY <1>1, ConstantsAssumption DEF TypeOK, Sids, Bids
<1>3. Seen' = Seen /\ Handled' = Handled /\ UnderWay' = UnderWay
  BY <1>1 DEF Seen, Handled, UnderWay
<1>4. FlowInv'
  BY <1>1, <1>3, Types, Flows DEF Later, FlowInv
<1>5. YardInv(yard)'
  BY <1>1, Types, YardLater
<1>6. ComingInv'
  <2>1. ASSUME NEW p \in UnderWay PROVE p.si < remote'.sid
    <3>1. p \in Pages /\ Numbered(p)
      BY <2>1, Types DEF FlowInv, Seen
    <3>2. p.si \in Nat
      BY <3>1, PageFields
    <3> QED
      BY <1>1, <3>1, <3>2, Types DEF Numbered
  <2>2. ASSUME NEW index \in DOMAIN yard.books PROVE index[1] < remote'.sid
    BY <1>1, <2>2, Types DEF YardInv, TypeOK, Sids
  <2> QED
    BY <1>1, <1>3, <2>1, <2>2, Types, PageFields DEF ComingInv, YardInv, Seen, TypeOK, Sids
<1> QED
  BY <1>1, <1>2, <1>4, <1>5, <1>6, Messages

(* The pages of the message a sender writes come after all it wrote. *)
LEMMA NewBook ==
  ASSUME IInv, NEW pc \in 1 .. MaxPages, remote.bid < MaxBid
  PROVE  /\ Book(remote.sid, remote.bid + 1, pc) \in Seq(Pages)
         /\ Ascending(Book(remote.sid, remote.bid + 1, pc))
         /\ AllBefore(Seen, ToSet(Book(remote.sid, remote.bid + 1, pc)))
         /\ \A q : q \in ToSet(Book(remote.sid, remote.bid + 1, pc)) =>
              q \in Pages /\ q.si = remote.sid /\ q.bi = remote.bid + 1
              /\ q.pc = pc /\ q.pn < pc
         /\ \A q \in ToSet(Book(remote.sid, remote.bid + 1, pc)) : \A n :
              Rest(q, n) \subseteq ToSet(Book(remote.sid, remote.bid + 1, pc))
<1> DEFINE bi == remote.bid + 1
           b == Book(remote.sid, bi, pc)
           p == [si |-> remote.sid, bi |-> bi, pn |-> 0, pc |-> pc]
<1> USE DEF IInv
<1>1. /\ remote.sid \in Nat /\ remote.bid \in Nat /\ bi \in Bids /\ bi \in Nat /\ bi > remote.bid
      /\ remote.sid \in Sids /\ pc \in Nat /\ pc > 0 /\ MaxPages \in Nat
      /\ Seen \subseteq Pages
  BY Types, ConstantsAssumption DEF Bids
<1>2. p.si = remote.sid /\ p.bi = bi /\ p.pc = pc
  OBVIOUS
<1>3. p \in Pages
  <2>1. 0 \in 0 .. MaxPages - 1
    BY <1>1
  <2> HIDE DEF bi
  <2> QED
    BY <1>1, <2>1, Zenon DEF Pages
<1> HIDE DEF bi, p
<1>4. \A q : q \in ToSet(b) <=>
             q \in Pages /\ q.si = remote.sid /\ q.bi = bi /\ q.pc = pc /\ q.pn < pc
  BY <1>2, <1>3, InBook DEF Index
<1>5. b \in Seq(Pages) /\ Ascending(b)
  <2>1. ASSUME NEW i \in 1 .. pc
        PROVE  /\ [si |-> remote.sid, bi |-> bi, pn |-> i - 1, pc |-> pc] \in Pages
               /\ b[i] = [si |-> remote.sid, bi |-> bi, pn |-> i - 1, pc |-> pc]
               /\ b[i].si = remote.sid /\ b[i].bi = bi /\ b[i].pn = i - 1
    <3>1. i - 1 \in 0 .. MaxPages - 1
      BY <1>1
    <3>2. PICK n : n = i - 1
      OBVIOUS
    <3>3. [si |-> remote.sid, bi |-> bi, pn |-> n, pc |-> pc] \in Pages
      BY <1>1, <3>1, <3>2, Zenon DEF Pages
    <3> QED
      BY <1>1, <3>2, <3>3 DEF Book
  <2>2. b \in [1 .. pc -> Pages] /\ DOMAIN b = 1 .. pc
    BY <2>1 DEF Book
  <2>3. b \in Seq(Pages)
    BY <1>1, <2>2
  <2>4. ASSUME NEW i \in 1 .. pc, NEW j \in 1 .. pc, i < j PROVE Before(b[i], b[j])
    <3> HIDE DEF b
    <3>1. \A k \in 1 .. pc : b[k].si = remote.sid /\ b[k].bi = bi /\ b[k].pn = k - 1
      BY <2>1
    <3> QED
      BY <2>4, <3>1 DEF Before
  <2> QED
    BY <2>2, <2>3, <2>4 DEF Ascending
<1>6. ASSUME NEW q \in Seen, NEW r \in ToSet(b) PROVE Before(q, r)
  <2>1. q \in Pages /\ Numbered(q)
    BY <1>1 DEF FlowInv
  <2>2. q.si \in Nat /\ q.bi \in Nat
    BY <2>1, PageFields
  <2> QED
    BY <1>1, <1>4, <2>1, <2>2 DEF Numbered, Before
<1>7. ASSUME NEW q \in ToSet(b), NEW n, NEW r \in Rest(q, n) PROVE r \in ToSet(b)
  BY <1>4, InRest DEF Index
<1> QED
  BY <1>4, <1>5, <1>6, <1>7 DEF AllBefore, bi

LEMMA MessageSent ==
  ASSUME IInv, NEW pc \in 1 .. MaxPages, Message(pc)
  PROVE  IInv'
<1> DEFINE b == Book(remote.sid, remote.bid + 1, pc)
<1> USE DEF IInv
<1>1. /\ txes' = txes \o b /\ up' = up /\ rxes' = rxes /\ yard' = yard /\ rxMsgs' = rxMsgs
      /\ lost' = lost /\ faults' = faults /\ remote.known /\ remote.bid < MaxBid
  BY DEF Message
<1>2. /\ remote'.known = remote.known /\ remote'.sid = remote.sid
      /\ remote'.bid = remote.bid + 1
      /\ remote' \in [known: BOOLEAN, sid: Sids, bid: Bids]
  <2>1. /\ remote'.known = remote.known /\ remote'.sid = remote.sid
        /\ remote'.bid = remote.bid + 1
        /\ remote' = [known |-> remote.known, sid |-> remote.sid, bid |-> remote'.bid]
    BY DEF Message, TypeOK
  <2>2. remote'.bid \in Bids
    BY <1>1, <2>1, Types, ConstantsAssumption DEF Bids
  <2> QED
    BY <2>1, <2>2, Types
<1>3. /\ remote.sid \in Nat /\ remote.bid \in Nat
      /\ txes \in Seq(Pages) /\ rxes \in Seq(Pages)
      /\ Seen \subseteq Pages
  BY Types
<1>4. /\ b \in Seq(Pages) /\ Ascending(b) /\ AllBefore(Seen, ToSet(b))
      /\ \A q : q \in ToSet(b) =>
           q \in Pages /\ q.si = remote.sid /\ q.bi = remote.bid + 1 /\ q.pc = pc /\ q.pn < pc
      /\ \A q \in ToSet(b) : \A n : Rest(q, n) \subseteq ToSet(b)
  BY <1>1, NewBook
<1> HIDE DEF b
<1>5. /\ txes' \in Seq(Pages) /\ Ascending(txes') /\ ToSet(txes') = ToSet(txes) \cup ToSet(b)
  <2>1. AllBefore(ToSet(txes), ToSet(b))
    BY <1>4 DEF AllBefore, Seen, UnderWay
  <2> QED
    BY <1>1, <1>3, <1>4, <2>1, Joined DEF FlowInv
<1>6. /\ Handled' = Handled /\ UnderWay' = UnderWay \cup ToSet(b)
      /\ Seen' = Seen \cup ToSet(b)
  BY <1>1, <1>5 DEF Handled, UnderWay, Seen
<1>7. TypeOK'
  BY <1>1, <1>2, <1>5 DEF TypeOK
<1>8. FlowInv'
  <2>1. AllBefore(ToSet(rxes'), ToSet(txes'))
    BY <1>1, <1>4, <1>5 DEF FlowInv, AllBefore, Seen, UnderWay
  <2>2. AllBefore(Handled', UnderWay')
    BY <1>4, <1>6 DEF FlowInv, AllBefore, Seen
  <2>3. ASSUME NEW p \in Seen' PROVE Numbered(p)'
    <3>1. CASE p \in Seen
      <4>1. p \in Pages /\ Numbered(p)
        BY <1>3, <3>1 DEF FlowInv
      <4>2. p.si \in Nat /\ p.bi \in Nat
        BY <4>1, PageFields
      <4> QED
        BY <1>2, <1>3, <4>1, <4>2 DEF Numbered
    <3>2. CASE p \in ToSet(b)
      BY <1>2, <1>3, <1>4, <3>2 DEF Numbered
    <3> QED
      BY <1>6, <2>3, <3>1, <3>2
  <2>4. ASSUME NEW p \in Seen', NEW q \in Seen', Index(p) = Index(q) PROVE p.pc = q.pc
    <3>1. ASSUME NEW r \in Seen, NEW s \in ToSet(b) PROVE Index(r) # Index(s)
      <4>1. r \in Pages /\ s \in Pages /\ Numbered(r) /\ s.si = remote.sid /\ s.bi = remote.bid + 1
        BY <1>3, <1>4 DEF FlowInv
      <4>2. r.si \in Nat /\ r.bi \in Nat
        BY <4>1, PageFields
      <4> QED
        BY <1>3, <4>1, <4>2 DEF Numbered, Index
    <3> QED
      BY <1>4, <1>6, <2>4, <3>1 DEF FlowInv, Agree
  <2> QED
    BY <1>1, <1>5, <2>1, <2>2, <2>3, <2>4 DEF FlowInv, Agree
<1>9. YardInv(yard)'
  BY <1>1, <1>2, <1>3, YardLater
<1>10. ComingInv'
  <2>1. ASSUME NEW p \in UnderWay', p.si = remote.sid
        PROVE  Rest(p, p.pn + 1) \subseteq UnderWay' \cup lost
    BY <1>1, <1>4, <1>6, <2>1 DEF ComingInv
  <2>2. ASSUME NEW index \in DOMAIN yard.books, index[1] = remote.sid, NEW p \in yard.books[index]
        PROVE  Rest(p, 0) \subseteq yard.books[index] \cup UnderWay' \cup lost
    BY <1>1, <1>6, <2>2 DEF ComingInv
  <2> QED
    BY <1>1, <1>2, <2>1, <2>2 DEF ComingInv
<1> QED
  BY <1>1, <1>7, <1>8, <1>9, <1>10, Messages

LEMMA PageSent ==
  ASSUME IInv, SendPage
  PROVE  IInv'
<1> USE DEF IInv
<1>1. /\ txes # <<>> /\ up /\ txes' = Tail(txes) /\ rxes' = Append(rxes, Head(txes))
      /\ remote' = remote /\ up' = up /\ yard' = yard /\ rxMsgs' = rxMsgs
      /\ lost' = lost /\ faults' = faults
  BY DEF SendPage
<1>2. /\ Head(txes) \in ToSet(txes) /\ Head(txes) \in Pages /\ txes' \in Seq(Pages)
      /\ ToSet(txes) = {Head(txes)} \cup ToSet(txes')
      /\ Ascending(txes') /\ AllBefore({Head(txes)}, ToSet(txes'))
  BY <1>1, Types, Taken DEF FlowInv
<1>3. /\ rxes' \in Seq(Pages) /\ Ascending(rxes')
      /\ ToSet(rxes') = ToSet(rxes) \cup {Head(txes)}
  <2>1. AllBefore(ToSet(rxes), {Head(txes)})
    BY <1>2 DEF FlowInv, AllBefore
  <2> QED
    BY <1>1, <1>2, <2>1, Types, Queued DEF FlowInv
<1>4. UnderWay' = UnderWay /\ Handled' = Handled /\ Seen' = Seen
  BY <1>1, <1>2, <1>3 DEF UnderWay, Handled, Seen
<1>5. AllBefore(ToSet(rxes'), ToSet(txes'))
  BY <1>2, <1>3 DEF FlowInv, AllBefore
<1>6. TypeOK'
  BY <1>1, <1>2, <1>3 DEF TypeOK
<1>7. FlowInv'
  BY <1>1, <1>2, <1>3, <1>4, <1>5, Flows, Types DEF FlowInv, Later
<1>8. YardInv(yard)'
  BY <1>1, YardLater, Types
<1>9. ComingInv'
  BY <1>1, <1>4 DEF ComingInv
<1> QED
  BY <1>1, <1>6, <1>7, <1>8, <1>9, Messages

LEMMA Refused ==
  ASSUME IInv, FindRefused
  PROVE  IInv'
<1> USE DEF IInv
<1>1. /\ txes # <<>> /\ ~up /\ txes' = Tail(txes)
      /\ up' = up /\ rxes' = rxes /\ yard' = yard /\ rxMsgs' = rxMsgs
      /\ lost' = lost /\ faults' = faults
  BY DEF FindRefused
<1>2. /\ remote'.known = FALSE /\ remote'.sid = remote.sid /\ remote'.bid = remote.bid
      /\ remote' \in [known: BOOLEAN, sid: Sids, bid: Bids]
  <2>1. /\ remote'.known = FALSE /\ remote'.sid = remote.sid /\ remote'.bid = remote.bid
        /\ remote' = [known |-> remote'.known, sid |-> remote.sid, bid |-> remote.bid]
    BY DEF FindRefused, TypeOK
  <2> QED
    BY <2>1, Types
<1>3. /\ txes' \in Seq(Pages) /\ ToSet(txes') \subseteq ToSet(txes) /\ Ascending(txes')
  BY <1>1, Types, Taken DEF FlowInv
<1>4. UnderWay' \subseteq UnderWay /\ Handled' = Handled /\ Seen' \subseteq Seen
  BY <1>1, <1>3 DEF UnderWay, Handled, Seen
<1>5. TypeOK'
  BY <1>1, <1>2, <1>3 DEF TypeOK
<1>6. FlowInv'
  <2>1. AllBefore(ToSet(rxes'), ToSet(txes')) /\ AllBefore(Handled', UnderWay')
    BY <1>1, <1>3, <1>4 DEF FlowInv, AllBefore
  <2> QED
    BY <1>1, <1>2, <1>3, <1>4, <2>1, Flows, Types DEF FlowInv, Later
<1>7. YardInv(yard)'
  BY <1>1, <1>2, YardLater, Types
<1> QED
  BY <1>1, <1>2, <1>5, <1>6, <1>7, Messages DEF ComingInv

LEMMA Raised ==
  ASSUME IInv, Raise
  PROVE  IInv'
<1> USE DEF IInv
<1>1. /\ txes # <<>> /\ txes' = Tail(txes) /\ remote' = remote
      /\ up' = up /\ rxes' = rxes /\ yard' = yard /\ rxMsgs' = rxMsgs
      /\ lost' = lost \cup {Head(txes)} /\ faults < MaxFault /\ faults' = faults + 1
  BY DEF Raise, Fault
<1>2. /\ Head(txes) \in Pages /\ txes' \in Seq(Pages)
      /\ ToSet(txes) = {Head(txes)} \cup ToSet(txes') /\ Ascending(txes')
  BY <1>1, Types, Taken DEF FlowInv
<1>3. /\ UnderWay' \subseteq UnderWay /\ UnderWay \cup lost \subseteq UnderWay' \cup lost'
      /\ Handled' = Handled /\ Seen' \subseteq Seen
  BY <1>1, <1>2 DEF UnderWay, Handled, Seen
<1>4. TypeOK'
  BY <1>1, <1>2, ConstantsAssumption DEF TypeOK
<1>5. FlowInv'
  <2>1. AllBefore(ToSet(rxes'), ToSet(txes')) /\ AllBefore(Handled', UnderWay')
    BY <1>1, <1>2, <1>3 DEF FlowInv, AllBefore
  <2> QED
    BY <1>1, <1>2, <1>3, <2>1, Flows, Types DEF FlowInv, Later
<1>6. YardInv(yard)'
  BY <1>1, YardLater, Types
<1>7. ComingInv'
  <2>1. ASSUME remote.known, NEW p \in UnderWay', p.si = remote.sid
        PROVE  Rest(p, p.pn + 1) \subseteq UnderWay' \cup lost'
    BY <1>3, <2>1 DEF ComingInv
  <2>2. ASSUME remote.known, NEW index \in DOMAIN yard.books, index[1] = remote.sid,
               NEW p \in yard.books[index]
        PROVE  Rest(p, 0) \subseteq yard.books[index] \cup UnderWay' \cup lost'
    BY <1>3, <2>2 DEF ComingInv
  <2> QED
    BY <1>1, <2>1, <2>2 DEF ComingInv
<1> QED
  BY <1>1, <1>4, <1>5, <1>6, <1>7, Messages

LEMMA SenderRestarted ==
  ASSUME IInv, RestartSender
  PROVE  IInv'
<1> USE DEF IInv
<1>1. /\ txes' = <<>> /\ faults < MaxFault /\ faults' = faults + 1
      /\ up' = up /\ rxes' = rxes /\ yard' = yard /\ rxMsgs' = rxMsgs /\ lost' = lost
  BY DEF RestartSender, Fault
<1>2. /\ remote'.known = FALSE /\ remote'.sid = remote.sid /\ remote'.bid = remote.bid
      /\ remote' \in [known: BOOLEAN, sid: Sids, bid: Bids]
  <2>1. /\ remote'.known = FALSE /\ remote'.sid = remote.sid /\ remote'.bid = remote.bid
        /\ remote' = [known |-> remote'.known, sid |-> remote.sid, bid |-> remote.bid]
    BY DEF RestartSender, TypeOK
  <2> QED
    BY <2>1, Types
<1>3. txes' \in Seq(Pages) /\ ToSet(txes') = {} /\ Ascending(txes')
  BY <1>1, Members DEF Ascending
<1>4. UnderWay' \subseteq UnderWay /\ Handled' = Handled /\ Seen' \subseteq Seen
  BY <1>1, <1>3 DEF UnderWay, Handled, Seen
<1>5. TypeOK'
  BY <1>1, <1>2, <1>3, ConstantsAssumption DEF TypeOK
<1>6. FlowInv'
  <2>1. AllBefore(ToSet(rxes'), ToSet(txes')) /\ AllBefore(Handled', UnderWay')
    BY <1>1, <1>3, <1>4 DEF FlowInv, AllBefore
  <2> QED
    BY <1>1, <1>2, <1>3, <1>4, <2>1, Flows, Types DEF FlowInv, Later
<1>7. YardInv(yard)'
  BY <1>1, <1>2, YardLater, Types
<1> QED
  BY <1>1, <1>2, <1>5, <1>6, <1>7, Messages DEF ComingInv

-----------------------------------------------------------------------------
(* The receiver's steps.                                                    *)

(* RemoveYard, AddYard. *)
LEMMA YardAnew ==
  ASSUME IInv, RemoveYard \/ AddYard
  PROVE  IInv'
<1> USE DEF IInv
<1>1. /\ yard' \in {NoYard, NewYard} /\ (~up => yard' = NoYard) /\ faults' \in 0 .. MaxFault
      /\ remote' = remote /\ txes' = txes /\ up' = up /\ rxes' = rxes /\ rxMsgs' = rxMsgs
      /\ lost' = lost
  BY ConstantsAssumption DEF RemoveYard, AddYard, Fault, TypeOK
<1>2. /\ YardInv(yard)' /\ DOMAIN yard'.books = {} /\ Kept(yard') = {}
      /\ yard'.known \in BOOLEAN /\ yard'.rsid \in Sids
  BY <1>1, NoYardInv
<1>3. UnderWay' = UnderWay /\ Handled' \subseteq Handled /\ Seen' \subseteq Seen
  BY <1>1, <1>2 DEF UnderWay, Handled, Seen
<1>4. TypeOK'
  BY <1>1, <1>2 DEF TypeOK
<1>5. FlowInv'
  <2>1. AllBefore(ToSet(rxes'), ToSet(txes')) /\ AllBefore(Handled', UnderWay')
    BY <1>1, <1>3 DEF FlowInv, AllBefore
  <2> QED
    BY <1>1, <1>3, <2>1, Flows, Types DEF FlowInv, Later
<1>6. ComingInv'
  BY <1>1, <1>2, <1>3 DEF ComingInv
<1> QED
  BY <1>1, <1>2, <1>4, <1>5, <1>6, Messages

LEMMA ReceiverStopped ==
  ASSUME IInv, StopReceiver
  PROVE  IInv'
<1> USE DEF IInv
<1>1. /\ yard' = NoYard /\ rxes' = <<>> /\ up' = FALSE
      /\ faults < MaxFault /\ faults' = faults + 1
      /\ remote' = remote /\ txes' = txes /\ rxMsgs' = rxMsgs /\ lost' = lost
  BY DEF StopReceiver, Fault
<1>2. /\ YardInv(yard)' /\ DOMAIN yard'.books = {} /\ Kept(yard') = {}
      /\ yard'.known \in BOOLEAN /\ yard'.rsid \in Sids
  BY <1>1, NoYardInv
<1>3. rxes' \in Seq(Pages) /\ ToSet(rxes') = {} /\ Ascending(rxes')
  BY <1>1, Members DEF Ascending
<1>4. /\ UnderWay' = ToSet(txes) /\ UnderWay' \subseteq UnderWay
      /\ Handled' \subseteq Handled /\ Seen' \subseteq Seen
  BY <1>1, <1>2, <1>3 DEF UnderWay, Handled, Seen
<1>5. TypeOK'
  <2>1. faults \in 0 .. MaxFault
    BY DEF TypeOK
  <2>2. faults' \in 0 .. MaxFault
    BY <1>1, <2>1, ConstantsAssumption
  <2>3. up' \in BOOLEAN
    BY <1>1
  <2> QED
    BY <1>1, <1>2, <1>3, <2>2, <2>3 DEF TypeOK
<1>6. FlowInv'
  <2>1. AllBefore(ToSet(rxes'), ToSet(txes')) /\ AllBefore(Handled', UnderWay')
    BY <1>1, <1>3, <1>4 DEF FlowInv, AllBefore
  <2> QED
    BY <1>1, <1>3, <1>4, <2>1, Flows, Types DEF FlowInv, Later
<1>7. ASSUME remote.known, NEW p \in UnderWay', p.si = remote.sid
      PROVE  Rest(p, p.pn + 1) \subseteq UnderWay' \cup lost
  <2> SUFFICES ASSUME NEW q \in Rest(p, p.pn + 1) PROVE q \in UnderWay' \cup lost
    OBVIOUS
  <2>1. p \in Pages /\ p \in ToSet(txes) /\ p \in UnderWay
    BY <1>4, Types DEF Seen
  <2>2. q \in UnderWay \cup lost
    BY <1>7, <2>1 DEF ComingInv
  <2>3. q \in Pages /\ q.si = p.si /\ q.bi = p.bi /\ q.pn >= p.pn + 1
    BY <2>1, InRest DEF Index
  <2>4. Before(p, q)
    BY <2>1, <2>3, PageFields DEF Before
  <2>5. q \notin ToSet(rxes)
    BY <2>1, <2>3, <2>4, Trichotomy DEF FlowInv, AllBefore
  <2> QED
    BY <1>4, <2>2, <2>5 DEF UnderWay
<1>8. ComingInv'
  BY <1>1, <1>2, <1>7 DEF ComingInv
<1> QED
  BY <1>1, <1>2, <1>5, <1>6, <1>8, Messages

LEMMA ReceiverStarted ==
  ASSUME IInv, StartReceiver
  PROVE  IInv'
<1> USE DEF IInv
<1>1. /\ up' = TRUE /\ remote' = remote /\ txes' = txes /\ rxes' = rxes /\ yard' = yard
      /\ rxMsgs' = rxMsgs /\ lost' = lost /\ faults' = faults
  BY DEF StartReceiver
<1>2. UnderWay' = UnderWay /\ Handled' = Handled /\ Seen' = Seen
  BY <1>1 DEF UnderWay, Handled, Seen
<1>3. TypeOK'
  BY <1>1 DEF TypeOK
<1>4. FlowInv'
  BY <1>1, <1>2, Flows, Types DEF FlowInv, Later
<1>5. YardInv(yard)'
  BY <1>1, YardLater, Types
<1>6. ComingInv'
  BY <1>1, <1>2 DEF ComingInv
<1> QED
  BY <1>1, <1>3, <1>4, <1>5, <1>6, Messages

(* What a page that is handled does to the books: each book the receiver has
   then is one it had and of which p is not, or the book of p with p. *)
Handles(p) ==
  /\ DOMAIN yard' = {"known", "rsid", "books"}
  /\ yard'.known \in BOOLEAN /\ yard'.rsid \in Sids
  /\ ~yard'.known => yard' = NoYard
  /\ \A index \in DOMAIN yard'.books :
       /\ index[1] = yard'.rsid
       /\ \/ /\ index \in DOMAIN yard.books /\ yard'.books[index] = yard.books[index]
             /\ \A q \in yard.books[index] : Index(q) # Index(p)
          \/ /\ index = Index(p) /\ p.pc > 1
             /\ \/ p.pn = 0 /\ yard'.books[index] = {p}
                \/ /\ index \in DOMAIN yard.books
                   /\ yard'.books[index] = yard.books[index] \cup {p}

(* And what it delivers: nothing, or all of the message of p. *)
Delivers(p) ==
  \/ rxMsgs' = rxMsgs
  \/ /\ rxMsgs' = Append(rxMsgs, ToSet(Book(p.si, p.bi, p.pc)))
     /\ ToSet(Book(p.si, p.bi, p.pc)) \subseteq Kept(yard) \cup {p}

LEMMA Appended ==
  ASSUME NEW r \in Seq(Bodies), NEW body \in Bodies
  PROVE  /\ Append(r, body) \in Seq(Bodies)
         /\ \A i \in DOMAIN Append(r, body) :
              (i \in DOMAIN r /\ Append(r, body)[i] = r[i])
              \/ (Append(r, body)[i] = body /\ \A j \in DOMAIN r : j < i)
         /\ \A i, j \in DOMAIN Append(r, body) : i < j => i \in DOMAIN r
<1> DEFINE s == Append(r, body)
<1>1. /\ s \in Seq(Bodies) /\ DOMAIN r = 1 .. Len(r) /\ DOMAIN s = 1 .. Len(r) + 1
      /\ \A i \in 1 .. Len(r) : s[i] = r[i]
      /\ s[Len(r) + 1] = body /\ Len(r) \in Nat
  BY AppendProperties, LenProperties
<1> HIDE DEF s
<1> QED
  BY <1>1 DEF s

LEMMA DeliveredLater ==
  ASSUME NEW p, TypeOK, Delivers(p), ToSet(Book(p.si, p.bi, p.pc)) \in Bodies
  PROVE  Delivered(rxMsgs') \subseteq Delivered(rxMsgs) \cup Kept(yard) \cup {p}
<1> DEFINE body == ToSet(Book(p.si, p.bi, p.pc))
<1> HIDE DEF body
<1>1. CASE rxMsgs' = rxMsgs
  BY <1>1 DEF Delivered
<1>2. CASE rxMsgs' = Append(rxMsgs, body) /\ body \subseteq Kept(yard) \cup {p}
  <2> SUFFICES ASSUME NEW i \in DOMAIN rxMsgs', NEW q \in rxMsgs'[i]
               PROVE  q \in Delivered(rxMsgs) \cup Kept(yard) \cup {p}
    BY DEF Delivered
  <2>1. (i \in DOMAIN rxMsgs /\ rxMsgs'[i] = rxMsgs[i]) \/ rxMsgs'[i] = body
    BY <1>2, Appended DEF TypeOK, body
  <2> QED
    BY <1>2, <2>1 DEF Delivered
<1> QED
  BY <1>1, <1>2 DEF Delivers, body

LEMMA PageReceived ==
  ASSUME IInv, up, rxes # <<>>, rxes' = Tail(rxes), NEW p, p = Head(rxes),
         UNCHANGED <<remote, txes, up, lost, faults>>, Handles(p), Delivers(p)
  PROVE  IInv'
<1> DEFINE body == ToSet(Book(p.si, p.bi, p.pc))
<1> USE DEF IInv
<1>1. /\ remote' = remote /\ txes' = txes /\ up' = up /\ lost' = lost /\ faults' = faults
  OBVIOUS
<1>2. /\ p \in ToSet(rxes) /\ p \in Pages /\ rxes' \in Seq(Pages)
      /\ ToSet(rxes) = {p} \cup ToSet(rxes')
      /\ Ascending(rxes') /\ AllBefore({p}, ToSet(rxes'))
  BY Types, Taken DEF FlowInv
<1>3. /\ p \in UnderWay /\ p \in Seen /\ Numbered(p)
      /\ UnderWay = {p} \cup UnderWay' /\ AllBefore({p}, UnderWay')
  BY <1>1, <1>2 DEF UnderWay, Seen, FlowInv, AllBefore
<1>4. Seen \subseteq Pages /\ UnderWay \subseteq Pages /\ Handled \subseteq Pages
  BY Types DEF Seen
<1>5. p \notin Handled
  BY <1>2, <1>3, Trichotomy DEF FlowInv, AllBefore
<1>6. \A q : q \in body <=> q \in Pages /\ Index(q) = Index(p) /\ q.pc = p.pc /\ q.pn < p.pc
  BY <1>2, InBook
<1>7. p \in body /\ body \in Bodies
  BY <1>2, <1>3, <1>6 DEF Numbered, Bodies
<1> HIDE DEF body
<1>8. Delivered(rxMsgs') \subseteq Handled \cup {p}
  BY <1>7, DeliveredLater DEF Handled, body
<1>9. Kept(yard') \subseteq Kept(yard) \cup {p}
  <2> SUFFICES ASSUME NEW index \in DOMAIN yard'.books, NEW q \in yard'.books[index]
               PROVE  q \in Kept(yard) \cup {p}
    BY DEF Kept
  <2> QED
    BY DEF Handles, Kept
<1>10. /\ Handled' \subseteq Handled \cup {p} /\ Seen' \subseteq Seen
  BY <1>3, <1>8, <1>9 DEF Handled, Seen
<1>11. \A index \in DOMAIN yard'.books : \A q \in yard'.books[index] :
         Index(q) = index /\ q.pc > 1 /\ q \in Pages
  BY <1>2, <1>4 DEF Handles, YardInv, Handled, Kept
<1>12. TypeOK'
  <2>1. Index(p) \in Sids \X Bids
    BY <1>2 DEF Index, Pages
  <2>2. DOMAIN yard'.books \subseteq Sids \X Bids
    BY <2>1 DEF Handles, TypeOK
  <2>3. rxMsgs' \in Seq(Bodies)
    <3>1. rxMsgs \in Seq(Bodies) /\ Append(rxMsgs, body) \in Seq(Bodies)
      BY <1>7, Appended DEF TypeOK
    <3> QED
      BY <3>1 DEF Delivers, body
  <2>4. yard'.known \in BOOLEAN /\ yard'.rsid \in Sids
    BY DEF Handles
  <2> QED
    BY <1>1, <1>2, <1>11, <2>2, <2>3, <2>4 DEF TypeOK
<1>13. FlowInv'
  <2>1. AllBefore(Handled', UnderWay')
    BY <1>3, <1>10 DEF FlowInv, AllBefore
  <2>2. AllBefore(ToSet(rxes'), ToSet(txes'))
    BY <1>1, <1>2 DEF FlowInv, AllBefore
  <2> QED
    BY <1>1, <1>2, <1>10, <2>1, <2>2, Flows, Types DEF FlowInv, Later
<1>14. YardInv(yard)'
  <2>1. ASSUME NEW index \in DOMAIN yard'.books PROVE index[1] <= remote.sid
    <3>1. CASE index \in DOMAIN yard.books
      BY <3>1 DEF YardInv
    <3>2. CASE index = Index(p)
      <4>1. p.si <= remote.sid
        BY <1>2, <1>3, PageFields, Types DEF Numbered
      <4> QED
        BY <3>2, <4>1 DEF Index
    <3> QED
      BY <3>1, <3>2 DEF Handles
  <2> QED
    BY <1>1, <1>11, <2>1 DEF YardInv, Handles
<1>15. ComingInv'
  <2> SUFFICES ASSUME remote.known
               PROVE  /\ \A q \in UnderWay' : q.si = remote.sid =>
                           Rest(q, q.pn + 1) \subseteq UnderWay' \cup lost
                      /\ \A index \in DOMAIN yard'.books : index[1] = remote.sid =>
                           \A q \in yard'.books[index] :
                             Rest(q, 0) \subseteq yard'.books[index] \cup UnderWay' \cup lost
    BY <1>1 DEF ComingInv
  <2>1. ASSUME NEW q \in UnderWay', q.si = remote.sid
        PROVE  Rest(q, q.pn + 1) \subseteq UnderWay' \cup lost
    <3>1. q \in UnderWay /\ q \in Pages /\ Before(p, q)
      BY <1>3, <1>4 DEF AllBefore
    <3>2. Rest(q, q.pn + 1) \subseteq UnderWay \cup lost
      BY <2>1, <3>1 DEF ComingInv
    <3>3. p \notin Rest(q, q.pn + 1)
      BY <1>2, <3>1, InRest, PageFields DEF Before, Index
    <3> QED
      BY <1>3, <3>2, <3>3
  <2>2. ASSUME NEW index \in DOMAIN yard'.books, index[1] = remote.sid,
               NEW q \in yard'.books[index]
        PROVE  Rest(q, 0) \subseteq yard'.books[index] \cup UnderWay' \cup lost
    <3>1. ASSUME index \in DOMAIN yard.books, yard'.books[index] = yard.books[index],
                 Index(q) # Index(p)
          PROVE  Rest(q, 0) \subseteq yard'.books[index] \cup UnderWay' \cup lost
      <4>1. Rest(q, 0) \subseteq yard.books[index] \cup UnderWay \cup lost
        BY <2>2, <3>1 DEF ComingInv
      <4>2. p \notin Rest(q, 0)
        BY <1>11, <2>2, <3>1, InRest
      <4> QED
        BY <1>3, <3>1, <4>1, <4>2
    <3>2. ASSUME index \in DOMAIN yard.books, yard'.books[index] = yard.books[index] \cup {p},
                 q \in yard.books[index]
          PROVE  Rest(q, 0) \subseteq yard'.books[index] \cup UnderWay' \cup lost
      BY <1>3, <2>2, <3>2 DEF ComingInv
    <3>3. ASSUME index = Index(p), p.pn = 0, yard'.books[index] = {p}, q = p
          PROVE  Rest(q, 0) \subseteq yard'.books[index] \cup UnderWay' \cup lost
      <4> SUFFICES ASSUME NEW r \in Rest(p, 0), r # p PROVE r \in UnderWay' \cup lost
        BY <3>3
      <4>1. r \in Pages /\ Index(r) = Index(p) /\ r.pc = p.pc /\ r.pn < p.pc
        BY <1>2, InRest
      <4>2. r.pn >= 1
        <5>1. r.pn # 0
          BY <1>2, <3>3, <4>1, PageFields DEF Index
        <5> QED
          BY <4>1, <5>1, PageFields
      <4>3. r \in Rest(p, p.pn + 1)
        BY <1>2, <3>3, <4>1, <4>2, InRest
      <4>4. p.si = remote.sid
        BY <2>2, <3>3 DEF Index
      <4>5. r \in UnderWay \cup lost
        BY <1>3, <4>3, <4>4 DEF ComingInv
      <4> QED
        BY <1>3, <4>5
    <3>4. ASSUME index \in DOMAIN yard.books, yard'.books[index] = yard.books[index] \cup {p},
                 index = Index(p), q = p
          PROVE  Rest(q, 0) \subseteq yard'.books[index] \cup UnderWay' \cup lost
      <4>1. PICK r \in yard.books[index] : TRUE
        BY <3>4 DEF YardInv
      <4>2. r \in Pages /\ r \in Seen /\ Index(r) = Index(p)
        BY <1>4, <3>4, <4>1 DEF YardInv, Seen, Handled, Kept
      <4>3. r.pc = p.pc
        BY <1>3, <4>2 DEF FlowInv, Agree
      <4>4. Rest(p, 0) \subseteq Rest(r, 0)
        BY <1>2, <4>2, <4>3, InRest
      <4>5. Rest(r, 0) \subseteq yard.books[index] \cup UnderWay \cup lost
        BY <2>2, <3>4, <4>1 DEF ComingInv
      <4> QED
        BY <1>3, <3>4, <4>4, <4>5
    <3> QED
      BY <2>2, <3>1, <3>2, <3>3, <3>4 DEF Handles
  <2> QED
    BY <2>1, <2>2
<1>16. WholeInOrder'
  <2>1. CASE rxMsgs' = rxMsgs
    BY <2>1, Messages
  <2>2. CASE rxMsgs' = Append(rxMsgs, body) /\ body \subseteq Kept(yard) \cup {p}
    <3>1. rxMsgs \in Seq(Bodies)
      BY DEF TypeOK
    <3>2. /\ \A i \in DOMAIN rxMsgs' :
              (i \in DOMAIN rxMsgs /\ rxMsgs'[i] = rxMsgs[i])
              \/ (rxMsgs'[i] = body /\ \A j \in DOMAIN rxMsgs : j < i)
          /\ \A i, j \in DOMAIN rxMsgs' : i < j => i \in DOMAIN rxMsgs
      BY <1>7, <2>2, <3>1, Appended
    <3>3. ASSUME NEW i \in DOMAIN rxMsgs'
          PROVE  \E q \in rxMsgs'[i] : rxMsgs'[i] = ToSet(Book(q.si, q.bi, q.pc))
      BY <1>7, <3>2 DEF WholeInOrder, body
    <3>4. ASSUME NEW i \in DOMAIN rxMsgs, NEW q \in rxMsgs[i]
          PROVE  q.si < p.si \/ (q.si = p.si /\ q.bi < p.bi)
      <4>1. q \in Handled /\ q \in Pages /\ Before(q, p)
        BY <1>3, <1>4 DEF Handled, Delivered, FlowInv, AllBefore
      <4>2. Index(q) # Index(p)
        <5> SUFFICES ASSUME Index(q) = Index(p) PROVE FALSE
          OBVIOUS
        <5>1. PICK o \in rxMsgs[i] : rxMsgs[i] = ToSet(Book(o.si, o.bi, o.pc))
          BY DEF WholeInOrder
        <5>2. o \in Handled /\ o \in Pages
          BY <1>4, <5>1 DEF Handled, Delivered
        <5>3. Index(q) = Index(o)
          BY <5>1, <5>2, InBook
        <5>4. o.pc = p.pc
          BY <1>3, <5>2, <5>3 DEF FlowInv, Agree, Seen
        <5>5. p \in rxMsgs[i]
          BY <1>2, <1>3, <5>1, <5>2, <5>3, <5>4, InBook DEF Numbered
        <5> QED
          BY <1>5, <5>5 DEF Handled, Delivered
      <4> QED
        BY <1>2, <4>1, <4>2, PageFields DEF Before, Index
    <3>5. ASSUME NEW i \in DOMAIN rxMsgs', NEW j \in DOMAIN rxMsgs', i < j,
                 NEW q \in rxMsgs'[i], NEW r \in rxMsgs'[j]
          PROVE  q.si < r.si \/ (q.si = r.si /\ q.bi < r.bi)
      <4>1. i \in DOMAIN rxMsgs /\ rxMsgs'[i] = rxMsgs[i]
        <5>1. i \in DOMAIN rxMsgs
          BY <3>2, <3>5
        <5> QED
          BY <3>1, <3>2, <5>1, LenProperties
      <4>2. CASE j \in DOMAIN rxMsgs /\ rxMsgs'[j] = rxMsgs[j]
        BY <3>5, <4>1, <4>2 DEF WholeInOrder
      <4>3. CASE rxMsgs'[j] = body
        <5>1. r.si = p.si /\ r.bi = p.bi
          BY <1>6, <3>5, <4>3 DEF Index
        <5> QED
          BY <3>4, <3>5, <4>1, <5>1
      <4> QED
        BY <3>2, <4>2, <4>3
    <3> QED
      BY <3>3, <3>5 DEF WholeInOrder
  <2> QED
    BY <2>1, <2>2 DEF Delivers, body
<1> QED
  BY <1>12, <1>13, <1>14, <1>15, <1>16

(* The books of the session of p, which a page of another session begins. *)
Current(p) ==
  LET known == IF yard.known THEN yard ELSE NewYard
  IN IF p.si # known.rsid THEN Session(known, p) ELSE known

LEMMA Currents ==
  ASSUME TypeOK, YardInv(yard), NEW p \in Pages
  PROVE  /\ DOMAIN Current(p) = {"known", "rsid", "books"}
         /\ Current(p).known = TRUE /\ Current(p).rsid = p.si
         /\ \A index \in DOMAIN Current(p).books :
              /\ index[1] = p.si /\ index \in DOMAIN yard.books
              /\ Current(p).books[index] = yard.books[index]
<1> DEFINE known == IF yard.known THEN yard ELSE NewYard
<1>1. /\ DOMAIN known = {"known", "rsid", "books"} /\ known.known = TRUE
      /\ \A index \in DOMAIN known.books :
           /\ index \in DOMAIN yard.books /\ known.books[index] = yard.books[index]
           /\ index[1] = known.rsid
  <2>1. CASE yard.known
    BY <2>1 DEF YardInv, TypeOK
  <2>2. CASE ~yard.known
    <3>1. NoYard.books = <<>> /\ DOMAIN NoYard = {"known", "rsid", "books"} /\ DOMAIN <<>> = {}
      BY DEF NoYard
    <3>2. /\ NewYard.books = <<>> /\ DOMAIN NewYard = {"known", "rsid", "books"}
          /\ NewYard.known = TRUE
      BY <3>1 DEF NewYard
    <3> QED
      BY <2>2, <3>1, <3>2
  <2> QED
    BY <2>1, <2>2
<1>2. Current(p) = IF p.si # known.rsid THEN Session(known, p) ELSE known
  BY DEF Current
<1> HIDE DEF known
<1>3. /\ DOMAIN Session(known, p) = {"known", "rsid", "books"}
      /\ Session(known, p).known = known.known /\ Session(known, p).rsid = p.si
      /\ Session(known, p).books =
           [index \in {i \in DOMAIN known.books : i[1] = p.si} |-> known.books[index]]
  BY <1>1 DEF Session
<1>4. CASE p.si = known.rsid
  BY <1>1, <1>2, <1>4
<1>5. CASE p.si # known.rsid
  <2>1. Current(p) = Session(known, p)
    BY <1>2, <1>5
  <2>2. \A index \in DOMAIN Session(known, p).books :
          /\ index[1] = p.si /\ index \in DOMAIN known.books
          /\ Session(known, p).books[index] = known.books[index]
    BY <1>3
  <2> QED
    BY <1>1, <1>3, <2>1, <2>2
<1> QED
  BY <1>4, <1>5

(* RxBook.parse adds the page, which the book has not. *)
LEMMA Parses ==
  ASSUME IInv, rxes # <<>>, NEW p, p = Head(rxes), NEW y, y = Current(p)
  PROVE  /\ p \in Pages /\ p \in Seen /\ p.pn < p.pc
         /\ Index(p) \in DOMAIN y.books =>
              Index(p) \in DOMAIN yard.books
              /\ Parsed(y.books, p) = yard.books[Index(p)] \cup {p}
         /\ Index(p) \notin DOMAIN y.books => Parsed(y.books, p) = {p}
<1> USE DEF IInv
<1>1. p \in Pages /\ p \in ToSet(rxes)
  BY Types, Taken DEF FlowInv
<1>2. p \in Seen /\ Numbered(p) /\ Seen \subseteq Pages
  BY <1>1, Types DEF Seen, UnderWay, FlowInv
<1>3. ASSUME Index(p) \in DOMAIN y.books
      PROVE  Index(p) \in DOMAIN yard.books
             /\ Parsed(y.books, p) = yard.books[Index(p)] \cup {p}
  <2>1. Index(p) \in DOMAIN yard.books /\ y.books[Index(p)] = yard.books[Index(p)]
    BY <1>1, <1>3, Currents
  <2>2. ASSUME NEW q \in yard.books[Index(p)], q.pn = p.pn PROVE q = p
    <3>1. q \in Seen /\ Index(q) = Index(p) /\ q \in Pages
      BY <1>2, <2>1, <2>2 DEF YardInv, Seen, Handled, Kept
    <3>2. q.pc = p.pc
      BY <1>2, <3>1 DEF FlowInv, Agree
    <3> QED
      BY <1>1, <2>2, <3>1, <3>2, PageFields DEF Index
  <2>3. Parsed(y.books, p) = {q \in yard.books[Index(p)] : q.pn # p.pn} \cup {p}
    BY <1>3, <2>1 DEF Parsed
  <2> QED
    BY <2>1, <2>2, <2>3
<1> QED
  BY <1>1, <1>2, <1>3 DEF Numbered, Parsed

(* A complete book is a message. *)
LEMMA CompleteIsWhole ==
  ASSUME IInv, rxes # <<>>, NEW p, p = Head(rxes), NEW y, y = Current(p),
         \/ p.pc = 1
         \/ Complete(Parsed(y.books, p), p)
  PROVE  (IF p.pc = 1 THEN {p} ELSE Parsed(y.books, p)) = ToSet(Book(p.si, p.bi, p.pc))
         /\ ToSet(Book(p.si, p.bi, p.pc)) \subseteq Kept(yard) \cup {p}
<1> DEFINE body == IF p.pc = 1 THEN {p} ELSE Parsed(y.books, p)
<1> USE DEF IInv
<1>1. /\ p \in Pages /\ p \in Seen /\ p.pn < p.pc /\ Seen \subseteq Pages
  BY Parses, Types
<1>2. \A q : q \in ToSet(Book(p.si, p.bi, p.pc)) <=>
             q \in Pages /\ Index(q) = Index(p) /\ q.pc = p.pc /\ q.pn < p.pc
  BY <1>1, InBook
<1>3. ASSUME NEW q \in body
      PROVE  /\ q \in Kept(yard) \cup {p} /\ q \in Pages /\ Index(q) = Index(p)
             /\ q.pc = p.pc /\ q.pn < p.pc
  <2>1. CASE q = p
    BY <1>1, <2>1
  <2>2. CASE q # p
    <3>1. Index(p) \in DOMAIN yard.books /\ q \in yard.books[Index(p)]
      BY <1>3, <2>2, Parses
    <3>2. q \in Kept(yard) /\ q \in Seen /\ Index(q) = Index(p)
      BY <3>1 DEF Kept, Seen, Handled, YardInv
    <3>3. q.pc = p.pc /\ q.pn < q.pc
      BY <1>1, <3>2 DEF FlowInv, Agree, Numbered
    <3> QED
      BY <1>1, <3>2, <3>3
  <2> QED
    BY <2>1, <2>2
<1>4. {q.pn : q \in body} = 0 .. p.pc - 1
  <2>1. CASE p.pc = 1
    <3>1. p.pn = 0
      BY <1>1, <2>1, PageFields
    <3> QED
      BY <2>1, <3>1
  <2>2. CASE p.pc # 1
    BY <2>2 DEF Complete
  <2> QED
    BY <2>1, <2>2
<1> HIDE DEF body
<1>5. ASSUME NEW q, q \in Pages, Index(q) = Index(p), q.pc = p.pc, q.pn < p.pc
      PROVE  q \in body
  <2>1. q.pn \in 0 .. p.pc - 1
    BY <1>1, <1>5, PageFields
  <2>2. PICK r \in body : r.pn = q.pn
    BY <1>4, <2>1
  <2>3. r = q
    BY <1>3, <1>5, <2>2, PageFields DEF Index
  <2> QED
    BY <2>2, <2>3
<1>6. body = ToSet(Book(p.si, p.bi, p.pc)) /\ body \subseteq Kept(yard) \cup {p}
  BY <1>2, <1>3, <1>5
<1> QED
  BY <1>6 DEF body

LEMMA Processes ==
  ASSUME IInv, rxes # <<>>, NEW p, p = Head(rxes), ProcessRx(Current(p), p)
  PROVE  Handles(p) /\ Delivers(p)
<1> DEFINE y == Current(p)
           book == Parsed(y.books, p)
           message == ToSet(Book(p.si, p.bi, p.pc))
<1> USE DEF IInv
<1>1. /\ p \in Pages /\ p \in Seen /\ p.pn < p.pc /\ p.pc \in Nat /\ p.pc > 0 /\ p.pn \in Nat
      /\ p.si \in Sids
      /\ Index(p) \in DOMAIN y.books =>
           Index(p) \in DOMAIN yard.books /\ book = yard.books[Index(p)] \cup {p}
      /\ Index(p) \notin DOMAIN y.books => book = {p}
  <2>1. p \in Pages
    BY Parses
  <2>2. p.si \in Sids /\ p.pc > 0
    BY <2>1, PageFields DEF Sids
  <2> QED
    BY <2>1, <2>2, Parses, PageFields
<1>2. /\ DOMAIN y = {"known", "rsid", "books"} /\ y.known = TRUE /\ y.rsid = p.si
      /\ \A index \in DOMAIN y.books :
           /\ index[1] = p.si /\ index \in DOMAIN yard.books
           /\ y.books[index] = yard.books[index]
  BY <1>1, Currents
<1>3. \/ p.pc = 1 /\ rxMsgs' = Append(rxMsgs, {p}) /\ yard' = y
      \/ p.pc # 1 /\ Index(p) \notin DOMAIN y.books /\ p.pn # 0 /\ yard' = y /\ rxMsgs' = rxMsgs
      \/ /\ p.pc # 1 /\ Complete(book, p) /\ rxMsgs' = Append(rxMsgs, book)
         /\ yard' = [y EXCEPT !.books = Drop(@, Index(p))]
      \/ /\ p.pc # 1 /\ (Index(p) \in DOMAIN y.books \/ p.pn = 0)
         /\ yard' = [y EXCEPT !.books = Put(@, Index(p), book)] /\ rxMsgs' = rxMsgs
         /\ p.pc # 1
  BY DEF ProcessRx, Opens
<1>4. /\ p.pc = 1 => {p} = message /\ message \subseteq Kept(yard) \cup {p}
      /\ p.pc # 1 /\ Complete(book, p) => book = message /\ message \subseteq Kept(yard) \cup {p}
  BY CompleteIsWhole
<1>5. \A index \in DOMAIN yard.books : \A q \in yard.books[index] :
        Index(q) = index /\ q.pc > 1 /\ (Index(q) = Index(p) => q.pc = p.pc)
  BY <1>1 DEF YardInv, FlowInv, Agree, Seen, Handled, Kept
<1> HIDE DEF y, book, message
<1>6. Delivers(p)
  BY <1>3, <1>4 DEF Delivers, message
<1>7. /\ DOMAIN yard' = {"known", "rsid", "books"} /\ yard'.known = TRUE /\ yard'.rsid = p.si
      /\ yard'.books \in {y.books, Drop(y.books, Index(p)), Put(y.books, Index(p), book)}
  BY <1>2, <1>3
<1>8. ASSUME NEW index \in DOMAIN yard'.books
      PROVE  /\ index[1] = yard'.rsid
             /\ \/ /\ index \in DOMAIN yard.books /\ yard'.books[index] = yard.books[index]
                   /\ \A q \in yard.books[index] : Index(q) # Index(p)
                \/ /\ index = Index(p) /\ p.pc > 1
                   /\ \/ p.pn = 0 /\ yard'.books[index] = {p}
                      \/ /\ index \in DOMAIN yard.books
                         /\ yard'.books[index] = yard.books[index] \cup {p}
  <2>1. CASE yard'.books = y.books /\ (p.pc = 1 \/ Index(p) \notin DOMAIN y.books)
    BY <1>2, <1>5, <1>7, <2>1
  <2> DEFINE less == Drop(y.books, Index(p))
             more == Put(y.books, Index(p), book)
  <2>4. /\ DOMAIN less = DOMAIN y.books \ {Index(p)}
        /\ \A i \in DOMAIN y.books \ {Index(p)} : less[i] = y.books[i]
    BY DEF Drop
  <2>5. /\ DOMAIN more = DOMAIN y.books \cup {Index(p)}
        /\ \A i \in DOMAIN y.books \ {Index(p)} : more[i] = y.books[i]
        /\ more[Index(p)] = book
    BY DEF Put
  <2> HIDE DEF less, more
  <2>2. CASE yard'.books = less
    <3>1. index \in DOMAIN y.books /\ index # Index(p) /\ yard'.books[index] = y.books[index]
      BY <2>2, <2>4
    <3> QED
      BY <1>2, <1>5, <1>7, <3>1
  <2>3. CASE /\ p.pc # 1 /\ (Index(p) \in DOMAIN y.books \/ p.pn = 0)
             /\ yard'.books = more
    <3>1. CASE index = Index(p)
      <4>1. yard'.books[index] = book
        BY <2>3, <2>5, <3>1
      <4>2. index[1] = p.si
        BY <3>1 DEF Index
      <4> QED
        BY <1>1, <1>7, <2>3, <3>1, <4>1, <4>2
    <3>2. CASE index # Index(p)
      <4>1. index \in DOMAIN y.books /\ yard'.books[index] = y.books[index]
        BY <2>3, <2>5, <3>2
      <4> QED
        BY <1>2, <1>5, <1>7, <3>2, <4>1
    <3> QED
      BY <3>1, <3>2
  <2> QED
    BY <1>2, <1>3, <2>1, <2>2, <2>3 DEF less, more
<1>9. Handles(p)
  BY <1>1, <1>7, <1>8 DEF Handles
<1> QED
  BY <1>6, <1>9

LEMMA Receives ==
  ASSUME IInv, Receive
  PROVE  IInv'
<1> DEFINE p == Head(rxes)
<1> USE DEF IInv
<1>1. /\ up /\ rxes # <<>> /\ rxes' = Tail(rxes) /\ UNCHANGED <<remote, txes, up, lost, faults>>
      /\ IF ~yard.known /\ ~Accept THEN UNCHANGED <<yard, rxMsgs>>
                                   ELSE ProcessRx(Current(p), p)
  BY DEF Receive, Current
<1>2. Handles(p) /\ Delivers(p)
  <2>1. CASE ~yard.known /\ ~Accept
    <3>1. yard' = NoYard /\ yard = NoYard /\ rxMsgs' = rxMsgs
      BY <1>1, <2>1 DEF YardInv
    <3>2. DOMAIN yard'.books = {} /\ yard'.known \in BOOLEAN /\ yard'.rsid \in Sids
      BY <3>1, NoYardInv
    <3>3. DOMAIN yard' = {"known", "rsid", "books"}
      BY <3>1 DEF NoYard
    <3> QED
      BY <3>1, <3>2, <3>3 DEF Handles, Delivers
  <2>2. CASE ~(~yard.known /\ ~Accept)
    BY <1>1, <2>2, Processes
  <2> QED
    BY <2>1, <2>2
<1> QED
  BY <1>1, <1>2, PageReceived

-----------------------------------------------------------------------------
(* The theorems.                                                            *)

LEMMA Start ==
  ASSUME Init
  PROVE  IInv
<1>1. /\ remote = [known |-> FALSE, sid |-> 0, bid |-> 0] /\ txes = <<>> /\ rxes = <<>>
      /\ up = TRUE /\ yard = NoYard /\ rxMsgs = <<>> /\ lost = {} /\ faults = 0
  BY DEF Init
<1>2. /\ NoYard.known = FALSE /\ NoYard.rsid = 0 /\ NoYard.books = <<>> /\ DOMAIN <<>> = {}
      /\ DOMAIN NoYard = {"known", "rsid", "books"}
  BY DEF NoYard
<1>3. ToSet(txes) = {} /\ ToSet(rxes) = {} /\ Kept(yard) = {} /\ Delivered(rxMsgs) = {}
  BY <1>1, <1>2 DEF ToSet, Kept, Delivered
<1>4. UnderWay = {} /\ Handled = {} /\ Seen = {}
  BY <1>3 DEF UnderWay, Handled, Seen
<1>5. TypeOK
  <2>1. remote \in [known: BOOLEAN, sid: Sids, bid: Bids]
    BY <1>1, ConstantsAssumption DEF Sids, Bids
  <2>2. txes \in Seq(Pages) /\ rxes \in Seq(Pages) /\ rxMsgs \in Seq(Bodies)
    BY <1>1, EmptySeq
  <2>3. 0 \in Sids /\ faults \in 0 .. MaxFault
    BY <1>1, ConstantsAssumption DEF Sids
  <2>4. yard.known \in BOOLEAN /\ up \in BOOLEAN
    BY <1>1, <1>2
  <2> QED
    BY <1>1, <1>2, <2>1, <2>2, <2>3, <2>4 DEF TypeOK
<1>6. FlowInv
  BY <1>1, <1>2, <1>3, <1>4 DEF FlowInv, Ascending, AllBefore, Agree
<1>7. YardInv(yard) /\ ComingInv /\ WholeInOrder
  BY <1>1, <1>2, <1>4 DEF YardInv, ComingInv, WholeInOrder
<1> QED
  BY <1>5, <1>6, <1>7 DEF IInv

(* Every step of a lane keeps the invariant. *)
THEOREM Invariant == Spec => []IInv
<1>1. Init => IInv
  BY Start
<1>2. IInv /\ [Next]_vars => IInv'
  <2> SUFFICES ASSUME IInv, [Next]_vars PROVE IInv'
    OBVIOUS
  <2>1. CASE AddRemote
    BY <2>1, AddsRemote
  <2>2. CASE \E pc \in 1 .. MaxPages : Message(pc)
    BY <2>2, MessageSent
  <2>3. CASE SendPage
    BY <2>3, PageSent
  <2>4. CASE FindRefused
    BY <2>4, Refused
  <2>5. CASE Raise
    BY <2>5, Raised
  <2>6. CASE RestartSender
    BY <2>6, SenderRestarted
  <2>7. CASE Receive
    BY <2>7, Receives
  <2>8. CASE RemoveYard \/ AddYard
    BY <2>8, YardAnew
  <2>9. CASE StopReceiver
    BY <2>9, ReceiverStopped
  <2>10. CASE StartReceiver
    BY <2>10, ReceiverStarted
  <2>11. CASE UNCHANGED vars
    BY <2>11 DEF vars, IInv, TypeOK, FlowInv, YardInv, ComingInv, WholeInOrder, Seen, Handled,
                 UnderWay, Numbered
  <2> QED
    BY <2>1, <2>2, <2>3, <2>4, <2>5, <2>6, <2>7, <2>8, <2>9, <2>10, <2>11 DEF Next
<1> QED
  BY <1>1, <1>2, PTL DEF Spec

(* Each variable of a lane keeps its type: the numbers of sessions, books and
   pages, the queues, and the books a RemoteYard holds. *)
THEOREM LaneTypes == Spec => []TypeOK
<1>1. IInv => TypeOK
  BY DEF IInv
<1> QED
  BY <1>1, Invariant, PTL

(* processRx delivers a book only when it is all of one message, each at most
   once and in the order they were queued, however often either end restarts,
   is removed, or loses pages. *)
THEOREM BooksWholeInOrder == Spec => []WholeInOrder
<1>1. IInv => WholeInOrder
  BY DEF IInv
<1> QED
  BY <1>1, Invariant, PTL

(* A book the receiver holds is of the session it is in, and while the sender
   is in that session each page the book misses is still under way or was
   dropped by an exception: removeStaleBooks leaves nothing behind. *)
THEOREM NoBookOrphaned == Spec => []NoOrphanBook
<1>1. IInv => NoOrphanBook
  <2> SUFFICES ASSUME IInv PROVE NoOrphanBook
    OBVIOUS
  <2>1. ASSUME NEW index \in DOMAIN yard.books, NEW p \in yard.books[index],
               index[1] = remote.sid, remote.known
        PROVE  ToSet(Book(p.si, p.bi, p.pc))
                 \subseteq yard.books[index] \cup (ToSet(rxes) \cup ToSet(txes) \cup lost)
    <3> SUFFICES ASSUME NEW q \in ToSet(Book(p.si, p.bi, p.pc))
                 PROVE  q \in yard.books[index] \cup (ToSet(rxes) \cup ToSet(txes) \cup lost)
      OBVIOUS
    <3>1. p \in Pages
      BY <2>1 DEF IInv, TypeOK
    <3>2. q \in Pages
      BY <3>1, InBook
    <3>3. q \in Rest(p, 0)
      BY <3>2, PageFields DEF Rest
    <3> QED
      BY <2>1, <3>3 DEF IInv, ComingInv, UnderWay
  <2> QED
    BY <2>1 DEF NoOrphanBook, IInv, YardInv
<1> QED
  BY <1>1, Invariant, PTL
=============================================================================
