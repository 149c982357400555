---------------------------- MODULE Session_proofs ----------------------------
(***************************************************************************)
(* Proofs about allow transactions and sessions: types, one allow at a     *)
(* time, nothing current taken for stale, one delivery in a session, and   *)
(* the same keys at both ends, for any messages, bounds and circle of      *)
(* session numbers.                                                        *)
(***************************************************************************)
EXTENDS Session, FiniteSetTheorems, SequenceTheorems, TLAPS

-----------------------------------------------------------------------------
(* Session numbers.  The sessions a stack starts are counted from 0.        *)

Nth(i) == IF FirstSid + i <= Modulo - 1 THEN FirstSid + i ELSE FirstSid + i - (Modulo - 1)

LEMMA Circle ==
  /\ Half \in Nat /\ Half > 2 /\ Modulo = 2 * Half /\ Modulo \in Nat
  /\ MaxSids \in Nat /\ MaxSids <= Half - 2
  /\ FirstSid \in 1 .. Modulo - 1 /\ Ids = 1 .. Modulo - 1 /\ FirstSid \in Ids
BY HalfAssumption, SidAssumption DEF Modulo, Ids

LEMMA Remainder ==
  ASSUME NEW w \in Nat, w > 0, NEW d \in Int, -w < d, d < w
  PROVE  d % w = IF d >= 0 THEN d ELSE d + w
<1>1. CASE d >= 0
  BY <1>1, Z3
<1>2. CASE d < 0
  BY <1>2, Z3
<1> QED
  BY <1>1, <1>2

(* They stay on the circle, in the order of nextSid, and differ. *)
LEMMA NthFacts ==
  /\ \A i \in 0 .. MaxSids : Nth(i) \in Ids /\ Nth(i) # 0 /\ Nth(i) \in Int
  /\ Nth(0) = FirstSid
  /\ \A i \in 0 .. MaxSids : i < MaxSids => NextId(Nth(i)) = Nth(i + 1)
  /\ \A i, j \in 0 .. MaxSids : Nth(i) = Nth(j) => i = j
BY Circle DEF Nth, NextId

(* A session is stale exactly if it is older. *)
LEMMA NthValid ==
  ASSUME NEW i \in 0 .. MaxSids, NEW j \in 0 .. MaxSids
  PROVE  Valid(Nth(i), Nth(j)) <=> i >= j
<1> DEFINE d == Nth(i) - Nth(j)
<1>1. Nth(i) \in 1 .. Modulo - 1 /\ Nth(j) \in 1 .. Modulo - 1
  BY Circle, NthFacts
<1>2. d % Modulo = IF d >= 0 THEN d ELSE d + Modulo
  <2>1. d \in Int /\ -Modulo < d /\ d < Modulo /\ Modulo \in Nat /\ Modulo > 0
    BY <1>1, Circle
  <2> QED
    BY <2>1, Remainder
<1>3. Valid(Nth(i), Nth(j)) <=> (IF d >= 0 THEN d ELSE d + Modulo) < Half
  BY <1>1, <1>2, Circle DEF Valid
<1> QED
  BY <1>1, <1>3, Circle DEF Nth

-----------------------------------------------------------------------------
(* The inductive invariant, of estates E, packets N, counts of sessions S,   *)
(* messages submitted U and received R, so that it can be asked of what      *)
(* stands between two calls of one handler too.                              *)

AllowRecords ==
  [rf: BOOLEAN, si: Nat, ti: Nat \ {0}, tx: {"hello", "initiate", "cookie", "ack"}, oreo: Nat]

MessengerRecords == [m: Msgs, si: Nat, ti: Nat \ {0}, box: Nat \X Nat]

EstateRecords ==
  [sid: Nat, rsid: Nat, tid: Nat, allowed: BOOLEAN, privee: Nat \ {0}, publee: Nat,
   messages: Seq(Msgs), doneTransactions: SUBSET Nat,
   allows: SUBSET AllowRecords, messengers: SUBSET MessengerRecords]

Typed(E, S, R) ==
  /\ E \in [Peers -> EstateRecords]
  /\ S \in [Peers -> 0 .. MaxSids]
  /\ R \in [Msgs \X Ids -> 0 .. 1]

(* Session si was started by p, and in its present one ti was handed out. *)
Started(S, p, si) == \E j \in 0 .. S[p] : si = Nth(j)
Used(E, S, p, si, ti) == Started(S, p, si) /\ (si = E[p].sid => ti <= E[p].tid)

BoxOK(E, box) == box[1] <= E["a"].privee /\ box[2] <= E["b"].privee

AllowOK(E, S, p, t) ==
  /\ Used(E, S, IF t.rf THEN Other(p) ELSE p, t.si, t.ti)
  /\ t.tx \in (IF t.rf THEN {"cookie", "ack"} ELSE {"hello", "initiate"})
  /\ t.oreo <= E[IF t.rf THEN p ELSE Other(p)].privee
  /\ t.tx \in {"cookie", "initiate"} => t.oreo > 0

MessengerOK(E, p, x) ==
  From[x.m] = p /\ x.si = E[p].sid /\ x.ti <= E[p].tid /\ BoxOK(E, x.box)

PeerOK(E, S, p) ==
  LET e == E[p]
      o == Other(p)
  IN /\ e.sid = Nth(S[p])
     /\ e.publee <= E[o].privee
     /\ e.rsid = 0 \/ Started(S, o, e.rsid)
     /\ e.rsid = E[o].sid => \A d \in e.doneTransactions : d <= E[o].tid
     /\ \A t, u \in e.allows : t = u
     /\ \A t \in e.allows : AllowOK(E, S, p, t)
     /\ IsFiniteSet(e.messengers)
     /\ \A x, y \in e.messengers : x.ti = y.ti => x = y
     /\ \A x \in e.messengers : MessengerOK(E, p, x)

Initiator(k) == IF k.cf THEN k.to ELSE Other(k.to)

Kinds(tk, cf) ==
  IF tk = "allow" THEN Nacks \cup (IF cf THEN {"cookie", "ack"} ELSE {"hello", "initiate", "ack"})
  ELSE IF cf THEN {"done", "nack"} ELSE {"message", "nack"}

(* What each kind of packet carries. *)
BodyOK(E, k) ==
  CASE k.pk \in {"hello", "cookie"} -> \E n \in 1 .. E[Other(k.to)].privee : k.body = <<n>>
    [] k.pk = "initiate" -> \E n \in 1 .. E[Other(k.to)].privee, c \in 1 .. E[k.to].privee :
                              k.body = <<n, c>>
    [] k.pk = "message" -> \E m \in Msgs, box \in Nat \X Nat :
                             k.body = <<m, box>> /\ From[m] = Other(k.to) /\ BoxOK(E, box)
    [] OTHER -> k.body = <<>>

PacketOK(E, S, k) ==
  /\ k = [tk |-> k.tk, pk |-> k.pk, to |-> k.to, cf |-> k.cf, si |-> k.si, ti |-> k.ti,
          body |-> k.body]
  /\ k.tk \in {"allow", "message"} /\ k.to \in Peers /\ k.cf \in BOOLEAN /\ k.ti \in Nat \ {0}
  /\ k.pk \in Kinds(k.tk, k.cf)
  /\ Used(E, S, Initiator(k), k.si, k.ti)
  /\ BodyOK(E, k)

(* A message in a session: with its Messenger or in a packet. *)
CarriedBy(k) == [m |-> k.body[1], si |-> k.si, ti |-> k.ti, box |-> k.body[2]]
Carried(E, N, x) ==
  \/ \E p \in Peers : x \in E[p].messengers
  \/ \E k \in N : k.pk = "message" /\ x = CarriedBy(k)

Part(o, box) == IF o = "a" THEN box[1] ELSE box[2]

(* The other side will not take x again: its session is over there, it is known
   as done, or the key it was encrypted for is gone. *)
Spent(E, x) ==
  LET o == Other(From[x.m])
  IN \/ ~Valid(x.si, E[o].rsid)
     \/ E[o].rsid = x.si /\ x.ti \in E[o].doneTransactions
     \/ Part(o, x.box) < E[o].privee

(* M may be sent by p in its present session. *)
Unsent(E, N, R, p, m) ==
  /\ From[m] = p /\ R[<<m, E[p].sid>>] = 0
  /\ \A x : Carried(E, N, x) => ~(x.m = m /\ x.si = E[p].sid)

MessagesOK(E, N, S, U, R) ==
  /\ \A x, y : Carried(E, N, x) /\ Carried(E, N, y) /\ x.m = y.m /\ x.si = y.si => x = y
  /\ \A x : Carried(E, N, x) => x.m \in U
  /\ \A p \in Peers : \A i \in DOMAIN E[p].messages :
       E[p].messages[i] \in U /\ Unsent(E, N, R, p, E[p].messages[i])
  /\ \A p \in Peers : \A i, j \in DOMAIN E[p].messages :
       E[p].messages[i] = E[p].messages[j] => i = j
  /\ \A m \in Msgs, s \in Ids : R[<<m, s>>] # 0 => m \in U /\ Started(S, From[m], s)
  /\ \A x : Carried(E, N, x) /\ R[<<x.m, x.si>>] # 0 => Spent(E, x)

W(E, N, S, U, R) ==
  /\ Typed(E, S, R)
  /\ \A p \in Peers : PeerOK(E, S, p)
  /\ \A k \in N : PacketOK(E, S, k)
  /\ MessagesOK(E, N, S, U, R)

IInv ==
  /\ W(estate, net, sessions, submitted, rxMsgs)
  /\ \A p \in Peers : estate[p].privee <= MaxKey
  /\ submitted \subseteq Msgs /\ raised \in BOOLEAN /\ timely \in BOOLEAN

-----------------------------------------------------------------------------
(* What grows from one state to the next, and what it keeps.                 *)

Grows(E, S, F, T) ==
  \A q \in Peers : /\ S[q] <= T[q]
                   /\ E[q].privee <= F[q].privee
                   /\ F[q].sid = Nth(T[q])
                   /\ S[q] = T[q] => E[q].tid <= F[q].tid

LEMMA Others ==
  \A p \in Peers : /\ Other(p) \in Peers /\ Other(p) # p /\ Other(Other(p)) = p
                   /\ \A q \in Peers : q = p \/ q = Other(p)
BY DEF Peers, Other

LEMMA EstateFields ==
  ASSUME NEW e \in EstateRecords
  PROVE  /\ e.sid \in Nat /\ e.rsid \in Nat /\ e.tid \in Nat /\ e.allowed \in BOOLEAN
         /\ e.privee \in Nat /\ e.privee > 0 /\ e.publee \in Nat /\ e.messages \in Seq(Msgs)
         /\ e.doneTransactions \subseteq Nat /\ e.allows \subseteq AllowRecords
         /\ e.messengers \subseteq MessengerRecords
BY DEF EstateRecords

LEMMA StartedGrows ==
  ASSUME NEW E, NEW S \in [Peers -> 0 .. MaxSids], NEW F, NEW T \in [Peers -> 0 .. MaxSids],
         Grows(E, S, F, T), NEW p \in Peers, NEW si, Started(S, p, si)
  PROVE  /\ Started(T, p, si)
         /\ si = F[p].sid => S[p] = T[p] /\ si = Nth(S[p])
<1>1. S[p] \in 0 .. MaxSids /\ T[p] \in 0 .. MaxSids /\ S[p] <= T[p] /\ F[p].sid = Nth(T[p])
  BY DEF Grows
<1>2. PICK j \in 0 .. S[p] : si = Nth(j)
  BY DEF Started
<1>3. j \in 0 .. MaxSids /\ j \in 0 .. T[p]
  BY <1>1, <1>2, Circle
<1>4. Started(T, p, si)
  BY <1>2, <1>3 DEF Started
<1>5. ASSUME si = F[p].sid PROVE S[p] = T[p] /\ si = Nth(S[p])
  <2>1. j = T[p]
    BY <1>1, <1>2, <1>3, <1>5, NthFacts
  <2> QED
    BY <2>1, <1>1, <1>2, <1>3, Circle
<1> QED
  BY <1>4, <1>5

LEMMA UsedGrows ==
  ASSUME NEW E, NEW S \in [Peers -> 0 .. MaxSids], NEW F, NEW T \in [Peers -> 0 .. MaxSids],
         Grows(E, S, F, T), NEW p \in Peers, E[p].sid = Nth(S[p]),
         E[p].tid \in Nat, F[p].tid \in Nat,
         NEW si, NEW ti \in Nat, Used(E, S, p, si, ti)
  PROVE  Used(F, T, p, si, ti)
<1>1. Started(T, p, si) /\ (si = F[p].sid => S[p] = T[p] /\ si = Nth(S[p]))
  BY StartedGrows DEF Used
<1>2. si = F[p].sid => ti <= E[p].tid /\ E[p].tid <= F[p].tid
  BY <1>1 DEF Used, Grows
<1> QED
  BY <1>1, <1>2 DEF Used

LEMMA BoxGrows ==
  ASSUME NEW E, NEW F, NEW box \in Nat \X Nat, BoxOK(E, box),
         E["a"].privee \in Nat, F["a"].privee \in Nat, E["a"].privee <= F["a"].privee,
         E["b"].privee \in Nat, F["b"].privee \in Nat, E["b"].privee <= F["b"].privee
  PROVE  BoxOK(F, box)
BY DEF BoxOK

LEMMA Keys ==
  ASSUME NEW E \in [Peers -> EstateRecords], NEW F \in [Peers -> EstateRecords],
         NEW S, NEW T, Grows(E, S, F, T)
  PROVE  /\ \A q \in Peers : E[q].privee \in Nat /\ F[q].privee \in Nat /\ E[q].privee <= F[q].privee
         /\ \A q \in Peers : E[q].tid \in Nat /\ F[q].tid \in Nat
         /\ \A box \in Nat \X Nat : BoxOK(E, box) => BoxOK(F, box)
<1>1. \A q \in Peers : E[q].privee \in Nat /\ F[q].privee \in Nat /\ E[q].privee <= F[q].privee
                       /\ E[q].tid \in Nat /\ F[q].tid \in Nat
  BY EstateFields DEF Grows
<1> QED
  BY <1>1, BoxGrows DEF Peers

(* Packets stay good. *)
LEMMA PacketGrows ==
  ASSUME NEW E, NEW S, NEW R, NEW F, NEW T, Typed(E, S, R), Typed(F, T, R), Grows(E, S, F, T),
         \A q \in Peers : E[q].sid = Nth(S[q]),
         NEW k, PacketOK(E, S, k)
  PROVE  PacketOK(F, T, k)
<1>1. /\ E \in [Peers -> EstateRecords] /\ F \in [Peers -> EstateRecords]
      /\ S \in [Peers -> 0 .. MaxSids] /\ T \in [Peers -> 0 .. MaxSids]
  BY DEF Typed
<1>2. k.to \in Peers /\ Other(k.to) \in Peers /\ Initiator(k) \in Peers /\ k.ti \in Nat
  BY Others DEF PacketOK, Initiator
<1>3. /\ \A q \in Peers : E[q].privee \in Nat /\ F[q].privee \in Nat /\ E[q].privee <= F[q].privee
      /\ \A q \in Peers : E[q].tid \in Nat /\ F[q].tid \in Nat
      /\ \A box \in Nat \X Nat : BoxOK(E, box) => BoxOK(F, box)
  BY <1>1, Keys
<1>4. Used(F, T, Initiator(k), k.si, k.ti)
  BY <1>1, <1>2, <1>3, UsedGrows DEF PacketOK
<1>5. BodyOK(E, k)
  BY DEF PacketOK
<1>6. BodyOK(F, k)
  <2>1. CASE k.pk \in {"hello", "cookie"}
    BY <1>2, <1>3, <1>5, <2>1 DEF BodyOK
  <2>2. CASE k.pk = "initiate"
    BY <1>2, <1>3, <1>5, <2>2 DEF BodyOK
  <2>3. CASE k.pk = "message"
    BY <1>2, <1>3, <1>5, <2>3 DEF BodyOK
  <2>4. CASE k.pk \notin {"hello", "cookie", "initiate", "message"}
    BY <1>5, <2>4 DEF BodyOK
  <2> QED
    BY <2>1, <2>2, <2>3, <2>4
<1> QED
  BY <1>4, <1>6 DEF PacketOK

(* So do transactions. *)
LEMMA AllowGrows ==
  ASSUME NEW E, NEW S, NEW R, NEW F, NEW T, Typed(E, S, R), Typed(F, T, R), Grows(E, S, F, T),
         \A q \in Peers : E[q].sid = Nth(S[q]),
         NEW q \in Peers, NEW t \in AllowRecords, AllowOK(E, S, q, t)
  PROVE  AllowOK(F, T, q, t)
<1>1. /\ E \in [Peers -> EstateRecords] /\ F \in [Peers -> EstateRecords]
      /\ S \in [Peers -> 0 .. MaxSids] /\ T \in [Peers -> 0 .. MaxSids]
      /\ Other(q) \in Peers
  BY Others DEF Typed
<1>2. /\ \A r \in Peers : E[r].privee \in Nat /\ F[r].privee \in Nat /\ E[r].privee <= F[r].privee
      /\ \A r \in Peers : E[r].tid \in Nat /\ F[r].tid \in Nat
  BY <1>1, Keys
<1>3. t.rf \in BOOLEAN /\ t.ti \in Nat /\ t.oreo \in Nat
  BY DEF AllowRecords
<1>4. Used(F, T, IF t.rf THEN Other(q) ELSE q, t.si, t.ti)
  BY <1>1, <1>2, <1>3, UsedGrows DEF AllowOK
<1>5. t.oreo <= F[IF t.rf THEN q ELSE Other(q)].privee
  BY <1>1, <1>2, <1>3 DEF AllowOK
<1> QED
  BY <1>4, <1>5 DEF AllowOK

(* So does the side that does not move. *)
LEMMA PeerGrows ==
  ASSUME NEW E, NEW S, NEW R, NEW F, NEW T, Typed(E, S, R), Typed(F, T, R), Grows(E, S, F, T),
         \A q \in Peers : PeerOK(E, S, q),
         NEW q \in Peers, F[q] = E[q], T[q] = S[q]
  PROVE  PeerOK(F, T, q)
<1> DEFINE o == Other(q)
           e == E[q]
<1>1. /\ E \in [Peers -> EstateRecords] /\ F \in [Peers -> EstateRecords]
      /\ S \in [Peers -> 0 .. MaxSids] /\ T \in [Peers -> 0 .. MaxSids]
  BY DEF Typed
<1>2. /\ o \in Peers /\ e \in EstateRecords
      /\ \A r \in Peers : E[r].sid = Nth(S[r])
  BY <1>1, Others DEF PeerOK
<1>3. /\ \A r \in Peers : E[r].privee \in Nat /\ F[r].privee \in Nat /\ E[r].privee <= F[r].privee
      /\ \A r \in Peers : E[r].tid \in Nat /\ F[r].tid \in Nat
      /\ \A box \in Nat \X Nat : BoxOK(E, box) => BoxOK(F, box)
  BY <1>1, Keys
<1>4. F[q].publee <= F[o].privee
  <2>1. e.publee <= E[o].privee
    BY DEF PeerOK
  <2> QED
    BY <2>1, <1>2, <1>3, EstateFields
<1>5. F[q].rsid = 0 \/ Started(T, o, F[q].rsid)
  BY <1>1, <1>2, StartedGrows DEF PeerOK
<1>6. F[q].rsid = F[o].sid => \A d \in F[q].doneTransactions : d <= F[o].tid
  <2> SUFFICES ASSUME F[q].rsid = F[o].sid, NEW d \in F[q].doneTransactions
               PROVE  d <= F[o].tid
    OBVIOUS
  <2>1. F[o].sid = Nth(T[o]) /\ T[o] \in 0 .. MaxSids
    BY <1>1, <1>2 DEF Grows
  <2>2. e.rsid # 0
    BY <2>1, NthFacts
  <2>3. Started(S, o, e.rsid)
    BY <2>2 DEF PeerOK
  <2>4. S[o] = T[o] /\ e.rsid = E[o].sid
    BY <2>3, <1>1, <1>2, StartedGrows
  <2>5. d <= E[o].tid /\ E[o].tid <= F[o].tid
    BY <2>4, <1>2 DEF PeerOK, Grows
  <2> QED
    BY <2>5, <1>2, <1>3, EstateFields
<1>7. ASSUME NEW t \in F[q].allows PROVE AllowOK(F, T, q, t)
  BY <1>2, <1>7, EstateFields, AllowGrows DEF PeerOK
<1>8. ASSUME NEW x \in F[q].messengers PROVE MessengerOK(F, q, x)
  <2>1. MessengerOK(E, q, x) /\ x \in MessengerRecords
    BY <1>2, <1>8, EstateFields DEF PeerOK
  <2>2. x.box \in Nat \X Nat
    BY <2>1 DEF MessengerRecords
  <2> QED
    BY <2>1, <2>2, <1>3 DEF MessengerOK
<1> QED
  BY <1>2, <1>4, <1>5, <1>6, <1>7, <1>8 DEF PeerOK

-----------------------------------------------------------------------------
(* Messages under way.                                                       *)

LEMMA CarriedFacts ==
  ASSUME NEW E, NEW N, NEW S, NEW U, NEW R, W(E, N, S, U, R), NEW x, Carried(E, N, x)
  PROVE  /\ x \in MessengerRecords /\ x.m \in Msgs /\ x.ti \in Nat /\ x.box \in Nat \X Nat
         /\ From[x.m] \in Peers /\ x.si \in Ids
         /\ Used(E, S, From[x.m], x.si, x.ti) /\ Started(S, From[x.m], x.si)
         /\ BoxOK(E, x.box)
<1>1. /\ E \in [Peers -> EstateRecords] /\ S \in [Peers -> 0 .. MaxSids]
  BY DEF W, Typed
<1>2. ASSUME NEW p \in Peers, x \in E[p].messengers
      PROVE  /\ x \in MessengerRecords /\ From[x.m] = p /\ BoxOK(E, x.box)
             /\ Used(E, S, From[x.m], x.si, x.ti)
  <2>1. /\ MessengerOK(E, p, x) /\ E[p].sid = Nth(S[p])
    BY <1>2 DEF W, PeerOK
  <2>2. x \in MessengerRecords
    BY <1>1, <1>2, EstateFields
  <2>3. S[p] \in 0 .. S[p]
    BY <1>1, Circle
  <2> QED
    BY <2>1, <2>2, <2>3 DEF MessengerOK, Used, Started
<1>3. ASSUME NEW k \in N, k.pk = "message", x = CarriedBy(k)
      PROVE  /\ x \in MessengerRecords /\ From[x.m] = Other(k.to) /\ BoxOK(E, x.box)
             /\ Used(E, S, From[x.m], x.si, x.ti) /\ k.to \in Peers
  <2>1. PacketOK(E, S, k)
    BY <1>3 DEF W
  <2>2. PICK m \in Msgs, box \in Nat \X Nat :
          k.body = <<m, box>> /\ From[m] = Other(k.to) /\ BoxOK(E, box)
    BY <1>3, <2>1 DEF PacketOK, BodyOK
  <2>3. k.body[1] = m /\ k.body[2] = box
    BY <2>2
  <2>4. ~k.cf /\ Initiator(k) = Other(k.to) /\ k.to \in Peers /\ k.ti \in Nat \ {0}
    BY <1>3, <2>1 DEF PacketOK, Kinds, Nacks, Initiator
  <2>5. Used(E, S, Other(k.to), k.si, k.ti)
    BY <2>1, <2>4 DEF PacketOK
  <2>6. k.si \in Nat
    <3>1. Other(k.to) \in Peers
      BY <2>4, Others
    <3>2. S[Other(k.to)] \in 0 .. MaxSids
      BY <1>1, <3>1
    <3>3. PICK j \in 0 .. S[Other(k.to)] : k.si = Nth(j)
      BY <2>5 DEF Used, Started
    <3>4. j \in 0 .. MaxSids
      BY <3>2, <3>3, Circle
    <3> QED
      BY <3>3, <3>4, NthFacts, Circle
  <2>7. x = [m |-> m, si |-> k.si, ti |-> k.ti, box |-> box]
    BY <1>3, <2>3 DEF CarriedBy
  <2> QED
    BY <2>2, <2>4, <2>5, <2>6, <2>7 DEF MessengerRecords
<1>4. /\ x \in MessengerRecords /\ From[x.m] \in Peers /\ BoxOK(E, x.box)
      /\ Used(E, S, From[x.m], x.si, x.ti)
  BY <1>2, <1>3, Others DEF Carried
<1>5. x.si \in Ids
  <2>1. PICK j \in 0 .. S[From[x.m]] : x.si = Nth(j)
    BY <1>4 DEF Used, Started
  <2>2. j \in 0 .. MaxSids
    BY <1>1, <1>4, <2>1, Circle
  <2> QED
    BY <2>1, <2>2, NthFacts
<1> QED
  BY <1>4, <1>5 DEF MessengerRecords, Used

(* What the other side will not take again, it never will. *)
LEMMA SpentGrows ==
  ASSUME NEW E \in [Peers -> EstateRecords], NEW F \in [Peers -> EstateRecords],
         \A q \in Peers : /\ E[q].privee <= F[q].privee
                          /\ F[q].rsid = E[q].rsid
                          /\ E[q].doneTransactions \subseteq F[q].doneTransactions,
         NEW x, x.box \in Nat \X Nat, From[x.m] \in Peers, Spent(E, x)
  PROVE  Spent(F, x)
<1> DEFINE o == Other(From[x.m])
<1>1. o \in Peers /\ E[o].privee \in Nat /\ F[o].privee \in Nat /\ Part(o, x.box) \in Nat
  BY Others, EstateFields DEF Part
<1> QED
  BY <1>1 DEF Spent

(* Nothing new is carried: the messages are as good as they were. *)
LEMMA QuietMessages ==
  ASSUME NEW E, NEW N, NEW S, NEW U, NEW R, W(E, N, S, U, R),
         NEW F, NEW M, NEW T,
         \A x : Carried(F, M, x) => Carried(E, N, x),
         \A x : Carried(E, N, x) /\ Spent(E, x) => Spent(F, x),
         \A q \in Peers : /\ F[q].sid = E[q].sid /\ F[q].messages = E[q].messages
                          /\ T[q] = S[q]
  PROVE  MessagesOK(F, M, T, U, R)
<1>1. MessagesOK(E, N, S, U, R)
  BY DEF W
<1>2. From \in [Msgs -> Peers]
  BY FromAssumption
<1>3. \A q \in Peers : \A m : Unsent(E, N, R, q, m) => Unsent(F, M, R, q, m)
  BY DEF Unsent
<1>4. \A m \in Msgs : \A s : Started(S, From[m], s) => Started(T, From[m], s)
  BY <1>2 DEF Started
<1> QED
  BY <1>1, <1>3, <1>4 DEF MessagesOK

-----------------------------------------------------------------------------
(* A step of one side.                                                       *)

LEMMA Moves ==
  ASSUME NEW E, NEW S, NEW R, Typed(E, S, R), NEW p \in Peers, NEW f \in EstateRecords,
         NEW n \in 0 .. MaxSids
  PROVE  /\ Typed([E EXCEPT ![p] = f], [S EXCEPT ![p] = n], R)
         /\ [E EXCEPT ![p] = f][p] = f /\ [S EXCEPT ![p] = n][p] = n
         /\ \A q \in Peers : q # p => [E EXCEPT ![p] = f][q] = E[q] /\ [S EXCEPT ![p] = n][q] = S[q]
BY DEF Typed

LEMMA StepKeeps ==
  ASSUME NEW E, NEW N, NEW S, NEW U, NEW R, W(E, N, S, U, R),
         NEW F, NEW T, Typed(F, T, R), Grows(E, S, F, T),
         NEW p \in Peers, \A q \in Peers : q # p => F[q] = E[q] /\ T[q] = S[q],
         PeerOK(F, T, p), NEW out, \A k \in out : PacketOK(F, T, k)
  PROVE  /\ \A q \in Peers : PeerOK(F, T, q)
         /\ \A k \in N \cup out : PacketOK(F, T, k)
<1>1. Typed(E, S, R) /\ (\A q \in Peers : PeerOK(E, S, q)) /\ (\A k \in N : PacketOK(E, S, k))
  BY DEF W
<1>2. \A q \in Peers : E[q].sid = Nth(S[q])
  BY <1>1 DEF PeerOK
<1>3. \A q \in Peers : PeerOK(F, T, q)
  BY <1>1, PeerGrows
<1>4. \A k \in N : PacketOK(F, T, k)
  BY <1>1, <1>2, PacketGrows
<1> QED
  BY <1>3, <1>4

(* No new session, and nothing new under way. *)
LEMMA Quiet ==
  ASSUME NEW E, NEW N, NEW S, NEW U, NEW R, W(E, N, S, U, R),
         NEW p \in Peers, NEW f \in EstateRecords, NEW out,
         f.sid = E[p].sid, f.rsid = E[p].rsid, f.messages = E[p].messages,
         E[p].tid <= f.tid, E[p].privee <= f.privee,
         f.publee = E[p].publee \/ f.publee <= E[Other(p)].privee,
         \/ f.doneTransactions = E[p].doneTransactions
         \/ /\ E[p].doneTransactions \subseteq f.doneTransactions
            /\ f.rsid = E[Other(p)].sid => \A d \in f.doneTransactions : d <= E[Other(p)].tid,
         f.messengers \subseteq E[p].messengers,
         \A t, u \in f.allows : t = u,
         \A t \in f.allows : t \in E[p].allows \/ AllowOK([E EXCEPT ![p] = f], S, p, t),
         \A k \in out : PacketOK(E, S, k) \/ PacketOK([E EXCEPT ![p] = f], S, k),
         \A k \in out : k.pk = "message" => Carried(E, N, CarriedBy(k))
  PROVE  W([E EXCEPT ![p] = f], N \cup out, S, U, R)
<1> DEFINE F == [E EXCEPT ![p] = f]
           o == Other(p)
<1>1. /\ E \in [Peers -> EstateRecords] /\ S \in [Peers -> 0 .. MaxSids]
      /\ o \in Peers /\ o # p /\ \A q \in Peers : q = p \/ q = o
  BY Others DEF W, Typed
<1>2. /\ Typed(F, S, R) /\ F[p] = f /\ \A q \in Peers : q # p => F[q] = E[q]
  BY DEF W, Typed
<1>3. \A q \in Peers : PeerOK(E, S, q)
  BY DEF W
<1>4. Grows(E, S, F, S)
  <2>1. \A q \in Peers : E[q].sid = Nth(S[q]) /\ E[q].privee \in Nat /\ E[q].tid \in Nat
    BY <1>1, <1>3, EstateFields DEF PeerOK
  <2> QED
    BY <1>1, <1>2, <2>1 DEF Grows
<1>5. PeerOK(F, S, p)
  <2> DEFINE e == E[p]
  <2>1. /\ e.sid = Nth(S[p]) /\ e.publee <= E[o].privee
        /\ e.rsid = 0 \/ Started(S, o, e.rsid)
        /\ e.rsid = E[o].sid => \A d \in e.doneTransactions : d <= E[o].tid
        /\ IsFiniteSet(e.messengers)
        /\ \A x, y \in e.messengers : x.ti = y.ti => x = y
        /\ \A x \in e.messengers : MessengerOK(E, p, x)
    BY <1>3 DEF PeerOK
  <2>2. IsFiniteSet(f.messengers)
    BY <2>1, FS_Subset
  <2>3. f.publee <= E[o].privee
    BY <2>1
  <2>4. f.rsid = E[o].sid => \A d \in f.doneTransactions : d <= E[o].tid
    BY <2>1
  <2>5. ASSUME NEW x \in f.messengers PROVE MessengerOK(F, p, x)
    <3>1. MessengerOK(E, p, x) /\ x \in MessengerRecords /\ e.tid \in Nat /\ f.tid \in Nat
      BY <1>1, <2>1, <2>5, EstateFields
    <3>2. BoxOK(F, x.box)
      BY <1>1, <1>2, <1>4, <3>1, Keys DEF MessengerRecords, MessengerOK, Typed
    <3> QED
      BY <1>2, <3>1, <3>2 DEF MessengerOK, MessengerRecords
  <2>6. ASSUME NEW t \in f.allows PROVE AllowOK(F, S, p, t)
    <3>1. \A q \in Peers : E[q].sid = Nth(S[q])
      BY <1>3 DEF PeerOK
    <3>2. ASSUME t \in e.allows PROVE AllowOK(E, S, p, t) /\ t \in AllowRecords
      BY <1>1, <1>3, <3>2, EstateFields DEF PeerOK
    <3> HIDE DEF F
    <3>3. t \in e.allows => AllowOK(F, S, p, t)
      BY <1>2, <1>4, <3>1, <3>2, AllowGrows DEF W
    <3> QED
      BY <3>3 DEF F
  <2> QED
    BY <1>1, <1>2, <2>1, <2>2, <2>3, <2>4, <2>5, <2>6 DEF PeerOK
<1>6. /\ \A q \in Peers : PeerOK(F, S, q)
      /\ \A k \in N \cup out : PacketOK(F, S, k)
  <2>1. \A q \in Peers : q # p => F[q] = E[q] /\ S[q] = S[q]
    BY <1>2
  <2>2. \A k \in out : PacketOK(E, S, k) \/ PacketOK(F, S, k)
    OBVIOUS
  <2>3. Typed(F, S, R)
    BY <1>2
  <2>4. Typed(E, S, R) /\ \A q \in Peers : E[q].sid = Nth(S[q])
    BY <1>3 DEF W, PeerOK
  <2> HIDE DEF F
  <2>5. \A k \in out : PacketOK(F, S, k)
    BY <1>4, <2>2, <2>3, <2>4, PacketGrows
  <2> QED
    BY <1>4, <1>5, <2>1, <2>3, <2>5, StepKeeps
<1>7. \A x : Carried(F, N \cup out, x) => Carried(E, N, x)
  BY <1>1, <1>2 DEF Carried
<1>8. \A x : Carried(E, N, x) /\ Spent(E, x) => Spent(F, x)
  <2>1. /\ F \in [Peers -> EstateRecords]
        /\ \A q \in Peers : /\ E[q].privee <= F[q].privee
                            /\ F[q].rsid = E[q].rsid
                            /\ E[q].doneTransactions \subseteq F[q].doneTransactions
    BY <1>1, <1>2, <1>4 DEF Grows, Typed
  <2>2. \A x : Carried(E, N, x) => x.box \in Nat \X Nat /\ From[x.m] \in Peers
    BY CarriedFacts
  <2> QED
    BY <1>1, <2>1, <2>2, SpentGrows
<1>9. MessagesOK(F, N \cup out, S, U, R)
  BY <1>1, <1>2, <1>7, <1>8, QuietMessages
<1> QED
  BY <1>2, <1>6, <1>9 DEF W

(* Packets are lost, or not sent at all. *)
LEMMA Fewer ==
  ASSUME NEW E, NEW N, NEW S, NEW U, NEW R, W(E, N, S, U, R), NEW M, M \subseteq N
  PROVE  W(E, M, S, U, R)
<1>1. \A x : Carried(E, M, x) => Carried(E, N, x)
  BY DEF Carried
<1>2. MessagesOK(E, M, S, U, R)
  BY <1>1, QuietMessages
<1> QED
  BY <1>2 DEF W

-----------------------------------------------------------------------------
(* Good packets.                                                             *)

LEMMA AllowPktOK ==
  ASSUME NEW E, NEW S, NEW p \in Peers, NEW t \in AllowRecords, AllowOK(E, S, p, t),
         NEW pk \in Nacks \cup {"ack"}
  PROVE  /\ PacketOK(E, S, AllowPkt(p, t, pk, <<>>))
         /\ AllowPkt(p, t, pk, <<>>).pk # "message"
<1> DEFINE k == AllowPkt(p, t, pk, <<>>)
<1>1. k = [tk |-> "allow", pk |-> pk, to |-> Other(p), cf |-> t.rf, si |-> t.si, ti |-> t.ti,
           body |-> <<>>]
  BY DEF AllowPkt, Pkt
<1>2. /\ k.tk = "allow" /\ k.pk = pk /\ k.to = Other(p) /\ k.cf = t.rf /\ k.si = t.si
      /\ k.ti = t.ti /\ k.body = <<>>
  BY <1>1
<1>3. Other(p) \in Peers /\ Other(Other(p)) = p /\ t.rf \in BOOLEAN /\ t.ti \in Nat \ {0}
  BY Others DEF AllowRecords
<1>4. BodyOK(E, k) /\ k.pk \in Kinds(k.tk, k.cf) /\ k.pk # "message"
  BY <1>2 DEF BodyOK, Kinds, Nacks
<1>5. Used(E, S, Initiator(k), k.si, k.ti)
  BY <1>2, <1>3 DEF AllowOK, Initiator
<1> HIDE DEF k
<1>6. PacketOK(E, S, k) /\ k.pk # "message"
  BY <1>1, <1>2, <1>3, <1>4, <1>5 DEF PacketOK
<1> QED
  BY <1>6 DEF k

LEMMA RedoneOK ==
  ASSUME NEW E, NEW S, NEW p \in Peers, NEW t \in AllowRecords, AllowOK(E, S, p, t),
         NEW e, e.privee = E[p].privee, e.privee \in Nat \ {0},
         E[Other(p)].privee \in Nat
  PROVE  PacketOK(E, S, Redone(p, t, e)) /\ Redone(p, t, e).pk # "message"
<1> DEFINE k == Redone(p, t, e)
           body == CASE t.tx = "hello" -> <<e.privee>>
                     [] t.tx = "initiate" -> <<e.privee, t.oreo>>
                     [] t.tx = "cookie" -> <<t.oreo>>
                     [] t.tx = "ack" -> <<>>
<1>1. /\ Other(p) \in Peers /\ Other(Other(p)) = p /\ t.rf \in BOOLEAN /\ t.ti \in Nat \ {0}
      /\ t.oreo \in Nat /\ t.tx \in {"hello", "initiate", "cookie", "ack"}
  BY Others DEF AllowRecords
<1>2. k = [tk |-> "allow", pk |-> t.tx, to |-> Other(p), cf |-> t.rf, si |-> t.si, ti |-> t.ti,
           body |-> body]
  BY <1>1 DEF Redone, AllowPkt, Pkt
<1> HIDE DEF k, body
<1>3. /\ k.tk = "allow" /\ k.pk = t.tx /\ k.to = Other(p) /\ k.cf = t.rf /\ k.si = t.si
      /\ k.ti = t.ti /\ k.body = body
  BY <1>2
<1>4. k.pk \in Kinds(k.tk, k.cf) /\ k.pk # "message"
  BY <1>3, <1>1 DEF Kinds, AllowOK
<1>5. Used(E, S, Initiator(k), k.si, k.ti)
  BY <1>3, <1>1 DEF AllowOK, Initiator
<1>6. BodyOK(E, k)
  <2>1. CASE t.tx = "hello"
    BY <1>1, <1>3, <2>1 DEF BodyOK, body
  <2>2. CASE t.tx = "initiate"
    <3>1. ~t.rf /\ t.oreo \in 1 .. E[Other(p)].privee /\ e.privee \in 1 .. E[p].privee
      BY <1>1, <2>2 DEF AllowOK
    <3>2. k.body = <<e.privee, t.oreo>>
      BY <1>3, <2>2 DEF body
    <3> QED
      BY <1>1, <1>3, <2>2, <3>1, <3>2 DEF BodyOK
  <2>3. CASE t.tx = "cookie"
    <3>1. t.rf /\ t.oreo \in 1 .. E[p].privee
      BY <1>1, <2>3 DEF AllowOK
    <3> QED
      BY <1>1, <1>3, <2>3, <3>1 DEF BodyOK, body
  <2>4. CASE t.tx = "ack"
    BY <1>1, <1>3, <2>4 DEF BodyOK, body
  <2> QED
    BY <1>1, <2>1, <2>2, <2>3, <2>4
<1>7. PacketOK(E, S, k) /\ k.pk # "message"
  BY <1>1, <1>2, <1>3, <1>4, <1>5, <1>6 DEF PacketOK
<1> QED
  BY <1>7 DEF k

LEMMA ReplyOK ==
  ASSUME NEW E, NEW S, NEW k, PacketOK(E, S, k), NEW pk, pk \in Kinds(k.tk, ~k.cf),
         pk \in Nacks \cup {"done"}
  PROVE  PacketOK(E, S, Reply(k, pk)) /\ Reply(k, pk).pk # "message"
<1> DEFINE r == Reply(k, pk)
<1>1. r = [tk |-> k.tk, pk |-> pk, to |-> Other(k.to), cf |-> ~k.cf, si |-> k.si, ti |-> k.ti,
           body |-> <<>>]
  BY DEF Reply, Pkt
<1> HIDE DEF r
<1>2. /\ r.tk = k.tk /\ r.pk = pk /\ r.to = Other(k.to) /\ r.cf = (~k.cf) /\ r.si = k.si
      /\ r.ti = k.ti /\ r.body = <<>>
  BY <1>1
<1>3. /\ k.to \in Peers /\ Other(k.to) \in Peers /\ Other(Other(k.to)) = k.to
      /\ k.cf \in BOOLEAN /\ k.ti \in Nat \ {0} /\ k.tk \in {"allow", "message"}
  BY Others DEF PacketOK
<1>4. r.pk # "message" /\ BodyOK(E, r)
  BY <1>2 DEF BodyOK, Nacks
<1>5. Used(E, S, Initiator(r), r.si, r.ti)
  BY <1>2, <1>3 DEF PacketOK, Initiator
<1>6. r.cf \in BOOLEAN /\ r.pk \in Kinds(r.tk, r.cf)
  BY <1>2, <1>3
<1>7. PacketOK(E, S, r) /\ r.pk # "message"
  BY <1>1, <1>2, <1>3, <1>4, <1>5, <1>6 DEF PacketOK
<1> QED
  BY <1>7 DEF r

(* The packet of a Messenger, and what it carries. *)
LEMMA MessagePktOK ==
  ASSUME NEW E, NEW S, NEW p \in Peers, NEW x \in MessengerRecords,
         From[x.m] = p, BoxOK(E, x.box), Used(E, S, p, x.si, x.ti)
  PROVE  /\ PacketOK(E, S, MessagePkt(p, x)) /\ CarriedBy(MessagePkt(p, x)) = x
         /\ PacketOK(E, S, Pkt(p, "message", "nack", FALSE, x.si, x.ti, <<>>))
<1>1. /\ Other(p) \in Peers /\ Other(Other(p)) = p /\ x.ti \in Nat \ {0}
      /\ x.m \in Msgs /\ x.box \in Nat \X Nat
  BY Others DEF MessengerRecords
<1> DEFINE k == MessagePkt(p, x)
           n == Pkt(p, "message", "nack", FALSE, x.si, x.ti, <<>>)
<1>2. /\ k = [tk |-> "message", pk |-> "message", to |-> Other(p), cf |-> FALSE, si |-> x.si,
              ti |-> x.ti, body |-> <<x.m, x.box>>]
      /\ n = [tk |-> "message", pk |-> "nack", to |-> Other(p), cf |-> FALSE, si |-> x.si,
              ti |-> x.ti, body |-> <<>>]
  BY DEF MessagePkt, Pkt
<1> HIDE DEF k, n
<1>3. /\ k.tk = "message" /\ k.pk = "message" /\ k.to = Other(p) /\ k.cf = FALSE /\ k.si = x.si
      /\ k.ti = x.ti /\ k.body = <<x.m, x.box>>
  BY <1>2
<1>4. /\ n.tk = "message" /\ n.pk = "nack" /\ n.to = Other(p) /\ n.cf = FALSE /\ n.si = x.si
      /\ n.ti = x.ti /\ n.body = <<>>
  BY <1>2
<1>5. BodyOK(E, k) /\ k.pk \in Kinds(k.tk, k.cf) /\ Initiator(k) = p
  BY <1>1, <1>3 DEF BodyOK, Kinds, Initiator
<1>6. BodyOK(E, n) /\ n.pk \in Kinds(n.tk, n.cf) /\ Initiator(n) = p
  BY <1>1, <1>4 DEF BodyOK, Kinds, Initiator
<1>7. PacketOK(E, S, k)
  BY <1>1, <1>2, <1>3, <1>5 DEF PacketOK
<1>8. PacketOK(E, S, n)
  BY <1>1, <1>2, <1>4, <1>6 DEF PacketOK
<1>9. CarriedBy(k) = x
  <2>1. k.body[1] = x.m /\ k.body[2] = x.box
    BY <1>3
  <2> QED
    BY <1>3, <2>1 DEF CarriedBy, MessengerRecords
<1> QED
  BY <1>7, <1>8, <1>9 DEF k, n

-----------------------------------------------------------------------------
(* The handlers of allow transactions.                                       *)

LEMMA Ready ==
  ASSUME NEW E, NEW N, NEW S, NEW U, NEW R, W(E, N, S, U, R), NEW p \in Peers
  PROVE  /\ E \in [Peers -> EstateRecords] /\ E[p] \in EstateRecords
         /\ E[Other(p)] \in EstateRecords /\ Other(p) \in Peers /\ Other(p) # p
         /\ S \in [Peers -> 0 .. MaxSids] /\ S[p] \in 0 .. MaxSids /\ S[p] \in Nat
         /\ E[p].sid = Nth(S[p]) /\ Started(S, p, E[p].sid)
         /\ E[Other(p)].privee \in Nat
         /\ \A t \in E[p].allows : t \in AllowRecords /\ AllowOK(E, S, p, t)
<1>1. E \in [Peers -> EstateRecords] /\ S \in [Peers -> 0 .. MaxSids] /\ Other(p) \in Peers
      /\ Other(p) # p
  BY Others DEF W, Typed
<1>2. E[p].sid = Nth(S[p]) /\ \A t \in E[p].allows : AllowOK(E, S, p, t)
  BY DEF W, PeerOK
<1>3. S[p] \in 0 .. MaxSids /\ S[p] \in 0 .. S[p] /\ S[p] \in Nat
  BY <1>1, Circle
<1> QED
  BY <1>1, <1>2, <1>3, EstateFields DEF Started

(* rekey() *)
LEMMA Rekeyed ==
  ASSUME NEW e \in EstateRecords
  PROVE  /\ Rekey(e) \in EstateRecords
         /\ Rekey(e).privee = e.privee + 1 /\ Rekey(e).publee = 0 /\ Rekey(e).allowed = FALSE
         /\ Rekey(e).sid = e.sid /\ Rekey(e).rsid = e.rsid /\ Rekey(e).tid = e.tid
         /\ Rekey(e).messages = e.messages /\ Rekey(e).allows = e.allows
         /\ Rekey(e).messengers = e.messengers
         /\ Rekey(e).doneTransactions = e.doneTransactions
<1>1. e.privee + 1 \in Nat \ {0} /\ 0 \in Nat /\ FALSE \in BOOLEAN
  BY EstateFields
<1>2. Rekey(e) \in EstateRecords
  BY <1>1, Zenon DEF Rekey, EstateRecords
<1> QED
  BY <1>2 DEF EstateRecords, Rekey

LEMMA HelloMoves ==
  ASSUME NEW E, NEW N, NEW S, NEW U, NEW R, W(E, N, S, U, R), NEW p \in Peers,
         E[p].allows = {}
  PROVE  W([E EXCEPT ![p] = Hello(p, E[p]).e], N \cup Hello(p, E[p]).out, S, U, R)
<1> DEFINE e == E[p]
           r == Rekey([e EXCEPT !.tid = @ + 1])
           t == [rf |-> FALSE, si |-> r.sid, ti |-> r.tid, tx |-> "hello", oreo |-> 0]
           f == [r EXCEPT !.allows = @ \cup {t}]
           F == [E EXCEPT ![p] = f]
<1>1. Hello(p, e).e = f /\ Hello(p, e).out = {Redone(p, t, r)}
  BY DEF Hello, Result
<1>2. /\ f \in EstateRecords /\ f.sid = e.sid /\ f.rsid = e.rsid /\ f.messages = e.messages
      /\ f.tid = e.tid + 1 /\ f.privee = e.privee + 1 /\ f.publee = 0
      /\ f.doneTransactions = e.doneTransactions /\ f.messengers = e.messengers
      /\ f.allows = {t} /\ r.privee = e.privee + 1 /\ t.si = e.sid /\ t.ti = e.tid + 1
      /\ t \in AllowRecords
  <2>1. e \in EstateRecords /\ e.allows = {} /\ e.sid \in Nat /\ e.tid \in Nat
    BY Ready, EstateFields
  <2> HIDE DEF e
  <2>2. /\ r \in EstateRecords /\ r.sid = e.sid /\ r.rsid = e.rsid /\ r.messages = e.messages
        /\ r.tid = e.tid + 1 /\ r.privee = e.privee + 1 /\ r.publee = 0
        /\ r.doneTransactions = e.doneTransactions /\ r.messengers = e.messengers
        /\ r.allows = {}
    <3> DEFINE d == [e EXCEPT !.tid = @ + 1]
    <3>1. e.tid + 1 \in Nat
      BY <2>1
    <3>2. d \in EstateRecords
      BY <2>1, <3>1, Zenon DEF EstateRecords
    <3>3. /\ d.sid = e.sid /\ d.rsid = e.rsid /\ d.messages = e.messages /\ d.tid = e.tid + 1
          /\ d.privee = e.privee /\ d.doneTransactions = e.doneTransactions
          /\ d.messengers = e.messengers /\ d.allows = {}
      BY <2>1 DEF EstateRecords
    <3> HIDE DEF d
    <3> QED
      BY <3>2, <3>3, Rekeyed DEF d
  <2> HIDE DEF r
  <2>3. t \in AllowRecords /\ t.si = e.sid /\ t.ti = e.tid + 1
    BY <2>1, <2>2 DEF AllowRecords
  <2> HIDE DEF t
  <2>4. r.allows \cup {t} \in SUBSET AllowRecords
    BY <2>2, <2>3
  <2>5. f \in EstateRecords
    BY <2>2, <2>4, Zenon DEF EstateRecords
  <2> QED
    BY <2>2, <2>3, <2>5 DEF EstateRecords
<1>3. /\ F[p] = f /\ F[Other(p)] = E[Other(p)] /\ e.tid \in Nat /\ e.privee \in Nat
      /\ E[Other(p)].privee \in Nat
  BY Ready, EstateFields
<1> HIDE DEF f, r, F
<1>4. AllowOK(F, S, p, t)
  BY <1>2, <1>3, Ready DEF AllowOK, Used
<1>5. PacketOK(F, S, Redone(p, t, r)) /\ Redone(p, t, r).pk # "message"
  BY <1>2, <1>3, <1>4, RedoneOK
<1> HIDE DEF t
<1>6. /\ e.tid <= f.tid /\ e.privee <= f.privee /\ f.publee <= E[Other(p)].privee
  BY <1>2, <1>3
<1>7. W([E EXCEPT ![p] = f], N \cup {Redone(p, t, r)}, S, U, R)
  <2>1. \A u \in f.allows : u \in E[p].allows \/ AllowOK([E EXCEPT ![p] = f], S, p, u)
    BY <1>2, <1>4 DEF F
  <2>2. \A k \in {Redone(p, t, r)} : /\ PacketOK(E, S, k) \/ PacketOK([E EXCEPT ![p] = f], S, k)
                                     /\ k.pk # "message"
    BY <1>5 DEF F
  <2>3. \A u, v \in f.allows : u = v
    BY <1>2
  <2> QED
    BY <1>2, <1>6, <2>1, <2>2, <2>3, Quiet
<1> QED
  BY <1>1, <1>7 DEF F

(* There is one allow transaction: to take it away leaves none. *)
LEMMA OneIsAll ==
  ASSUME NEW E, NEW N, NEW S, NEW U, NEW R, W(E, N, S, U, R), NEW p \in Peers,
         NEW t \in E[p].allows
  PROVE  E[p].allows \ {t} = {} /\ E[p].allows = {t}
<1>1. \A u, v \in E[p].allows : u = v
  BY DEF W, PeerOK
<1> QED
  BY <1>1

LEMMA CookieMoves ==
  ASSUME NEW E, NEW N, NEW S, NEW U, NEW R, W(E, N, S, U, R), NEW p \in Peers,
         NEW t \in E[p].allows, ~t.rf, NEW k, PacketOK(E, S, k), k.to = p, k.pk = "cookie"
  PROVE  W([E EXCEPT ![p] = Cookie(p, E[p], t, k).e], N \cup Cookie(p, E[p], t, k).out, S, U, R)
<1> DEFINE e == E[p]
           s == [t EXCEPT !.tx = "initiate", !.oreo = k.body[1]]
           f == [e EXCEPT !.publee = k.body[1], !.allows = (@ \ {t}) \cup {s}]
           F == [E EXCEPT ![p] = f]
<1>1. Cookie(p, e, t, k).e = f /\ Cookie(p, e, t, k).out = {Redone(p, s, f)}
  BY DEF Cookie, Result
<1>2. k.body[1] \in Nat /\ k.body[1] > 0 /\ k.body[1] <= E[Other(p)].privee
  <2>1. PICK n \in 1 .. E[Other(p)].privee : k.body = <<n>>
    BY DEF PacketOK, BodyOK
  <2> QED
    BY <2>1, Ready
<1>3. t \in AllowRecords /\ AllowOK(E, S, p, t) /\ e \in EstateRecords
  BY Ready
<1>4. /\ s \in AllowRecords /\ s.rf = t.rf /\ s.si = t.si /\ s.ti = t.ti /\ s.tx = "initiate"
      /\ s.oreo = k.body[1]
  BY <1>2, <1>3 DEF AllowRecords
<1> HIDE DEF s
<1>5. /\ f.sid = e.sid /\ f.rsid = e.rsid /\ f.messages = e.messages /\ f.tid = e.tid
      /\ f.privee = e.privee /\ f.publee = k.body[1] /\ f.messengers = e.messengers
      /\ f.doneTransactions = e.doneTransactions /\ f.allows = {s}
  BY <1>3, OneIsAll DEF EstateRecords
<1>6. f \in EstateRecords
  <2>1. (e.allows \ {t}) \cup {s} \in SUBSET AllowRecords
    BY <1>4, OneIsAll
  <2> QED
    BY <1>2, <1>3, <2>1, Zenon DEF EstateRecords
<1> HIDE DEF f
<1>7. F[p] = f /\ F[Other(p)] = E[Other(p)] /\ e.privee \in Nat \ {0} /\ e.tid \in Nat
  BY <1>3, Ready, EstateFields
<1> HIDE DEF F
<1>8. AllowOK(F, S, p, s)
  <2>1. Used(E, S, p, t.si, t.ti)
    BY <1>3 DEF AllowOK
  <2>2. Used(F, S, p, s.si, s.ti)
    BY <1>4, <1>5, <1>7, <2>1 DEF Used
  <2>3. s.oreo > 0 /\ s.oreo <= F[Other(p)].privee
    BY <1>2, <1>4, <1>7
  <2> QED
    BY <1>4, <2>2, <2>3 DEF AllowOK
<1>9. PacketOK(F, S, Redone(p, s, f)) /\ Redone(p, s, f).pk # "message"
  <2>1. f.privee = F[p].privee /\ f.privee \in Nat \ {0} /\ F[Other(p)].privee \in Nat
    BY <1>5, <1>7, Ready
  <2> QED
    BY <1>4, <1>8, <2>1, RedoneOK
<1>10. W([E EXCEPT ![p] = f], N \cup {Redone(p, s, f)}, S, U, R)
  <2>1. \A u \in f.allows : u \in E[p].allows \/ AllowOK([E EXCEPT ![p] = f], S, p, u)
    BY <1>5, <1>8 DEF F
  <2>2. \A c \in {Redone(p, s, f)} : /\ PacketOK(E, S, c) \/ PacketOK([E EXCEPT ![p] = f], S, c)
                                     /\ c.pk # "message"
    BY <1>9 DEF F
  <2>3. /\ \A u, v \in f.allows : u = v
        /\ e.tid <= f.tid /\ e.privee <= f.privee /\ f.messengers \subseteq e.messengers
    BY <1>5, <1>7
  <2> QED
    BY <1>2, <1>5, <1>6, <2>1, <2>2, <2>3, Quiet
<1> QED
  BY <1>1, <1>10

(* The transaction ends: allowed, at most, becomes false, and packets go out. *)
LEMMA EndMoves ==
  ASSUME NEW E, NEW N, NEW S, NEW U, NEW R, W(E, N, S, U, R), NEW p \in Peers,
         NEW t \in E[p].allows, NEW b \in BOOLEAN,
         NEW out, \A c \in out : PacketOK(E, S, c) /\ c.pk # "message"
  PROVE  /\ W([E EXCEPT ![p] = [E[p] EXCEPT !.allows = @ \ {t}, !.allowed = b]], N \cup out, S, U, R)
         /\ W([E EXCEPT ![p] = [E[p] EXCEPT !.allows = @ \ {t}]], N \cup out, S, U, R)
<1> DEFINE e == E[p]
<1>1. e \in EstateRecords /\ e.allows \ {t} \in SUBSET AllowRecords /\ e.allows \ {t} = {}
      /\ e.tid <= e.tid /\ e.privee <= e.privee /\ e.allowed \in BOOLEAN
  BY Ready, EstateFields, OneIsAll
<1>2. ASSUME NEW f, f \in EstateRecords,
             /\ f.sid = e.sid /\ f.rsid = e.rsid /\ f.messages = e.messages /\ f.tid = e.tid
             /\ f.privee = e.privee /\ f.publee = e.publee /\ f.messengers = e.messengers
             /\ f.doneTransactions = e.doneTransactions /\ f.allows = {}
      PROVE  W([E EXCEPT ![p] = f], N \cup out, S, U, R)
  <2>1. \A u \in f.allows : u \in E[p].allows \/ AllowOK([E EXCEPT ![p] = f], S, p, u)
    BY <1>2
  <2>2. \A c \in out : /\ PacketOK(E, S, c) \/ PacketOK([E EXCEPT ![p] = f], S, c)
                       /\ c.pk # "message"
    OBVIOUS
  <2>3. \A u, v \in f.allows : u = v
    BY <1>2
  <2> QED
    BY <1>1, <1>2, <2>1, <2>2, <2>3, Quiet
<1> DEFINE g == [e EXCEPT !.allows = @ \ {t}, !.allowed = b]
           h == [e EXCEPT !.allows = @ \ {t}]
<1>3. g \in EstateRecords /\ h \in EstateRecords
  BY <1>1, Zenon DEF EstateRecords
<1>4. /\ g.sid = e.sid /\ g.rsid = e.rsid /\ g.messages = e.messages /\ g.tid = e.tid
      /\ g.privee = e.privee /\ g.publee = e.publee /\ g.messengers = e.messengers
      /\ g.doneTransactions = e.doneTransactions /\ g.allows = {}
  BY <1>1 DEF EstateRecords
<1>5. /\ h.sid = e.sid /\ h.rsid = e.rsid /\ h.messages = e.messages /\ h.tid = e.tid
      /\ h.privee = e.privee /\ h.publee = e.publee /\ h.messengers = e.messengers
      /\ h.doneTransactions = e.doneTransactions /\ h.allows = {}
  BY <1>1 DEF EstateRecords
<1>6. W([E EXCEPT ![p] = g], N \cup out, S, U, R)
  <2> HIDE DEF g
  <2> QED
    BY <1>2, <1>3, <1>4
<1>7. W([E EXCEPT ![p] = h], N \cup out, S, U, R)
  <2> HIDE DEF h
  <2> QED
    BY <1>2, <1>3, <1>5
<1> QED
  BY <1>6, <1>7

(* Packets only. *)
LEMMA SendMoves ==
  ASSUME NEW E, NEW N, NEW S, NEW U, NEW R, W(E, N, S, U, R), NEW out,
         \A c \in out : PacketOK(E, S, c),
         \A c \in out : c.pk = "message" => Carried(E, N, CarriedBy(c))
  PROVE  W(E, N \cup out, S, U, R)
<1>1. \A x : Carried(E, N \cup out, x) => Carried(E, N, x)
  BY DEF Carried
<1>2. MessagesOK(E, N \cup out, S, U, R)
  BY <1>1, QuietMessages
<1> QED
  BY <1>2 DEF W

LEMMA StartedId ==
  ASSUME NEW S \in [Peers -> 0 .. MaxSids], NEW p \in Peers, NEW si, Started(S, p, si)
  PROVE  si \in Ids /\ si \in Nat /\ si # 0 /\ \E j \in 0 .. MaxSids : j <= S[p] /\ si = Nth(j)
<1>1. PICK j \in 0 .. S[p] : si = Nth(j)
  BY DEF Started
<1>2. j \in 0 .. MaxSids /\ j <= S[p]
  BY <1>1, Circle
<1> QED
  BY <1>1, <1>2, NthFacts, Circle

LEMMA HelloedMoves ==
  ASSUME NEW E, NEW N, NEW S, NEW U, NEW R, W(E, N, S, U, R), NEW p \in Peers,
         NEW k, PacketOK(E, S, k), k.to = p, ~k.cf, k.pk = "hello"
  PROVE  W([E EXCEPT ![p] = Helloed(p, E[p], k).e], N \cup Helloed(p, E[p], k).out, S, U, R)
<1> DEFINE e == E[p]
           r == Rekey(e)
           t == [rf |-> TRUE, si |-> k.si, ti |-> k.ti, tx |-> "cookie", oreo |-> r.privee]
           f == [r EXCEPT !.publee = k.body[1], !.allows = {t}]
           F == [E EXCEPT ![p] = f]
           out == {AllowPkt(p, i, "refuse", <<>>) : i \in e.allows} \cup {Redone(p, t, f)}
<1>1. e \in EstateRecords /\ e.tid \in Nat /\ e.privee \in Nat /\ e.privee > 0
      /\ (\A i \in e.allows : i \in AllowRecords /\ AllowOK(E, S, p, i))
      /\ Other(p) \in Peers /\ Other(p) # p /\ E[Other(p)].privee \in Nat
      /\ E \in [Peers -> EstateRecords] /\ S \in [Peers -> 0 .. MaxSids]
  BY Ready, EstateFields
<1>2. k.body[1] \in Nat /\ k.body[1] > 0 /\ k.body[1] <= E[Other(p)].privee
  <2>1. PICK n \in 1 .. E[Other(p)].privee : k.body = <<n>>
    BY DEF PacketOK, BodyOK
  <2> QED
    BY <1>1, <2>1
<1>3. Used(E, S, Other(p), k.si, k.ti) /\ k.si \in Nat /\ k.ti \in Nat \ {0} /\ k.tk = "allow"
  <2>1. Used(E, S, Other(p), k.si, k.ti) /\ k.ti \in Nat \ {0} /\ k.tk = "allow"
    BY DEF PacketOK, Initiator, Kinds, Nacks
  <2> QED
    BY <1>1, <2>1, StartedId DEF Used
<1>4. CASE \E i \in e.allows : i.rf \/ p = "a"
  <2>1. Helloed(p, e, k).e = e /\ Helloed(p, e, k).out = {Reply(k, "refuse")}
    BY <1>4 DEF Helloed, Result
  <2>2. PacketOK(E, S, Reply(k, "refuse")) /\ Reply(k, "refuse").pk # "message"
    BY <1>3, ReplyOK DEF Kinds, Nacks
  <2>3. [E EXCEPT ![p] = e] = E
    BY <1>1
  <2>4. W(E, N \cup {Reply(k, "refuse")}, S, U, R)
    BY <2>2, SendMoves
  <2> QED
    BY <2>1, <2>3, <2>4
<1>5. CASE ~ \E i \in e.allows : i.rf \/ p = "a"
  <2>1. Helloed(p, e, k).e = f /\ Helloed(p, e, k).out = out
    BY <1>5 DEF Helloed, Result
  <2>2. /\ r \in EstateRecords /\ r.sid = e.sid /\ r.rsid = e.rsid /\ r.messages = e.messages
        /\ r.tid = e.tid /\ r.privee = e.privee + 1
        /\ r.doneTransactions = e.doneTransactions /\ r.messengers = e.messengers
    BY <1>1, Rekeyed
  <2> HIDE DEF r
  <2>3. /\ t \in AllowRecords /\ t.rf /\ t.si = k.si /\ t.ti = k.ti /\ t.tx = "cookie"
        /\ t.oreo = e.privee + 1
    BY <1>1, <1>3, <2>2 DEF AllowRecords
  <2> HIDE DEF t
  <2>4. f \in EstateRecords
    <3>1. {t} \in SUBSET AllowRecords
      BY <2>3
    <3> QED
      BY <1>2, <2>2, <3>1, Zenon DEF EstateRecords
  <2>5. /\ f.sid = e.sid /\ f.rsid = e.rsid /\ f.messages = e.messages /\ f.tid = e.tid
        /\ f.privee = e.privee + 1 /\ f.publee = k.body[1] /\ f.messengers = e.messengers
        /\ f.doneTransactions = e.doneTransactions /\ f.allows = {t}
    BY <2>2 DEF EstateRecords
  <2> HIDE DEF f
  <2>6. F[p] = f /\ F[Other(p)] = E[Other(p)]
    BY <1>1
  <2> HIDE DEF F
  <2>7. AllowOK(F, S, p, t)
    <3>1. Used(F, S, Other(p), t.si, t.ti)
      BY <1>3, <2>3, <2>6 DEF Used
    <3> QED
      BY <1>1, <2>3, <2>5, <2>6, <3>1 DEF AllowOK
  <2>8. PacketOK(F, S, Redone(p, t, f)) /\ Redone(p, t, f).pk # "message"
    <3>1. f.privee = F[p].privee /\ f.privee \in Nat \ {0} /\ F[Other(p)].privee \in Nat
      BY <1>1, <2>5, <2>6
    <3> QED
      BY <2>3, <2>7, <3>1, RedoneOK
  <2>9. \A i \in e.allows : /\ PacketOK(E, S, AllowPkt(p, i, "refuse", <<>>))
                            /\ AllowPkt(p, i, "refuse", <<>>).pk # "message"
    BY <1>1, AllowPktOK DEF Nacks
  <2>10. W([E EXCEPT ![p] = f], N \cup out, S, U, R)
    <3>1. \A u \in f.allows : u \in E[p].allows \/ AllowOK([E EXCEPT ![p] = f], S, p, u)
      BY <2>5, <2>7 DEF F
    <3>2. \A c \in out : /\ PacketOK(E, S, c) \/ PacketOK([E EXCEPT ![p] = f], S, c)
                         /\ c.pk # "message"
      BY <2>8, <2>9 DEF F
    <3>3. /\ \A u, v \in f.allows : u = v
          /\ e.tid <= f.tid /\ e.privee <= f.privee /\ f.messengers \subseteq e.messengers
      BY <1>1, <2>5
    <3> HIDE DEF out
    <3> QED
      BY <1>2, <2>4, <2>5, <3>1, <3>2, <3>3, Quiet
  <2> QED
    BY <2>1, <2>10
<1> QED
  BY <1>4, <1>5

(* A result r of p's handler is reached, the invariant kept. *)
Reached(E, N, S, U, R, p, r) ==
  W([E EXCEPT ![p] = r.e], N \cup r.out, S, U, R) /\ r.e \in EstateRecords

-----------------------------------------------------------------------------
(* The other side has started a session: what came before is stale.          *)

LEMMA NewSessionMoves ==
  ASSUME NEW E, NEW N, NEW S, NEW U, NEW R, W(E, N, S, U, R), NEW p \in Peers,
         NEW k, PacketOK(E, S, k), k.to = p, ~k.cf, k.si # E[p].rsid, Valid(k.si, E[p].rsid),
         NEW r, r = RemoveStaleCorrespondents(p, [E[p] EXCEPT !.rsid = k.si])
  PROVE  /\ Reached(E, N, S, U, R, p, r)
         /\ r.e.rsid = k.si /\ r.e.sid = E[p].sid
         /\ r.e.privee = E[p].privee
<1> DEFINE e == E[p]
           o == Other(p)
           stale == {t \in e.allows : t.rf /\ ~Valid(t.si, k.si)}
           f == [e EXCEPT !.rsid = k.si, !.allows = @ \ stale, !.doneTransactions = {}]
           F == [E EXCEPT ![p] = f]
           out == {AllowPkt(p, t, "nack", <<>>) : t \in stale}
<1>1. e \in EstateRecords /\ e.tid \in Nat /\ e.privee \in Nat /\ e.privee > 0
      /\ (\A i \in e.allows : i \in AllowRecords /\ AllowOK(E, S, p, i))
      /\ o \in Peers /\ o # p /\ E[o].privee \in Nat /\ (\A q \in Peers : q = p \/ q = o)
      /\ E \in [Peers -> EstateRecords] /\ S \in [Peers -> 0 .. MaxSids]
  BY Ready, EstateFields, Others
<1>2. r.e = f /\ r.out = out
  BY <1>1 DEF RemoveStaleCorrespondents, Result, EstateRecords
<1>3. Started(S, o, k.si) /\ k.si \in Nat
  <2>1. Used(E, S, o, k.si, k.ti)
    BY DEF PacketOK, Initiator
  <2> QED
    BY <1>1, <2>1, StartedId DEF Used
<1>4. f \in EstateRecords
  <2>1. e.allows \ stale \in SUBSET AllowRecords /\ {} \in SUBSET Nat
    BY <1>1
  <2> QED
    BY <1>1, <1>3, <2>1, Zenon DEF EstateRecords
<1>5. /\ f.sid = e.sid /\ f.rsid = k.si /\ f.messages = e.messages /\ f.tid = e.tid
      /\ f.privee = e.privee /\ f.publee = e.publee /\ f.messengers = e.messengers
      /\ f.doneTransactions = {} /\ f.allows = e.allows \ stale
  BY <1>1 DEF EstateRecords
<1> HIDE DEF f
<1>6. F[p] = f /\ F[o] = E[o]
  BY <1>1
<1>7. Typed(F, S, R)
  BY <1>1, <1>4 DEF W, Typed
<1> HIDE DEF F
<1>8. \A q \in Peers : PeerOK(E, S, q) /\ E[q].sid = Nth(S[q])
  BY DEF W, PeerOK
<1>9. Grows(E, S, F, S)
  <2>1. \A q \in Peers : E[q].privee \in Nat /\ E[q].tid \in Nat /\ S[q] \in Nat
    BY <1>1, EstateFields, Circle
  <2> QED
    BY <1>1, <1>5, <1>6, <1>8, <2>1 DEF Grows
<1>10. PeerOK(F, S, p)
  <2>1. /\ e.sid = Nth(S[p]) /\ e.publee <= E[o].privee
        /\ \A t, u \in e.allows : t = u
        /\ IsFiniteSet(e.messengers)
        /\ \A x, y \in e.messengers : x.ti = y.ti => x = y
        /\ \A x \in e.messengers : MessengerOK(E, p, x)
    BY <1>8 DEF PeerOK
  <2>2. ASSUME NEW t \in f.allows PROVE AllowOK(F, S, p, t)
    <3>1. t \in AllowRecords /\ AllowOK(E, S, p, t)
      BY <1>1, <1>5, <2>2
    <3> QED
      BY <1>7, <1>8, <1>9, <3>1, AllowGrows DEF W
  <2>3. ASSUME NEW x \in f.messengers PROVE MessengerOK(F, p, x)
    <3>1. F["a"].privee = E["a"].privee /\ F["b"].privee = E["b"].privee
      BY <1>1, <1>5, <1>6 DEF Peers
    <3> QED
      BY <1>5, <1>6, <2>1, <2>3, <3>1 DEF MessengerOK, BoxOK
  <2> QED
    BY <1>3, <1>5, <1>6, <2>1, <2>2, <2>3 DEF PeerOK
<1>11. \A c \in out : PacketOK(E, S, c) /\ c.pk # "message"
  BY <1>1, AllowPktOK DEF Nacks
<1> HIDE DEF out
<1>12. /\ \A q \in Peers : PeerOK(F, S, q)
       /\ \A c \in N \cup out : PacketOK(F, S, c)
  <2>1. \A q \in Peers : q # p => F[q] = E[q] /\ S[q] = S[q]
    BY <1>1, <1>6
  <2>2. \A c \in out : PacketOK(F, S, c)
    BY <1>7, <1>8, <1>9, <1>11, PacketGrows DEF W
  <2> QED
    BY <1>7, <1>9, <1>10, <2>1, <2>2, StepKeeps
<1>13. \A x : Carried(F, N \cup out, x) => Carried(E, N, x)
  BY <1>1, <1>5, <1>6, <1>11 DEF Carried
<1>14. ASSUME NEW x, Carried(E, N, x), Spent(E, x) PROVE Spent(F, x)
  <2>1. /\ From[x.m] \in Peers /\ Started(S, From[x.m], x.si)
    BY <1>14, CarriedFacts
  <2>2. CASE Other(From[x.m]) # p
    <3>1. Other(From[x.m]) = o
      BY <1>1, <2>1, <2>2, Others
    <3> QED
      BY <1>6, <1>14, <3>1 DEF Spent
  <2>3. CASE Other(From[x.m]) = p
    <3>1. From[x.m] = o
      BY <2>1, <2>3, Others
    <3>2. PICK i \in 0 .. MaxSids : x.si = Nth(i)
      BY <1>1, <2>1, StartedId
    <3>3. PICK l \in 0 .. MaxSids : k.si = Nth(l)
      BY <1>1, <1>3, StartedId
    <3>4. e.rsid = 0 \/ Started(S, o, e.rsid)
      BY <1>8 DEF PeerOK
    <3>5. CASE Part(p, x.box) < e.privee
      BY <1>5, <1>6, <2>3, <3>5 DEF Spent
    <3>6. CASE e.rsid = 0
      <4>1. Valid(x.si, e.rsid) /\ x.si # 0
        BY <3>2, <3>6, NthFacts DEF Valid
      <4>2. Part(p, x.box) < e.privee
        BY <1>14, <2>3, <3>6, <4>1 DEF Spent
      <4> QED
        BY <3>5, <4>2
    <3>7. CASE e.rsid # 0
      <4>1. PICK j \in 0 .. MaxSids : e.rsid = Nth(j)
        BY <1>1, <3>4, <3>7, StartedId
      <4>2. l > j
        <5>1. l >= j
          BY <3>3, <4>1, NthValid
        <5>2. l # j
          BY <3>3, <4>1
        <5> QED
          BY <5>1, <5>2
      <4>3. CASE ~Valid(x.si, e.rsid) \/ x.si = e.rsid
        <5>1. i <= j
          BY <3>2, <4>1, <4>3, NthValid, NthFacts
        <5>2. ~Valid(x.si, k.si)
          BY <3>2, <3>3, <4>2, <5>1, NthValid
        <5> QED
          BY <1>5, <1>6, <2>3, <5>2 DEF Spent
      <4> QED
        BY <1>14, <2>3, <3>5, <4>3 DEF Spent
    <3> QED
      BY <3>6, <3>7
  <2> QED
    BY <2>2, <2>3
<1>15. MessagesOK(F, N \cup out, S, U, R)
  <2>1. \A q \in Peers : /\ F[q].sid = E[q].sid /\ F[q].messages = E[q].messages
                         /\ S[q] = S[q]
    BY <1>1, <1>5, <1>6
  <2> QED
    BY <1>13, <1>14, <2>1, QuietMessages
<1>16. W(F, N \cup out, S, U, R)
  BY <1>7, <1>12, <1>15 DEF W
<1>17. W([E EXCEPT ![p] = r.e], N \cup r.out, S, U, R) /\ r.e \in EstateRecords
  BY <1>2, <1>4, <1>16 DEF F
<1> QED
  BY <1>2, <1>5, <1>17 DEF Reached

-----------------------------------------------------------------------------
(* What is kept of stale Messengers, in the order of their transaction ids.  *)

Rank(X, x) == Cardinality({y \in X : y.ti <= x.ti})

LEMMA RankFacts ==
  ASSUME NEW X \in SUBSET MessengerRecords, IsFiniteSet(X),
         \A x, y \in X : x.ti = y.ti => x = y
  PROVE  /\ Cardinality(X) \in Nat
         /\ \A x \in X : Rank(X, x) \in 1 .. Cardinality(X)
         /\ \A x, y \in X : Rank(X, x) = Rank(X, y) => x = y
         /\ \A i \in 1 .. Cardinality(X) : \E x \in X : Rank(X, x) = i
<1> DEFINE n == Cardinality(X)
           below(x) == {y \in X : y.ti <= x.ti}
<1>1. n \in Nat /\ \A x \in X : x.ti \in Nat
  BY FS_CardinalityType DEF MessengerRecords
<1>2. \A x : IsFiniteSet(below(x)) /\ Cardinality(below(x)) \in Nat /\ Cardinality(below(x)) <= n
  <2>1. \A x : below(x) \in SUBSET X
    OBVIOUS
  <2> QED
    <3> HIDE DEF below
    <3> QED
      BY <1>1, <2>1, FS_Subset, FS_CardinalityType
<1>3. ASSUME NEW x \in X PROVE Rank(X, x) \in 1 .. n
  <2>1. x \in below(x)
    BY <1>1
  <2>2. Cardinality(below(x)) # 0
    BY <1>2, <2>1, FS_EmptySet
  <2>3. Rank(X, x) = Cardinality(below(x))
    BY DEF Rank
  <2> HIDE DEF below
  <2> QED
    BY <1>1, <1>2, <2>2, <2>3
<1>4. ASSUME NEW x \in X, NEW y \in X, x.ti < y.ti PROVE Rank(X, x) # Rank(X, y)
  <2>1. below(x) \subseteq below(y) /\ y \in below(y) /\ y \notin below(x)
    BY <1>1, <1>4
  <2>2. Cardinality(below(x)) = Cardinality(below(y)) => below(x) = below(y)
    <3>1. IsFiniteSet(below(x)) /\ IsFiniteSet(below(y)) /\ below(x) \in SUBSET below(y)
      BY <1>2, <2>1
    <3> HIDE DEF below
    <3> QED
      BY <3>1, FS_Subset
  <2> QED
    BY <2>1, <2>2 DEF Rank
<1>5. \A x, y \in X : Rank(X, x) = Rank(X, y) => x = y
  <2> TAKE x, y \in X
  <2>1. x.ti < y.ti \/ y.ti < x.ti \/ x.ti = y.ti
    BY <1>1
  <2> QED
    BY <1>4, <2>1
<1>6. ASSUME NEW i \in 1 .. n PROVE \E x \in X : Rank(X, x) = i
  <2> DEFINE f == [x \in X |-> Rank(X, x)]
  <2>1. f \in Injection(X, 1 .. n)
    BY <1>3, <1>5 DEF Injection, IsInjective
  <2>2. IsFiniteSet(1 .. n) /\ Cardinality(1 .. n) = n
    BY <1>1, FS_Interval
  <2> HIDE DEF f
  <2>3. f \in Surjection(X, 1 .. n)
    BY <2>1, <2>2, FS_Injection
  <2> QED
    BY <1>6, <2>3 DEF Surjection, f
<1> QED
  BY <1>1, <1>3, <1>5, <1>6

LEMMA BodiesFacts ==
  ASSUME NEW X \in SUBSET MessengerRecords, IsFiniteSet(X),
         \A x, y \in X : x.ti = y.ti => x = y
  PROVE  /\ Bodies(X) \in Seq(Msgs) /\ Len(Bodies(X)) \in Nat
         /\ \A i \in 1 .. Len(Bodies(X)) : \E x \in X : Bodies(X)[i] = x.m /\ Rank(X, x) = i
<1> DEFINE nth(i) == CHOOSE x \in X : Rank(X, x) = i
<1>1. Cardinality(X) \in Nat
  BY RankFacts
<1>2. Bodies(X) = [i \in 1 .. Cardinality(X) |-> nth(i).m]
  BY DEF Bodies, Rank
<1>3. \A i \in 1 .. Cardinality(X) : nth(i) \in X /\ Rank(X, nth(i)) = i
  BY RankFacts
<1> HIDE DEF nth
<1>4. \A i \in 1 .. Cardinality(X) : nth(i).m \in Msgs
  BY <1>3 DEF MessengerRecords
<1>5. Bodies(X) \in Seq(Msgs) /\ Len(Bodies(X)) = Cardinality(X)
  BY <1>1, <1>2, <1>4
<1> QED
  BY <1>1, <1>2, <1>3, <1>5

-----------------------------------------------------------------------------
(* A session starts: every Messenger is stale, its message is saved, once.   *)

LEMMA StartSessionMoves ==
  ASSUME NEW E, NEW N, NEW S, NEW U, NEW R, W(E, N, S, U, R), NEW p \in Peers,
         S[p] < MaxSids, NEW r, r = StartSession(p, E[p])
  PROVE  /\ Reached(E, N, [S EXCEPT ![p] = @ + 1], U, R, p, r)
         /\ r.e.sid = NextId(E[p].sid) /\ r.e.sid # E[p].sid
         /\ r.e.allowed = E[p].allowed /\ r.e.privee = E[p].privee
<1> DEFINE e == E[p]
           o == Other(p)
           X == e.messengers
           sid == NextId(e.sid)
           allows == {t \in e.allows : ~t.rf /\ ~Valid(t.si, sid)}
           f == [e EXCEPT !.sid = sid, !.allows = @ \ allows, !.messengers = {},
                          !.messages = @ \o Bodies(X)]
           F == [E EXCEPT ![p] = f]
           T == [S EXCEPT ![p] = @ + 1]
           out == {AllowPkt(p, t, "nack", <<>>) : t \in allows}
                    \cup {Pkt(p, "message", "nack", FALSE, x.si, x.ti, <<>>) : x \in X}
<1>1. e \in EstateRecords /\ e.tid \in Nat /\ e.privee \in Nat /\ e.privee > 0
      /\ (\A i \in e.allows : i \in AllowRecords /\ AllowOK(E, S, p, i))
      /\ o \in Peers /\ o # p /\ (\A q \in Peers : q = p \/ q = o)
      /\ E \in [Peers -> EstateRecords] /\ S \in [Peers -> 0 .. MaxSids]
      /\ S[p] \in 0 .. MaxSids /\ S[p] \in Nat /\ X \in SUBSET MessengerRecords
      /\ e.messages \in Seq(Msgs) /\ e.allows \in SUBSET AllowRecords
  BY Ready, EstateFields, Others
<1>2. \A q \in Peers : PeerOK(E, S, q) /\ E[q].sid = Nth(S[q])
  BY DEF W, PeerOK
<1>3. sid = Nth(S[p] + 1) /\ sid \in Nat /\ S[p] + 1 \in 0 .. MaxSids /\ sid # e.sid
  BY <1>1, <1>2, NthFacts, Circle
<1>4. ~Started(S, p, sid)
  BY <1>1, <1>3, NthFacts, StartedId
<1>5. /\ IsFiniteSet(X) /\ (\A x, y \in X : x.ti = y.ti => x = y)
      /\ \A x \in X : MessengerOK(E, p, x) /\ x.si = e.sid /\ From[x.m] = p /\ Carried(E, N, x)
  BY <1>2 DEF PeerOK, MessengerOK, Carried
<1>6. {x \in X : ~Valid(x.si, sid)} = X
  <2>1. ~Valid(e.sid, sid)
    BY <1>1, <1>2, <1>3, NthValid
  <2> QED
    BY <1>5, <2>1
<1>7. r.e = f /\ r.out = out
  <2> DEFINE d == [e EXCEPT !.sid = NextId(@)]
  <2>1. d.sid = sid /\ d.allows = e.allows /\ d.messengers = X /\ d.messages = e.messages
    BY <1>1 DEF EstateRecords
  <2>2. r = ReplaceStaleInitiators(p, d)
    BY DEF StartSession
  <2>3. r.e = [d EXCEPT !.allows = @ \ allows, !.messengers = @ \ X, !.messages = @ \o Bodies(X)]
        /\ r.out = out
    <3>1. /\ {t \in d.allows : ~t.rf /\ ~Valid(t.si, d.sid)} = allows
          /\ {x \in d.messengers : ~Valid(x.si, d.sid)} = X
      BY <1>6, <2>1
    <3> HIDE DEF d, sid, allows, X, out, f, e
    <3>2. r = Result([d EXCEPT !.allows = @ \ allows, !.messengers = @ \ X,
                               !.messages = @ \o Bodies(X)],
                     {AllowPkt(p, t, "nack", <<>>) : t \in allows}
                       \cup {Pkt(p, "message", "nack", FALSE, x.si, x.ti, <<>>) : x \in X})
      BY <2>2, <3>1, Zenon DEF ReplaceStaleInitiators
    <3> QED
      BY <3>2 DEF Result, out
  <2>4. X \ X = {}
    OBVIOUS
  <2>5. f = [d EXCEPT !.allows = @ \ allows, !.messengers = {}, !.messages = @ \o Bodies(X)]
    BY <1>1 DEF EstateRecords
  <2> QED
    BY <2>1, <2>3, <2>4, <2>5
<1>8. /\ Bodies(X) \in Seq(Msgs) /\ Len(Bodies(X)) \in Nat
      /\ \A i \in 1 .. Len(Bodies(X)) : \E x \in X : Bodies(X)[i] = x.m /\ Rank(X, x) = i
  BY <1>1, <1>5, BodiesFacts
<1> HIDE DEF sid
<1>9. f \in EstateRecords
  <2>1. e.messages \o Bodies(X) \in Seq(Msgs) /\ {} \in SUBSET MessengerRecords
        /\ e.allows \ allows \in SUBSET AllowRecords
    BY <1>1, <1>8, ConcatProperties
  <2> QED
    BY <1>1, <1>3, <2>1, Zenon DEF EstateRecords
<1>10. /\ f.sid = sid /\ f.rsid = e.rsid /\ f.messages = e.messages \o Bodies(X) /\ f.tid = e.tid
       /\ f.privee = e.privee /\ f.publee = e.publee /\ f.messengers = {}
       /\ f.doneTransactions = e.doneTransactions /\ f.allows = e.allows \ allows
       /\ f.allowed = e.allowed
  BY <1>1 DEF EstateRecords
<1> HIDE DEF f, allows
<1>11. F[p] = f /\ F[o] = E[o] /\ T[p] = S[p] + 1 /\ T[o] = S[o]
  BY <1>1
<1>12. Typed(F, T, R)
  BY <1>1, <1>3, <1>9 DEF W, Typed
<1> HIDE DEF F, T
<1>13. Grows(E, S, F, T)
  <2>1. \A q \in Peers : E[q].privee \in Nat /\ E[q].tid \in Nat /\ S[q] \in Nat
    BY <1>1, EstateFields, Circle
  <2> QED
    BY <1>1, <1>2, <1>3, <1>10, <1>11, <2>1 DEF Grows
<1>14. PeerOK(F, T, p)
  <2>1. /\ e.publee <= E[o].privee
        /\ e.rsid = 0 \/ Started(S, o, e.rsid)
        /\ e.rsid = E[o].sid => \A d \in e.doneTransactions : d <= E[o].tid
        /\ \A t, u \in e.allows : t = u
    BY <1>2 DEF PeerOK
  <2>2. ASSUME NEW t \in f.allows PROVE AllowOK(F, T, p, t)
    <3>1. t \in AllowRecords /\ AllowOK(E, S, p, t)
      BY <1>1, <1>10, <2>2
    <3> QED
      BY <1>2, <1>12, <1>13, <3>1, AllowGrows DEF W
  <2>3. IsFiniteSet({})
    BY FS_EmptySet
  <2>4. e.rsid = 0 \/ Started(T, o, e.rsid)
    BY <1>11, <2>1 DEF Started
  <2> QED
    BY <1>3, <1>10, <1>11, <2>1, <2>2, <2>3, <2>4 DEF PeerOK
<1>15. \A c \in out : PacketOK(E, S, c) /\ c.pk # "message"
  <2>1. \A t \in allows : /\ PacketOK(E, S, AllowPkt(p, t, "nack", <<>>))
                          /\ AllowPkt(p, t, "nack", <<>>).pk # "message"
    BY <1>1, AllowPktOK DEF Nacks, allows
  <2>2. ASSUME NEW x \in X
        PROVE  /\ PacketOK(E, S, Pkt(p, "message", "nack", FALSE, x.si, x.ti, <<>>))
               /\ Pkt(p, "message", "nack", FALSE, x.si, x.ti, <<>>).pk # "message"
    <3>1. x \in MessengerRecords /\ Used(E, S, p, x.si, x.ti) /\ BoxOK(E, x.box) /\ From[x.m] = p
      BY <1>5, <2>2, CarriedFacts
    <3> QED
      BY <3>1, MessagePktOK DEF Pkt
  <2> QED
    BY <2>1, <2>2
<1> HIDE DEF out
<1>16. /\ \A q \in Peers : PeerOK(F, T, q)
       /\ \A c \in N \cup out : PacketOK(F, T, c)
  <2>1. \A q \in Peers : q # p => F[q] = E[q] /\ T[q] = S[q]
    BY <1>1, <1>11
  <2>2. \A c \in out : PacketOK(F, T, c)
    BY <1>2, <1>12, <1>13, <1>15, PacketGrows DEF W
  <2> QED
    BY <1>12, <1>13, <1>14, <2>1, <2>2, StepKeeps
<1>17. \A x : Carried(F, N \cup out, x) => Carried(E, N, x)
  BY <1>1, <1>10, <1>11, <1>15 DEF Carried
<1>18. \A q \in Peers : \A m : q # p => (Unsent(E, N, R, q, m) => Unsent(F, N \cup out, R, q, m))
  BY <1>1, <1>11, <1>17 DEF Unsent
<1>19. MessagesOK(E, N, S, U, R)
  BY DEF W
<1> DEFINE M == e.messages
           B == Bodies(X)
<1>20. /\ Len(M) \in Nat /\ Len(B) \in Nat /\ DOMAIN M = 1 .. Len(M)
       /\ DOMAIN f.messages = 1 .. Len(M) + Len(B)
       /\ \A i \in 1 .. Len(M) + Len(B) :
            f.messages[i] = IF i <= Len(M) THEN M[i] ELSE B[i - Len(M)]
  <2>1. /\ M \o B \in Seq(Msgs) /\ Len(M \o B) = Len(M) + Len(B)
        /\ \A i \in 1 .. Len(M) + Len(B) :
             (M \o B)[i] = IF i <= Len(M) THEN M[i] ELSE B[i - Len(M)]
    BY <1>1, <1>8, ConcatProperties
  <2> QED
    BY <1>1, <1>8, <1>10, <2>1, LenProperties
<1>21. \A i \in 1 .. Len(M) : /\ M[i] \in U /\ From[M[i]] = p /\ M[i] \in Msgs
                              /\ \A x \in X : x.m # M[i]
  <2>1. \A i \in 1 .. Len(M) : M[i] \in U /\ Unsent(E, N, R, p, M[i]) /\ M[i] \in Msgs
    BY <1>1, <1>19, <1>20 DEF MessagesOK
  <2> QED
    BY <1>5, <2>1 DEF Unsent
<1>22. \A x \in X : x.m \in U /\ From[x.m] = p /\ x.m \in Msgs
  BY <1>1, <1>5, <1>19 DEF MessagesOK, MessengerRecords
<1>23. \A m \in Msgs : From[m] = p => Unsent(F, N \cup out, R, p, m)
  <2> TAKE m \in Msgs
  <2> HAVE From[m] = p
  <2>1. R[<<m, sid>>] = 0
    <3>1. sid \in Ids
      BY <1>3, NthFacts
    <3> QED
      BY <1>4, <1>19, <3>1 DEF MessagesOK
  <2>2. ASSUME NEW x, Carried(F, N \cup out, x), x.m = m PROVE x.si # sid
    <3>1. Started(S, p, x.si)
      BY <1>17, <2>2, CarriedFacts
    <3> QED
      BY <1>4, <3>1
  <2> QED
    BY <1>10, <1>11, <2>1, <2>2 DEF Unsent
<1>24. \A i \in DOMAIN f.messages :
         f.messages[i] \in U /\ Unsent(F, N \cup out, R, p, f.messages[i])
  <2> TAKE i \in DOMAIN f.messages
  <2> HIDE DEF M, B
  <2>1. CASE i <= Len(M)
    <3>1. i \in 1 .. Len(M) /\ f.messages[i] = M[i]
      BY <1>20, <2>1
    <3> QED
      BY <1>21, <1>23, <3>1
  <2>2. CASE i > Len(M)
    <3>1. i - Len(M) \in 1 .. Len(B) /\ f.messages[i] = B[i - Len(M)]
      BY <1>20, <2>2
    <3>2. PICK x \in X : f.messages[i] = x.m
      BY <1>8, <3>1 DEF B
    <3> QED
      BY <1>22, <1>23, <3>2
  <2> QED
    BY <1>20, <2>1, <2>2
<1>25. \A i, j \in 1 .. Len(M) : M[i] = M[j] => i = j
  BY <1>19, <1>20 DEF MessagesOK
<1>26. \A i, j \in 1 .. Len(B) : B[i] = B[j] => i = j
  <2> TAKE i, j \in 1 .. Len(B)
  <2> HAVE B[i] = B[j]
  <2>1. PICK x \in X : B[i] = x.m /\ Rank(X, x) = i
    BY <1>8
  <2>2. PICK y \in X : B[j] = y.m /\ Rank(X, y) = j
    BY <1>8
  <2>3. x = y
    BY <1>5, <1>19, <2>1, <2>2 DEF MessagesOK
  <2> QED
    BY <2>1, <2>2, <2>3
<1>27. \A i \in 1 .. Len(M), j \in 1 .. Len(B) : M[i] # B[j]
  BY <1>8, <1>21
<1>28. \A i, j \in DOMAIN f.messages : f.messages[i] = f.messages[j] => i = j
  <2> TAKE i, j \in DOMAIN f.messages
  <2> HAVE f.messages[i] = f.messages[j]
  <2> HIDE DEF M, B
  <2>1. i \in 1 .. Len(M) + Len(B) /\ j \in 1 .. Len(M) + Len(B)
    BY <1>20
  <2>2. CASE i <= Len(M) /\ j <= Len(M)
    BY <1>20, <1>25, <2>1, <2>2
  <2>3. CASE i > Len(M) /\ j > Len(M)
    BY <1>20, <1>26, <2>1, <2>3
  <2>4. CASE i <= Len(M) /\ j > Len(M)
    BY <1>20, <1>27, <2>1, <2>4
  <2>5. CASE i > Len(M) /\ j <= Len(M)
    BY <1>20, <1>27, <2>1, <2>5
  <2> QED
    BY <1>20, <2>1, <2>2, <2>3, <2>4, <2>5
<1>29. \A m \in Msgs : \A s : Started(S, From[m], s) => Started(T, From[m], s)
  BY <1>1, <1>12, <1>13, StartedGrows, FromAssumption DEF Typed
<1>30. ASSUME NEW x, Carried(E, N, x), Spent(E, x) PROVE Spent(F, x)
  <2>1. x.box \in Nat \X Nat /\ From[x.m] \in Peers
    BY <1>30, CarriedFacts
  <2>2. \A q \in Peers : /\ E[q].privee <= F[q].privee
                         /\ F[q].rsid = E[q].rsid
                         /\ E[q].doneTransactions \subseteq F[q].doneTransactions
    BY <1>1, <1>10, <1>11, <1>13 DEF Grows
  <2> QED
    BY <1>1, <1>12, <1>30, <2>1, <2>2, SpentGrows DEF Typed
<1>31. MessagesOK(F, N \cup out, T, U, R)
  <2>1. /\ \A x, y : /\ Carried(F, N \cup out, x) /\ Carried(F, N \cup out, y)
                     /\ x.m = y.m /\ x.si = y.si
                     => x = y
        /\ \A x : Carried(F, N \cup out, x) => x.m \in U
    BY <1>17, <1>19 DEF MessagesOK
  <2>2. \A q \in Peers : \A i \in DOMAIN F[q].messages :
          F[q].messages[i] \in U /\ Unsent(F, N \cup out, R, q, F[q].messages[i])
    <3> TAKE q \in Peers
    <3>1. CASE q = p
      BY <1>11, <1>24, <3>1
    <3>2. CASE q # p
      <4>1. F[q] = E[q]
        BY <1>1, <1>11, <3>2
      <4> QED
        BY <1>18, <1>19, <3>2, <4>1 DEF MessagesOK
    <3> QED
      BY <3>1, <3>2
  <2>3. \A q \in Peers : \A i, j \in DOMAIN F[q].messages :
          F[q].messages[i] = F[q].messages[j] => i = j
    BY <1>1, <1>11, <1>19, <1>28 DEF MessagesOK
  <2>4. \A m \in Msgs, s \in Ids : R[<<m, s>>] # 0 => m \in U /\ Started(T, From[m], s)
    BY <1>19, <1>29 DEF MessagesOK
  <2>5. \A x : Carried(F, N \cup out, x) /\ R[<<x.m, x.si>>] # 0 => Spent(F, x)
    BY <1>17, <1>19, <1>30 DEF MessagesOK
  <2> QED
    BY <2>1, <2>2, <2>3, <2>4, <2>5 DEF MessagesOK
<1>32. W(F, N \cup out, T, U, R)
  BY <1>12, <1>16, <1>31 DEF W
<1>33. /\ W([E EXCEPT ![p] = r.e], N \cup r.out, [S EXCEPT ![p] = @ + 1], U, R)
       /\ r.e \in EstateRecords
  BY <1>3, <1>7, <1>9, <1>32 DEF F, T, sid
<1> QED
  BY <1>3, <1>7, <1>10, <1>33 DEF Reached, sid

-----------------------------------------------------------------------------
(* Messages are given transactions of the present session.                   *)

LEMMA BoxFits ==
  ASSUME NEW E, NEW N, NEW S, NEW U, NEW R, W(E, N, S, U, R), NEW p \in Peers
  PROVE  Box(p, E[p]) \in Nat \X Nat /\ BoxOK(E, Box(p, E[p])) /\ Part(p, Box(p, E[p])) = E[p].privee
<1>1. /\ E[p].publee <= E[Other(p)].privee /\ E[p].publee \in Nat /\ E[p].privee \in Nat
  BY Ready, EstateFields DEF W, PeerOK
<1> QED
  BY <1>1 DEF Box, BoxOK, Part, Peers, Other

(* Messengers for a sequence of messages. *)
Given(M, si, tid, box) ==
  {[m |-> M[i], si |-> si, ti |-> tid + i, box |-> box] : i \in DOMAIN M}

(* Its i-th, x. *)
IsGiven(M, si, tid, box, x, i) ==
  /\ x = [m |-> M[i], si |-> si, ti |-> tid + i, box |-> box]
  /\ x.m = M[i] /\ x.si = si /\ x.box = box
  /\ x.ti = tid + i /\ x.ti > tid /\ x.ti <= tid + Len(M)

LEMMA NewMessengers ==
  ASSUME NEW M \in Seq(Msgs), NEW si \in Nat, NEW tid \in Nat, NEW box \in Nat \X Nat,
         NEW new, new = Given(M, si, tid, box)
  PROVE  /\ new \subseteq MessengerRecords /\ IsFiniteSet(new)
         /\ \A x \in new : \E i \in DOMAIN M : IsGiven(M, si, tid, box, x, i)
         /\ \A x, y \in new : x.ti = y.ti => x = y
<1> DEFINE n == [i \in DOMAIN M |-> [m |-> M[i], si |-> si, ti |-> tid + i, box |-> box]]
<1>1. Len(M) \in Nat /\ DOMAIN M = 1 .. Len(M) /\ \A i \in DOMAIN M : M[i] \in Msgs
  BY LenProperties
<1>2. \A i \in DOMAIN M : tid + i \in Nat \ {0} /\ tid + i > tid /\ tid + i <= tid + Len(M)
  BY <1>1
<1>3. new \subseteq MessengerRecords
  <2>1. \A i \in DOMAIN M :
          [m |-> M[i], si |-> si, ti |-> tid + i, box |-> box] \in MessengerRecords
    BY <1>1, <1>2, Zenon DEF MessengerRecords
  <2> QED
    BY <2>1 DEF Given
<1>4. n \in Surjection(DOMAIN M, new)
  <2>1. n \in [DOMAIN M -> new]
    BY DEF Given
  <2>2. \A x \in new : \E i \in DOMAIN M : n[i] = x
    BY DEF Given
  <2> HIDE DEF n
  <2> QED
    BY <2>1, <2>2 DEF Surjection
<1>5. IsFiniteSet(DOMAIN M)
  BY <1>1, FS_Interval
<1> HIDE DEF n
<1>6. IsFiniteSet(new)
  BY <1>4, <1>5, FS_Surjection
<1>7. \A x \in new : \E i \in DOMAIN M : IsGiven(M, si, tid, box, x, i)
  <2> TAKE x \in new
  <2>1. PICK i \in DOMAIN M : x = [m |-> M[i], si |-> si, ti |-> tid + i, box |-> box]
    BY DEF Given
  <2>2. IsGiven(M, si, tid, box, x, i)
    BY <1>2, <2>1 DEF IsGiven
  <2> QED
    BY <2>2
<1>8. \A x, y \in new : x.ti = y.ti => x = y
  <2> TAKE x, y \in new
  <2>1. PICK i \in DOMAIN M : /\ x = [m |-> M[i], si |-> si, ti |-> tid + i, box |-> box]
                              /\ x.ti = tid + i
    BY <1>7 DEF IsGiven
  <2>2. PICK j \in DOMAIN M : /\ y = [m |-> M[j], si |-> si, ti |-> tid + j, box |-> box]
                              /\ y.ti = tid + j
    BY <1>7 DEF IsGiven
  <2>3. x.ti = y.ti => i = j
    BY <1>1, <2>1, <2>2
  <2> QED
    BY <2>1, <2>2, <2>3
<1> QED
  BY <1>3, <1>6, <1>7, <1>8

NewMessages(p, g, M) == IF g.allowed THEN Given(M, g.sid, g.tid, Box(p, g)) ELSE {}

LEMMA MessagesFields ==
  ASSUME NEW g \in EstateRecords, NEW p, Box(p, g) \in Nat \X Nat, NEW M \in Seq(Msgs),
         NEW r, r = Messages(p, g, M)
  PROVE  /\ r.out = {MessagePkt(p, x) : x \in NewMessages(p, g, M)}
         /\ r.e \in EstateRecords /\ r.e.sid = g.sid /\ r.e.rsid = g.rsid
         /\ r.e.messages = g.messages /\ r.e.tid = g.tid + Len(M)
         /\ r.e.privee = g.privee /\ r.e.publee = g.publee
         /\ r.e.messengers = g.messengers \cup NewMessages(p, g, M)
         /\ r.e.doneTransactions = g.doneTransactions /\ r.e.allows = g.allows
<1> DEFINE all == Given(M, g.sid, g.tid, Box(p, g))
           next == [g EXCEPT !.tid = @ + Len(M)]
           f == [next EXCEPT !.messengers = @ \cup all]
<1>1. g.tid + Len(M) \in Nat /\ g.tid \in Nat /\ g.sid \in Nat
      /\ g.messengers \in SUBSET MessengerRecords
  BY EstateFields, LenProperties
<1>2. next \in EstateRecords
  BY <1>1, Zenon DEF EstateRecords
<1>3. /\ next.sid = g.sid /\ next.rsid = g.rsid /\ next.messages = g.messages
      /\ next.tid = g.tid + Len(M) /\ next.privee = g.privee /\ next.publee = g.publee
      /\ next.messengers = g.messengers /\ next.allows = g.allows
      /\ next.doneTransactions = g.doneTransactions
  BY DEF EstateRecords
<1>4. CASE ~g.allowed
  <2>1. r.e = next /\ r.out = {}
    BY <1>4 DEF Messages, Result
  <2> HIDE DEF next
  <2>2. {MessagePkt(p, x) : x \in {}} = {} /\ g.messengers \cup {} = g.messengers
    OBVIOUS
  <2>3. NewMessages(p, g, M) = {}
    BY <1>4 DEF NewMessages
  <2> QED
    BY <1>2, <1>3, <2>1, <2>2, <2>3
<1>5. CASE g.allowed
  <2>1. r.e = f /\ r.out = {MessagePkt(p, x) : x \in all}
    BY <1>5 DEF Messages, Result, Given
  <2>2. all \subseteq MessengerRecords
    BY <1>1, NewMessengers
  <2> HIDE DEF next, all
  <2>3. next.messengers \cup all \in SUBSET MessengerRecords
    BY <1>1, <1>3, <2>2
  <2>4. f \in EstateRecords
    BY <1>2, <2>3, Zenon DEF EstateRecords
  <2>5. /\ f.sid = next.sid /\ f.rsid = next.rsid /\ f.messages = next.messages
        /\ f.tid = next.tid /\ f.privee = next.privee /\ f.publee = next.publee
        /\ f.messengers = next.messengers \cup all /\ f.allows = next.allows
        /\ f.doneTransactions = next.doneTransactions
    BY <1>2 DEF EstateRecords
  <2> HIDE DEF f
  <2>6. /\ r.e \in EstateRecords /\ r.e.sid = g.sid /\ r.e.rsid = g.rsid
        /\ r.e.messages = g.messages /\ r.e.tid = g.tid + Len(M)
        /\ r.e.privee = g.privee /\ r.e.publee = g.publee
        /\ r.e.messengers = g.messengers \cup all
        /\ r.e.doneTransactions = g.doneTransactions /\ r.e.allows = g.allows
    BY <1>3, <2>1, <2>4, <2>5
  <2>7. NewMessages(p, g, M) = all
    BY <1>5 DEF all, NewMessages
  <2> QED
    BY <2>1, <2>6, <2>7
<1> QED
  BY <1>4, <1>5

(* Messages M may be sent by p, those of Q stay saved. *)
Sendable(E, N, U, R, p, Q, M, V) ==
  /\ U \subseteq V
  /\ \A i \in DOMAIN M : M[i] \in V /\ Unsent(E, N, R, p, M[i])
  /\ \A i, j \in DOMAIN M : M[i] = M[j] => i = j
  /\ \/ Q = <<>>
     \/ Q = E[p].messages /\ \A i \in DOMAIN M, j \in DOMAIN Q : M[i] # Q[j]

WithMessages(e, Q) == [e EXCEPT !.messages = Q]

LEMMA MessagesMoves ==
  ASSUME NEW E, NEW N, NEW S, NEW U, NEW R, W(E, N, S, U, R), NEW p \in Peers,
         NEW Q \in Seq(Msgs), NEW M \in Seq(Msgs), NEW V, Sendable(E, N, U, R, p, Q, M, V),
         NEW r, r = Messages(p, WithMessages(E[p], Q), M)
  PROVE  /\ Reached(E, N, S, V, R, p, r)
         /\ r.e.sid = E[p].sid /\ r.e.privee = E[p].privee
<1> DEFINE e == E[p]
           g == WithMessages(e, Q)
           o == Other(p)
           box == Box(p, e)
           f == r.e
           F == [E EXCEPT ![p] = f]
<1>1. e \in EstateRecords /\ e.tid \in Nat /\ e.privee \in Nat /\ e.privee > 0 /\ e.sid \in Nat
      /\ (\A i \in e.allows : i \in AllowRecords /\ AllowOK(E, S, p, i))
      /\ o \in Peers /\ o # p /\ (\A q \in Peers : q = p \/ q = o)
      /\ E \in [Peers -> EstateRecords] /\ S \in [Peers -> 0 .. MaxSids]
      /\ e.messengers \in SUBSET MessengerRecords /\ Started(S, p, e.sid)
      /\ e.messages \in Seq(Msgs) /\ Len(M) \in Nat
  BY Ready, EstateFields, Others, LenProperties
<1>2. \A q \in Peers : PeerOK(E, S, q) /\ E[q].sid = Nth(S[q])
  BY DEF W, PeerOK
<1>3. g \in EstateRecords
  BY <1>1, Zenon DEF EstateRecords, WithMessages
<1>4. /\ g.sid = e.sid /\ g.rsid = e.rsid /\ g.messages = Q /\ g.tid = e.tid
      /\ g.privee = e.privee /\ g.publee = e.publee /\ g.messengers = e.messengers
      /\ g.doneTransactions = e.doneTransactions /\ g.allows = e.allows
  BY <1>1 DEF EstateRecords, WithMessages
<1>5. box \in Nat \X Nat /\ BoxOK(E, box)
  BY BoxFits
<1>6. Box(p, g) = box
  BY <1>4 DEF Box
<1>7. r = Messages(p, g, M)
  OBVIOUS
<1> HIDE DEF g, box
<1> DEFINE new == NewMessages(p, g, M)
<1>8. /\ r.out = {MessagePkt(p, x) : x \in new}
      /\ r.e \in EstateRecords /\ r.e.sid = g.sid /\ r.e.rsid = g.rsid
      /\ r.e.messages = g.messages /\ r.e.tid = g.tid + Len(M)
      /\ r.e.privee = g.privee /\ r.e.publee = g.publee
      /\ r.e.messengers = g.messengers \cup new
      /\ r.e.doneTransactions = g.doneTransactions /\ r.e.allows = g.allows
  <2>1. Box(p, g) \in Nat \X Nat
    BY <1>5, <1>6
  <2> QED
    BY <1>3, <1>7, <2>1, MessagesFields
<1>9. new = {} \/ new = Given(M, e.sid, e.tid, box)
  BY <1>4, <1>6 DEF NewMessages
<1> HIDE DEF new
<1>10. /\ f \in EstateRecords /\ f.sid = e.sid /\ f.rsid = e.rsid /\ f.messages = Q
       /\ f.tid = e.tid + Len(M) /\ f.privee = e.privee /\ f.publee = e.publee
       /\ f.messengers = e.messengers \cup new
       /\ f.doneTransactions = e.doneTransactions /\ f.allows = e.allows
  BY <1>4, <1>8
<1> HIDE DEF f
<1>11. /\ new \subseteq MessengerRecords /\ IsFiniteSet(new)
       /\ \A x \in new : \E i \in DOMAIN M : IsGiven(M, e.sid, e.tid, box, x, i)
       /\ \A x, y \in new : x.ti = y.ti => x = y
  <2>1. CASE new = {}
    BY <2>1, FS_EmptySet
  <2>2. CASE new = Given(M, e.sid, e.tid, box)
    <3>1. e.sid \in Nat /\ e.tid \in Nat
      BY <1>1
    <3> HIDE DEF e
    <3>2. box \in Nat \X Nat
      BY <1>5
    <3> QED
      BY <2>2, <3>1, <3>2, NewMessengers
  <2> QED
    BY <1>9, <2>1, <2>2
<1>12. F[p] = f /\ F[o] = E[o]
  BY <1>1
<1>13. Typed(F, S, R)
  BY <1>1, <1>10 DEF W, Typed
<1> HIDE DEF F
<1>14. Grows(E, S, F, S)
  <2> SUFFICES ASSUME NEW q \in Peers
               PROVE  /\ S[q] <= S[q] /\ E[q].privee <= F[q].privee /\ F[q].sid = Nth(S[q])
                      /\ E[q].tid <= F[q].tid
    BY DEF Grows
  <2>1. E[q].privee \in Nat /\ E[q].tid \in Nat /\ S[q] \in Nat /\ E[q].sid = Nth(S[q])
    BY <1>1, <1>2, EstateFields, Circle
  <2>2. F[q].sid = E[q].sid /\ F[q].privee = E[q].privee
        /\ (F[q].tid = E[q].tid \/ F[q].tid = E[q].tid + Len(M))
    BY <1>1, <1>10, <1>12
  <2> QED
    BY <1>1, <2>1, <2>2
<1>15. \A b : BoxOK(E, b) => BoxOK(F, b)
  <2>1. F["a"].privee = E["a"].privee /\ F["b"].privee = E["b"].privee
    BY <1>1, <1>10, <1>12 DEF Peers
  <2> QED
    BY <2>1 DEF BoxOK
<1>16. \A x \in new : /\ From[x.m] = p /\ x.si = e.sid /\ x.ti <= f.tid /\ BoxOK(F, x.box)
                      /\ x \in MessengerRecords /\ Used(F, S, p, x.si, x.ti)
  <2> TAKE x \in new
  <2>1. PICK i \in DOMAIN M : x.m = M[i] /\ x.si = e.sid /\ x.box = box /\ x.ti <= e.tid + Len(M)
    BY <1>11 DEF IsGiven
  <2>2. From[M[i]] = p
    BY <2>1 DEF Unsent, Sendable
  <2> QED
    BY <1>1, <1>5, <1>10, <1>11, <1>12, <1>15, <2>1, <2>2 DEF Used
<1>17. PeerOK(F, S, p)
  <2>1. /\ e.publee <= E[o].privee
        /\ e.rsid = 0 \/ Started(S, o, e.rsid)
        /\ e.rsid = E[o].sid => \A d \in e.doneTransactions : d <= E[o].tid
        /\ \A t, u \in e.allows : t = u
        /\ IsFiniteSet(e.messengers)
        /\ \A x, y \in e.messengers : x.ti = y.ti => x = y
        /\ \A x \in e.messengers : MessengerOK(E, p, x)
    BY <1>2 DEF PeerOK
  <2>2. ASSUME NEW t \in f.allows PROVE AllowOK(F, S, p, t)
    <3>1. t \in AllowRecords /\ AllowOK(E, S, p, t)
      BY <1>1, <1>10, <2>2
    <3> QED
      BY <1>2, <1>13, <1>14, <3>1, AllowGrows DEF W
  <2>3. IsFiniteSet(f.messengers)
    <3>1. IsFiniteSet(e.messengers) /\ IsFiniteSet(new)
      BY <1>11, <2>1
    <3> QED
      BY <1>10, <3>1, FS_Union, Zenon
  <2>4. \A x \in e.messengers : x.ti \in Nat /\ x.ti <= e.tid
    BY <1>1, <2>1 DEF MessengerOK, MessengerRecords
  <2>5. \A x, y \in f.messengers : x.ti = y.ti => x = y
    <3>1. \A x \in new : x.ti \in Nat /\ x.ti > e.tid
      BY <1>1, <1>11 DEF MessengerRecords, IsGiven
    <3> QED
      BY <1>1, <1>10, <1>11, <2>1, <2>4, <3>1
  <2>6. ASSUME NEW x \in f.messengers PROVE MessengerOK(F, p, x)
    <3>1. CASE x \in e.messengers
      BY <1>1, <1>10, <1>12, <1>15, <2>1, <2>4, <3>1 DEF MessengerOK
    <3>2. CASE x \in new
      BY <1>10, <1>12, <1>16, <3>2 DEF MessengerOK
    <3> QED
      BY <1>10, <2>6, <3>1, <3>2
  <2> QED
    BY <1>2, <1>10, <1>12, <2>1, <2>2, <2>3, <2>5, <2>6 DEF PeerOK
<1>18. \A c \in r.out : PacketOK(F, S, c) /\ \E x \in new : CarriedBy(c) = x
  <2> TAKE c \in r.out
  <2>1. PICK x \in new : c = MessagePkt(p, x)
    BY <1>8
  <2>2. From[x.m] = p /\ x \in MessengerRecords /\ BoxOK(F, x.box) /\ Used(F, S, p, x.si, x.ti)
    BY <1>16
  <2>3. PacketOK(F, S, MessagePkt(p, x)) /\ CarriedBy(MessagePkt(p, x)) = x
    BY <2>2, MessagePktOK
  <2> QED
    BY <2>1, <2>3
<1>19. /\ \A q \in Peers : PeerOK(F, S, q)
       /\ \A c \in N \cup r.out : PacketOK(F, S, c)
  <2>1. \A q \in Peers : q # p => F[q] = E[q] /\ S[q] = S[q]
    BY <1>1, <1>12
  <2> QED
    BY <1>13, <1>14, <1>17, <1>18, <2>1, StepKeeps
<1>20. \A x : Carried(F, N \cup r.out, x) => Carried(E, N, x) \/ x \in new
  BY <1>1, <1>10, <1>12, <1>18 DEF Carried
<1>21. MessagesOK(E, N, S, U, R)
  BY DEF W
<1>22. \A x \in new : /\ x.m \in V /\ R[<<x.m, x.si>>] = 0
                      /\ \A y : Carried(E, N, y) => ~(y.m = x.m /\ y.si = x.si)
                      /\ \A y \in new : y.m = x.m => y = x
  <2> TAKE x \in new
  <2>1. PICK i \in DOMAIN M : /\ x = [m |-> M[i], si |-> e.sid, ti |-> e.tid + i, box |-> box]
                             /\ x.m = M[i] /\ x.si = e.sid
    BY <1>11 DEF IsGiven
  <2>2. x.m \in V /\ R[<<x.m, x.si>>] = 0 /\ \A y : Carried(E, N, y) => ~(y.m = x.m /\ y.si = x.si)
    BY <2>1 DEF Unsent, Sendable
  <2>3. ASSUME NEW y \in new, y.m = x.m PROVE y = x
    <3>1. PICK j \in DOMAIN M : /\ y = [m |-> M[j], si |-> e.sid, ti |-> e.tid + j, box |-> box]
                               /\ y.m = M[j]
      BY <1>11 DEF IsGiven
    <3>2. i = j
      BY <2>1, <2>3, <3>1 DEF Sendable
    <3> QED
      BY <2>1, <3>1, <3>2
  <2> QED
    BY <2>2, <2>3
<1>23. ASSUME NEW q \in Peers, NEW i \in DOMAIN F[q].messages
       PROVE  /\ F[q].messages[i] \in V /\ Unsent(F, N \cup r.out, R, q, F[q].messages[i])
              /\ F[q].messages = E[q].messages
  <2>1. /\ F[q].messages = E[q].messages /\ F[q].sid = E[q].sid
        /\ q = p => \A j \in DOMAIN M : M[j] # E[q].messages[i]
    <3>1. CASE q = p
      <4>1. Q # <<>>
        BY <1>10, <1>12, <1>23, <3>1
      <4> QED
        BY <1>10, <1>12, <1>23, <3>1, <4>1 DEF Sendable
    <3>2. CASE q # p
      BY <1>1, <1>12, <3>2
    <3> QED
      BY <3>1, <3>2
  <2> DEFINE m == E[q].messages[i]
  <2>2. m \in V /\ Unsent(E, N, R, q, m)
    BY <1>21, <1>23, <2>1 DEF MessagesOK, Sendable
  <2>3. \A x \in new : x.m # m
    <3>1. CASE q = p
      BY <1>11, <2>1, <3>1 DEF IsGiven
    <3>2. CASE q # p
      BY <1>16, <2>2, <3>2 DEF Unsent, Sendable
    <3> QED
      BY <3>1, <3>2
  <2>4. Unsent(F, N \cup r.out, R, q, m)
    <3> HIDE DEF m
    <3> QED
      BY <1>20, <2>1, <2>2, <2>3 DEF Unsent, Sendable
  <2> QED
    BY <2>1, <2>2, <2>4
<1>24. ASSUME NEW x, Carried(E, N, x), Spent(E, x) PROVE Spent(F, x)
  <2>1. x.box \in Nat \X Nat /\ From[x.m] \in Peers
    BY <1>24, CarriedFacts
  <2>2. \A q \in Peers : /\ E[q].privee <= F[q].privee
                         /\ F[q].rsid = E[q].rsid
                         /\ E[q].doneTransactions \subseteq F[q].doneTransactions
    BY <1>1, <1>10, <1>12, <1>14 DEF Grows
  <2> QED
    BY <1>1, <1>13, <1>24, <2>1, <2>2, SpentGrows DEF Typed
<1>25. MessagesOK(F, N \cup r.out, S, V, R)
  <2>1. /\ \A x, y : /\ Carried(F, N \cup r.out, x) /\ Carried(F, N \cup r.out, y)
                     /\ x.m = y.m /\ x.si = y.si
                     => x = y
        /\ \A x : Carried(F, N \cup r.out, x) => x.m \in V
    BY <1>20, <1>21, <1>22 DEF MessagesOK, Sendable
  <2>2. \A q \in Peers : \A i, j \in DOMAIN F[q].messages :
          F[q].messages[i] = F[q].messages[j] => i = j
    BY <1>21, <1>23 DEF MessagesOK, Sendable
  <2>3. \A m \in Msgs, s \in Ids : R[<<m, s>>] # 0 => m \in V /\ Started(S, From[m], s)
    BY <1>21 DEF MessagesOK, Sendable
  <2>4. \A x : Carried(F, N \cup r.out, x) /\ R[<<x.m, x.si>>] # 0 => Spent(F, x)
    BY <1>20, <1>21, <1>22, <1>24 DEF MessagesOK, Sendable
  <2> QED
    BY <1>23, <2>1, <2>2, <2>3, <2>4 DEF MessagesOK, Sendable
<1>26. W(F, N \cup r.out, S, V, R)
  BY <1>13, <1>19, <1>25 DEF W
<1>27. W([E EXCEPT ![p] = r.e], N \cup r.out, S, V, R) /\ r.e \in EstateRecords
  BY <1>10, <1>26 DEF F, f
<1> QED
  BY <1>10, <1>27 DEF Reached, f

LEMMA SendSavedMoves ==
  ASSUME NEW E, NEW N, NEW S, NEW U, NEW R, W(E, N, S, U, R), NEW p \in Peers,
         NEW r, r = SendSavedMessages(p, E[p])
  PROVE  /\ Reached(E, N, S, U, R, p, r)
         /\ r.e.sid = E[p].sid /\ r.e.privee = E[p].privee
<1> DEFINE M == E[p].messages
           Q == <<>>
<1>1. M \in Seq(Msgs) /\ Q \in Seq(Msgs)
  BY Ready, EstateFields
<1>2. Sendable(E, N, U, R, p, Q, M, U)
  BY DEF W, MessagesOK, Sendable
<1>3. r = Messages(p, WithMessages(E[p], Q), M)
  BY DEF SendSavedMessages, WithMessages
<1> HIDE DEF M, Q
<1>4. Reached(E, N, S, U, R, p, r) /\ r.e.sid = E[p].sid /\ r.e.privee = E[p].privee
  BY <1>3, <1>1, <1>2, MessagesMoves
<1> QED
  BY <1>4

LEMMA SubmitMoves ==
  ASSUME NEW E, NEW N, NEW S, NEW U, NEW R, W(E, N, S, U, R),
         NEW m \in Msgs, m \notin U, NEW p \in Peers, p = From[m],
         NEW r, r = Messages(p, E[p], <<m>>)
  PROVE  /\ Reached(E, N, S, U \cup {m}, R, p, r)
         /\ r.e.sid = E[p].sid /\ r.e.privee = E[p].privee
<1> DEFINE Q == E[p].messages
           M == <<m>>
<1>1. M \in Seq(Msgs)
  OBVIOUS
<1>2. Q \in Seq(Msgs) /\ E[p] \in EstateRecords
  BY Ready, EstateFields
<1>3. Unsent(E, N, R, p, m)
  <2>1. E[p].sid \in Ids
    BY <1>1, Ready, StartedId
  <2> QED
    BY <2>1 DEF Unsent, W, MessagesOK
<1>4. \A j \in DOMAIN Q : Q[j] # m
  BY <1>1 DEF W, MessagesOK
<1>5. Sendable(E, N, U, R, p, Q, M, U \cup {m})
  BY <1>3, <1>4 DEF Sendable
<1>6. E[p] = WithMessages(E[p], Q)
  BY <1>2 DEF WithMessages, EstateRecords
<1>7. r = Messages(p, WithMessages(E[p], Q), M)
  BY <1>6
<1> DEFINE V == U \cup {m}
<1>8. Sendable(E, N, U, R, p, Q, M, V)
  BY <1>5
<1> HIDE DEF Q, M, V
<1>9. Reached(E, N, S, V, R, p, r) /\ r.e.sid = E[p].sid /\ r.e.privee = E[p].privee
  BY <1>7, <1>1, <1>2, <1>8, MessagesMoves
<1> QED
  BY <1>9 DEF V

-----------------------------------------------------------------------------
(* Messages are received.                                                    *)

LEMMA HandledFacts ==
  ASSUME NEW e \in EstateRecords, NEW k, k.ti \in Nat
  PROVE  /\ Handled(e, k) \in EstateRecords
         /\ Handled(e, k).rsid = e.rsid /\ Handled(e, k).sid = e.sid
         /\ Handled(e, k).doneTransactions = e.doneTransactions \cup {k.ti}
<1>1. e.doneTransactions \cup {k.ti} \in SUBSET Nat
  BY EstateFields
<1>2. Handled(e, k) \in EstateRecords
  BY <1>1, Zenon DEF EstateRecords, Handled
<1> QED
  BY <1>2 DEF EstateRecords, Handled

LEMMA HandledMoves ==
  ASSUME NEW E, NEW N, NEW S, NEW U, NEW R, W(E, N, S, U, R), NEW p \in Peers,
         NEW k, PacketOK(E, S, k), k.to = p, ~k.cf, k.tk = "message", k.si = E[p].rsid,
         NEW pk \in {"nack", "done"}
  PROVE  /\ W([E EXCEPT ![p] = Handled(E[p], k)], N \cup {Reply(k, pk)}, S, U, R)
         /\ Handled(E[p], k) \in EstateRecords
         /\ Handled(E[p], k).rsid = k.si
         /\ k.ti \in Handled(E[p], k).doneTransactions
         /\ Handled(E[p], k).sid = E[p].sid /\ Handled(E[p], k).privee = E[p].privee
<1> DEFINE e == E[p]
           f == Handled(e, k)
           o == Other(p)
<1>1. e \in EstateRecords /\ e.doneTransactions \in SUBSET Nat /\ k.ti \in Nat
      /\ e.tid <= e.tid /\ e.privee <= e.privee
  BY Ready, EstateFields DEF PacketOK
<1>2. e.doneTransactions \cup {k.ti} \in SUBSET Nat
  BY <1>1
<1>3. f \in EstateRecords
  BY <1>1, <1>2, Zenon DEF EstateRecords, Handled
<1>4. /\ f.sid = e.sid /\ f.rsid = e.rsid /\ f.messages = e.messages /\ f.tid = e.tid
      /\ f.privee = e.privee /\ f.publee = e.publee /\ f.messengers = e.messengers
      /\ f.doneTransactions = e.doneTransactions \cup {k.ti} /\ f.allows = e.allows
  BY <1>1 DEF EstateRecords, Handled
<1> HIDE DEF f
<1>5. f.rsid = E[o].sid => \A d \in f.doneTransactions : d <= E[o].tid
  <2>1. Used(E, S, o, k.si, k.ti)
    BY DEF PacketOK, Initiator
  <2>2. e.rsid = E[o].sid => \A d \in e.doneTransactions : d <= E[o].tid
    BY DEF W, PeerOK
  <2> QED
    BY <1>4, <2>1, <2>2 DEF Used
<1>6. \A c \in {Reply(k, pk)} : PacketOK(E, S, c) /\ c.pk # "message"
  <2>1. pk \in Kinds(k.tk, ~k.cf) /\ pk \in Nacks \cup {"done"}
    BY DEF Kinds, Nacks
  <2> QED
    BY <2>1, ReplyOK
<1>7. W([E EXCEPT ![p] = f], N \cup {Reply(k, pk)}, S, U, R)
  <2>1. \A t, u \in f.allows : t = u
    BY <1>4 DEF W, PeerOK
  <2>2. E[p].doneTransactions \subseteq f.doneTransactions /\ f.messengers \subseteq E[p].messengers
    BY <1>4
  <2> DEFINE out == {Reply(k, pk)}
  <2>3. \A c \in out : PacketOK(E, S, c) /\ c.pk # "message"
    BY <1>6
  <2> HIDE DEF out
  <2>4. W([E EXCEPT ![p] = f], N \cup out, S, U, R)
    BY <1>1, <1>3, <1>4, <1>5, <2>1, <2>2, <2>3, Quiet
  <2> QED
    BY <2>4 DEF out
<1> QED
  BY <1>3, <1>4, <1>7 DEF f

(* A message is counted when it is spent. *)
LEMMA Counted ==
  ASSUME NEW E, NEW N, NEW S, NEW U, NEW R, W(E, N, S, U, R),
         NEW x, Carried(E, N, x), Spent(E, x), R[<<x.m, x.si>>] = 0
  PROVE  W(E, N, S, U, [R EXCEPT ![<<x.m, x.si>>] = @ + 1])
<1> DEFINE Q == [R EXCEPT ![<<x.m, x.si>>] = @ + 1]
<1>1. /\ x.m \in Msgs /\ x.si \in Ids /\ Started(S, From[x.m], x.si)
  BY CarriedFacts
<1>2. R \in [Msgs \X Ids -> 0 .. 1]
  BY DEF W, Typed
<1>3. /\ Q \in [Msgs \X Ids -> 0 .. 1] /\ Q[<<x.m, x.si>>] = 1
      /\ \A m \in Msgs, s \in Ids : ~(m = x.m /\ s = x.si) => Q[<<m, s>>] = R[<<m, s>>]
  BY <1>1, <1>2
<1> HIDE DEF Q
<1>4. MessagesOK(E, N, S, U, R)
  BY DEF W
<1>5. MessagesOK(E, N, S, U, Q)
  <2>1. ASSUME NEW p \in Peers, NEW i \in DOMAIN E[p].messages
        PROVE  E[p].messages[i] \in U /\ Unsent(E, N, Q, p, E[p].messages[i])
    <3> DEFINE m == E[p].messages[i]
    <3>1. m \in U /\ Unsent(E, N, R, p, m) /\ m \in Msgs /\ E[p].sid \in Ids
      <4>1. E[p].messages \in Seq(Msgs) /\ E[p].sid \in Ids
        BY Ready, EstateFields, StartedId
      <4> QED
        BY <1>4, <2>1, <4>1 DEF MessagesOK
    <3> HIDE DEF m
    <3>2. ~(m = x.m /\ E[p].sid = x.si)
      BY <3>1 DEF Unsent
    <3>3. Q[<<m, E[p].sid>>] = 0
      BY <1>3, <3>1, <3>2 DEF Unsent
    <3>4. Unsent(E, N, Q, p, m)
      BY <3>1, <3>3 DEF Unsent
    <3> QED
      BY <3>1, <3>4 DEF m
  <2>2. \A m \in Msgs, s \in Ids : Q[<<m, s>>] # 0 => m \in U /\ Started(S, From[m], s)
    BY <1>1, <1>3, <1>4 DEF MessagesOK
  <2>3. ASSUME NEW y, Carried(E, N, y), Q[<<y.m, y.si>>] # 0 PROVE Spent(E, y)
    <3>1. CASE y.m = x.m /\ y.si = x.si
      BY <1>4, <2>3, <3>1 DEF MessagesOK
    <3>2. CASE ~(y.m = x.m /\ y.si = x.si)
      <4>1. y.m \in Msgs /\ y.si \in Ids
        BY <2>3, CarriedFacts
      <4> QED
        BY <1>3, <1>4, <2>3, <3>2, <4>1 DEF MessagesOK
    <3> QED
      BY <3>1, <3>2
  <2> QED
    BY <1>4, <2>1, <2>2, <2>3 DEF MessagesOK
<1>6. W(E, N, S, U, Q)
  BY <1>3, <1>5 DEF W, Typed
<1> QED
  BY <1>6 DEF Q

-----------------------------------------------------------------------------
(* Handlers of one packet, put together from the calls they make.            *)

LEMMA IsReached ==
  ASSUME NEW E \in [Peers -> EstateRecords], NEW N, NEW S, NEW U, NEW R, NEW p \in Peers,
         NEW r, W([E EXCEPT ![p] = r.e], N \cup r.out, S, U, R)
  PROVE  Reached(E, N, S, U, R, p, r)
<1> DEFINE F == [E EXCEPT ![p] = r.e]
<1>1. F \in [Peers -> EstateRecords]
  BY DEF W, Typed
<1>2. F[p] = r.e
  OBVIOUS
<1> HIDE DEF F
<1>3. r.e \in EstateRecords
  BY <1>1, <1>2
<1> QED
  BY <1>3 DEF Reached

(* What a call has reached is where the next one starts. *)
Put(E, p, r) == [E EXCEPT ![p] = r.e]

LEMMA ReachedIs ==
  ASSUME NEW E \in [Peers -> EstateRecords], NEW N, NEW S, NEW U, NEW R, NEW p \in Peers,
         NEW r, Reached(E, N, S, U, R, p, r)
  PROVE  /\ Put(E, p, r) \in [Peers -> EstateRecords]
         /\ r.e \in EstateRecords
         /\ W(Put(E, p, r), N \cup r.out, S, U, R)
BY DEF Reached, Put

LEMMA ReachedThen ==
  ASSUME NEW E \in [Peers -> EstateRecords], NEW N, NEW T, NEW U, NEW R, NEW p \in Peers,
         NEW q, NEW r, Reached(Put(E, p, q), N \cup q.out, T, U, R, p, r)
  PROVE  Reached(E, N, T, U, R, p, Result(r.e, q.out \cup r.out))
<1> DEFINE z == Result(r.e, q.out \cup r.out)
           F == Put(E, p, q)
<1>1. z.e = r.e /\ z.out = q.out \cup r.out
  BY DEF Result
<1>2. r.e \in EstateRecords /\ W([F EXCEPT ![p] = r.e], (N \cup q.out) \cup r.out, T, U, R)
  BY DEF Reached
<1>3. [F EXCEPT ![p] = r.e] = [E EXCEPT ![p] = r.e]
  BY DEF Put
<1>4. (N \cup q.out) \cup r.out = N \cup (q.out \cup r.out)
  OBVIOUS
<1>5. W([E EXCEPT ![p] = r.e], N \cup (q.out \cup r.out), T, U, R)
  BY <1>2, <1>3, <1>4
<1> HIDE DEF z
<1>6. W([E EXCEPT ![p] = z.e], N \cup z.out, T, U, R)
  BY <1>1, <1>5
<1>7. Reached(E, N, T, U, R, p, z)
  BY <1>1, <1>2, <1>6 DEF Reached
<1> QED
  BY <1>7 DEF z

(* Only packets are sent. *)
LEMMA Stays ==
  ASSUME NEW E, NEW N, NEW S, NEW U, NEW R, W(E, N, S, U, R), NEW p \in Peers,
         NEW out, \A c \in out : PacketOK(E, S, c) /\ c.pk # "message"
  PROVE  Reached(E, N, S, U, R, p, Result(E[p], out))
<1> DEFINE q == Result(E[p], out)
<1>1. q.e = E[p] /\ q.out = out
  BY DEF Result
<1>2. E \in [Peers -> EstateRecords] /\ E[p] \in EstateRecords
  BY Ready
<1>3. W(E, N \cup out, S, U, R)
  BY SendMoves
<1>4. [E EXCEPT ![p] = E[p]] = E
  BY <1>2
<1> HIDE DEF q
<1>5. W([E EXCEPT ![p] = q.e], N \cup q.out, S, U, R)
  BY <1>1, <1>3, <1>4
<1>6. Reached(E, N, S, U, R, p, q)
  BY <1>1, <1>2, <1>5 DEF Reached
<1> QED
  BY <1>6 DEF q

Ended(e, t, b) == [e EXCEPT !.allows = @ \ {t}, !.allowed = b]

LEMMA Ends ==
  ASSUME NEW E, NEW N, NEW S, NEW U, NEW R, W(E, N, S, U, R), NEW p \in Peers,
         NEW t \in E[p].allows, NEW b \in BOOLEAN,
         NEW out, \A c \in out : PacketOK(E, S, c) /\ c.pk # "message"
  PROVE  /\ Reached(E, N, S, U, R, p, Result(Ended(E[p], t, b), out))
         /\ Ended(E[p], t, b).sid = E[p].sid
<1> DEFINE q == Result(Ended(E[p], t, b), out)
<1>1. q.e = [E[p] EXCEPT !.allows = @ \ {t}, !.allowed = b] /\ q.out = out
  BY DEF Result, Ended
<1>2. E \in [Peers -> EstateRecords] /\ E[p] \in EstateRecords
  BY Ready
<1>3. W([E EXCEPT ![p] = [E[p] EXCEPT !.allows = @ \ {t}, !.allowed = b]], N \cup out, S, U, R)
  BY EndMoves
<1> HIDE DEF q
<1>4. W([E EXCEPT ![p] = q.e], N \cup q.out, S, U, R)
  BY <1>1, <1>3, Zenon
<1>5. Reached(E, N, S, U, R, p, q)
  BY <1>2, <1>4, IsReached
<1>6. Ended(E[p], t, b).sid = E[p].sid
  BY <1>2 DEF Ended, EstateRecords
<1> QED
  BY <1>5, <1>6 DEF q

LEMMA RefusedMoves ==
  ASSUME NEW E, NEW N, NEW S, NEW U, NEW R, W(E, N, S, U, R), NEW p \in Peers,
         NEW t \in E[p].allows, NEW pk, NEW r, r = Refused(E[p], t, pk)
  PROVE  Reached(E, N, S, U, R, p, r) /\ r.e.sid = E[p].sid
<1> DEFINE b == E[p].allowed /\ pk # "reject"
<1>1. b \in BOOLEAN
  BY Ready, EstateFields
<1>2. r = Result(Ended(E[p], t, b), {})
  BY DEF Refused, Ended
<1> HIDE DEF b
<1>3. Reached(E, N, S, U, R, p, r) /\ Ended(E[p], t, b).sid = E[p].sid
  BY <1>1, <1>2, Ends
<1> QED
  BY <1>2, <1>3 DEF Result

(* Every start of a session changes sid. *)
LEMMA SidMoves ==
  ASSUME NEW e \in EstateRecords, e.sid \in Ids, NEW p, IsFiniteSet(e.messengers),
         \A x, y \in e.messengers : x.ti = y.ti => x = y
  PROVE  StartSession(p, e).e.sid # e.sid /\ StartSession(p, e).e \in EstateRecords
<1> DEFINE d == [e EXCEPT !.sid = NextId(@)]
<1>1. d.sid = NextId(e.sid)
  BY DEF EstateRecords
<1>2. d \in EstateRecords
  <2>1. NextId(e.sid) \in Nat
    BY Circle DEF NextId
  <2> QED
    BY <2>1, Zenon DEF EstateRecords
<1> HIDE DEF d
<1>3. StartSession(p, e).e.sid = d.sid /\ StartSession(p, e).e \in EstateRecords
  <2> DEFINE A == {t \in d.allows : ~t.rf /\ ~Valid(t.si, d.sid)}
             X == {x \in d.messengers : ~Valid(x.si, d.sid)}
             f == [d EXCEPT !.allows = @ \ A, !.messengers = @ \ X, !.messages = @ \o Bodies(X)]
  <2>1. StartSession(p, e) = ReplaceStaleInitiators(p, d)
    BY DEF StartSession, d
  <2>2. ReplaceStaleInitiators(p, d).e = f
    BY DEF ReplaceStaleInitiators, Result
  <2>3. Bodies(X) \in Seq(Msgs)
    <3>1. d.messengers = e.messengers
      BY DEF d, EstateRecords
    <3>2. /\ X \in SUBSET MessengerRecords /\ X \subseteq e.messengers
          /\ \A x, y \in X : x.ti = y.ti => x = y
      BY <3>1, EstateFields
    <3>3. IsFiniteSet(X)
      BY <3>2, FS_Subset
    <3> HIDE DEF X
    <3> QED
      BY <3>2, <3>3, BodiesFacts
  <2> HIDE DEF A, X
  <2>4. f.sid = d.sid
    BY <1>2 DEF EstateRecords
  <2>5. d.allows \ A \in SUBSET AllowRecords /\ d.messengers \ X \in SUBSET MessengerRecords
        /\ d.messages \o Bodies(X) \in Seq(Msgs)
    BY <1>2, <2>3, EstateFields, ConcatProperties
  <2>6. f \in EstateRecords
    BY <1>2, <2>5, Zenon DEF EstateRecords
  <2> QED
    BY <2>1, <2>2, <2>4, <2>6
<1>4. NextId(e.sid) # e.sid
  BY Circle DEF NextId
<1> QED
  BY <1>1, <1>2, <1>3, <1>4

(* ackFinal() of the Allower: the end of one session's handshake and the start of the next. *)
LEMMA AckFinalMoves ==
  ASSUME NEW E, NEW N, NEW S, NEW U, NEW R, W(E, N, S, U, R), NEW p \in Peers,
         NEW t \in E[p].allows, S[p] < MaxSids, NEW r, r = AckFinal(p, E[p], t)
  PROVE  Reached(E, N, [S EXCEPT ![p] = @ + 1], U, R, p, r) /\ r.e.sid # E[p].sid
<1> DEFINE e == E[p]
           T == [S EXCEPT ![p] = @ + 1]
           out == {AllowPkt(p, t, "ack", <<>>)}
           q == Result(Ended(e, t, TRUE), out)
           next == StartSession(p, q.e)
           sent == SendSavedMessages(p, next.e)
<1>1. E \in [Peers -> EstateRecords] /\ e \in EstateRecords
      /\ t \in AllowRecords /\ AllowOK(E, S, p, t)
  BY Ready
<1>2. r = Result(sent.e, q.out \cup (next.out \cup sent.out))
  <2>1. q.e = [e EXCEPT !.allowed = TRUE, !.allows = @ \ {t}] /\ q.out = out
    BY <1>1 DEF Result, Ended, EstateRecords
  <2> HIDE DEF q, out
  <2>2. r = Result(sent.e, out \cup next.out \cup sent.out)
    BY <2>1, Zenon DEF AckFinal, out
  <2>3. out \cup next.out \cup sent.out = q.out \cup (next.out \cup sent.out)
    BY <2>1
  <2> QED
    BY <2>2, <2>3
<1>3. Reached(E, N, S, U, R, p, q) /\ q.e.sid = e.sid
  <2>1. \A c \in out : PacketOK(E, S, c) /\ c.pk # "message"
    BY <1>1, AllowPktOK
  <2> HIDE DEF out
  <2>2. Reached(E, N, S, U, R, p, q) /\ Ended(e, t, TRUE).sid = e.sid
    BY <2>1, Ends
  <2> QED
    BY <2>2 DEF Result
<1> HIDE DEF q
<1> DEFINE F == Put(E, p, q)
<1>4. /\ F \in [Peers -> EstateRecords] /\ F[p] = q.e /\ q.e \in EstateRecords
      /\ W(F, N \cup q.out, S, U, R)
  <2>1. F[p] = q.e
    BY <1>1 DEF Put
  <2> QED
    BY <1>1, <1>3, <2>1, ReachedIs
<1>5. Reached(F, N \cup q.out, T, U, R, p, next) /\ next.e.sid # q.e.sid
  <2>1. next = StartSession(p, F[p])
    BY <1>4
  <2> HIDE DEF next, F
  <2> QED
    BY <1>4, <2>1, StartSessionMoves
<1> HIDE DEF next, T
<1> DEFINE G == Put(F, p, next)
<1>6. /\ G \in [Peers -> EstateRecords] /\ G[p] = next.e /\ next.e \in EstateRecords
      /\ W(G, (N \cup q.out) \cup next.out, T, U, R)
  <2> HIDE DEF F
  <2>1. G[p] = next.e
    BY <1>4 DEF Put
  <2> QED
    BY <1>4, <1>5, <2>1, ReachedIs
<1>7. Reached(G, (N \cup q.out) \cup next.out, T, U, R, p, sent) /\ sent.e.sid = next.e.sid
  <2>1. sent = SendSavedMessages(p, G[p])
    BY <1>6
  <2> HIDE DEF sent, G
  <2> QED
    BY <1>6, <2>1, SendSavedMoves
<1> HIDE DEF sent
<1>8. Reached(F, N \cup q.out, T, U, R, p, Result(sent.e, next.out \cup sent.out))
  <2> HIDE DEF F
  <2> QED
    BY <1>4, <1>7, ReachedThen
<1>9. Reached(E, N, T, U, R, p, Result(sent.e, q.out \cup (next.out \cup sent.out)))
  <2> DEFINE z == Result(sent.e, next.out \cup sent.out)
  <2>1. z.e = sent.e /\ z.out = next.out \cup sent.out
    BY DEF Result
  <2> HIDE DEF z
  <2>2. Reached(E, N, T, U, R, p, Result(z.e, q.out \cup z.out))
    BY <1>1, <1>4, <1>8, ReachedThen DEF z
  <2> QED
    BY <2>1, <2>2
<1>10. r.e = sent.e
  BY <1>2 DEF Result
<1> QED
  BY <1>2, <1>3, <1>5, <1>7, <1>9, <1>10 DEF T

(* initiate() of the Allowent: its answer first, then the new session. *)
Acked(e, t, s) == [e EXCEPT !.allowed = TRUE, !.allows = (@ \ {t}) \cup {s}]

LEMMA AckedMoves ==
  ASSUME NEW E, NEW N, NEW S, NEW U, NEW R, W(E, N, S, U, R), NEW p \in Peers,
         NEW t \in E[p].allows, t.rf, NEW s, s = [t EXCEPT !.tx = "ack"]
  PROVE  /\ Reached(E, N, S, U, R, p, Result(Acked(E[p], t, s), {Redone(p, s, E[p])}))
         /\ Acked(E[p], t, s).sid = E[p].sid
<1> DEFINE e == E[p]
           f == Acked(e, t, s)
           out == {Redone(p, s, e)}
           q == Result(f, out)
           F == [E EXCEPT ![p] = f]
<1>1. t \in AllowRecords /\ AllowOK(E, S, p, t) /\ e \in EstateRecords
      /\ E \in [Peers -> EstateRecords] /\ e.privee \in Nat \ {0} /\ e.tid \in Nat
      /\ E[Other(p)].privee \in Nat
  BY Ready, EstateFields
<1>2. /\ s \in AllowRecords /\ s.rf = t.rf /\ s.si = t.si /\ s.ti = t.ti /\ s.tx = "ack"
      /\ s.oreo = t.oreo
  BY <1>1 DEF AllowRecords
<1>3. /\ f.sid = e.sid /\ f.rsid = e.rsid /\ f.messages = e.messages /\ f.tid = e.tid
      /\ f.privee = e.privee /\ f.publee = e.publee /\ f.messengers = e.messengers
      /\ f.doneTransactions = e.doneTransactions /\ f.allows = {s}
  BY <1>1, OneIsAll DEF EstateRecords, Acked
<1>4. f \in EstateRecords
  <2>1. (e.allows \ {t}) \cup {s} \in SUBSET AllowRecords
    BY <1>2, OneIsAll
  <2> QED
    BY <1>1, <2>1, Zenon DEF EstateRecords, Acked
<1> HIDE DEF f
<1>5. F[p] = f /\ F[Other(p)] = E[Other(p)]
  BY <1>1, Ready
<1> HIDE DEF F
<1>6. AllowOK(E, S, p, s)
  BY <1>1, <1>2 DEF AllowOK
<1>7. AllowOK(F, S, p, s)
  <2>1. Used(F, S, Other(p), s.si, s.ti)
    BY <1>2, <1>5, <1>6 DEF AllowOK, Used
  <2> QED
    BY <1>2, <1>3, <1>5, <1>6, <2>1 DEF AllowOK
<1>8. PacketOK(E, S, Redone(p, s, e)) /\ Redone(p, s, e).pk # "message"
  BY <1>1, <1>2, <1>6, RedoneOK
<1>9. W([E EXCEPT ![p] = f], N \cup out, S, U, R)
  <2>1. \A u \in f.allows : u \in E[p].allows \/ AllowOK([E EXCEPT ![p] = f], S, p, u)
    BY <1>3, <1>7 DEF F
  <2>2. \A c \in out : /\ PacketOK(E, S, c) \/ PacketOK([E EXCEPT ![p] = f], S, c)
                       /\ c.pk # "message"
    BY <1>8
  <2>3. /\ \A u, v \in f.allows : u = v
        /\ e.tid <= f.tid /\ e.privee <= f.privee /\ f.messengers \subseteq e.messengers
    BY <1>1, <1>3
  <2> HIDE DEF out
  <2> QED
    BY <1>3, <1>4, <2>1, <2>2, <2>3, Quiet
<1>10. q.e = f /\ q.out = out
  BY DEF Result
<1> HIDE DEF out, q
<1>11. W([E EXCEPT ![p] = q.e], N \cup q.out, S, U, R)
  BY <1>9, <1>10
<1>12. Reached(E, N, S, U, R, p, q)
  BY <1>1, <1>11, IsReached
<1> QED
  BY <1>3, <1>12 DEF q, out, f

LEMMA InitiatedMoves ==
  ASSUME NEW E, NEW N, NEW S, NEW U, NEW R, W(E, N, S, U, R), NEW p \in Peers,
         NEW t \in E[p].allows, t.rf, NEW k, NEW r, r = Initiated(p, E[p], t, k)
  PROVE  \/ Reached(E, N, S, U, R, p, r) /\ r.e.sid = E[p].sid
         \/ /\ r.e.sid # E[p].sid
            /\ S[p] < MaxSids => Reached(E, N, [S EXCEPT ![p] = @ + 1], U, R, p, r)
<1> DEFINE e == E[p]
           T == [S EXCEPT ![p] = @ + 1]
<1>1. E \in [Peers -> EstateRecords] /\ e \in EstateRecords /\ e.allowed \in BOOLEAN
      /\ t \in AllowRecords /\ AllowOK(E, S, p, t)
  BY Ready, EstateFields
<1>2. CASE k.body # <<e.publee, t.oreo>>
  <2> DEFINE out == {AllowPkt(p, t, "reject", <<>>)}
             q == Result(Ended(e, t, e.allowed), out)
  <2>1. \A c \in out : PacketOK(E, S, c) /\ c.pk # "message"
    BY <1>1, AllowPktOK DEF Nacks
  <2>2. Ended(e, t, e.allowed) = [e EXCEPT !.allows = @ \ {t}]
    BY <1>1 DEF Ended, EstateRecords
  <2>3. r = q
    BY <1>2, <2>2, Zenon DEF Initiated
  <2> HIDE DEF out
  <2>4. Reached(E, N, S, U, R, p, q) /\ Ended(e, t, e.allowed).sid = e.sid
    BY <1>1, <2>1, Ends
  <2>5. q.e.sid = e.sid
    BY <2>4 DEF Result
  <2> QED
    BY <2>3, <2>4, <2>5
<1>3. CASE k.body = <<e.publee, t.oreo>>
  <2> DEFINE s == [t EXCEPT !.tx = "ack"]
             q == Result(Acked(e, t, s), {Redone(p, s, e)})
             next == StartSession(p, q.e)
  <2>1. r = Result(next.e, q.out \cup next.out)
    <3>1. q.e = Acked(e, t, s) /\ q.out = {Redone(p, s, e)}
      BY DEF Result
    <3> HIDE DEF q
    <3> QED
      BY <1>3, <3>1, Zenon DEF Initiated, Acked
  <2> HIDE DEF s
  <2>2. Reached(E, N, S, U, R, p, q) /\ q.e.sid = e.sid
    <3>1. Reached(E, N, S, U, R, p, q) /\ Acked(e, t, s).sid = e.sid
      BY AckedMoves DEF s
    <3> QED
      BY <3>1 DEF Result
  <2> HIDE DEF q
  <2> DEFINE F == Put(E, p, q)
  <2>3. /\ F \in [Peers -> EstateRecords] /\ F[p] = q.e /\ q.e \in EstateRecords
        /\ W(F, N \cup q.out, S, U, R)
    <3>1. F[p] = q.e
      BY <1>1 DEF Put
    <3> QED
      BY <1>1, <2>2, <3>1, ReachedIs
  <2>4. next.e.sid # q.e.sid
    <3>1. F[p].sid \in Ids /\ IsFiniteSet(F[p].messengers)
          /\ \A x, y \in F[p].messengers : x.ti = y.ti => x = y
      <4> HIDE DEF F
      <4> QED
        BY <2>3, Ready, StartedId DEF W, PeerOK
    <3> QED
      BY <2>3, <3>1, SidMoves
  <2>5. S[p] < MaxSids => Reached(F, N \cup q.out, T, U, R, p, next)
    <3>1. next = StartSession(p, F[p])
      BY <2>3
    <3> HIDE DEF next, F
    <3> QED
      BY <2>3, <3>1, StartSessionMoves
  <2> HIDE DEF next, T
  <2>6. S[p] < MaxSids => Reached(E, N, T, U, R, p, Result(next.e, q.out \cup next.out))
    BY <1>1, <2>5, ReachedThen
  <2>7. r.e = next.e
    BY <2>1 DEF Result
  <2> QED
    BY <2>1, <2>2, <2>4, <2>6, <2>7 DEF T
<1> QED
  BY <1>2, <1>3

(* The end of a handler: a session is counted when the handler has started one. *)
Counts(S, p, e, f) == [S EXCEPT ![p] = IF f.sid # e.sid THEN @ + 1 ELSE @]

Handles(E, N, S, U, R, p, r) ==
  (r.e.sid # E[p].sid => S[p] < MaxSids) => Reached(E, N, Counts(S, p, E[p], r.e), U, R, p, r)

LEMMA HandlesSame ==
  ASSUME NEW E, NEW N, NEW S \in [Peers -> 0 .. MaxSids], NEW U, NEW R, NEW p \in Peers,
         NEW r, Reached(E, N, S, U, R, p, r), r.e.sid = E[p].sid
  PROVE  Handles(E, N, S, U, R, p, r)
<1>1. Counts(S, p, E[p], r.e) = S
  BY DEF Counts
<1> QED
  BY <1>1 DEF Handles

LEMMA HandlesNew ==
  ASSUME NEW E, NEW N, NEW S \in [Peers -> 0 .. MaxSids], NEW U, NEW R, NEW p \in Peers,
         NEW r, r.e.sid # E[p].sid,
         S[p] < MaxSids => Reached(E, N, [S EXCEPT ![p] = @ + 1], U, R, p, r)
  PROVE  Handles(E, N, S, U, R, p, r)
<1>1. Counts(S, p, E[p], r.e) = [S EXCEPT ![p] = @ + 1]
  BY DEF Counts
<1> QED
  BY <1>1 DEF Handles

LEMMA FinalAckMoves ==
  ASSUME NEW E, NEW N, NEW S, NEW U, NEW R, W(E, N, S, U, R), NEW p \in Peers,
         NEW t \in E[p].allows,
         NEW r, r = SendSavedMessages(p, [E[p] EXCEPT !.allows = @ \ {t}])
  PROVE  Reached(E, N, S, U, R, p, r) /\ r.e.sid = E[p].sid
<1> DEFINE e == E[p]
           q == Result(Ended(e, t, e.allowed), {})
           F == Put(E, p, q)
<1>1. E \in [Peers -> EstateRecords] /\ e \in EstateRecords /\ e.allowed \in BOOLEAN
  BY Ready, EstateFields
<1>2. q.e = [e EXCEPT !.allows = @ \ {t}] /\ q.out = {} /\ q.e = Ended(e, t, e.allowed)
  BY <1>1 DEF Result, Ended, EstateRecords
<1>3. Reached(E, N, S, U, R, p, q) /\ q.e.sid = e.sid
  <2> DEFINE b == e.allowed
             out == {}
  <2>1. b \in BOOLEAN /\ \A c \in out : PacketOK(E, S, c) /\ c.pk # "message"
    BY <1>1
  <2> HIDE DEF b, out
  <2>2. Reached(E, N, S, U, R, p, Result(Ended(e, t, b), out)) /\ Ended(e, t, b).sid = e.sid
    BY <2>1, Ends
  <2> QED
    BY <1>2, <2>2 DEF b, out
<1>4. r = SendSavedMessages(p, q.e)
  BY <1>2
<1> HIDE DEF q
<1>5. F[p] = q.e
  BY <1>1 DEF Put
<1>6. F \in [Peers -> EstateRecords] /\ W(F, N \cup q.out, S, U, R)
  BY <1>1, <1>3, ReachedIs
<1>7. Reached(F, N \cup q.out, S, U, R, p, r) /\ r.e.sid = F[p].sid
  <2> DEFINE M == N \cup q.out
  <2>1. W(F, M, S, U, R) /\ r = SendSavedMessages(p, F[p])
    BY <1>4, <1>5, <1>6
  <2> HIDE DEF F, M
  <2>2. Reached(F, M, S, U, R, p, r) /\ r.e.sid = F[p].sid
    BY <2>1, SendSavedMoves
  <2> QED
    BY <2>2 DEF M
<1>8. Reached(E, N, S, U, R, p, Result(r.e, q.out \cup r.out))
  BY <1>1, <1>7, ReachedThen
<1>9. Reached(E, N, S, U, R, p, r)
  <2> DEFINE z == Result(r.e, q.out \cup r.out)
  <2>1. z.e = r.e /\ z.out = r.out
    BY <1>2 DEF Result
  <2>2. Reached(E, N, S, U, R, p, z)
    BY <1>8
  <2> HIDE DEF z
  <2> QED
    BY <2>1, <2>2 DEF Reached
<1> QED
  BY <1>3, <1>5, <1>7, <1>9

LEMMA AckFinalSid ==
  ASSUME NEW E, NEW N, NEW S, NEW U, NEW R, W(E, N, S, U, R), NEW p \in Peers,
         NEW t \in E[p].allows
  PROVE  AckFinal(p, E[p], t).e.sid # E[p].sid
<1> DEFINE e == E[p]
           d == [e EXCEPT !.allowed = TRUE, !.allows = @ \ {t}]
           f == StartSession(p, d).e
<1>1. e \in EstateRecords /\ e.allows \in SUBSET AllowRecords /\ e.sid \in Ids
      /\ IsFiniteSet(e.messengers) /\ \A x, y \in e.messengers : x.ti = y.ti => x = y
  BY Ready, EstateFields, StartedId DEF W, PeerOK
<1>2. e.allows \ {t} \in SUBSET AllowRecords
  BY <1>1
<1>3. d \in EstateRecords
  BY <1>1, <1>2, Zenon DEF EstateRecords
<1>4. d.sid = e.sid /\ d.messengers = e.messengers
  BY <1>1 DEF EstateRecords
<1> HIDE DEF d
<1>5. f.sid # d.sid /\ f \in EstateRecords
  BY <1>1, <1>3, <1>4, SidMoves
<1>6. AckFinal(p, e, t).e = SendSavedMessages(p, f).e
  BY DEF AckFinal, Result, d
<1> HIDE DEF f
<1> DEFINE M == f.messages
           g == [f EXCEPT !.messages = <<>>]
<1>7. M \in Seq(Msgs) /\ <<>> \in Seq(Msgs)
  BY <1>5, EstateFields
<1>8. g \in EstateRecords
  BY <1>5, <1>7, Zenon DEF EstateRecords
<1>9. g.sid = f.sid
  BY <1>5 DEF EstateRecords
<1>10. SendSavedMessages(p, f) = Messages(p, g, M)
  BY DEF SendSavedMessages
<1> HIDE DEF g, M
<1>11. Box(p, g) \in Nat \X Nat
  BY <1>8, EstateFields DEF Box
<1>12. Messages(p, g, M).e.sid = g.sid
  BY <1>7, <1>8, <1>11, MessagesFields
<1> QED
  BY <1>4, <1>5, <1>6, <1>9, <1>10, <1>12

LEMMA AllowerMoves ==
  ASSUME NEW E, NEW N, NEW S, NEW U, NEW R, W(E, N, S, U, R), NEW p \in Peers,
         NEW t \in E[p].allows, ~t.rf, NEW k, PacketOK(E, S, k), k.to = p,
         k.tk = "allow", k.cf, NEW r, r = AllowerReceive(p, E[p], t, k)
  PROVE  Handles(E, N, S, U, R, p, r)
<1> DEFINE e == E[p]
<1>1. E \in [Peers -> EstateRecords] /\ e \in EstateRecords /\ S \in [Peers -> 0 .. MaxSids]
  BY Ready
<1>2. k.pk \in Nacks \cup {"cookie", "ack"}
  BY DEF PacketOK, Kinds
<1>3. CASE k.pk = "cookie"
  <2>1. r = Cookie(p, e, t, k)
    BY <1>3 DEF AllowerReceive, Nacks
  <2>2. W([E EXCEPT ![p] = r.e], N \cup r.out, S, U, R)
    BY <1>3, <2>1, CookieMoves
  <2>3. Reached(E, N, S, U, R, p, r)
    BY <1>1, <2>2, IsReached
  <2>4. r.e.sid = e.sid
    <3> DEFINE u == [t EXCEPT !.tx = "initiate", !.oreo = k.body[1]]
               A == (e.allows \ {t}) \cup {u}
    <3>1. r.e = [e EXCEPT !.publee = k.body[1], !.allows = A]
      BY <2>1 DEF Cookie, Result
    <3> HIDE DEF A
    <3> QED
      BY <1>1, <3>1 DEF EstateRecords
  <2> QED
    BY <1>1, <2>3, <2>4, HandlesSame
<1>4. CASE k.pk = "ack"
  <2>1. r = AckFinal(p, e, t)
    BY <1>4 DEF AllowerReceive, Nacks
  <2>2. CASE S[p] < MaxSids
    <3>1. Reached(E, N, [S EXCEPT ![p] = @ + 1], U, R, p, r) /\ r.e.sid # e.sid
      BY <2>1, <2>2, AckFinalMoves
    <3> QED
      BY <1>1, <3>1, HandlesNew
  <2>3. CASE ~(S[p] < MaxSids)
    <3>1. r.e.sid # e.sid
      BY <2>1, AckFinalSid
    <3> QED
      BY <2>3, <3>1 DEF Handles
  <2> QED
    BY <2>2, <2>3
<1>5. CASE k.pk \in Nacks
  <2>1. r = Refused(e, t, k.pk)
    BY <1>5 DEF AllowerReceive, Nacks
  <2>2. Reached(E, N, S, U, R, p, r) /\ r.e.sid = e.sid
    BY <2>1, RefusedMoves
  <2> QED
    BY <1>1, <2>2, HandlesSame
<1> QED
  BY <1>2, <1>3, <1>4, <1>5

LEMMA AllowentMoves ==
  ASSUME NEW E, NEW N, NEW S, NEW U, NEW R, W(E, N, S, U, R), NEW p \in Peers,
         NEW t \in E[p].allows, t.rf, NEW k, PacketOK(E, S, k), k.to = p,
         k.tk = "allow", ~k.cf, NEW r, r = AllowentReceive(p, E[p], t, k)
  PROVE  Handles(E, N, S, U, R, p, r)
<1> DEFINE e == E[p]
<1>1. E \in [Peers -> EstateRecords] /\ e \in EstateRecords /\ S \in [Peers -> 0 .. MaxSids]
  BY Ready
<1>2. k.pk \in Nacks \cup {"hello", "initiate", "ack"}
  BY DEF PacketOK, Kinds
<1>3. CASE k.pk = "hello"
  <2>1. r = Result(e, {})
    BY <1>3 DEF AllowentReceive, Nacks
  <2>2. Reached(E, N, S, U, R, p, r)
    BY <2>1, Stays
  <2>3. r.e.sid = e.sid
    BY <2>1 DEF Result
  <2> QED
    BY <1>1, <2>2, <2>3, HandlesSame
<1>4. CASE k.pk = "initiate"
  <2>1. r = Initiated(p, e, t, k)
    BY <1>4 DEF AllowentReceive, Nacks
  <2>2. CASE Reached(E, N, S, U, R, p, r) /\ r.e.sid = e.sid
    BY <1>1, <2>2, HandlesSame
  <2>3. CASE /\ r.e.sid # e.sid
             /\ S[p] < MaxSids => Reached(E, N, [S EXCEPT ![p] = @ + 1], U, R, p, r)
    BY <1>1, <2>3, HandlesNew
  <2> QED
    BY <2>1, <2>2, <2>3, InitiatedMoves
<1>5. CASE k.pk = "ack"
  <2>1. r = SendSavedMessages(p, [e EXCEPT !.allows = @ \ {t}])
    BY <1>5 DEF AllowentReceive, Nacks
  <2>2. Reached(E, N, S, U, R, p, r) /\ r.e.sid = e.sid
    BY <2>1, FinalAckMoves
  <2> QED
    BY <1>1, <2>2, HandlesSame
<1>6. CASE k.pk \in Nacks
  <2>1. r = Refused(e, t, k.pk)
    BY <1>6 DEF AllowentReceive, Nacks
  <2>2. Reached(E, N, S, U, R, p, r) /\ r.e.sid = e.sid
    BY <2>1, RefusedMoves
  <2> QED
    BY <1>1, <2>2, HandlesSame
<1> QED
  BY <1>2, <1>3, <1>4, <1>5, <1>6

LEMMA MessengerMoves ==
  ASSUME NEW E, NEW N, NEW S, NEW U, NEW R, W(E, N, S, U, R), NEW p \in Peers,
         NEW x, NEW r, r = MessengerReceive(E[p], x)
  PROVE  Handles(E, N, S, U, R, p, r)
<1> DEFINE e == E[p]
           f == [e EXCEPT !.messengers = @ \ {x}]
           out == {}
<1>1. E \in [Peers -> EstateRecords] /\ e \in EstateRecords /\ S \in [Peers -> 0 .. MaxSids]
      /\ e.tid <= e.tid /\ e.privee <= e.privee /\ (\A t, u \in e.allows : t = u)
      /\ e.messengers \in SUBSET MessengerRecords
  BY Ready, EstateFields DEF W, PeerOK
<1>2. e.messengers \ {x} \in SUBSET MessengerRecords
  BY <1>1
<1>3. f \in EstateRecords
  BY <1>1, <1>2, Zenon DEF EstateRecords
<1>4. /\ f.sid = e.sid /\ f.rsid = e.rsid /\ f.messages = e.messages /\ f.tid = e.tid
      /\ f.privee = e.privee /\ f.publee = e.publee /\ f.messengers \subseteq e.messengers
      /\ f.doneTransactions = e.doneTransactions /\ f.allows = e.allows
  BY <1>1 DEF EstateRecords
<1>5. r.e = f /\ r.out = out
  BY DEF MessengerReceive, Result
<1> HIDE DEF f
<1>6. \A c \in out : PacketOK(E, S, c) /\ c.pk # "message"
  OBVIOUS
<1> HIDE DEF out
<1>7. W([E EXCEPT ![p] = f], N \cup out, S, U, R)
  <2>1. \A t \in f.allows : t \in E[p].allows \/ AllowOK([E EXCEPT ![p] = f], S, p, t)
    BY <1>4
  <2>2. \A t, u \in f.allows : t = u
    BY <1>1, <1>4
  <2>3. /\ E[p].tid <= f.tid /\ E[p].privee <= f.privee
    BY <1>1, <1>4
  <2> QED
    BY <1>3, <1>4, <1>6, <2>1, <2>2, <2>3, Quiet
<1>8. W([E EXCEPT ![p] = r.e], N \cup r.out, S, U, R)
  BY <1>5, <1>7
<1>9. Reached(E, N, S, U, R, p, r)
  BY <1>1, <1>8, IsReached
<1> QED
  BY <1>1, <1>4, <1>5, <1>9, HandlesSame

(* hello() of a new Allowent. *)
LEMMA NewAllowentMoves ==
  ASSUME NEW E, NEW N, NEW S, NEW U, NEW R, W(E, N, S, U, R), NEW p \in Peers,
         NEW k, PacketOK(E, S, k), k.to = p, ~k.cf, k.pk = "hello",
         NEW r, r = Helloed(p, E[p], k)
  PROVE  Handles(E, N, S, U, R, p, r)
<1>1. E \in [Peers -> EstateRecords] /\ E[p] \in EstateRecords /\ S \in [Peers -> 0 .. MaxSids]
  BY Ready
<1>2. W([E EXCEPT ![p] = r.e], N \cup r.out, S, U, R)
  BY HelloedMoves
<1>3. Reached(E, N, S, U, R, p, r)
  BY <1>1, <1>2, IsReached
<1>4. r.e.sid = E[p].sid
  <2> DEFINE e == E[p]
             d == Rekey(e)
             t == [rf |-> TRUE, si |-> k.si, ti |-> k.ti, tx |-> "cookie", oreo |-> d.privee]
  <2>1. d \in EstateRecords /\ d.sid = e.sid
    BY <1>1, Rekeyed
  <2>2. r.e = e \/ r.e = [d EXCEPT !.publee = k.body[1], !.allows = {t}]
    BY DEF Helloed, Result
  <2> HIDE DEF d, t
  <2> QED
    BY <2>1, <2>2 DEF EstateRecords
<1> QED
  BY <1>1, <1>3, <1>4, HandlesSame

(* A delivery spends what it carries. *)
LEMMA DeliveredMoves ==
  ASSUME NEW E, NEW N, NEW S, NEW U, NEW R, W(E, N, S, U, R), NEW p \in Peers,
         NEW k \in N, PacketOK(E, S, k), k.to = p, ~k.cf, k.tk = "message",
         k.pk = "message", k.si = E[p].rsid,
         k.ti \notin E[p].doneTransactions, Readable(p, E[p], k),
         NEW r, r = Result(Handled(E[p], k), {Reply(k, "done")})
  PROVE  /\ Reached(E, N, S, U, [R EXCEPT ![<<k.body[1], k.si>>] = @ + 1], p, r)
         /\ r.e.sid = E[p].sid
<1> DEFINE f == Handled(E[p], k)
           F == [E EXCEPT ![p] = f]
           M == N \cup {Reply(k, "done")}
           x == CarriedBy(k)
           Q == [R EXCEPT ![<<x.m, x.si>>] = @ + 1]
<1>1. E \in [Peers -> EstateRecords] /\ E[p] \in EstateRecords
  BY Ready
<1>2. /\ W(F, M, S, U, R) /\ f \in EstateRecords /\ f.rsid = k.si
      /\ k.ti \in f.doneTransactions /\ f.sid = E[p].sid
  <2> DEFINE pk == "done"
  <2>1. pk \in {"nack", "done"}
    OBVIOUS
  <2> HIDE DEF pk
  <2>2. W([E EXCEPT ![p] = f], N \cup {Reply(k, pk)}, S, U, R)
    BY <2>1, HandledMoves
  <2>3. /\ f \in EstateRecords /\ f.rsid = k.si
        /\ k.ti \in f.doneTransactions /\ f.sid = E[p].sid
    BY <1>1, HandledFacts DEF PacketOK
  <2> QED
    BY <2>2, <2>3 DEF pk
<1>3. r.e = f /\ r.out = {Reply(k, "done")}
  BY DEF Result
<1>4. F[p] = f
  BY <1>1
<1>5. x.m = k.body[1] /\ x.si = k.si /\ x.ti = k.ti /\ x.box = k.body[2]
  BY DEF CarriedBy
<1>6. From[x.m] = Other(p)
  BY <1>5 DEF PacketOK, BodyOK
<1>7. Carried(E, N, x) /\ Carried(F, M, x)
  BY DEF Carried
<1> HIDE DEF f, F, M, x
<1>8. Other(From[x.m]) = p
  BY <1>6, Others
<1>9. Spent(F, x)
  BY <1>2, <1>4, <1>5, <1>8 DEF Spent
<1>10. R[<<x.m, x.si>>] = 0
  <2>1. ~Spent(E, x)
    <3>1. Valid(x.si, E[p].rsid)
      <4>1. Started(S, From[x.m], x.si) /\ S \in [Peers -> 0 .. MaxSids] /\ From[x.m] \in Peers
        BY <1>7, CarriedFacts, Ready
      <4>2. PICK j \in 0 .. MaxSids : x.si = Nth(j)
        BY <4>1, StartedId
      <4>3. j >= j
        BY <4>2, Circle
      <4>4. Valid(Nth(j), Nth(j))
        BY <4>3, NthValid
      <4> QED
        BY <1>5, <4>2, <4>4
    <3>2. ~(Part(p, x.box) < E[p].privee)
      <4>1. Part(p, x.box) = E[p].privee
        BY <1>5, BoxFits DEF Readable
      <4>2. E[p].privee \in Nat
        BY <1>1, EstateFields
      <4> QED
        BY <4>1, <4>2
    <3> QED
      BY <1>5, <1>8, <3>1, <3>2 DEF Spent
  <2> QED
    BY <1>7, <2>1 DEF W, MessagesOK
<1>11. W(F, M, S, U, Q)
  <2> HIDE DEF Q
  <2>1. W(F, M, S, U, [R EXCEPT ![<<x.m, x.si>>] = @ + 1])
    BY <1>2, <1>7, <1>9, <1>10, Counted
  <2> QED
    BY <2>1 DEF Q
<1>12. Q = [R EXCEPT ![<<k.body[1], k.si>>] = @ + 1]
  BY <1>5
<1> HIDE DEF Q
<1>13. W([E EXCEPT ![p] = r.e], N \cup r.out, S, U, Q)
  BY <1>3, <1>11 DEF F, M
<1>14. Reached(E, N, S, U, Q, p, r)
  BY <1>1, <1>13, IsReached
<1> QED
  BY <1>2, <1>3, <1>12, <1>14

LEMMA MessagedMoves ==
  ASSUME NEW E, NEW N, NEW S, NEW U, NEW R, W(E, N, S, U, R), NEW p \in Peers,
         NEW k \in N, PacketOK(E, S, k), k.to = p, ~k.cf, k.tk = "message",
         k.pk = "message", k.si = E[p].rsid, NEW r, r = Messaged(p, E[p], k)
  PROVE  /\ ~IsDelivered(p, E[p], k) => Handles(E, N, S, U, R, p, r)
         /\ IsDelivered(p, E[p], k) =>
              Handles(E, N, S, U, [R EXCEPT ![<<k.body[1], k.si>>] = @ + 1], p, r)
<1> DEFINE e == E[p]
<1>1. E \in [Peers -> EstateRecords] /\ e \in EstateRecords /\ S \in [Peers -> 0 .. MaxSids]
  BY Ready
<1>2. CASE k.ti \in e.doneTransactions
  <2> DEFINE out == {Reply(k, "nack")}
  <2>1. r = Result(e, out) /\ ~IsDelivered(p, e, k)
    BY <1>2 DEF Messaged, IsDelivered
  <2>2. \A c \in out : PacketOK(E, S, c) /\ c.pk # "message"
    <3>1. "nack" \in Kinds(k.tk, ~k.cf) /\ "nack" \in Nacks \cup {"done"}
      BY DEF Kinds, Nacks
    <3> QED
      BY <3>1, ReplyOK
  <2> HIDE DEF out
  <2>3. Reached(E, N, S, U, R, p, r)
    BY <2>1, <2>2, Stays
  <2>4. r.e.sid = e.sid
    BY <2>1 DEF Result
  <2> QED
    BY <1>1, <2>1, <2>3, <2>4, HandlesSame
<1>3. CASE k.ti \notin e.doneTransactions /\ ~e.allowed
  <2> DEFINE f == Handled(e, k)
             out == {Reply(k, "nack")}
  <2>1. r = Result(f, out) /\ ~IsDelivered(p, e, k)
    BY <1>3 DEF Messaged, IsDelivered
  <2>2. r.e = f /\ r.out = out
    BY <2>1 DEF Result
  <2>3. W([E EXCEPT ![p] = f], N \cup out, S, U, R) /\ f.sid = e.sid
    <3> DEFINE pk == "nack"
    <3>1. pk \in {"nack", "done"}
      OBVIOUS
    <3> HIDE DEF pk
    <3>2. W([E EXCEPT ![p] = f], N \cup {Reply(k, pk)}, S, U, R)
      BY <3>1, HandledMoves
    <3>3. f.sid = e.sid
      BY <1>1, HandledFacts DEF PacketOK
    <3> QED
      BY <3>2, <3>3 DEF pk
  <2> HIDE DEF f, out
  <2>4. W([E EXCEPT ![p] = r.e], N \cup r.out, S, U, R)
    BY <2>2, <2>3
  <2>5. Reached(E, N, S, U, R, p, r)
    BY <1>1, <2>4, IsReached
  <2> QED
    BY <1>1, <2>1, <2>2, <2>3, <2>5, HandlesSame
<1>4. CASE k.ti \notin e.doneTransactions /\ e.allowed /\ ~Readable(p, e, k)
  <2> DEFINE out == {}
  <2>1. r = Result(e, out) /\ ~IsDelivered(p, e, k)
    BY <1>4 DEF Messaged, IsDelivered
  <2>2. \A c \in out : PacketOK(E, S, c) /\ c.pk # "message"
    OBVIOUS
  <2> HIDE DEF out
  <2>3. Reached(E, N, S, U, R, p, r)
    BY <2>1, <2>2, Stays
  <2>4. r.e.sid = e.sid
    BY <2>1 DEF Result
  <2> QED
    BY <1>1, <2>1, <2>3, <2>4, HandlesSame
<1>5. CASE k.ti \notin e.doneTransactions /\ e.allowed /\ Readable(p, e, k)
  <2> DEFINE Q == [R EXCEPT ![<<k.body[1], k.si>>] = @ + 1]
  <2>1. r = Result(Handled(e, k), {Reply(k, "done")}) /\ IsDelivered(p, e, k)
    BY <1>5 DEF Messaged, IsDelivered
  <2>2. Reached(E, N, S, U, Q, p, r) /\ r.e.sid = e.sid
    BY <1>5, <2>1, DeliveredMoves
  <2> HIDE DEF Q
  <2>3. Handles(E, N, S, U, Q, p, r)
    BY <1>1, <2>2, HandlesSame
  <2> QED
    BY <2>1, <2>3 DEF Q
<1> QED
  BY <1>1, <1>2, <1>3, <1>4, <1>5, EstateFields

(* trans.receive, stale() and correspond(). *)
LEMMA DispatchMoves ==
  ASSUME NEW E, NEW N, NEW S, NEW U, NEW R, W(E, N, S, U, R), NEW p \in Peers,
         NEW k \in N, PacketOK(E, S, k), k.to = p, ~k.cf => k.si = E[p].rsid,
         NEW r, r = Dispatch(p, E[p], k)
  PROVE  /\ ~IsDelivered(p, E[p], k) => Handles(E, N, S, U, R, p, r)
         /\ IsDelivered(p, E[p], k) =>
              Handles(E, N, S, U, [R EXCEPT ![<<k.body[1], k.si>>] = @ + 1], p, r)
<1> DEFINE e == E[p]
           ts == {t \in e.allows : k.tk = "allow" /\ t.rf # k.cf /\ Same(t, k)}
           xs == {x \in e.messengers : k.tk = "message" /\ k.cf /\ Same(x, k)}
           t == CHOOSE t \in ts : TRUE
           x == CHOOSE x \in xs : TRUE
           nack == IF k.pk \in Nacks THEN {} ELSE {Reply(k, "nack")}
<1>1. E \in [Peers -> EstateRecords] /\ e \in EstateRecords /\ S \in [Peers -> 0 .. MaxSids]
  BY Ready
<1>2. /\ k.tk \in {"allow", "message"} /\ k.cf \in BOOLEAN
      /\ k.pk \in Kinds(k.tk, k.cf) /\ "nack" \in Kinds(k.tk, ~k.cf)
      /\ k.pk = "message" => k.tk = "message" /\ ~k.cf
      /\ k.pk = "hello" => k.tk = "allow" /\ ~k.cf
  BY DEF PacketOK, Kinds, Nacks
<1>3. k.pk # "message" => ~IsDelivered(p, e, k)
  BY DEF IsDelivered
<1>4. /\ ts # {} => t \in ts /\ t \in e.allows /\ k.tk = "allow" /\ t.rf # k.cf
      /\ xs # {} => k.tk = "message" /\ k.cf
  OBVIOUS
<1>5. /\ ts # {} => r = IF t.rf THEN AllowentReceive(p, e, t, k) ELSE AllowerReceive(p, e, t, k)
      /\ xs # {} => r = MessengerReceive(e, x)
      /\ ts = {} /\ xs = {} /\ k.cf => r = Result(e, nack)
      /\ ts = {} /\ ~k.cf /\ k.pk = "hello" => r = Helloed(p, e, k)
      /\ ts = {} /\ ~k.cf /\ k.pk = "message" => r = Messaged(p, e, k)
      /\ ts = {} /\ ~k.cf /\ k.pk \notin {"hello", "message"} => r = Result(e, {})
  <2> DEFINE A == IF t.rf THEN AllowentReceive(p, e, t, k) ELSE AllowerReceive(p, e, t, k)
             B == MessengerReceive(e, x)
             C == Result(e, nack)
             D == Helloed(p, e, k)
             G == Messaged(p, e, k)
             H == Result(e, {})
  <2>1. r = CASE ts # {} -> A
              [] xs # {} -> B
              [] ts = {} /\ xs = {} /\ k.cf -> C
              [] ts = {} /\ ~k.cf /\ k.pk = "hello" -> D
              [] ts = {} /\ ~k.cf /\ k.pk = "message" -> G
              [] OTHER -> H
    BY DEF Dispatch
  <2> HIDE DEF A, B, C, D, G, H, ts, xs, t, x
  <2>2. /\ ts # {} => r = A
        /\ xs # {} => r = B
        /\ ts = {} /\ xs = {} /\ k.cf => r = C
        /\ ts = {} /\ ~k.cf /\ k.pk = "hello" => r = D
        /\ ts = {} /\ ~k.cf /\ k.pk = "message" => r = G
        /\ ts = {} /\ ~k.cf /\ k.pk \notin {"hello", "message"} => r = H
    BY <1>2, <1>4, <2>1
  <2> QED
    BY <2>2 DEF A, B, C, D, G, H
<1> HIDE DEF ts, xs, t, x
<1>6. CASE ts # {}
  <2>1. t \in e.allows /\ k.tk = "allow" /\ t.rf \in BOOLEAN /\ t.rf # k.cf
    BY <1>1, <1>4, <1>6, EstateFields DEF AllowRecords
  <2>2. ~IsDelivered(p, e, k)
    BY <2>1 DEF IsDelivered
  <2>3. CASE t.rf
    <3>1. ~k.cf /\ r = AllowentReceive(p, e, t, k)
      BY <1>2, <1>5, <1>6, <2>1, <2>3
    <3>2. Handles(E, N, S, U, R, p, r)
      BY <2>1, <2>3, <3>1, AllowentMoves
    <3> QED
      BY <2>2, <3>2
  <2>4. CASE ~t.rf
    <3>1. k.cf /\ r = AllowerReceive(p, e, t, k)
      BY <1>2, <1>5, <1>6, <2>1, <2>4
    <3>2. Handles(E, N, S, U, R, p, r)
      BY <2>1, <2>4, <3>1, AllowerMoves
    <3> QED
      BY <2>2, <3>2
  <2> QED
    BY <2>3, <2>4
<1>7. CASE xs # {}
  <2>1. ~IsDelivered(p, e, k)
    BY <1>2, <1>3, <1>4, <1>7
  <2>2. r = MessengerReceive(e, x)
    BY <1>5, <1>7
  <2>3. Handles(E, N, S, U, R, p, r)
    BY <2>2, MessengerMoves
  <2> QED
    BY <2>1, <2>3
<1>8. ASSUME NEW out, r = Result(e, out), \A c \in out : c = Reply(k, "nack"), k.pk # "message"
      PROVE  ~IsDelivered(p, e, k) /\ Handles(E, N, S, U, R, p, r)
  <2>1. \A c \in out : PacketOK(E, S, c) /\ c.pk # "message"
    <3>1. "nack" \in Nacks \cup {"done"}
      BY DEF Nacks
    <3> QED
      BY <1>2, <1>8, <3>1, ReplyOK
  <2>2. Reached(E, N, S, U, R, p, r)
    BY <1>8, <2>1, Stays
  <2>3. r.e.sid = e.sid
    BY <1>8 DEF Result
  <2> QED
    BY <1>1, <1>3, <1>8, <2>2, <2>3, HandlesSame
<1>9. CASE ts = {} /\ xs = {} /\ k.cf
  <2>1. r = Result(e, nack) /\ k.pk # "message"
    BY <1>2, <1>5, <1>9
  <2>2. \A c \in nack : c = Reply(k, "nack")
    OBVIOUS
  <2> HIDE DEF nack
  <2> QED
    BY <1>8, <2>1, <2>2
<1>10. CASE ts = {} /\ ~k.cf /\ k.pk = "hello"
  <2>1. r = Helloed(p, e, k)
    BY <1>5, <1>10
  <2>2. Handles(E, N, S, U, R, p, r)
    BY <1>10, <2>1, NewAllowentMoves
  <2> QED
    BY <1>3, <1>10, <2>2
<1>11. CASE ts = {} /\ ~k.cf /\ k.pk = "message"
  <2>1. r = Messaged(p, e, k) /\ k.tk = "message" /\ k.si = e.rsid
    BY <1>2, <1>5, <1>11
  <2> QED
    BY <1>11, <2>1, MessagedMoves
<1>12. CASE ts = {} /\ ~k.cf /\ k.pk \notin {"hello", "message"}
  <2> DEFINE out == {}
  <2>1. r = Result(e, out) /\ k.pk # "message" /\ \A c \in out : c = Reply(k, "nack")
    BY <1>5, <1>12
  <2> HIDE DEF out
  <2> QED
    BY <1>8, <2>1
<1> QED
  BY <1>2, <1>6, <1>7, <1>9, <1>10, <1>11, <1>12

(* processRx: the session of the packet, then its transaction. *)
IsStale(e, k) == ~k.cf /\ ~Valid(k.si, e.rsid)

Processed(p, e, k) ==
  LET fresh == NewSession(p, e, k)
      done  == Dispatch(p, fresh.e, k)
  IN IF IsStale(e, k) THEN Result(e, IF k.pk \in Nacks THEN {} ELSE {Reply(k, "nack")})
     ELSE Result(done.e, fresh.out \cup done.out)

Received(p, e, k, R) ==
  IF ~IsStale(e, k) /\ IsDelivered(p, NewSession(p, e, k).e, k)
  THEN [R EXCEPT ![<<k.body[1], k.si>>] = @ + 1] ELSE R

LEMMA FreshMoves ==
  ASSUME NEW E, NEW N, NEW S, NEW U, NEW R, W(E, N, S, U, R), NEW p \in Peers,
         NEW k, PacketOK(E, S, k), k.to = p, ~IsStale(E[p], k),
         NEW r, r = NewSession(p, E[p], k)
  PROVE  /\ Reached(E, N, S, U, R, p, r)
         /\ r.e.sid = E[p].sid
         /\ ~k.cf => r.e.rsid = k.si
<1> DEFINE e == E[p]
<1>1. k.cf \in BOOLEAN
  BY DEF PacketOK
<1>2. CASE ~k.cf /\ k.si # e.rsid
  <2>1. r = RemoveStaleCorrespondents(p, [e EXCEPT !.rsid = k.si])
    BY <1>2 DEF NewSession
  <2>2. Valid(k.si, e.rsid)
    BY <1>2 DEF IsStale
  <2> QED
    BY <1>2, <2>1, <2>2, NewSessionMoves
<1>3. CASE ~(~k.cf /\ k.si # e.rsid)
  <2> DEFINE out == {}
  <2>1. r = Result(e, out) /\ \A c \in out : PacketOK(E, S, c) /\ c.pk # "message"
    BY <1>3 DEF NewSession
  <2> HIDE DEF out
  <2>2. Reached(E, N, S, U, R, p, r)
    BY <2>1, Stays
  <2>3. r.e = e
    BY <2>1 DEF Result
  <2> QED
    BY <1>1, <1>3, <2>2, <2>3
<1> QED
  BY <1>2, <1>3

LEMMA ProcessedMoves ==
  ASSUME NEW E, NEW N, NEW S, NEW U, NEW R, W(E, N, S, U, R),
         NEW k \in N, NEW p, p = k.to, NEW r, r = Processed(p, E[p], k),
         r.e.sid # E[p].sid => S[p] < MaxSids
  PROVE  p \in Peers /\ Reached(E, N, Counts(S, p, E[p], r.e), U, Received(p, E[p], k, R), p, r)
<1> DEFINE e == E[p]
           Q == Received(p, e, k, R)
<1>1. PacketOK(E, S, k) /\ p \in Peers /\ k.cf \in BOOLEAN
  BY DEF W, PacketOK
<1>2. E \in [Peers -> EstateRecords] /\ e \in EstateRecords /\ S \in [Peers -> 0 .. MaxSids]
  BY <1>1, Ready
<1>3. CASE IsStale(e, k)
  <2> DEFINE out == IF k.pk \in Nacks THEN {} ELSE {Reply(k, "nack")}
  <2>1. r = Result(e, out) /\ Q = R
    BY <1>3 DEF Processed, Received
  <2>2. \A c \in out : PacketOK(E, S, c) /\ c.pk # "message"
    <3>1. "nack" \in Kinds(k.tk, ~k.cf) /\ "nack" \in Nacks \cup {"done"}
      BY <1>1 DEF Kinds, Nacks
    <3> QED
      BY <1>1, <3>1, ReplyOK
  <2> HIDE DEF out, Q
  <2>3. Reached(E, N, S, U, R, p, r)
    BY <1>1, <2>1, <2>2, Stays
  <2>4. r.e = e
    BY <2>1 DEF Result
  <2>5. Counts(S, p, e, r.e) = S
    BY <1>2, <2>4 DEF Counts
  <2> QED
    BY <1>1, <2>1, <2>3, <2>5 DEF Q
<1>4. CASE ~IsStale(e, k)
  <2> DEFINE q == NewSession(p, e, k)
             F == Put(E, p, q)
             M == N \cup q.out
             done == Dispatch(p, q.e, k)
  <2>1. /\ Reached(E, N, S, U, R, p, q)
        /\ q.e.sid = e.sid
        /\ ~k.cf => q.e.rsid = k.si
    BY <1>1, <1>4, FreshMoves
  <2>2. r = Result(done.e, q.out \cup done.out)
    BY <1>4 DEF Processed
  <2>3. Q = IF IsDelivered(p, q.e, k) THEN [R EXCEPT ![<<k.body[1], k.si>>] = @ + 1] ELSE R
    BY <1>4 DEF Received
  <2> HIDE DEF q, Q
  <2>4. F[p] = q.e
    BY <1>1, <1>2 DEF Put
  <2>5. W(F, M, S, U, R)
    BY <1>1, <1>2, <2>1, ReachedIs
  <2>6. done = Dispatch(p, F[p], k)
    BY <2>4
  <2> HIDE DEF F, M, done
  <2>7. k \in M /\ PacketOK(F, S, k)
    <3>1. k \in M
      BY DEF M
    <3> QED
      BY <2>5, <3>1 DEF W
  <2>8. Handles(F, M, S, U, Q, p, done)
    <3>1. CASE IsDelivered(p, F[p], k)
      <4>1. Q = [R EXCEPT ![<<k.body[1], k.si>>] = @ + 1]
        BY <2>3, <2>4, <3>1
      <4>2. Handles(F, M, S, U, [R EXCEPT ![<<k.body[1], k.si>>] = @ + 1], p, done)
        BY <1>1, <2>1, <2>4, <2>5, <2>6, <2>7, <3>1, DispatchMoves
      <4> QED
        BY <4>1, <4>2
    <3>2. CASE ~IsDelivered(p, F[p], k)
      <4>1. Q = R
        BY <2>3, <2>4, <3>2
      <4>2. Handles(F, M, S, U, R, p, done)
        BY <1>1, <2>1, <2>4, <2>5, <2>6, <2>7, <3>2, DispatchMoves
      <4> QED
        BY <4>1, <4>2
    <3> QED
      BY <3>1, <3>2
  <2>9. r.e = done.e
    BY <2>2 DEF Result
  <2> DEFINE T == Counts(S, p, e, r.e)
  <2>10. Reached(F, M, T, U, Q, p, done)
    <3>1. Counts(S, p, F[p], done.e) = T
      BY <2>1, <2>4, <2>9 DEF Counts
    <3> QED
      BY <2>1, <2>4, <2>8, <2>9, <3>1 DEF Handles
  <2> HIDE DEF T
  <2>11. Reached(E, N, T, U, Q, p, Result(done.e, q.out \cup done.out))
    BY <1>1, <1>2, <2>10, ReachedThen DEF F, M
  <2> QED
    BY <1>1, <2>2, <2>11 DEF T, Q
<1> QED
  BY <1>3, <1>4

-----------------------------------------------------------------------------
(* A stack restarts: with the next session and a new key, and nothing else.  *)

Restarted(e) == NewEstate(NextId(e.sid), e.privee + 1)

LEMMA RestartMoves ==
  ASSUME NEW E, NEW N, NEW S, NEW U, NEW R, W(E, N, S, U, R), NEW p \in Peers,
         S[p] < MaxSids
  PROVE  W([E EXCEPT ![p] = Restarted(E[p])], N, [S EXCEPT ![p] = @ + 1], U, R)
<1> DEFINE e == E[p]
           o == Other(p)
           f == Restarted(e)
           F == [E EXCEPT ![p] = f]
           T == [S EXCEPT ![p] = @ + 1]
<1>1. /\ E \in [Peers -> EstateRecords] /\ e \in EstateRecords /\ S \in [Peers -> 0 .. MaxSids]
      /\ o \in Peers /\ o # p /\ (\A q \in Peers : q = p \/ q = o)
      /\ S[p] \in Nat /\ e.sid = Nth(S[p]) /\ e.privee \in Nat /\ e.tid \in Nat
  BY Ready, EstateFields, Others
<1>2. T \in [Peers -> 0 .. MaxSids] /\ T[p] = S[p] + 1 /\ T[o] = S[o]
  BY <1>1, Circle
<1>3. NextId(e.sid) = Nth(T[p]) /\ NextId(e.sid) \in Nat
  <2>1. S[p] \in 0 .. MaxSids /\ T[p] \in 0 .. MaxSids
    BY <1>1, <1>2
  <2> QED
    BY <1>1, <1>2, <2>1, NthFacts, Circle
<1>4. /\ f \in EstateRecords /\ f.sid = Nth(T[p]) /\ f.rsid = 0 /\ f.publee = 0
      /\ f.privee = e.privee + 1 /\ f.messages = <<>> /\ f.doneTransactions = {}
      /\ f.allows = {} /\ f.messengers = {}
  <2> DEFINE n == NextId(e.sid)
             key == e.privee + 1
  <2>1. n \in Nat /\ key \in Nat \ {0} /\ n = Nth(T[p]) /\ f = NewEstate(n, key)
    BY <1>1, <1>3 DEF Restarted
  <2> HIDE DEF n, f, T
  <2>2. NewEstate(n, key) \in EstateRecords
    <3>1. <<>> \in Seq(Msgs)
      OBVIOUS
    <3> HIDE DEF key
    <3> QED
      BY <2>1, <3>1 DEF NewEstate, EstateRecords
  <2>3. f \in EstateRecords
    BY <2>1, <2>2
  <2> QED
    BY <2>1, <2>3 DEF NewEstate
<1> HIDE DEF f, T
<1>5. F[p] = f /\ F[o] = E[o]
  BY <1>1
<1>6. Typed(F, T, R)
  BY <1>1, <1>2, <1>4 DEF W, Typed
<1> HIDE DEF F
<1>7. \A q \in Peers : PeerOK(E, S, q) /\ E[q].sid = Nth(S[q])
  BY DEF W, PeerOK
<1>8. Grows(E, S, F, T)
  <2>1. \A q \in Peers : E[q].privee \in Nat /\ E[q].tid \in Nat /\ S[q] \in Nat
    BY <1>1, EstateFields, Circle
  <2> QED
    BY <1>1, <1>2, <1>4, <1>5, <1>7, <2>1 DEF Grows
<1>9. PeerOK(F, T, p)
  <2>1. F[o].privee \in Nat /\ 0 <= F[o].privee
    BY <1>1, <1>5, EstateFields
  <2>2. IsFiniteSet(f.messengers)
    BY <1>4, FS_EmptySet
  <2> QED
    BY <1>4, <1>5, <2>1, <2>2 DEF PeerOK
<1>10. /\ \A q \in Peers : PeerOK(F, T, q)
       /\ \A c \in N : PacketOK(F, T, c)
  <2> DEFINE out == {}
  <2>1. \A q \in Peers : q # p => F[q] = E[q] /\ T[q] = S[q]
    BY <1>1, <1>2, <1>5
  <2>2. \A c \in out : PacketOK(F, T, c)
    OBVIOUS
  <2>3. N \cup out = N
    OBVIOUS
  <2> HIDE DEF out
  <2>4. /\ \A q \in Peers : PeerOK(F, T, q)
        /\ \A c \in N \cup out : PacketOK(F, T, c)
    BY <1>6, <1>8, <1>9, <2>1, <2>2, StepKeeps
  <2> QED
    BY <2>3, <2>4
<1>11. \A x : Carried(F, N, x) => Carried(E, N, x)
  BY <1>1, <1>4, <1>5 DEF Carried
<1>12. MessagesOK(E, N, S, U, R)
  BY DEF W
<1>13. ASSUME NEW x, Carried(E, N, x), Spent(E, x) PROVE Spent(F, x)
  <2>1. x.box \in Nat \X Nat /\ From[x.m] \in Peers /\ BoxOK(E, x.box)
    BY <1>13, CarriedFacts
  <2>2. CASE Other(From[x.m]) = p
    <3>1. Part(p, x.box) <= e.privee /\ Part(p, x.box) \in Nat
      BY <2>1 DEF BoxOK, Part, Peers
    <3>2. Part(p, x.box) < F[p].privee
      BY <1>1, <1>4, <1>5, <3>1
    <3> QED
      BY <2>2, <3>2 DEF Spent
  <2>3. CASE Other(From[x.m]) = o
    BY <1>5, <1>13, <2>3 DEF Spent
  <2> QED
    BY <1>1, <2>1, <2>2, <2>3, Others
<1>14. MessagesOK(F, N, T, U, R)
  <2>1. ASSUME NEW q \in Peers, NEW i \in DOMAIN F[q].messages
        PROVE  /\ q = o
               /\ F[q].messages[i] \in U /\ Unsent(F, N, R, q, F[q].messages[i])
    <3>1. q = o
      BY <1>1, <1>4, <1>5, <2>1
    <3> DEFINE m == F[q].messages[i]
    <3>2. m \in U /\ Unsent(E, N, R, q, m)
      BY <1>5, <1>12, <2>1, <3>1 DEF MessagesOK
    <3> HIDE DEF m
    <3>3. Unsent(F, N, R, q, m)
      BY <1>5, <1>11, <3>1, <3>2 DEF Unsent
    <3> QED
      BY <3>1, <3>2, <3>3 DEF m
  <2>2. \A q \in Peers : \A i, j \in DOMAIN F[q].messages :
          F[q].messages[i] = F[q].messages[j] => i = j
    BY <1>1, <1>5, <1>12, <2>1 DEF MessagesOK
  <2>3. ASSUME NEW m \in Msgs, NEW s \in Ids, R[<<m, s>>] # 0
        PROVE  m \in U /\ Started(T, From[m], s)
    <3>1. m \in U /\ Started(S, From[m], s)
      BY <1>12, <2>3 DEF MessagesOK
    <3>2. From[m] \in Peers
      BY FromAssumption
    <3> QED
      BY <1>1, <1>2, <1>8, <3>1, <3>2, StartedGrows
  <2>4. /\ \A x, y : /\ Carried(F, N, x) /\ Carried(F, N, y) /\ x.m = y.m /\ x.si = y.si
                     => x = y
        /\ \A x : Carried(F, N, x) => x.m \in U
        /\ \A x : Carried(F, N, x) /\ R[<<x.m, x.si>>] # 0 => Spent(F, x)
    BY <1>11, <1>12, <1>13 DEF MessagesOK
  <2> QED
    BY <2>1, <2>2, <2>3, <2>4 DEF MessagesOK
<1>15. W(F, N, T, U, R)
  BY <1>6, <1>10, <1>14 DEF W
<1> QED
  BY <1>15 DEF F, f, T

-----------------------------------------------------------------------------
(* The steps of the system.                                                  *)

LEMMA KeyBound ==
  ASSUME NEW E \in [Peers -> EstateRecords], \A q \in Peers : E[q].privee <= MaxKey,
         NEW p \in Peers, NEW f, f.privee <= MaxKey
  PROVE  \A q \in Peers : [E EXCEPT ![p] = f][q].privee <= MaxKey
OBVIOUS

(* Send may drop its packets, when the network is full. *)
LEMMA Sent ==
  ASSUME NEW E, NEW S, NEW U, NEW R, NEW out, W(E, net \cup out, S, U, R), Send(out)
  PROVE  W(E, net', S, U, R)
<1>1. net' \subseteq net \cup out
  BY DEF Send
<1> QED
  BY <1>1, Fewer

LEMMA AllowStep ==
  ASSUME IInv, NEW p \in Peers, Allow(p)
  PROVE  IInv'
<1> DEFINE r == Hello(p, estate[p])
<1>1. /\ estate[p].allows = {} /\ r.e.privee <= MaxKey
      /\ estate' = [estate EXCEPT ![p] = r.e] /\ Send(r.out)
      /\ sessions' = sessions /\ submitted' = submitted /\ rxMsgs' = rxMsgs /\ raised' = raised
      /\ timely' = timely
  BY DEF Allow
<1>2. W([estate EXCEPT ![p] = r.e], net \cup r.out, sessions, submitted, rxMsgs)
  BY <1>1, HelloMoves DEF IInv
<1> HIDE DEF r
<1>3. W(estate', net', sessions, submitted, rxMsgs)
  BY <1>1, <1>2, Sent
<1>4. \A q \in Peers : estate'[q].privee <= MaxKey
  BY <1>1, KeyBound DEF IInv, W, Typed
<1> QED
  BY <1>1, <1>3, <1>4 DEF IInv

LEMMA SubmitStep ==
  ASSUME IInv, NEW m \in Msgs, Submit(m)
  PROVE  IInv'
<1> DEFINE p == From[m]
           r == Messages(p, estate[p], <<m>>)
           U == submitted \cup {m}
<1>1. /\ m \notin submitted /\ estate' = [estate EXCEPT ![p] = r.e] /\ Send(r.out)
      /\ sessions' = sessions /\ submitted' = U /\ rxMsgs' = rxMsgs /\ raised' = raised
      /\ timely' = timely /\ p \in Peers
  BY FromAssumption DEF Submit
<1>2. Reached(estate, net, sessions, U, rxMsgs, p, r) /\ r.e.privee = estate[p].privee
  BY <1>1, SubmitMoves DEF IInv
<1>3. U \subseteq Msgs
  BY DEF IInv
<1> HIDE DEF r, p, U
<1>4. W([estate EXCEPT ![p] = r.e], net \cup r.out, sessions, U, rxMsgs)
  BY <1>2 DEF Reached
<1>5. W(estate', net', sessions, U, rxMsgs)
  BY <1>1, <1>4, Sent
<1>6. \A q \in Peers : estate'[q].privee <= MaxKey
  BY <1>1, <1>2, KeyBound DEF IInv, W, Typed
<1> QED
  BY <1>1, <1>3, <1>5, <1>6 DEF IInv

LEMMA RedoStep ==
  ASSUME IInv, NEW p \in Peers, Redo(p)
  PROVE  IInv'
<1>1. /\ estate' = estate /\ sessions' = sessions /\ submitted' = submitted
      /\ rxMsgs' = rxMsgs /\ raised' = raised /\ timely' = timely
  BY DEF Redo
<1>2. W(estate, net, sessions, submitted, rxMsgs)
  BY DEF IInv
<1>3. ASSUME NEW k, PacketOK(estate, sessions, k), Send({k}),
             k.pk = "message" => Carried(estate, net, CarriedBy(k))
      PROVE  W(estate, net', sessions, submitted, rxMsgs)
  <2> DEFINE out == {k}
  <2>1. /\ \A c \in out : PacketOK(estate, sessions, c)
        /\ \A c \in out : c.pk = "message" => Carried(estate, net, CarriedBy(c))
    BY <1>3
  <2>2. Send(out)
    BY <1>3
  <2> HIDE DEF out
  <2>3. W(estate, net \cup out, sessions, submitted, rxMsgs)
    BY <1>2, <2>1, SendMoves
  <2> QED
    BY <2>2, <2>3, Sent
<1>4. ASSUME NEW t \in estate[p].allows, Send({Redone(p, t, estate[p])})
      PROVE  W(estate, net', sessions, submitted, rxMsgs)
  <2>1. /\ t \in AllowRecords /\ AllowOK(estate, sessions, p, t)
        /\ estate[p].privee \in Nat \ {0} /\ estate[Other(p)].privee \in Nat
    BY <1>2, Ready, EstateFields
  <2> DEFINE k == Redone(p, t, estate[p])
  <2>2. PacketOK(estate, sessions, k) /\ k.pk # "message"
    BY <2>1, RedoneOK
  <2>3. Send({k})
    BY <1>4
  <2> HIDE DEF k
  <2> QED
    BY <1>3, <2>2, <2>3
<1>5. ASSUME NEW x \in estate[p].messengers, Send({MessagePkt(p, x)})
      PROVE  W(estate, net', sessions, submitted, rxMsgs)
  <2>1. /\ x \in MessengerRecords /\ From[x.m] = p /\ BoxOK(estate, x.box)
        /\ Used(estate, sessions, p, x.si, x.ti) /\ Carried(estate, net, x)
    <3>1. MessengerOK(estate, p, x) /\ x \in MessengerRecords
      BY <1>2, Ready, EstateFields DEF W, PeerOK
    <3>2. Carried(estate, net, x)
      BY DEF Carried
    <3> QED
      BY <1>2, <3>1, <3>2, CarriedFacts DEF MessengerOK
  <2> DEFINE k == MessagePkt(p, x)
  <2>2. PacketOK(estate, sessions, k) /\ CarriedBy(k) = x
    BY <2>1, MessagePktOK
  <2>3. Send({k})
    BY <1>5
  <2> HIDE DEF k
  <2> QED
    BY <1>3, <2>1, <2>2, <2>3
<1>6. W(estate, net', sessions, submitted, rxMsgs)
  BY <1>4, <1>5 DEF Redo
<1> QED
  BY <1>1, <1>6 DEF IInv

LEMMA TimeoutStep ==
  ASSUME IInv, NEW p \in Peers, Timeout(p)
  PROVE  IInv'
<1>1. PICK t \in estate[p].allows :
        /\ estate' = [estate EXCEPT ![p] = Forget(@, t).e]
        /\ Send(IF t.rf THEN {AllowPkt(p, t, "refuse", <<>>)} ELSE {})
  BY DEF Timeout
<1>2. /\ sessions' = sessions /\ submitted' = submitted /\ rxMsgs' = rxMsgs /\ raised' = raised
      /\ timely' \in BOOLEAN
  BY DEF Timeout
<1> DEFINE out == IF t.rf THEN {AllowPkt(p, t, "refuse", <<>>)} ELSE {}
           f == [estate[p] EXCEPT !.allows = @ \ {t}]
<1>3. W(estate, net, sessions, submitted, rxMsgs)
  BY DEF IInv
<1>4. \A c \in out : PacketOK(estate, sessions, c) /\ c.pk # "message"
  <2>1. t \in AllowRecords /\ AllowOK(estate, sessions, p, t)
    BY <1>3, Ready
  <2>2. "refuse" \in Nacks \cup {"ack"}
    BY DEF Nacks
  <2> QED
    BY <2>1, <2>2, AllowPktOK
<1>5. estate' = [estate EXCEPT ![p] = f] /\ Send(out)
  BY <1>1 DEF Forget, Result
<1> HIDE DEF out
<1>6. W([estate EXCEPT ![p] = f], net \cup out, sessions, submitted, rxMsgs)
  <2>1. TRUE \in BOOLEAN
    OBVIOUS
  <2> QED
    BY <1>3, <1>4, <2>1, EndMoves
<1>7. f.privee = estate[p].privee
  BY <1>3, Ready DEF EstateRecords
<1> HIDE DEF f
<1>8. W(estate', net', sessions, submitted, rxMsgs)
  BY <1>5, <1>6, Sent
<1>9. \A q \in Peers : estate'[q].privee <= MaxKey
  BY <1>5, <1>7, KeyBound DEF IInv, W, Typed
<1> QED
  BY <1>2, <1>8, <1>9 DEF IInv

LEMMA RestartStep ==
  ASSUME IInv, NEW p \in Peers, Restart(p)
  PROVE  IInv'
<1> DEFINE f == Restarted(estate[p])
           T == [sessions EXCEPT ![p] = @ + 1]
<1>1. /\ estate' = [estate EXCEPT ![p] = f] /\ sessions' = T /\ sessions[p] < MaxSids
      /\ estate[p].privee < MaxKey
      /\ net' = net /\ submitted' = submitted /\ rxMsgs' = rxMsgs /\ raised' = raised
      /\ timely' \in BOOLEAN
  BY DEF Restart, Restarted
<1>2. W([estate EXCEPT ![p] = f], net, T, submitted, rxMsgs)
  BY <1>1, RestartMoves DEF IInv
<1>3. f.privee <= MaxKey
  <2>1. f.privee = estate[p].privee + 1
    BY DEF Restarted, NewEstate
  <2>2. estate[p].privee \in Nat
    BY Ready, EstateFields DEF IInv
  <2> QED
    BY <1>1, <2>1, <2>2, BoundAssumption
<1> HIDE DEF f, T
<1>4. \A q \in Peers : estate'[q].privee <= MaxKey
  BY <1>1, <1>3, KeyBound DEF IInv, W, Typed
<1> QED
  BY <1>1, <1>2, <1>4 DEF IInv

LEMMA LoseStep ==
  ASSUME IInv, NEW k \in net, Lose(k)
  PROVE  IInv'
<1>1. /\ estate' = estate /\ sessions' = sessions /\ submitted' = submitted
      /\ rxMsgs' = rxMsgs /\ raised' = raised /\ timely' = timely /\ net' \subseteq net
  BY DEF Lose
<1>2. W(estate, net', sessions, submitted, rxMsgs)
  BY <1>1, Fewer DEF IInv
<1> QED
  BY <1>1, <1>2 DEF IInv

LEMMA ReceiveStep ==
  ASSUME IInv, NEW k \in net, NEW copies, Receive(k, copies)
  PROVE  IInv'
<1> DEFINE p == k.to
           e == estate[p]
           r == Processed(p, e, k)
           T == Counts(sessions, p, e, r.e)
           Q == Received(p, e, k, rxMsgs)
<1>1. /\ r.e.privee <= MaxKey
      /\ r.e.sid # e.sid => sessions[p] < MaxSids
      /\ estate' = [estate EXCEPT ![p] = r.e] /\ sessions' = T
      /\ net' \subseteq net \cup r.out /\ rxMsgs' = Q
      /\ submitted' = submitted /\ raised' \in BOOLEAN /\ timely' = timely
  <2> DEFINE fresh == NewSession(p, e, k)
             done == Dispatch(p, fresh.e, k)
             stale == ~k.cf /\ ~Valid(k.si, e.rsid)
             result == IF stale THEN Result(e, IF k.pk \in Nacks THEN {} ELSE {Reply(k, "nack")})
                       ELSE Result(done.e, fresh.out \cup done.out)
             path == (net \ ({k} \ copies)) \cup result.out
  <2>1. /\ result.e.privee <= MaxKey
        /\ result.e.sid # e.sid => sessions[p] < MaxSids
        /\ estate' = [estate EXCEPT ![p] = result.e]
        /\ sessions' = [sessions EXCEPT ![p] = IF result.e.sid # e.sid THEN @ + 1 ELSE @]
        /\ net' = IF Cardinality(path) <= MaxNet THEN path ELSE net \ ({k} \ copies)
        /\ rxMsgs' = IF ~stale /\ IsDelivered(p, fresh.e, k)
                     THEN [rxMsgs EXCEPT ![<<k.body[1], k.si>>] = @ + 1] ELSE rxMsgs
        /\ raised' = (raised \/ (~stale /\ IsRaised(p, fresh.e, k)))
        /\ submitted' = submitted /\ timely' = timely
    BY Zenon DEF Receive
  <2>2. result = r
    BY DEF Processed, IsStale
  <2>3. rxMsgs' = Q
    BY <2>1 DEF Received, IsStale
  <2>4. raised' \in BOOLEAN
    BY <2>1
  <2> HIDE DEF result, r, Q, stale
  <2>5. net' \subseteq net \cup r.out
    BY <2>1, <2>2
  <2>6. sessions' = T
    BY <2>1, <2>2 DEF Counts
  <2> QED
    BY <2>1, <2>2, <2>3, <2>4, <2>5, <2>6
<1>2. p \in Peers /\ Reached(estate, net, T, submitted, Q, p, r)
  <2> HIDE DEF p
  <2>1. p = k.to
    BY DEF p
  <2> QED
    BY <1>1, <2>1, ProcessedMoves DEF IInv
<1> HIDE DEF p, r, T, Q
<1>3. W([estate EXCEPT ![p] = r.e], net \cup r.out, T, submitted, Q)
  BY <1>2 DEF Reached
<1>4. W(estate', net', sessions', submitted, rxMsgs')
  BY <1>1, <1>3, Fewer
<1>5. \A q \in Peers : estate'[q].privee <= MaxKey
  BY <1>1, <1>2, KeyBound DEF IInv, W, Typed
<1> QED
  BY <1>1, <1>4, <1>5 DEF IInv

LEMMA InvariantInit ==
  ASSUME Init
  PROVE  IInv
<1> DEFINE e == NewEstate(FirstSid, 1)
<1>1. /\ estate = [p \in Peers |-> e] /\ net = {} /\ sessions = [p \in Peers |-> 0]
      /\ submitted = {} /\ rxMsgs = [x \in Msgs \X Ids |-> 0] /\ raised = FALSE
      /\ timely = TRUE
  BY DEF Init
<1>2. /\ e \in EstateRecords /\ e.sid = FirstSid /\ e.rsid = 0 /\ e.publee = 0 /\ e.privee = 1
      /\ e.messages = <<>> /\ e.doneTransactions = {} /\ e.allows = {} /\ e.messengers = {}
  <2>1. FirstSid \in Nat /\ <<>> \in Seq(Msgs)
    BY Circle
  <2> QED
    BY <2>1 DEF NewEstate, EstateRecords
<1> HIDE DEF e
<1>3. Typed(estate, sessions, rxMsgs)
  BY <1>1, <1>2, Circle DEF Typed
<1>4. \A p \in Peers : estate[p] = e /\ sessions[p] = 0
  BY <1>1
<1>5. ASSUME NEW p \in Peers PROVE PeerOK(estate, sessions, p)
  <2>1. e.sid = Nth(sessions[p]) /\ IsFiniteSet(e.messengers)
    BY <1>2, <1>4, NthFacts, Circle, FS_EmptySet
  <2>2. estate[Other(p)] = e
    BY <1>4, Others
  <2>3. /\ e.publee <= e.privee /\ e.rsid = 0
        /\ \A d \in e.doneTransactions : d <= e.tid
        /\ \A t, u \in e.allows : t = u
        /\ \A t \in e.allows : AllowOK(estate, sessions, p, t)
        /\ \A x, y \in e.messengers : x.ti = y.ti => x = y
        /\ \A x \in e.messengers : MessengerOK(estate, p, x)
    BY <1>2
  <2>4. estate[p] = e
    BY <1>4
  <2> QED
    BY <2>1, <2>2, <2>3, <2>4 DEF PeerOK
<1>6. \A x : ~Carried(estate, net, x)
  BY <1>1, <1>2, <1>4 DEF Carried
<1>7. MessagesOK(estate, net, sessions, submitted, rxMsgs)
  BY <1>1, <1>2, <1>4, <1>6 DEF MessagesOK
<1>8. W(estate, net, sessions, submitted, rxMsgs)
  BY <1>1, <1>3, <1>5, <1>7 DEF W
<1>9. \A p \in Peers : estate[p].privee <= MaxKey
  BY <1>2, <1>4, BoundAssumption
<1> QED
  BY <1>1, <1>8, <1>9 DEF IInv

LEMMA InvariantStep ==
  ASSUME IInv, [Next]_vars
  PROVE  IInv'
<1>1. CASE Next
  BY <1>1, AllowStep, SubmitStep, RedoStep, TimeoutStep, RestartStep, LoseStep, ReceiveStep
     DEF Next
<1>2. CASE UNCHANGED vars
  BY <1>2 DEF vars, IInv
<1> QED
  BY <1>1, <1>2

(* The invariant of the allow transactions, sessions and messages holds. *)
THEOREM Invariant == Spec => []IInv
<1>1. Init => IInv
  BY InvariantInit
<1>2. IInv /\ [Next]_vars => IInv'
  BY InvariantStep
<1> QED
  BY <1>1, <1>2, PTL DEF Spec

-----------------------------------------------------------------------------
(* What the invariant shows.                                                 *)

LEMMA PacketTyped ==
  ASSUME IInv, NEW k \in net
  PROVE  k \in Packets
<1>1. PacketOK(estate, sessions, k)
  BY DEF IInv, W
<1>2. k.to \in Peers /\ Other(k.to) \in Peers /\ k.cf \in BOOLEAN
  BY <1>1, Others DEF PacketOK
<1>3. \A p \in Peers : estate[p].privee \in Nat /\ estate[p].privee <= MaxKey
  BY Ready, EstateFields DEF IInv
<1>4. k.si \in Ids
  <2>1. Started(sessions, Initiator(k), k.si) /\ Initiator(k) \in Peers
    BY <1>1, <1>2 DEF PacketOK, Used, Initiator
  <2>2. sessions \in [Peers -> 0 .. MaxSids]
    BY DEF IInv, W, Typed
  <2> QED
    BY <2>1, <2>2, StartedId
<1>5. k.body \in Payloads
  <2> DEFINE n == estate[Other(k.to)].privee
             c == estate[k.to].privee
  <2>1. n \in Nat /\ n <= MaxKey /\ c \in Nat /\ c <= MaxKey /\ MaxKey \in Nat
    BY <1>2, <1>3, BoundAssumption
  <2>2. BodyOK(estate, k)
    BY <1>1 DEF PacketOK
  <2>3. CASE k.pk \in {"hello", "cookie"}
    <3>1. PICK i \in 1 .. n : k.body = <<i>>
      BY <2>2, <2>3 DEF BodyOK
    <3>2. i \in 1 .. MaxKey
      BY <2>1, <3>1
    <3> QED
      BY <3>1, <3>2 DEF Payloads
  <2>4. CASE k.pk = "initiate"
    <3>1. PICK i \in 1 .. n, j \in 1 .. c : k.body = <<i, j>>
      BY <2>2, <2>4 DEF BodyOK
    <3>2. i \in 1 .. MaxKey /\ j \in 1 .. MaxKey
      BY <2>1, <3>1
    <3> QED
      BY <3>1, <3>2 DEF Payloads
  <2>5. CASE k.pk = "message"
    <3>1. PICK m \in Msgs, box \in Nat \X Nat : k.body = <<m, box>> /\ BoxOK(estate, box)
      BY <2>2, <2>5 DEF BodyOK
    <3>2. box \in (0 .. MaxKey) \X (0 .. MaxKey)
      BY <1>3, <2>1, <3>1 DEF BoxOK, Peers
    <3> QED
      BY <3>1, <3>2 DEF Payloads
  <2>6. CASE k.pk \notin {"hello", "cookie", "initiate", "message"}
    <3>1. k.body = <<>>
      BY <2>2, <2>6 DEF BodyOK
    <3> QED
      BY <3>1 DEF Payloads
  <2> QED
    BY <2>3, <2>4, <2>5, <2>6
<1>6. k.pk \in {"hello", "cookie", "initiate", "ack", "message", "done"} \cup Nacks
  BY <1>1 DEF PacketOK, Kinds, Nacks
<1> DEFINE B == Payloads
<1> HIDE DEF B
<1>7. k.body \in B
  BY <1>5 DEF B
<1>8. k \in [tk: {"allow", "message"},
             pk: {"hello", "cookie", "initiate", "ack", "message", "done"} \cup Nacks,
             to: Peers, cf: BOOLEAN, si: Ids, ti: Nat \ {0}, body: B]
  BY <1>1, <1>2, <1>4, <1>6, <1>7 DEF PacketOK
<1> QED
  BY <1>8 DEF Packets, B

LEMMA EstateTyped ==
  ASSUME IInv, NEW p \in Peers
  PROVE  estate[p] \in Estates
<1> DEFINE e == estate[p]
           A == [rf: BOOLEAN, si: Ids, ti: Nat,
                 tx: {"hello", "initiate", "cookie", "ack"}, oreo: 0 .. MaxKey]
           M == [m: Msgs, si: Ids, ti: Nat, box: (0 .. MaxKey) \X (0 .. MaxKey)]
<1>1. W(estate, net, sessions, submitted, rxMsgs)
  BY DEF IInv
<1>2. e \in EstateRecords /\ PeerOK(estate, sessions, p)
      /\ sessions \in [Peers -> 0 .. MaxSids] /\ Other(p) \in Peers
  BY <1>1, Ready DEF W
<1>3. \A q \in Peers : estate[q].privee \in 1 .. MaxKey /\ MaxKey \in Nat
  BY <1>1, Ready, EstateFields, BoundAssumption DEF IInv
<1>4. e.sid \in Ids /\ e.rsid \in Ids \cup {0} /\ e.publee \in 0 .. MaxKey
  <2>1. e.sid \in Ids
    BY <1>1, <1>2, Ready, StartedId
  <2>2. e.rsid \in Ids \cup {0}
    BY <1>2, StartedId DEF PeerOK
  <2>3. e.publee \in Nat /\ e.publee <= estate[Other(p)].privee
    BY <1>2, EstateFields DEF PeerOK
  <2> QED
    BY <1>2, <1>3, <2>1, <2>2, <2>3
<1>5. e.allows \in SUBSET A
  <2> SUFFICES ASSUME NEW t \in e.allows PROVE t \in A
    OBVIOUS
  <2>1. t \in AllowRecords /\ AllowOK(estate, sessions, p, t)
    BY <1>1, Ready
  <2>2. t.si \in Ids
    BY <1>2, <2>1, StartedId DEF AllowOK, Used
  <2>3. t.oreo \in 0 .. MaxKey
    <3>1. t.oreo \in Nat
      BY <2>1 DEF AllowRecords
    <3>2. \E q \in Peers : t.oreo <= estate[q].privee
      BY <1>2, <2>1 DEF AllowOK
    <3> QED
      BY <1>3, <3>1, <3>2
  <2> QED
    BY <2>1, <2>2, <2>3 DEF AllowRecords
<1>6. e.messengers \in SUBSET M
  <2> SUFFICES ASSUME NEW x \in e.messengers PROVE x \in M
    OBVIOUS
  <2>1. Carried(estate, net, x)
    BY DEF Carried
  <2>2. x \in MessengerRecords /\ x.si \in Ids /\ x.box \in Nat \X Nat /\ BoxOK(estate, x.box)
    BY <1>1, <2>1, CarriedFacts
  <2>3. x.box \in (0 .. MaxKey) \X (0 .. MaxKey)
    BY <1>3, <2>2 DEF BoxOK, Peers
  <2> QED
    BY <2>2, <2>3 DEF MessengerRecords
<1>7. /\ e.tid \in Nat /\ e.allowed \in BOOLEAN /\ e.privee \in 1 .. MaxKey
      /\ e.messages \in Seq(Msgs) /\ e.doneTransactions \in SUBSET Nat
  BY <1>2, <1>3, EstateFields
<1> HIDE DEF A, M
<1>8. e \in [sid: Ids, rsid: Ids \cup {0}, tid: Nat, allowed: BOOLEAN,
             privee: 1 .. MaxKey, publee: 0 .. MaxKey, messages: Seq(Msgs),
             doneTransactions: SUBSET Nat, allows: SUBSET A, messengers: SUBSET M]
  BY <1>2, <1>4, <1>5, <1>6, <1>7 DEF EstateRecords
<1> QED
  BY <1>8 DEF Estates, A, M

(* Every variable keeps its type: what the handlers of RemoteEstate, Allower,
   Allowent and the message transactions leave behind is well formed. *)
THEOREM Types == Spec => []TypeOK
<1>1. IInv => TypeOK
  <2> SUFFICES ASSUME IInv PROVE TypeOK
    OBVIOUS
  <2>1. /\ DOMAIN estate = Peers /\ sessions \in [Peers -> 0 .. MaxSids]
        /\ rxMsgs \in [Msgs \X Ids -> 0 .. 1] /\ submitted \subseteq Msgs
        /\ raised \in BOOLEAN /\ timely \in BOOLEAN
    BY DEF IInv, W, Typed
  <2>2. rxMsgs \in [Msgs \X Ids -> Nat]
    BY <2>1
  <2>3. net \subseteq Packets
    BY PacketTyped
  <2>4. \A p \in Peers : estate[p] \in Estates
    BY EstateTyped
  <2> QED
    BY <2>1, <2>2, <2>3, <2>4 DEF TypeOK
<1> QED
  BY <1>1, Invariant, PTL

(* The two stacks' handshakes never leave a stack with two allow transactions
   for the other, as initiator, correspondent or one of each. *)
THEOREM OneAllowAtATime == Spec => []OneAllow
<1>1. IInv => OneAllow
  <2> SUFFICES ASSUME IInv, NEW p \in Peers PROVE Cardinality(estate[p].allows) <= 1
    BY DEF OneAllow
  <2>1. \A t, u \in estate[p].allows : t = u
    BY DEF IInv, W, PeerOK
  <2>2. CASE estate[p].allows = {}
    BY <2>2, FS_EmptySet
  <2>3. CASE estate[p].allows # {}
    <3>1. PICK t \in estate[p].allows : estate[p].allows = {t}
      BY <2>1, <2>3
    <3>2. Cardinality({t}) = 1
      BY FS_Singleton
    <3> QED
      BY <3>1, <3>2
  <2> QED
    BY <2>2, <2>3
<1> QED
  BY <1>1, Invariant, PTL

(* A message is delivered once in a session at most: whatever is repeated,
   reordered, saved for the next session or sent again after a restart. *)
THEOREM DeliveredOnce == Spec => []OncePerSession
<1>1. IInv => OncePerSession
  BY DEF IInv, W, Typed, OncePerSession
<1> QED
  BY <1>1, Invariant, PTL

(* What a stack initiates now is never taken for stale, nor for done. *)
THEOREM CurrentTaken == Spec => []CurrentIsFresh
<1>1. IInv => CurrentIsFresh
  <2> SUFFICES ASSUME IInv, NEW p \in Peers
               PROVE  /\ Valid(estate[p].sid, estate[Other(p)].rsid)
                      /\ estate[Other(p)].rsid = estate[p].sid =>
                           \A t \in estate[Other(p)].doneTransactions : t <= estate[p].tid
                      /\ \A k \in net : k.to = Other(p) /\ ~k.cf /\ k.si = estate[p].sid
                                          => k.ti <= estate[p].tid
    BY DEF CurrentIsFresh
  <2> DEFINE o == Other(p)
  <2>1. /\ PeerOK(estate, sessions, o) /\ Other(o) = p /\ o \in Peers
        /\ sessions \in [Peers -> 0 .. MaxSids] /\ estate[p].sid = Nth(sessions[p])
    BY Others, Ready DEF IInv, W
  <2>2. Valid(estate[p].sid, estate[o].rsid)
    <3>1. CASE estate[o].rsid = 0
      BY <3>1 DEF Valid
    <3>2. CASE estate[o].rsid # 0
      <4>1. Started(sessions, p, estate[o].rsid)
        BY <2>1, <3>2 DEF PeerOK
      <4>2. PICK j \in 0 .. MaxSids : j <= sessions[p] /\ estate[o].rsid = Nth(j)
        BY <2>1, <4>1, StartedId
      <4>3. sessions[p] \in 0 .. MaxSids /\ sessions[p] >= j
        BY <2>1, <4>2, Circle
      <4> QED
        BY <2>1, <4>2, <4>3, NthValid
    <3> QED
      BY <3>1, <3>2
  <2>3. estate[o].rsid = estate[p].sid =>
          \A t \in estate[o].doneTransactions : t <= estate[p].tid
    BY <2>1 DEF PeerOK
  <2>4. ASSUME NEW k \in net, k.to = o, ~k.cf, k.si = estate[p].sid
        PROVE  k.ti <= estate[p].tid
    BY <2>1, <2>4 DEF IInv, W, PacketOK, Used, Initiator
  <2> QED
    BY <2>2, <2>3, <2>4
<1> QED
  BY <1>1, Invariant, PTL

-----------------------------------------------------------------------------
(* The keys of a handshake, while no Allowent ends before the Allower it      *)
(* answers.  Everything is about an Allower that waits, and the one Allowent  *)
(* that may answer it; whatever is left of other handshakes does not fit.     *)

Match(E) == \A p \in Peers : E[p].publee = E[Other(p)].privee

(* K belongs to the handshake that p's Allower t has begun. *)
Of(p, t, k) == k.tk = "allow" /\ Initiator(k) = p /\ Same(t, k)

Answered(E, p, t) == \E s \in E[Other(p)].allows : s.rf /\ Same(s, t)

(* The packets there may be of the handshake of an Allower that waits. *)
Expected(E, p, t, k) ==
  \/ ~k.cf /\ k.pk = "hello" /\ k.body = <<E[p].privee>>
  \/ ~k.cf /\ k.pk = "initiate" /\ k.body = <<E[p].privee, E[Other(p)].privee>> /\ t.tx = "initiate"
  \/ k.cf /\ k.pk = "cookie" /\ k.body = <<E[Other(p)].privee>> /\ Answered(E, p, t)
  \/ k.cf /\ k.pk = "ack" /\ \E s \in E[Other(p)].allows : s.rf /\ Same(s, t) /\ s.tx = "ack"
  \/ k.cf /\ k.pk \in Nacks

AllowerOK(E, N, p, t) ==
  /\ ~E[p].allowed /\ t.si = E[p].sid /\ t.ti <= E[p].tid
  /\ t.tx = "initiate" =>
       Answered(E, p, t) /\ t.oreo = E[Other(p)].privee /\ E[p].publee = E[Other(p)].privee
  /\ \A s \in E[Other(p)].allows : s.rf /\ Same(s, t) =>
       E[Other(p)].publee = E[p].privee /\ (s.tx = "ack" => t.tx = "initiate")
  /\ \A k \in N : Of(p, t, k) => Expected(E, p, t, k)

AllowentOK(E, p, t) == t.oreo = E[p].privee /\ (t.tx = "ack" <=> E[p].allowed)

SideOK(E, N, p) ==
  \A t \in E[p].allows : IF t.rf THEN AllowentOK(E, p, t) ELSE AllowerOK(E, N, p, t)

(* K is an initiate that would make p, which waits for it, allow the other. *)
Accepts(E, p, t, k) ==
  /\ t.rf /\ t.tx = "cookie"
  /\ k.tk = "allow" /\ k.pk = "initiate" /\ ~k.cf /\ k.to = p /\ Same(t, k)
  /\ k.body = <<E[p].publee, t.oreo>>

Accepting(E, N, p) == \E t \in E[p].allows, k \in N : Accepts(E, p, t, k)

Handshakes(E, N) ==
  /\ \A p \in Peers : SideOK(E, N, p)
  /\ \A p \in Peers : Accepting(E, N, p) => ~E[Other(p)].allowed /\ ~Accepting(E, N, Other(p))
  /\ E["a"].allowed /\ E["b"].allowed => Match(E)

(* What W says of packets and transactions that matters here. *)
Regular(E, N) ==
  /\ \A q \in Peers : E[q].allowed \in BOOLEAN /\ E[q].tid \in Nat
  /\ \A q \in Peers : \A t, u \in E[q].allows : t = u
  /\ \A q \in Peers : \A t \in E[q].allows :
       /\ t.rf \in BOOLEAN /\ t.ti \in Nat
       /\ t.tx \in (IF t.rf THEN {"cookie", "ack"} ELSE {"hello", "initiate"})
  /\ \A k \in N : k.to \in Peers /\ k.cf \in BOOLEAN

LEMMA IsRegular ==
  ASSUME NEW E, NEW N, NEW S, NEW U, NEW R, W(E, N, S, U, R)
  PROVE  Regular(E, N)
<1>1. \A q \in Peers : \A t, u \in E[q].allows : t = u
  BY DEF W, PeerOK
<1>2. \A q \in Peers : /\ E[q].allowed \in BOOLEAN /\ E[q].tid \in Nat
                       /\ \A t \in E[q].allows : t.rf \in BOOLEAN /\ t.ti \in Nat
  BY Ready, EstateFields DEF AllowRecords
<1>3. ASSUME NEW q \in Peers, NEW t \in E[q].allows
      PROVE  t.tx \in (IF t.rf THEN {"cookie", "ack"} ELSE {"hello", "initiate"})
  BY <1>3 DEF W, PeerOK, AllowOK
<1>4. \A k \in N : k.to \in Peers /\ k.cf \in BOOLEAN
  BY DEF W, PacketOK
<1> QED
  BY <1>1, <1>2, <1>3, <1>4 DEF Regular

LEMMA Halves ==
  ASSUME NEW F, NEW M, NEW p \in Peers, SideOK(F, M, p), SideOK(F, M, Other(p)),
         Accepting(F, M, p) => ~F[Other(p)].allowed /\ ~Accepting(F, M, Other(p)),
         Accepting(F, M, Other(p)) => ~F[p].allowed,
         F[p].allowed /\ F[Other(p)].allowed => Match(F)
  PROVE  Handshakes(F, M)
<1>1. /\ Other(p) # p /\ Other(Other(p)) = p
      /\ \A q \in Peers : q = p \/ q = Other(p)
  BY Others
<1>2. \A q \in Peers : SideOK(F, M, q)
  BY <1>1
<1>3. \A q \in Peers : Accepting(F, M, q) => ~F[Other(q)].allowed /\ ~Accepting(F, M, Other(q))
  BY <1>1
<1>4. F["a"].allowed /\ F["b"].allowed => F[p].allowed /\ F[Other(p)].allowed
  BY DEF Peers, Other
<1> QED
  BY <1>2, <1>3, <1>4 DEF Handshakes

(* Packets that are not sent after all. *)
LEMMA FewerHandshakes ==
  ASSUME NEW E, NEW N, Handshakes(E, N), NEW M, M \subseteq N
  PROVE  Handshakes(E, M)
<1>1. \A p \in Peers : Accepting(E, M, p) => Accepting(E, N, p)
  BY DEF Accepting
<1>2. \A p \in Peers : \A t : AllowerOK(E, N, p, t) => AllowerOK(E, M, p, t)
  BY DEF AllowerOK
<1>3. \A p \in Peers : SideOK(E, M, p)
  BY <1>2 DEF Handshakes, SideOK
<1>4. \A p \in Peers : Other(p) \in Peers
  BY Others
<1> QED
  BY <1>1, <1>3, <1>4 DEF Handshakes

(* A packet no Allower waits for. *)
Idle(E, c) ==
  c.tk = "allow" =>
    \/ c.cf /\ c.pk \in Nacks
    \/ ~c.cf /\ c.pk # "initiate" /\ \A t \in E[Initiator(c)].allows : ~t.rf => ~Same(t, c)

LEMMA IdleFits ==
  ASSUME NEW E, NEW p, NEW t \in E[p].allows, ~t.rf, NEW c, Idle(E, c), Of(p, t, c)
  PROVE  Expected(E, p, t, c)
BY DEF Idle, Of, Expected

LEMMA IdleAccepts ==
  ASSUME NEW E, NEW F, NEW p, NEW t, NEW c, Idle(F, c)
  PROVE  ~Accepts(E, p, t, c)
BY DEF Idle, Accepts, Nacks

(* An Allower that the other side's new estate answers as little as the old. *)
LEMMA Unanswered ==
  ASSUME NEW E, NEW N, NEW q, NEW F, NEW M, F[q] = E[q],
         NEW u \in E[q].allows, u.tx \in {"hello", "initiate"}, AllowerOK(E, N, q, u),
         ~Answered(E, q, u), ~Answered(F, q, u),
         \A c \in M : Of(q, u, c) => c \in N \/ Expected(F, q, u, c)
  PROVE  AllowerOK(F, M, q, u)
<1>1. u.tx # "initiate"
  BY DEF AllowerOK
<1>2. ASSUME NEW c \in N, Of(q, u, c) PROVE Expected(F, q, u, c)
  <2>1. Expected(E, q, u, c)
    BY <1>2 DEF AllowerOK
  <2> QED
    BY <1>1, <2>1 DEF Expected, Answered
<1>3. \A c \in M : Of(q, u, c) => Expected(F, q, u, c)
  BY <1>2
<1>4. \A s \in F[Other(q)].allows : ~(s.rf /\ Same(s, u))
  BY DEF Answered
<1> QED
  BY <1>1, <1>3, <1>4 DEF AllowerOK

SameKeys(f, e) ==
  f.allows = e.allows /\ f.privee = e.privee /\ f.publee = e.publee /\ f.allowed = e.allowed

(* The other side's view of an Allower of q, when p's keys stay and no Allowent
   of p that answers it goes. *)
LEMMA OtherSide ==
  ASSUME NEW E, NEW N, Handshakes(E, N), NEW q \in Peers, NEW F, NEW M, F[q] = E[q],
         F[Other(q)].privee = E[Other(q)].privee,
         \A u \in E[q].allows : ~u.rf =>
           /\ Answered(E, q, u) => Answered(F, q, u)
           /\ \A s \in F[Other(q)].allows : s.rf /\ Same(s, u) =>
                /\ F[Other(q)].publee = E[q].privee
                /\ s.tx = "ack" => u.tx = "initiate"
           /\ (\E s \in E[Other(q)].allows : s.rf /\ Same(s, u) /\ s.tx = "ack") =>
                \E s \in F[Other(q)].allows : s.rf /\ Same(s, u) /\ s.tx = "ack"
           /\ \A c \in M : Of(q, u, c) => c \in N \/ Expected(F, q, u, c)
  PROVE  SideOK(F, M, q)
<1> SUFFICES ASSUME NEW u \in E[q].allows
             PROVE  IF u.rf THEN AllowentOK(F, q, u) ELSE AllowerOK(F, M, q, u)
  BY DEF SideOK
<1>1. IF u.rf THEN AllowentOK(E, q, u) ELSE AllowerOK(E, N, q, u)
  BY DEF Handshakes, SideOK
<1>2. CASE u.rf
  BY <1>1, <1>2 DEF AllowentOK
<1>3. CASE ~u.rf
  <2>1. AllowerOK(E, N, q, u)
    BY <1>1, <1>3
  <2>2. ASSUME NEW c \in N, Of(q, u, c) PROVE Expected(F, q, u, c)
    <3>1. Expected(E, q, u, c)
      BY <2>1, <2>2 DEF AllowerOK
    <3> QED
      BY <1>3, <3>1 DEF Expected
  <2>3. \A c \in M : Of(q, u, c) => Expected(F, q, u, c)
    BY <1>3, <2>2
  <2>4. /\ ~F[q].allowed /\ u.si = F[q].sid /\ u.ti <= F[q].tid
        /\ u.tx = "initiate" => Answered(F, q, u) /\ u.oreo = F[Other(q)].privee
                                  /\ F[q].publee = F[Other(q)].privee
    BY <1>3, <2>1 DEF AllowerOK
  <2>5. AllowerOK(F, M, q, u)
    BY <1>3, <2>3, <2>4 DEF AllowerOK
  <2> QED
    BY <1>3, <2>5
<1> QED
  BY <1>2, <1>3

(* No key changes; a transaction may end that nobody waits for, with nothing
   sent but what nobody waits for. *)
LEMMA Unmoved ==
  ASSUME NEW E, NEW N, Handshakes(E, N), Regular(E, N), NEW p \in Peers,
         NEW F, F[Other(p)] = E[Other(p)],
         F[p].privee = E[p].privee, F[p].publee = E[p].publee,
         F[p].allows \subseteq E[p].allows, F[p].allowed => E[p].allowed,
         F[p].allows # {} =>
           F[p].allowed = E[p].allowed /\ F[p].sid = E[p].sid
             /\ F[p].tid \in Nat /\ E[p].tid <= F[p].tid,
         \A t \in E[p].allows : t.rf /\ t \notin F[p].allows =>
            \A u \in E[Other(p)].allows : ~u.rf => ~Same(t, u),
         NEW M, \A c \in M : c \in N \/ Idle(F, c)
  PROVE  Handshakes(F, M)
<1> DEFINE q == Other(p)
<1>1. /\ q \in Peers /\ q # p /\ Other(q) = p
      /\ \A r \in Peers : r = p \/ r = q
  BY Others
<1>2. \A t \in F[p].allows : t \in E[p].allows /\ t.rf \in BOOLEAN /\ t.ti \in Nat /\ E[p].tid \in Nat
  BY DEF Regular
<1>3. SideOK(F, M, p)
  <2> SUFFICES ASSUME NEW t \in F[p].allows
               PROVE  IF t.rf THEN AllowentOK(F, p, t) ELSE AllowerOK(F, M, p, t)
    BY DEF SideOK
  <2>1. IF t.rf THEN AllowentOK(E, p, t) ELSE AllowerOK(E, N, p, t)
    BY <1>2 DEF Handshakes, SideOK
  <2>2. CASE t.rf
    BY <2>1, <2>2 DEF AllowentOK
  <2>3. CASE ~t.rf
    <3>1. AllowerOK(E, N, p, t)
      BY <2>1, <2>3
    <3>2. t.ti <= F[p].tid
      BY <1>2, <3>1 DEF AllowerOK
    <3>3. \A c : Expected(E, p, t, c) => Expected(F, p, t, c)
      BY DEF Expected, Answered
    <3>4. \A c \in M : Of(p, t, c) => Expected(F, p, t, c)
      BY <2>3, <3>1, <3>3, IdleFits DEF AllowerOK
    <3>5. AllowerOK(F, M, p, t)
      BY <3>1, <3>2, <3>4 DEF AllowerOK, Answered
    <3> QED
      BY <2>3, <3>5
  <2> QED
    BY <2>2, <2>3
<1>4. SideOK(F, M, q)
  <2>1. ASSUME NEW u \in E[q].allows, ~u.rf, NEW s \in E[p].allows, s.rf, Same(s, u)
        PROVE  s \in F[p].allows
    BY <2>1
  <2>2. ASSUME NEW u \in E[q].allows, ~u.rf
        PROVE  /\ Answered(E, q, u) => Answered(F, q, u)
               /\ \A s \in F[p].allows : s.rf /\ Same(s, u) =>
                    /\ F[p].publee = E[q].privee
                    /\ s.tx = "ack" => u.tx = "initiate"
               /\ (\E s \in E[p].allows : s.rf /\ Same(s, u) /\ s.tx = "ack") =>
                    \E s \in F[p].allows : s.rf /\ Same(s, u) /\ s.tx = "ack"
               /\ \A c \in M : Of(q, u, c) => c \in N \/ Expected(F, q, u, c)
    <3>1. AllowerOK(E, N, q, u)
      BY <1>1, <2>2 DEF Handshakes, SideOK
    <3>2. Answered(E, q, u) => Answered(F, q, u)
      BY <1>1, <2>1, <2>2 DEF Answered
    <3>3. \A s \in F[p].allows : s.rf /\ Same(s, u) =>
            F[p].publee = E[q].privee /\ (s.tx = "ack" => u.tx = "initiate")
      BY <1>1, <3>1 DEF AllowerOK
    <3>4. \A c \in M : Of(q, u, c) => c \in N \/ Expected(F, q, u, c)
      BY <2>2, IdleFits
    <3> QED
      BY <2>1, <2>2, <3>2, <3>3, <3>4
  <2> QED
    BY <1>1, <2>2, OtherSide
<1>5. \A r \in Peers : Accepting(F, M, r) => Accepting(E, N, r)
  <2> SUFFICES ASSUME NEW r \in Peers, Accepting(F, M, r) PROVE Accepting(E, N, r)
    OBVIOUS
  <2>1. PICK t \in F[r].allows, c \in M : Accepts(F, r, t, c)
    BY DEF Accepting
  <2>2. c \in N /\ t \in E[r].allows
    BY <1>1, <2>1, IdleAccepts
  <2>3. Accepts(E, r, t, c)
    BY <1>1, <2>1 DEF Accepts
  <2> QED
    BY <2>2, <2>3 DEF Accepting
<1>6. Match(E) => Match(F)
  BY <1>1 DEF Match
<1>7. F[p].allowed /\ F[q].allowed => Match(F)
  <2>1. F[p].allowed /\ F[q].allowed => E["a"].allowed /\ E["b"].allowed
    BY <1>1 DEF Peers
  <2> QED
    BY <1>6, <2>1 DEF Handshakes
<1>8. /\ Accepting(F, M, p) => ~F[q].allowed /\ ~Accepting(F, M, q)
      /\ Accepting(F, M, q) => ~F[p].allowed
  BY <1>1, <1>5 DEF Handshakes
<1> QED
  BY <1>3, <1>4, <1>7, <1>8, Halves

(* Allower.hello: a new handshake, that no packet and no correspondent knows. *)
LEMMA Asked ==
  ASSUME NEW E, NEW N, Handshakes(E, N), Regular(E, N), NEW p \in Peers, E[p].allows = {},
         NEW F, F[Other(p)] = E[Other(p)], ~F[p].allowed,
         NEW t, F[p].allows = {t}, ~t.rf, t.tx = "hello", t.si = F[p].sid, t.ti <= F[p].tid,
         NEW i, i.pk = "hello", ~i.cf, i.to = Other(p), i.body = <<F[p].privee>>,
         \A k \in N : ~Of(p, t, k),
         \A s \in E[Other(p)].allows : s.rf => ~Same(s, t),
         NEW M, \A c \in M : c \in N \/ c = i
  PROVE  Handshakes(F, M)
<1> DEFINE q == Other(p)
<1>1. /\ q \in Peers /\ q # p /\ Other(q) = p /\ Initiator(i) = p
  BY Others DEF Initiator
<1>2. SideOK(F, M, p)
  <2>1. \A c \in M : Of(p, t, c) => Expected(F, p, t, c)
    BY DEF Expected
  <2>2. AllowerOK(F, M, p, t)
    BY <2>1 DEF AllowerOK
  <2> QED
    BY <2>2 DEF SideOK
<1>3. SideOK(F, M, q)
  <2> SUFFICES ASSUME NEW u \in E[q].allows
               PROVE  IF u.rf THEN AllowentOK(F, q, u) ELSE AllowerOK(F, M, q, u)
    BY DEF SideOK
  <2>1. IF u.rf THEN AllowentOK(E, q, u) ELSE AllowerOK(E, N, q, u)
    BY <1>1 DEF Handshakes, SideOK
  <2>2. CASE u.rf
    BY <2>1, <2>2 DEF AllowentOK
  <2>3. CASE ~u.rf
    <3>1. ~Answered(E, q, u) /\ ~Answered(F, q, u)
      BY <1>1 DEF Answered
    <3>2. u.tx \in {"hello", "initiate"}
      BY <1>1, <2>3 DEF Regular
    <3>3. \A c \in M : Of(q, u, c) => c \in N
      BY <1>1 DEF Of
    <3>4. AllowerOK(F, M, q, u)
      BY <1>1, <2>1, <2>3, <3>1, <3>2, <3>3, Unanswered
    <3> QED
      BY <2>3, <3>4
  <2> QED
    BY <2>2, <2>3
<1>4. ~Accepting(F, M, p)
  BY DEF Accepting, Accepts
<1> QED
  BY <1>2, <1>3, <1>4, Halves

(* A restart, when no Allower of the other side waits for an answer. *)
LEMMA Begun ==
  ASSUME NEW E, NEW N, Handshakes(E, N), Regular(E, N), NEW p \in Peers,
         NEW F, F[Other(p)] = E[Other(p)], ~F[p].allowed, F[p].allows = {},
         \A u \in E[Other(p)].allows : ~u.rf => ~Answered(E, Other(p), u)
  PROVE  Handshakes(F, N)
<1> DEFINE q == Other(p)
<1>1. q \in Peers /\ q # p /\ Other(q) = p
  BY Others
<1>2. SideOK(F, N, p) /\ ~Accepting(F, N, p)
  BY DEF SideOK, Accepting
<1>3. SideOK(F, N, q)
  <2> SUFFICES ASSUME NEW u \in E[q].allows
               PROVE  IF u.rf THEN AllowentOK(F, q, u) ELSE AllowerOK(F, N, q, u)
    BY DEF SideOK
  <2>1. IF u.rf THEN AllowentOK(E, q, u) ELSE AllowerOK(E, N, q, u)
    BY <1>1 DEF Handshakes, SideOK
  <2>2. CASE u.rf
    BY <2>1, <2>2 DEF AllowentOK
  <2>3. CASE ~u.rf
    <3>1. ~Answered(E, q, u) /\ ~Answered(F, q, u)
      BY <1>1, <2>3 DEF Answered
    <3>2. u.tx \in {"hello", "initiate"}
      BY <1>1, <2>3 DEF Regular
    <3>3. AllowerOK(F, N, q, u)
      BY <1>1, <2>1, <2>3, <3>1, <3>2, Unanswered
    <3> QED
      BY <2>3, <3>3
  <2> QED
    BY <2>2, <2>3
<1> QED
  BY <1>2, <1>3, Halves

(* P's key was not known before. *)
Unknown(F, N, p) ==
  \A c \in N : \A n : c.pk = "initiate" /\ c.to = p => c.body # <<n, F[p].privee>>

(* P answers hello k with cookie i. *)
Greeted(F, p, s, k, i) ==
  /\ ~F[p].allowed /\ F[p].allows = {s} /\ F[p].publee = k.body[1]
  /\ s.rf /\ s.tx = "cookie" /\ s.oreo = F[p].privee /\ Same(s, k) /\ Same(s, i)
  /\ k.tk = "allow" /\ k.pk = "hello" /\ ~k.cf /\ k.to = p
  /\ i.pk = "cookie" /\ i.cf /\ i.to = Other(p) /\ i.body = <<F[p].privee>>

(* Allowent.hello: an Allower that waits for it is one that said hello with its
   present key, and has no other Allowent. *)
LEMMA Accepted ==
  ASSUME NEW E, NEW N, Handshakes(E, N), Regular(E, N), NEW p \in Peers,
         \A t \in E[p].allows : ~t.rf,
         NEW F, F[Other(p)] = E[Other(p)],
         NEW s, NEW k \in N, NEW i, Greeted(F, p, s, k, i),
         Unknown(F, N, p),
         NEW M, \A c \in M : c \in N \/ c = i \/ Idle(F, c)
  PROVE  Handshakes(F, M)
<1>0. /\ ~F[p].allowed /\ F[p].allows = {s} /\ F[p].publee = k.body[1]
      /\ s.rf /\ s.tx = "cookie" /\ s.oreo = F[p].privee /\ Same(s, k) /\ Same(s, i)
      /\ k.tk = "allow" /\ k.pk = "hello" /\ ~k.cf /\ k.to = p
      /\ i.pk = "cookie" /\ i.cf /\ i.to = Other(p) /\ i.body = <<F[p].privee>>
  BY DEF Greeted
<1> USE <1>0
<1> DEFINE q == Other(p)
<1>1. /\ q \in Peers /\ q # p /\ Other(q) = p /\ Initiator(i) = q /\ Initiator(k) = q
  BY Others DEF Initiator
<1>2. SideOK(F, M, p)
  BY DEF SideOK, AllowentOK
<1>3. SideOK(F, M, q)
  <2> SUFFICES ASSUME NEW u \in E[q].allows
               PROVE  IF u.rf THEN AllowentOK(F, q, u) ELSE AllowerOK(F, M, q, u)
    BY DEF SideOK
  <2>1. IF u.rf THEN AllowentOK(E, q, u) ELSE AllowerOK(E, N, q, u)
    BY <1>1 DEF Handshakes, SideOK
  <2>2. CASE u.rf
    BY <2>1, <2>2 DEF AllowentOK
  <2>3. CASE ~u.rf
    <3>1. /\ AllowerOK(E, N, q, u) /\ ~Answered(E, q, u) /\ u.tx = "hello"
      BY <1>1, <2>1, <2>3 DEF AllowerOK, Answered, Regular
    <3>2. Same(s, u) => F[p].publee = E[q].privee
      <4>1. Same(s, u) => Of(q, u, k)
        BY <1>1 DEF Of, Same
      <4>2. Of(q, u, k) => k.body = <<E[q].privee>>
        BY <3>1 DEF AllowerOK, Expected
      <4> QED
        BY <4>1, <4>2
    <3>3. Of(q, u, i) => Same(s, u) /\ Answered(F, q, u)
      BY <1>1 DEF Of, Same, Answered
    <3>4. ASSUME NEW c \in M, Of(q, u, c) PROVE Expected(F, q, u, c)
      <4>1. CASE c \in N
        <5>1. Expected(E, q, u, c)
          BY <3>1, <3>4, <4>1 DEF AllowerOK
        <5> QED
          BY <1>1, <3>1, <5>1 DEF Expected, Answered
      <4>2. CASE c = i
        BY <1>1, <3>3, <3>4, <4>2 DEF Expected
      <4>3. CASE Idle(F, c)
        BY <2>3, <3>4, <4>3, IdleFits
      <4> QED
        BY <4>1, <4>2, <4>3
    <3>5. \A a \in F[p].allows : a = s
      OBVIOUS
    <3>6. AllowerOK(F, M, q, u)
      BY <1>1, <3>1, <3>2, <3>4, <3>5 DEF AllowerOK
    <3> QED
      BY <2>3, <3>6
  <2> QED
    BY <2>2, <2>3
<1>4. ~Accepting(F, M, p)
  <2> SUFFICES ASSUME NEW t \in F[p].allows, NEW c \in M, Accepts(F, p, t, c)
               PROVE  FALSE
    BY DEF Accepting
  <2>1. c \in N
    BY IdleAccepts DEF Accepts
  <2> QED
    BY <2>1 DEF Accepts, Unknown
<1> QED
  BY <1>2, <1>3, <1>4, Halves

(* Allower.cookie: the one Allowent there is sent it, with its present key. *)
LEMMA Cookied ==
  ASSUME NEW E, NEW N, Handshakes(E, N), Regular(E, N), NEW p \in Peers,
         NEW t, E[p].allows = {t}, ~t.rf,
         NEW k \in N, k.tk = "allow", k.pk = "cookie", k.cf, k.to = p, Same(t, k),
         NEW F, F[Other(p)] = E[Other(p)], F[p].allowed = E[p].allowed,
         F[p].privee = E[p].privee, F[p].publee = k.body[1],
         F[p].sid = E[p].sid, F[p].tid = E[p].tid,
         NEW s, F[p].allows = {s}, ~s.rf, s.tx = "initiate", s.si = t.si, s.ti = t.ti,
         s.oreo = k.body[1],
         NEW i, i.pk = "initiate", ~i.cf, i.to = Other(p), i.body = <<F[p].privee, k.body[1]>>,
         NEW M, \A c \in M : c \in N \/ c = i
  PROVE  Handshakes(F, M)
<1> DEFINE q == Other(p)
<1>1. /\ q \in Peers /\ q # p /\ Other(q) = p /\ Initiator(k) = p
  BY Others DEF Initiator
<1>2. AllowerOK(E, N, p, t) /\ Of(p, t, k)
  BY <1>1 DEF Handshakes, SideOK, Of
<1>3. k.body = <<E[q].privee>> /\ Answered(E, p, t)
  BY <1>2 DEF AllowerOK, Expected, Nacks
<1>4. k.body[1] = E[q].privee
  BY <1>3
<1>5. SideOK(F, M, p)
  <2>1. ASSUME NEW c \in M, Of(p, s, c) PROVE Expected(F, p, s, c)
    <3>1. CASE c = i
      BY <1>4, <3>1 DEF Expected
    <3>2. CASE c \in N
      <4>1. Of(p, t, c)
        BY <2>1 DEF Of, Same
      <4>2. Expected(E, p, t, c)
        BY <1>2, <3>2, <4>1 DEF AllowerOK
      <4>3. \A a : Same(a, t) <=> Same(a, s)
        BY DEF Same
      <4> QED
        BY <4>2, <4>3 DEF Expected, Answered
    <3> QED
      BY <3>1, <3>2
  <2>2. \A a : Same(a, t) <=> Same(a, s)
    BY DEF Same
  <2>3. Answered(F, p, s)
    BY <1>3, <2>2 DEF Answered
  <2>4. AllowerOK(F, M, p, s)
    BY <1>2, <1>4, <2>1, <2>2, <2>3 DEF AllowerOK
  <2> QED
    BY <2>4 DEF SideOK
<1>6. \A u \in E[q].allows : u.rf
  BY <1>1, <1>3 DEF Answered, Regular
<1>7. SideOK(F, M, q)
  BY <1>1, <1>6 DEF Handshakes, SideOK, AllowentOK
<1>8. ~Accepting(F, M, p)
  BY DEF Accepting, Accepts
<1>9. ~F[p].allowed
  BY <1>2 DEF AllowerOK
<1> QED
  BY <1>5, <1>7, <1>8, <1>9, Halves

(* Allower.allow: the Allowent's last word is its ack, and keys are those it
   allowed the other side for. *)
LEMMA Agreed ==
  ASSUME NEW E, NEW N, Handshakes(E, N), Regular(E, N), NEW p \in Peers,
         NEW t, E[p].allows = {t}, ~t.rf,
         NEW k \in N, k.tk = "allow", k.pk = "ack", k.cf, k.to = p, Same(t, k),
         NEW F, F[Other(p)] = E[Other(p)], F[p].allows = {},
         F[p].privee = E[p].privee, F[p].publee = E[p].publee,
         NEW M, \A c \in M : c \in N \/ Idle(F, c)
  PROVE  Handshakes(F, M)
<1> DEFINE q == Other(p)
<1>1. /\ q \in Peers /\ q # p /\ Other(q) = p /\ Initiator(k) = p
      /\ \A r \in Peers : r = p \/ r = q
  BY Others DEF Initiator
<1>2. AllowerOK(E, N, p, t) /\ Of(p, t, k)
  BY <1>1 DEF Handshakes, SideOK, Of
<1>3. PICK s \in E[q].allows : s.rf /\ Same(s, t) /\ s.tx = "ack"
  BY <1>2 DEF AllowerOK, Expected, Nacks
<1>4. Match(F)
  BY <1>1, <1>2, <1>3 DEF AllowerOK, Match
<1>5. \A u \in E[q].allows : u = s
  BY <1>1, <1>3 DEF Regular
<1>6. SideOK(F, M, q)
  BY <1>1, <1>3, <1>5 DEF Handshakes, SideOK, AllowentOK
<1>7. SideOK(F, M, p) /\ ~Accepting(F, M, p)
  BY DEF SideOK, Accepting
<1>8. ~Accepting(F, M, q)
  BY <1>3, <1>5 DEF Accepting, Accepts
<1> QED
  BY <1>4, <1>6, <1>7, <1>8, Halves

(* Allowent.allow: an initiate with both keys, for the first time or again. *)
LEMMA Acknowledged ==
  ASSUME NEW E, NEW N, Handshakes(E, N), Regular(E, N), NEW p \in Peers,
         NEW t, E[p].allows = {t}, t.rf,
         NEW k \in N, k.tk = "allow", k.pk = "initiate", ~k.cf, k.to = p, Same(t, k),
         k.body = <<E[p].publee, t.oreo>>,
         NEW F, F[Other(p)] = E[Other(p)], F[p].allowed,
         F[p].privee = E[p].privee, F[p].publee = E[p].publee,
         NEW s, F[p].allows = {s}, s.rf, s.tx = "ack", s.si = t.si, s.ti = t.ti, s.oreo = t.oreo,
         NEW i, i.pk = "ack", i.cf, i.to = Other(p), Same(s, i),
         NEW M, \A c \in M : c \in N \/ c = i \/ Idle(F, c)
  PROVE  Handshakes(F, M)
<1> DEFINE q == Other(p)
<1>1. /\ q \in Peers /\ q # p /\ Other(q) = p /\ Initiator(k) = q /\ Initiator(i) = q
      /\ \A r \in Peers : r = p \/ r = q
  BY Others DEF Initiator
<1>2. AllowentOK(E, p, t) /\ t.tx \in {"cookie", "ack"}
  BY DEF Handshakes, SideOK, Regular
<1>3. SideOK(F, M, p)
  BY <1>2 DEF SideOK, AllowentOK
<1>4. \A a : Same(t, a) <=> Same(s, a)
  BY DEF Same
<1>5. ASSUME NEW u \in E[q].allows, ~u.rf
      PROVE  /\ Answered(E, q, u) => Answered(F, q, u)
             /\ \A a \in F[p].allows : a.rf /\ Same(a, u) =>
                  /\ F[p].publee = E[q].privee
                  /\ a.tx = "ack" => u.tx = "initiate"
             /\ (\E a \in E[p].allows : a.rf /\ Same(a, u) /\ a.tx = "ack") =>
                  \E a \in F[p].allows : a.rf /\ Same(a, u) /\ a.tx = "ack"
             /\ \A c \in M : Of(q, u, c) => c \in N \/ Expected(F, q, u, c)
  <2>1. AllowerOK(E, N, q, u)
    BY <1>1, <1>5 DEF Handshakes, SideOK
  <2>2. Answered(E, q, u) => Answered(F, q, u)
    BY <1>1, <1>4 DEF Answered
  <2>3. ASSUME Same(s, u)
        PROVE  F[p].publee = E[q].privee /\ u.tx = "initiate"
    <3>1. Same(t, u) /\ Of(q, u, k)
      BY <1>1, <1>4, <2>3 DEF Of, Same
    <3>2. E[p].publee = E[q].privee
      BY <1>1, <2>1, <3>1 DEF AllowerOK
    <3>3. u.tx = "initiate"
      BY <2>1, <3>1 DEF AllowerOK, Expected, Nacks
    <3> QED
      BY <3>2, <3>3
  <2>4. Of(q, u, i) => Same(s, u)
    BY DEF Of, Same
  <2>5. \A c \in M : Of(q, u, c) => c \in N \/ Expected(F, q, u, c)
    <3>1. Of(q, u, i) => Expected(F, q, u, i)
      BY <1>1, <2>4 DEF Expected
    <3> QED
      BY <1>5, <3>1, IdleFits
  <2> QED
    BY <1>4, <2>2, <2>3, <2>5
<1>6. SideOK(F, M, q)
  BY <1>1, <1>5, OtherSide
<1>7. ~Accepting(E, N, q) /\ (E[q].allowed => E[p].allowed)
  <2>1. CASE t.tx = "cookie"
    <3>1. Accepts(E, p, t, k)
      BY <2>1 DEF Accepts
    <3>2. Accepting(E, N, p)
      BY <3>1 DEF Accepting
    <3> QED
      BY <1>1, <3>2 DEF Handshakes
  <2>2. CASE t.tx = "ack"
    BY <1>1, <1>2, <2>2 DEF Handshakes, AllowentOK
  <2> QED
    BY <1>2, <2>1, <2>2
<1>8. ~Accepting(F, M, q)
  <2> SUFFICES ASSUME NEW a \in F[q].allows, NEW c \in M, Accepts(F, q, a, c)
               PROVE  FALSE
    BY DEF Accepting
  <2>1. c \in N
    BY IdleAccepts DEF Accepts
  <2>2. Accepts(E, q, a, c)
    BY DEF Accepts
  <2> QED
    BY <1>7, <2>1, <2>2 DEF Accepting
<1>9. ~Accepting(F, M, p)
  BY DEF Accepting, Accepts
<1>10. F[q].allowed => Match(F)
  <2>1. E[q].allowed => E["a"].allowed /\ E["b"].allowed
    BY <1>1, <1>7 DEF Peers
  <2>2. Match(E) => Match(F)
    BY <1>1 DEF Match
  <2> QED
    BY <2>1, <2>2 DEF Handshakes
<1> QED
  BY <1>3, <1>6, <1>8, <1>9, <1>10, Halves

(* The redo timers say again what was said last. *)
LEMMA Repeated ==
  ASSUME NEW E, NEW N, Handshakes(E, N), Regular(E, N), NEW p \in Peers, NEW t \in E[p].allows,
         NEW i, i.to = Other(p), i.cf = t.rf, Same(t, i),
         \/ ~t.rf /\ i.pk = "hello" /\ i.body = <<E[p].privee>>
         \/ ~t.rf /\ i.pk = "initiate" /\ i.body = <<E[p].privee, t.oreo>> /\ t.tx = "initiate"
         \/ t.rf /\ i.pk = "cookie" /\ i.body = <<t.oreo>>
         \/ t.rf /\ i.pk = "ack" /\ t.tx = "ack",
         NEW M, \A c \in M : c \in N \/ c = i
  PROVE  Handshakes(E, M)
<1> DEFINE q == Other(p)
<1>1. /\ q \in Peers /\ q # p /\ Other(q) = p
      /\ \A r \in Peers : r = p \/ r = q
      /\ Initiator(i) = IF t.rf THEN q ELSE p
      /\ \A u \in E[p].allows : u = t
      /\ t.rf \in BOOLEAN
  BY Others DEF Initiator, Regular
<1>2. IF t.rf THEN AllowentOK(E, p, t) ELSE AllowerOK(E, N, p, t)
  BY DEF Handshakes, SideOK
<1>3. SideOK(E, M, p)
  <2>1. CASE t.rf
    BY <1>1, <1>2, <2>1 DEF SideOK
  <2>2. CASE ~t.rf
    <3>1. Expected(E, p, t, i)
      BY <1>2, <2>2 DEF AllowerOK, Expected
    <3>2. AllowerOK(E, M, p, t)
      BY <1>2, <2>2, <3>1 DEF AllowerOK
    <3> QED
      BY <1>1, <2>2, <3>2 DEF SideOK
  <2> QED
    BY <2>1, <2>2
<1>4. SideOK(E, M, q)
  <2> SUFFICES ASSUME NEW u \in E[q].allows
               PROVE  IF u.rf THEN AllowentOK(E, q, u) ELSE AllowerOK(E, M, q, u)
    BY DEF SideOK
  <2>1. IF u.rf THEN AllowentOK(E, q, u) ELSE AllowerOK(E, N, q, u)
    BY <1>1 DEF Handshakes, SideOK
  <2>2. CASE ~u.rf
    <3>1. Of(q, u, i) => Expected(E, q, u, i)
      <4> SUFFICES ASSUME Of(q, u, i) PROVE Expected(E, q, u, i)
        OBVIOUS
      <4>1. t.rf /\ Same(t, u)
        BY <1>1 DEF Of, Same
      <4>2. Answered(E, q, u) /\ t.oreo = E[p].privee
        BY <1>1, <1>2, <4>1 DEF Answered, AllowentOK
      <4> QED
        BY <1>1, <4>1, <4>2 DEF Expected
    <3>2. AllowerOK(E, M, q, u)
      BY <2>1, <2>2, <3>1 DEF AllowerOK
    <3> QED
      BY <2>2, <3>2
  <2> QED
    BY <2>1, <2>2
<1>5. Accepting(E, M, p) => Accepting(E, N, p)
  <2>1. \A u \in E[p].allows : ~Accepts(E, p, u, i)
    BY <1>1 DEF Accepts
  <2> QED
    BY <2>1 DEF Accepting
<1>6. CASE t.rf
  <2>1. \A u \in E[q].allows : ~Accepts(E, q, u, i)
    BY <1>6 DEF Accepts
  <2>2. Accepting(E, M, q) => Accepting(E, N, q)
    BY <2>1 DEF Accepting
  <2> QED
    BY <1>1, <1>3, <1>4, <1>5, <2>2, Halves DEF Handshakes, Peers
<1>7. CASE ~t.rf
  <2>1. ~E[p].allowed
    BY <1>2, <1>7 DEF AllowerOK
  <2>2. ~Accepting(E, M, p)
    BY <1>1, <1>7 DEF Accepting, Accepts
  <2> QED
    BY <1>3, <1>4, <2>1, <2>2, Halves
<1> QED
  BY <1>1, <1>6, <1>7

-----------------------------------------------------------------------------
(* The handlers keep it.                                                     *)

(* P has handled a packet with result r. *)
Holds(E, N, p, r) == Handshakes(Put(E, p, r), N \cup r.out)

LEMMA Putting ==
  ASSUME NEW E \in [Peers -> EstateRecords], NEW p \in Peers, NEW r
  PROVE  Put(E, p, r)[p] = r.e /\ Put(E, p, r)[Other(p)] = E[Other(p)]
BY Others DEF Put

LEMMA ReplyFields ==
  ASSUME NEW k, NEW pk
  PROVE  LET c == Reply(k, pk)
         IN /\ c.tk = k.tk /\ c.pk = pk /\ c.to = Other(k.to) /\ c.cf = (~k.cf)
            /\ c.si = k.si /\ c.ti = k.ti
BY DEF Reply, Pkt

LEMMA AllowPktFields ==
  ASSUME NEW p, NEW t, NEW pk, NEW body
  PROVE  LET c == AllowPkt(p, t, pk, body)
         IN /\ c.tk = "allow" /\ c.pk = pk /\ c.to = Other(p) /\ c.cf = t.rf
            /\ c.si = t.si /\ c.ti = t.ti /\ c.body = body
BY DEF AllowPkt, Pkt

(* Of no account to any Allower there is. *)
Vain(E, c) == Idle(E, c) /\ (c.tk = "allow" => Initiator(c) \in Peers)

(* A nack answers no Allower that waits. *)
LEMMA NackVain ==
  ASSUME NEW E, NEW k, k.to \in Peers, k.cf \in BOOLEAN, NEW pk \in Nacks,
         k.cf /\ k.tk = "allow" => \A t \in E[k.to].allows : ~t.rf => ~Same(t, k)
  PROVE  Vain(E, Reply(k, pk))
<1> DEFINE c == Reply(k, pk)
<1>1. /\ c.tk = k.tk /\ c.pk = pk /\ c.to = Other(k.to) /\ c.cf = (~k.cf)
      /\ c.si = k.si /\ c.ti = k.ti
  BY ReplyFields
<1> HIDE DEF c
<1>2. Initiator(c) \in Peers /\ (k.cf => Initiator(c) = k.to)
  BY <1>1, Others DEF Initiator
<1>3. Idle(E, c)
  <2>1. CASE k.cf
    <3>1. ~c.cf /\ c.pk # "initiate"
      BY <1>1, <2>1 DEF Nacks
    <3>2. c.tk = "allow" => \A t \in E[Initiator(c)].allows : ~t.rf => ~Same(t, c)
      BY <1>1, <1>2, <2>1 DEF Same
    <3> QED
      BY <3>1, <3>2 DEF Idle
  <2>2. CASE ~k.cf
    BY <1>1, <2>2 DEF Idle
  <2> QED
    BY <2>1, <2>2
<1> QED
  BY <1>2, <1>3 DEF Vain, c

(* Keys stay, and what ends or is sent is of no account. *)
LEMMA StillHolds ==
  ASSUME NEW E \in [Peers -> EstateRecords], NEW N, Handshakes(E, N), Regular(E, N),
         NEW p \in Peers, NEW r,
         r.e.privee = E[p].privee, r.e.publee = E[p].publee,
         r.e.allows \subseteq E[p].allows, r.e.allowed => E[p].allowed,
         r.e.allows # {} =>
           r.e.allowed = E[p].allowed /\ r.e.sid = E[p].sid
             /\ r.e.tid \in Nat /\ E[p].tid <= r.e.tid,
         \A t \in E[p].allows : t.rf /\ t \notin r.e.allows =>
            \A u \in E[Other(p)].allows : ~u.rf => ~Same(t, u),
         \A c \in r.out : Vain(E, c)
  PROVE  Holds(E, N, p, r)
<1> DEFINE F == Put(E, p, r)
           M == N \cup r.out
<1>1. F[p] = r.e /\ F[Other(p)] = E[Other(p)]
  BY Putting
<1>2. \A c \in M : c \in N \/ c \in r.out
  OBVIOUS
<1> HIDE DEF F, M
<1>3. \A q \in Peers : F[q].allows \subseteq E[q].allows
  BY <1>1, Others
<1>4. \A c \in M : c \in N \/ Idle(F, c)
  BY <1>2, <1>3 DEF Vain, Idle
<1>5. Handshakes(F, M)
  BY <1>1, <1>4, Unmoved
<1> QED
  BY <1>5 DEF Holds, F, M

LEMMA QuietHolds ==
  ASSUME NEW E \in [Peers -> EstateRecords], NEW N, Handshakes(E, N), Regular(E, N),
         NEW p \in Peers, NEW r, SameKeys(r.e, E[p]), r.e.sid = E[p].sid,
         r.e.tid \in Nat, E[p].tid <= r.e.tid,
         \A c \in r.out : Vain(E, c)
  PROVE  Holds(E, N, p, r)
BY StillHolds DEF SameKeys

(* What a correspondent is told, other than hello and initiate, is not from an
   Allower that waits for it. *)
LEMMA Unwaited ==
  ASSUME NEW E, NEW N, Handshakes(E, N), NEW p \in Peers, NEW t \in E[p].allows, t.rf,
         NEW k \in N, k.tk = "allow", ~k.cf, k.to = p, Same(t, k),
         k.pk \notin {"hello", "initiate"}
  PROVE  \A u \in E[Other(p)].allows : ~u.rf => ~Same(t, u)
<1> SUFFICES ASSUME NEW u \in E[Other(p)].allows, ~u.rf, Same(t, u) PROVE FALSE
  OBVIOUS
<1>1. Other(p) \in Peers /\ Initiator(k) = Other(p)
  BY DEF Initiator, Peers, Other
<1>2. AllowerOK(E, N, Other(p), u) /\ Of(Other(p), u, k)
  BY <1>1 DEF Handshakes, SideOK, Of, Same
<1> QED
  BY <1>2 DEF AllowerOK, Expected

(* What a session's start leaves alone. *)
LEMMA StartSessionKeys ==
  ASSUME NEW e \in EstateRecords, e.sid \in Ids, NEW p, IsFiniteSet(e.messengers),
         \A x, y \in e.messengers : x.ti = y.ti => x = y,
         \A t \in e.allows : t.rf, NEW r, r = StartSession(p, e)
  PROVE  /\ SameKeys(r.e, e) /\ r.e \in EstateRecords
         /\ \A c \in r.out : c.tk = "message"
<1> DEFINE d == [e EXCEPT !.sid = NextId(@)]
           A == {t \in d.allows : ~t.rf /\ ~Valid(t.si, d.sid)}
           X == {x \in d.messengers : ~Valid(x.si, d.sid)}
           f == [d EXCEPT !.allows = @ \ A, !.messengers = @ \ X, !.messages = @ \o Bodies(X)]
<1>1. /\ d.allows = e.allows /\ d.privee = e.privee /\ d.publee = e.publee
      /\ d.allowed = e.allowed /\ d = [d EXCEPT !.sid = d.sid] /\ d \in EstateRecords
  <2>1. NextId(e.sid) \in Nat
    BY Circle DEF NextId
  <2>2. d \in EstateRecords
    BY <2>1, Zenon DEF EstateRecords
  <2> QED
    BY <2>2 DEF EstateRecords
<1>2. A = {}
  BY <1>1
<1>3. r.e = f /\ r.out = {AllowPkt(p, t, "nack", <<>>) : t \in A}
                           \cup {Pkt(p, "message", "nack", FALSE, x.si, x.ti, <<>>) : x \in X}
  BY DEF StartSession, ReplaceStaleInitiators, Result
<1> HIDE DEF d, A, X
<1>4. SameKeys(f, d)
  <2>1. /\ f.allows = d.allows \ A /\ f.privee = d.privee /\ f.publee = d.publee
        /\ f.allowed = d.allowed
    BY <1>1 DEF EstateRecords
  <2> QED
    BY <1>2, <2>1 DEF SameKeys
<1>5. r.e \in EstateRecords
  BY SidMoves
<1>6. ASSUME NEW c \in r.out PROVE c.tk = "message"
  <2>1. PICK x \in X : c = Pkt(p, "message", "nack", FALSE, x.si, x.ti, <<>>)
    BY <1>2, <1>3, <1>6
  <2> QED
    BY <2>1 DEF Pkt
<1> QED
  BY <1>1, <1>3, <1>4, <1>5, <1>6 DEF SameKeys

(* What messages leave alone. *)
LEMMA MessagesKeys ==
  ASSUME NEW g \in EstateRecords, NEW p, NEW M \in Seq(Msgs), NEW r, r = Messages(p, g, M)
  PROVE  /\ SameKeys(r.e, g) /\ r.e.sid = g.sid /\ r.e.tid \in Nat /\ g.tid <= r.e.tid
         /\ \A c \in r.out : c.tk = "message"
<1> DEFINE new == {[m |-> M[i], si |-> g.sid, ti |-> g.tid + i, box |-> Box(p, g)] : i \in DOMAIN M}
           next == [g EXCEPT !.tid = @ + Len(M)]
           f == [next EXCEPT !.messengers = @ \cup new]
<1>1. g.tid + Len(M) \in Nat /\ g.tid <= g.tid + Len(M)
  BY EstateFields, LenProperties
<1>2. next \in EstateRecords
  BY <1>1, Zenon DEF EstateRecords
<1>3. SameKeys(next, g) /\ next.sid = g.sid /\ next.tid = g.tid + Len(M)
  BY DEF EstateRecords, SameKeys
<1>4. \/ r.e = next /\ r.out = {}
      \/ r.e = f /\ r.out = {MessagePkt(p, x) : x \in new}
  BY DEF Messages, Result
<1> HIDE DEF next, new
<1>5. SameKeys(f, next) /\ f.sid = next.sid /\ f.tid = next.tid
  BY <1>2 DEF EstateRecords, SameKeys
<1>6. \A x : MessagePkt(p, x).tk = "message"
  BY DEF MessagePkt, Pkt
<1> QED
  BY <1>1, <1>3, <1>4, <1>5, <1>6 DEF SameKeys

LEMMA SavedKeys ==
  ASSUME NEW e \in EstateRecords, NEW p, NEW r, r = SendSavedMessages(p, e)
  PROVE  SameKeys(r.e, e) /\ \A c \in r.out : c.tk = "message"
<1> DEFINE g == [e EXCEPT !.messages = <<>>]
           M == e.messages
<1>1. M \in Seq(Msgs) /\ <<>> \in Seq(Msgs)
  BY EstateFields
<1>2. g \in EstateRecords
  BY <1>1, Zenon DEF EstateRecords
<1>3. SameKeys(g, e)
  BY DEF EstateRecords, SameKeys
<1>4. r = Messages(p, g, M)
  BY DEF SendSavedMessages
<1> HIDE DEF g, M
<1>5. SameKeys(r.e, g) /\ \A c \in r.out : c.tk = "message"
  BY <1>1, <1>2, <1>4, MessagesKeys
<1> QED
  BY <1>3, <1>5 DEF SameKeys

LEMMA MessageVain ==
  ASSUME NEW E, NEW c, c.tk = "message"
  PROVE  Vain(E, c) /\ Idle(E, c)
BY DEF Vain, Idle

(* Allower.receive. *)
LEMMA AllowerHolds ==
  ASSUME NEW E, NEW N, NEW S, NEW U, NEW R, W(E, N, S, U, R), Handshakes(E, N),
         NEW p \in Peers, NEW k \in N, k.to = p, k.tk = "allow", k.cf,
         NEW t \in E[p].allows, ~t.rf, Same(t, k), NEW r, r = AllowerReceive(p, E[p], t, k)
  PROVE  Holds(E, N, p, r)
<1> DEFINE e == E[p]
           F == Put(E, p, r)
           M == N \cup r.out
<1>1. /\ E \in [Peers -> EstateRecords] /\ e \in EstateRecords /\ Regular(E, N)
      /\ e.allows \ {t} = {} /\ e.allows = {t} /\ e.allowed \in BOOLEAN
      /\ t \in AllowRecords /\ PacketOK(E, S, k)
  BY Ready, IsRegular, OneIsAll, EstateFields DEF W
<1>2. k.pk \in Nacks \cup {"cookie", "ack"} /\ k.to \in Peers /\ k.cf \in BOOLEAN
  BY <1>1 DEF PacketOK, Kinds
<1>3. F[p] = r.e /\ F[Other(p)] = E[Other(p)]
  <2>1. E \in [Peers -> EstateRecords]
    BY <1>1
  <2> QED
    BY <2>1, Others DEF Put
<1>4. CASE k.pk = "cookie"
  <2> DEFINE s == [t EXCEPT !.tx = "initiate", !.oreo = k.body[1]]
             f == [e EXCEPT !.publee = k.body[1], !.allows = {s}]
             i == Redone(p, s, f)
  <2>1. r.e = f /\ r.out = {i}
    <3>1. r = Cookie(p, e, t, k)
      BY <1>4 DEF AllowerReceive, Nacks
    <3>2. [e EXCEPT !.publee = k.body[1], !.allows = (@ \ {t}) \cup {s}] = f
      BY <1>1
    <3>3. Cookie(p, e, t, k) = Result(f, {Redone(p, s, f)})
      BY <3>2, Zenon DEF Cookie
    <3> QED
      BY <3>1, <3>3 DEF Result
  <2>2. /\ s.rf = FALSE /\ s.si = t.si /\ s.ti = t.ti /\ s.tx = "initiate" /\ s.oreo = k.body[1]
    BY <1>1 DEF AllowRecords
  <2>3. /\ f.allows = {s} /\ f.publee = k.body[1] /\ f.privee = e.privee /\ f.allowed = e.allowed
        /\ f.sid = e.sid /\ f.tid = e.tid
    BY <1>1 DEF EstateRecords
  <2>4. i = AllowPkt(p, s, "initiate", <<f.privee, s.oreo>>)
    BY <2>2 DEF Redone
  <2> HIDE DEF s, f
  <2>5. /\ i.tk = "allow" /\ i.pk = "initiate" /\ i.to = Other(p) /\ i.cf = FALSE
        /\ i.body = <<f.privee, k.body[1]>>
    BY <2>2, <2>3, <2>4, AllowPktFields
  <2> HIDE DEF i
  <2>6. \A c \in M : c \in N \/ c = i
    BY <2>1
  <2>7. /\ F[p].allowed = E[p].allowed /\ F[p].allows = {s} /\ F[p].privee = E[p].privee
        /\ F[p].publee = k.body[1] /\ F[p].sid = E[p].sid /\ F[p].tid = E[p].tid /\ ~s.rf
        /\ i.body = <<F[p].privee, k.body[1]>>
    BY <1>3, <2>1, <2>2, <2>3, <2>5
  <2> HIDE DEF F, M
  <2>8. Handshakes(F, M)
    BY <1>1, <1>3, <1>4, <2>2, <2>5, <2>6, <2>7, Cookied
  <2> QED
    BY <2>8 DEF Holds, F, M
<1>5. CASE k.pk = "ack"
  <2> DEFINE d == [e EXCEPT !.allowed = TRUE, !.allows = @ \ {t}]
             next == StartSession(p, d)
             sent == SendSavedMessages(p, next.e)
             i == AllowPkt(p, t, "ack", <<>>)
  <2>1. r.e = sent.e /\ r.out = {i} \cup next.out \cup sent.out
    BY <1>5 DEF AllowerReceive, Nacks, AckFinal, Result
  <2>2. /\ d \in EstateRecords /\ d.allows = {} /\ d.privee = e.privee /\ d.publee = e.publee
        /\ d.allowed = TRUE /\ d.sid = e.sid /\ d.messengers = e.messengers
    <3>1. {} \in SUBSET AllowRecords
      OBVIOUS
    <3>2. d = [e EXCEPT !.allowed = TRUE, !.allows = {}]
      BY <1>1 DEF EstateRecords
    <3>3. d \in EstateRecords
      BY <1>1, <3>1, <3>2, Zenon DEF EstateRecords
    <3> QED
      BY <1>1, <3>2, <3>3 DEF EstateRecords
  <2> HIDE DEF d
  <2>3. e.sid \in Ids /\ IsFiniteSet(e.messengers)
        /\ \A x, y \in e.messengers : x.ti = y.ti => x = y
    BY Ready, StartedId DEF W, PeerOK
  <2>4. SameKeys(next.e, d) /\ next.e \in EstateRecords /\ \A c \in next.out : c.tk = "message"
    BY <2>2, <2>3, StartSessionKeys
  <2> HIDE DEF next
  <2>5. SameKeys(sent.e, next.e) /\ \A c \in sent.out : c.tk = "message"
    BY <2>4, SavedKeys
  <2> HIDE DEF sent
  <2>6. /\ i.tk = "allow" /\ i.pk = "ack" /\ i.to = Other(p) /\ i.cf = FALSE
    BY <1>1, AllowPktFields DEF AllowRecords
  <2> HIDE DEF i
  <2>7. /\ F[p].allows = {} /\ F[p].privee = E[p].privee /\ F[p].publee = E[p].publee
    BY <1>3, <2>1, <2>2, <2>4, <2>5 DEF SameKeys
  <2>8. Idle(F, i)
    <3>1. Initiator(i) = p
      BY <2>6, Others DEF Initiator
    <3> QED
      BY <2>6, <2>7, <3>1 DEF Idle
  <2>9. \A c \in M : c \in N \/ c = i \/ c.tk = "message"
    BY <2>1, <2>4, <2>5
  <2> HIDE DEF F, M
  <2>10. \A c \in M : c \in N \/ Idle(F, c)
    BY <2>8, <2>9, MessageVain
  <2>11. Handshakes(F, M)
    BY <1>1, <1>3, <1>5, <2>7, <2>10, Agreed
  <2> QED
    BY <2>11 DEF Holds, F, M
<1>6. CASE k.pk \in Nacks
  <2> DEFINE b == e.allowed /\ k.pk # "reject"
  <2>1. r = Result([e EXCEPT !.allows = {}, !.allowed = b], {})
    BY <1>1, <1>6 DEF AllowerReceive, Nacks, Refused
  <2>2. b \in BOOLEAN /\ (b => e.allowed)
    BY <1>1
  <2> HIDE DEF b
  <2>3. /\ r.e.allows = {} /\ r.e.privee = e.privee /\ r.e.publee = e.publee
        /\ r.e.allowed = b /\ r.out = {}
    <3>1. r.e = [e EXCEPT !.allows = {}, !.allowed = b] /\ r.out = {}
      BY <2>1 DEF Result
    <3>2. e \in EstateRecords
      BY <1>1
    <3> QED
      BY <3>1, <3>2 DEF EstateRecords
  <2>4. \A u \in e.allows : u = t
    BY <1>1
  <2> QED
    BY <1>1, <2>2, <2>3, <2>4, StillHolds
<1> QED
  BY <1>2, <1>4, <1>5, <1>6

(* Allowent.initiate. *)
LEMMA InitiatedHolds ==
  ASSUME NEW E, NEW N, NEW S, NEW U, NEW R, W(E, N, S, U, R), Handshakes(E, N),
         NEW p \in Peers, NEW k \in N, k.to = p, k.tk = "allow", ~k.cf, k.pk = "initiate",
         NEW t \in E[p].allows, t.rf, Same(t, k), NEW r, r = Initiated(p, E[p], t, k)
  PROVE  Holds(E, N, p, r)
<1> DEFINE e == E[p]
           q == Other(p)
           F == Put(E, p, r)
           M == N \cup r.out
<1>1. /\ E \in [Peers -> EstateRecords] /\ e \in EstateRecords /\ Regular(E, N)
      /\ e.allows \ {t} = {} /\ e.allows = {t} /\ e.allowed \in BOOLEAN
      /\ t \in AllowRecords /\ PacketOK(E, S, k)
  BY Ready, IsRegular, OneIsAll, EstateFields DEF W
<1>2. k.to \in Peers /\ k.cf \in BOOLEAN /\ q \in Peers /\ Other(q) = p /\ Initiator(k) = q
  BY <1>1, Others DEF PacketOK, Initiator
<1>3. F[p] = r.e /\ F[Other(p)] = E[Other(p)]
  <2>1. E \in [Peers -> EstateRecords]
    BY <1>1
  <2> QED
    BY <2>1, Others DEF Put
<1>4. CASE k.body # <<e.publee, t.oreo>>
  <2> DEFINE c == AllowPkt(p, t, "reject", <<>>)
  <2>1. r = Result([e EXCEPT !.allows = {}], {c})
    BY <1>1, <1>4, Zenon DEF Initiated
  <2>2. /\ c.tk = "allow" /\ c.pk = "reject" /\ c.to = Other(p) /\ c.cf = TRUE
    BY <1>1, AllowPktFields DEF AllowRecords
  <2> HIDE DEF c
  <2>3. /\ r.e.allows = {} /\ r.e.privee = e.privee /\ r.e.publee = e.publee
        /\ r.e.allowed = e.allowed /\ r.out = {c}
    <3>1. r.e = [e EXCEPT !.allows = {}] /\ r.out = {c}
      BY <2>1 DEF Result
    <3>2. e \in EstateRecords
      BY <1>1
    <3> QED
      BY <3>1, <3>2 DEF EstateRecords
  <2>4. Vain(E, c)
    BY <1>2, <2>2, Others DEF Vain, Idle, Nacks, Initiator
  <2>5. ASSUME NEW u \in E[q].allows, ~u.rf, Same(t, u)
        PROVE  FALSE
    <3>1. AllowerOK(E, N, q, u) /\ AllowentOK(E, p, t)
      BY <1>2, <2>5 DEF Handshakes, SideOK
    <3>2. Of(q, u, k)
      BY <1>2, <2>5 DEF Of, Same
    <3>3. u.tx = "initiate" /\ k.body = <<E[q].privee, E[p].privee>>
      BY <1>2, <3>1, <3>2 DEF AllowerOK, Expected, Nacks
    <3>4. E[p].publee = E[q].privee
      BY <1>2, <2>5, <3>1 DEF AllowerOK
    <3>5. t.oreo = E[p].privee
      BY <3>1 DEF AllowentOK
    <3> QED
      BY <1>4, <3>3, <3>4, <3>5
  <2>6. \A u \in e.allows : u = t
    BY <1>1
  <2> QED
    BY <1>1, <2>3, <2>4, <2>5, <2>6, StillHolds
<1>5. CASE k.body = <<e.publee, t.oreo>>
  <2> DEFINE s == [t EXCEPT !.tx = "ack"]
             d == [e EXCEPT !.allowed = TRUE, !.allows = (@ \ {t}) \cup {s}]
             next == StartSession(p, d)
             i == Redone(p, s, e)
  <2>1. r.e = next.e /\ r.out = {i} \cup next.out
    BY <1>5 DEF Initiated, Result
  <2>2. /\ s \in AllowRecords /\ s.rf /\ s.si = t.si /\ s.ti = t.ti /\ s.oreo = t.oreo
        /\ s.tx = "ack"
    <3>1. s \in AllowRecords
      BY <1>1, Zenon DEF AllowRecords
    <3> QED
      BY <1>1, <3>1 DEF AllowRecords
  <2>3. i = AllowPkt(p, s, "ack", <<>>)
    BY <2>2 DEF Redone
  <2> HIDE DEF s
  <2>4. /\ d \in EstateRecords /\ d.allows = {s} /\ d.privee = e.privee /\ d.publee = e.publee
        /\ d.allowed = TRUE /\ d.sid = e.sid /\ d.messengers = e.messengers
    <3>1. {s} \in SUBSET AllowRecords
      BY <2>2
    <3>2. d = [e EXCEPT !.allowed = TRUE, !.allows = {s}]
      BY <1>1 DEF EstateRecords
    <3>3. d \in EstateRecords
      BY <1>1, <3>1, <3>2, Zenon DEF EstateRecords
    <3> QED
      BY <1>1, <3>2, <3>3 DEF EstateRecords
  <2> HIDE DEF d
  <2>5. e.sid \in Ids /\ IsFiniteSet(e.messengers)
        /\ \A x, y \in e.messengers : x.ti = y.ti => x = y
    BY Ready, StartedId DEF W, PeerOK
  <2>6. SameKeys(next.e, d) /\ next.e \in EstateRecords /\ \A c \in next.out : c.tk = "message"
    BY <2>2, <2>4, <2>5, StartSessionKeys
  <2> HIDE DEF next
  <2>7. /\ i.tk = "allow" /\ i.pk = "ack" /\ i.to = Other(p) /\ i.cf = s.rf
        /\ i.si = s.si /\ i.ti = s.ti
    <3>1. /\ AllowPkt(p, s, "ack", <<>>).tk = "allow" /\ AllowPkt(p, s, "ack", <<>>).pk = "ack"
          /\ AllowPkt(p, s, "ack", <<>>).to = Other(p) /\ AllowPkt(p, s, "ack", <<>>).cf = s.rf
          /\ AllowPkt(p, s, "ack", <<>>).si = s.si /\ AllowPkt(p, s, "ack", <<>>).ti = s.ti
      BY AllowPktFields
    <3> HIDE DEF i
    <3> QED
      BY <2>3, <3>1
  <2> HIDE DEF i
  <2>8. i.cf /\ Same(s, i)
    BY <2>2, <2>7 DEF Same
  <2>9. \A c \in M : c \in N \/ c = i \/ c.tk = "message"
    BY <2>1, <2>6
  <2>10. /\ F[p].allowed /\ F[p].allows = {s} /\ F[p].privee = E[p].privee
         /\ F[p].publee = E[p].publee
    BY <1>3, <2>1, <2>4, <2>6 DEF SameKeys
  <2> HIDE DEF F, M
  <2>11. \A c \in M : c \in N \/ c = i \/ Idle(F, c)
    BY <2>9, MessageVain
  <2>12. Handshakes(F, M)
    <3>1. Regular(E, N) /\ E[p].allows = {t} /\ k.body = <<E[p].publee, t.oreo>>
      BY <1>1, <1>5
    <3> QED
      BY <1>3, <2>2, <2>7, <2>8, <2>10, <2>11, <3>1, Acknowledged
  <2> QED
    BY <2>12 DEF Holds, F, M
<1> QED
  BY <1>4, <1>5

(* Allowent.receive. *)
LEMMA AllowentHolds ==
  ASSUME NEW E, NEW N, NEW S, NEW U, NEW R, W(E, N, S, U, R), Handshakes(E, N),
         NEW p \in Peers, NEW k \in N, k.to = p, k.tk = "allow", ~k.cf,
         NEW t \in E[p].allows, t.rf, Same(t, k), NEW r, r = AllowentReceive(p, E[p], t, k)
  PROVE  Holds(E, N, p, r)
<1> DEFINE e == E[p]
<1>1. /\ E \in [Peers -> EstateRecords] /\ e \in EstateRecords /\ Regular(E, N)
      /\ e.allows \ {t} = {} /\ e.allowed \in BOOLEAN /\ PacketOK(E, S, k)
      /\ e.tid \in Nat /\ \A u \in e.allows : u = t
  BY Ready, IsRegular, OneIsAll, EstateFields DEF W
<1>2. k.pk \in Nacks \cup {"hello", "initiate", "ack"}
  BY <1>1 DEF PacketOK, Kinds
<1>3. CASE k.pk = "hello"
  <2>1. r.e = e /\ r.out = {}
    BY <1>3 DEF AllowentReceive, Nacks, Result
  <2> QED
    BY <1>1, <2>1, QuietHolds DEF SameKeys
<1>4. CASE k.pk = "initiate"
  <2>1. r = Initiated(p, e, t, k)
    BY <1>4 DEF AllowentReceive, Nacks
  <2> QED
    BY <1>4, <2>1, InitiatedHolds
<1>5. CASE k.pk = "ack"
  <2> DEFINE d == [e EXCEPT !.allows = @ \ {t}]
  <2>1. r = SendSavedMessages(p, d)
    BY <1>5 DEF AllowentReceive, Nacks
  <2>2. /\ d \in EstateRecords /\ d.allows = {} /\ d.privee = e.privee /\ d.publee = e.publee
        /\ d.allowed = e.allowed
    <3>1. {} \in SUBSET AllowRecords /\ d = [e EXCEPT !.allows = {}]
      BY <1>1 DEF EstateRecords
    <3>2. d \in EstateRecords
      BY <1>1, <3>1, Zenon DEF EstateRecords
    <3> QED
      BY <1>1, <3>1, <3>2 DEF EstateRecords
  <2> HIDE DEF d
  <2>3. SameKeys(r.e, d) /\ \A c \in r.out : c.tk = "message"
    BY <2>1, <2>2, SavedKeys
  <2>4. /\ r.e.allows = {} /\ r.e.privee = e.privee /\ r.e.publee = e.publee
        /\ r.e.allowed = e.allowed
    BY <2>2, <2>3 DEF SameKeys
  <2>5. \A u \in E[Other(p)].allows : ~u.rf => ~Same(t, u)
    BY <1>5, Unwaited
  <2>6. \A c \in r.out : Vain(E, c)
    BY <2>3, MessageVain
  <2> QED
    BY <1>1, <2>4, <2>5, <2>6, StillHolds
<1>6. CASE k.pk \in Nacks
  <2> DEFINE b == e.allowed /\ k.pk # "reject"
  <2>1. r = Result([e EXCEPT !.allows = {}, !.allowed = b], {})
    BY <1>1, <1>6 DEF AllowentReceive, Nacks, Refused
  <2>2. b \in BOOLEAN /\ (b => e.allowed)
    BY <1>1
  <2> HIDE DEF b
  <2>3. /\ r.e.allows = {} /\ r.e.privee = e.privee /\ r.e.publee = e.publee
        /\ r.e.allowed = b /\ r.out = {}
    <3>1. r.e = [e EXCEPT !.allows = {}, !.allowed = b] /\ r.out = {}
      BY <2>1 DEF Result
    <3>2. e \in EstateRecords
      BY <1>1
    <3> QED
      BY <3>1, <3>2 DEF EstateRecords
  <2>4. \A u \in E[Other(p)].allows : ~u.rf => ~Same(t, u)
    BY <1>6, Unwaited DEF Nacks
  <2> QED
    BY <1>1, <2>2, <2>3, <2>4, StillHolds
<1> QED
  BY <1>2, <1>3, <1>4, <1>5, <1>6

(* Allowent.hello. *)
LEMMA HelloedHolds ==
  ASSUME NEW E, NEW N, NEW S, NEW U, NEW R, W(E, N, S, U, R), Handshakes(E, N),
         NEW p \in Peers, NEW k \in N, k.to = p, k.tk = "allow", ~k.cf, k.pk = "hello",
         NEW r, r = Helloed(p, E[p], k)
  PROVE  Holds(E, N, p, r)
<1> DEFINE e == E[p]
           F == Put(E, p, r)
           M == N \cup r.out
<1>1. /\ E \in [Peers -> EstateRecords] /\ e \in EstateRecords /\ Regular(E, N)
      /\ e.allows \in SUBSET AllowRecords /\ e.tid \in Nat /\ e.privee \in Nat
  BY Ready, IsRegular, EstateFields
<1>2. k.cf \in BOOLEAN
  BY DEF W, PacketOK
<1>3. F[p] = r.e /\ F[Other(p)] = E[Other(p)]
  <2>1. E \in [Peers -> EstateRecords]
    BY <1>1
  <2> QED
    BY <2>1, Others DEF Put
<1>4. CASE \E t \in e.allows : t.rf \/ p = "a"
  <2>1. r = Result(e, {Reply(k, "refuse")})
    BY <1>4, Zenon DEF Helloed
  <2>2. r.e = e /\ \A c \in r.out : c = Reply(k, "refuse")
    BY <2>1 DEF Result
  <2>3. Vain(E, Reply(k, "refuse"))
    BY <1>2, NackVain DEF Nacks
  <2> QED
    BY <1>1, <2>2, <2>3, QuietHolds DEF SameKeys
<1>5. CASE ~ \E t \in e.allows : t.rf \/ p = "a"
  <2> DEFINE d == Rekey(e)
             u == [rf |-> TRUE, si |-> k.si, ti |-> k.ti, tx |-> "cookie", oreo |-> d.privee]
             s == [d EXCEPT !.publee = k.body[1], !.allows = {u}]
             i == Redone(p, u, s)
             gone == {AllowPkt(p, j, "refuse", <<>>) : j \in e.allows}
  <2>1. r = Result(s, gone \cup {i})
    BY <1>5, Zenon DEF Helloed
  <2>2. d \in EstateRecords /\ d.allowed = FALSE /\ d.privee = e.privee + 1
    BY <1>1, Rekeyed
  <2>3. i = AllowPkt(p, u, "cookie", <<u.oreo>>)
    BY DEF Redone
  <2>4. u.rf = TRUE /\ u.si = k.si /\ u.ti = k.ti /\ u.oreo = d.privee /\ u.tx = "cookie"
    OBVIOUS
  <2> HIDE DEF d, u
  <2>5. s.allows = {u} /\ s.allowed = FALSE /\ s.privee = d.privee /\ s.publee = k.body[1]
    BY <2>2 DEF EstateRecords
  <2> HIDE DEF s
  <2>6. /\ i.tk = "allow" /\ i.pk = "cookie" /\ i.to = Other(p) /\ i.cf = TRUE
        /\ i.si = k.si /\ i.ti = k.ti /\ i.body = <<d.privee>>
    BY <2>3, <2>4, AllowPktFields
  <2> HIDE DEF i
  <2>7. r.e = s /\ r.out = gone \cup {i}
    BY <2>1 DEF Result
  <2>8. /\ ~F[p].allowed /\ F[p].allows = {u} /\ u.oreo = F[p].privee /\ u.rf
        /\ F[p].privee = e.privee + 1 /\ F[p].publee = k.body[1] /\ i.body = <<F[p].privee>>
    BY <1>3, <2>2, <2>4, <2>5, <2>6, <2>7
  <2>9. ASSUME NEW c \in gone PROVE Idle(F, c)
    <3>1. PICK j \in e.allows : c = AllowPkt(p, j, "refuse", <<>>)
      BY <2>9
    <3>2. j.rf \in BOOLEAN /\ ~j.rf
      BY <1>1, <1>5 DEF AllowRecords
    <3>3. c.pk = "refuse" /\ ~c.cf /\ c.to = Other(p)
      BY <3>1, <3>2, AllowPktFields
    <3>4. Initiator(c) = p
      BY <3>3, Others DEF Initiator
    <3> QED
      BY <2>8, <3>3, <3>4 DEF Idle
  <2> HIDE DEF gone
  <2> HIDE DEF F
  <2>10. \A c \in M : c \in N \/ c = i \/ Idle(F, c)
    BY <2>7, <2>9
  <2>11. Same(u, k) /\ Same(u, i)
    BY <2>4, <2>6 DEF Same
  <2>12. ASSUME NEW c \in N, NEW n, c.pk = "initiate", c.to = p
         PROVE  c.body # <<n, F[p].privee>>
    <3>1. BodyOK(E, c)
      BY DEF W, PacketOK
    <3>2. \E j \in 1 .. E[Other(p)].privee, l \in 1 .. e.privee : c.body = <<j, l>>
      BY <2>12, <3>1 DEF BodyOK
    <3>3. PICK j \in 1 .. E[Other(p)].privee, l \in 1 .. e.privee : c.body = <<j, l>>
      BY <3>2
    <3>4. l # F[p].privee
      BY <1>1, <2>8
    <3> QED
      BY <3>3, <3>4
  <2> HIDE DEF M
  <2>13. Handshakes(F, M)
    <3>1. Regular(E, N) /\ \A j \in E[p].allows : ~j.rf
      BY <1>1, <1>5
    <3>2. Unknown(F, N, p)
      BY <2>12 DEF Unknown
    <3>3. Greeted(F, p, u, k, i)
      BY <2>4, <2>6, <2>8, <2>11 DEF Greeted
    <3> QED
      BY <1>3, <2>10, <3>1, <3>2, <3>3, Accepted
  <2> QED
    BY <2>13 DEF Holds, F, M
<1> QED
  BY <1>4, <1>5

(* Messenger.receive, and Messengent's. *)
LEMMA MessageHolds ==
  ASSUME NEW E, NEW N, NEW S, NEW U, NEW R, W(E, N, S, U, R), Handshakes(E, N),
         NEW p \in Peers, NEW k \in N, k.to = p, k.tk = "message",
         NEW r, r = Messaged(p, E[p], k) \/ \E x \in E[p].messengers : r = MessengerReceive(E[p], x)
  PROVE  Holds(E, N, p, r)
<1> DEFINE e == E[p]
           f == Handled(e, k)
<1>1. /\ E \in [Peers -> EstateRecords] /\ e \in EstateRecords /\ Regular(E, N)
      /\ e.tid \in Nat
  BY Ready, IsRegular, EstateFields
<1>2. \A pk : Vain(E, Reply(k, pk))
  BY ReplyFields, MessageVain
<1>3. CASE r = Messaged(p, e, k)
  <2>1. /\ f.allows = e.allows /\ f.privee = e.privee /\ f.publee = e.publee
        /\ f.allowed = e.allowed /\ f.sid = e.sid /\ f.tid = e.tid
    BY <1>1 DEF Handled, EstateRecords
  <2> HIDE DEF f
  <2>2. \/ r = Result(f, {Reply(k, "nack")}) \/ r = Result(f, {Reply(k, "done")})
        \/ r = Result(e, {Reply(k, "nack")}) \/ r = Result(e, {})
    BY <1>3, Zenon DEF Messaged, f
  <2>3. /\ r.e = e \/ r.e = f
        /\ \A c \in r.out : \E pk \in {"nack", "done"} : c = Reply(k, pk)
    BY <2>2 DEF Result
  <2>4. \A c \in r.out : Vain(E, c)
    BY <1>2, <2>3
  <2> QED
    BY <1>1, <2>1, <2>3, <2>4, QuietHolds DEF SameKeys
<1>4. CASE \E x \in e.messengers : r = MessengerReceive(e, x)
  <2>1. PICK x \in e.messengers : r = MessengerReceive(e, x)
    BY <1>4
  <2>2. r.e = [e EXCEPT !.messengers = @ \ {x}] /\ r.out = {}
    BY <2>1 DEF MessengerReceive, Result
  <2>3. SameKeys(r.e, e) /\ r.e.sid = e.sid /\ r.e.tid = e.tid
    BY <1>1, <2>2 DEF SameKeys, EstateRecords
  <2>4. r.e.tid \in Nat /\ e.tid <= r.e.tid /\ \A c \in r.out : Vain(E, c)
    BY <1>1, <2>2, <2>3
  <2> HIDE DEF f
  <2> QED
    BY <1>1, <2>3, <2>4, QuietHolds
<1> QED
  BY <1>3, <1>4

(* processRx, once the session of the packet is known. *)
LEMMA DispatchHolds ==
  ASSUME NEW E, NEW N, NEW S, NEW U, NEW R, W(E, N, S, U, R), Handshakes(E, N),
         NEW p \in Peers, NEW k \in N, k.to = p, NEW r, r = Dispatch(p, E[p], k)
  PROVE  Holds(E, N, p, r)
<1> DEFINE e == E[p]
           ts == {t \in e.allows : k.tk = "allow" /\ t.rf # k.cf /\ Same(t, k)}
           xs == {x \in e.messengers : k.tk = "message" /\ k.cf /\ Same(x, k)}
           t == CHOOSE t \in ts : TRUE
           x == CHOOSE x \in xs : TRUE
           nack == IF k.pk \in Nacks THEN {} ELSE {Reply(k, "nack")}
<1>1. /\ E \in [Peers -> EstateRecords] /\ e \in EstateRecords /\ Regular(E, N)
      /\ PacketOK(E, S, k) /\ e.tid \in Nat
  BY Ready, IsRegular, EstateFields DEF W
<1>2. /\ k.tk \in {"allow", "message"} /\ k.cf \in BOOLEAN
      /\ k.pk \in Kinds(k.tk, k.cf)
      /\ k.pk = "message" => k.tk = "message" /\ ~k.cf
      /\ k.pk = "hello" => k.tk = "allow" /\ ~k.cf
  BY <1>1 DEF PacketOK, Kinds, Nacks
<1>3. /\ ts # {} => t \in e.allows /\ k.tk = "allow" /\ t.rf # k.cf /\ Same(t, k)
      /\ xs # {} => x \in e.messengers /\ k.tk = "message" /\ k.cf
  OBVIOUS
<1>4. \/ ts # {} /\ r = IF t.rf THEN AllowentReceive(p, e, t, k) ELSE AllowerReceive(p, e, t, k)
      \/ xs # {} /\ r = MessengerReceive(e, x)
      \/ ts = {} /\ r = Result(e, nack)
      \/ ~k.cf /\ k.pk = "hello" /\ r = Helloed(p, e, k)
      \/ ~k.cf /\ k.pk = "message" /\ r = Messaged(p, e, k)
      \/ r = Result(e, {})
  <2> DEFINE A == IF t.rf THEN AllowentReceive(p, e, t, k) ELSE AllowerReceive(p, e, t, k)
             B == MessengerReceive(e, x)
             C == Result(e, nack)
             D == Helloed(p, e, k)
             G == Messaged(p, e, k)
             H == Result(e, {})
  <2>1. r = CASE ts # {} -> A
              [] xs # {} -> B
              [] ts = {} /\ xs = {} /\ k.cf -> C
              [] ts = {} /\ ~k.cf /\ k.pk = "hello" -> D
              [] ts = {} /\ ~k.cf /\ k.pk = "message" -> G
              [] OTHER -> H
    BY DEF Dispatch
  <2> HIDE DEF A, B, C, D, G, H, ts, xs, t, x
  <2>2. \/ ts # {} /\ r = A
        \/ xs # {} /\ r = B
        \/ ts = {} /\ r = C
        \/ ~k.cf /\ k.pk = "hello" /\ r = D
        \/ ~k.cf /\ k.pk = "message" /\ r = G
        \/ r = H
    BY <1>2, <1>3, <2>1
  <2> QED
    BY <2>2 DEF A, B, C, D, G, H
<1>5. ts = {} /\ k.cf /\ k.tk = "allow" => \A u \in e.allows : ~u.rf => ~Same(u, k)
  BY <1>1 DEF Regular
<1> HIDE DEF ts, xs, t, x
<1>6. CASE ts # {} /\ r = IF t.rf THEN AllowentReceive(p, e, t, k) ELSE AllowerReceive(p, e, t, k)
  <2>1. t \in e.allows /\ k.tk = "allow" /\ t.rf \in BOOLEAN /\ t.rf # k.cf /\ Same(t, k)
    BY <1>1, <1>3, <1>6, EstateFields DEF AllowRecords
  <2>2. CASE t.rf
    <3>1. ~k.cf /\ r = AllowentReceive(p, e, t, k)
      BY <1>2, <1>6, <2>1, <2>2
    <3> QED
      BY <2>1, <2>2, <3>1, AllowentHolds
  <2>3. CASE ~t.rf
    <3>1. k.cf /\ r = AllowerReceive(p, e, t, k)
      BY <1>2, <1>6, <2>1, <2>3
    <3> QED
      BY <2>1, <2>3, <3>1, AllowerHolds
  <2> QED
    BY <2>1, <2>2, <2>3
<1>7. CASE xs # {} /\ r = MessengerReceive(e, x)
  <2>1. k.tk = "message" /\ \E y \in e.messengers : r = MessengerReceive(e, y)
    BY <1>3, <1>7
  <2> QED
    BY <2>1, MessageHolds
<1>8. ASSUME NEW out, r = Result(e, out), \A c \in out : Vain(E, c)
      PROVE  Holds(E, N, p, r)
  <2>1. r.e = e /\ r.out = out
    BY <1>8 DEF Result
  <2> QED
    BY <1>1, <1>8, <2>1, QuietHolds DEF SameKeys
<1>9. CASE ts = {} /\ r = Result(e, nack)
  <2>1. Vain(E, Reply(k, "nack"))
    BY <1>2, <1>5, <1>9, NackVain DEF Nacks
  <2>2. \A c \in nack : Vain(E, c)
    BY <2>1
  <2> HIDE DEF nack
  <2> QED
    BY <1>8, <1>9, <2>2
<1>10. CASE ~k.cf /\ k.pk = "hello" /\ r = Helloed(p, e, k)
  <2>1. k.tk = "allow"
    BY <1>2, <1>10
  <2> QED
    BY <1>10, <2>1, HelloedHolds
<1>11. CASE ~k.cf /\ k.pk = "message" /\ r = Messaged(p, e, k)
  <2>1. k.tk = "message"
    BY <1>2, <1>11
  <2> QED
    BY <1>11, <2>1, MessageHolds
<1>12. CASE r = Result(e, {})
  <2> DEFINE none == {}
  <2>1. r = Result(e, none) /\ \A c \in none : Vain(E, c)
    BY <1>12
  <2> HIDE DEF none
  <2> QED
    BY <1>8, <2>1
<1> QED
  BY <1>4, <1>6, <1>7, <1>9, <1>10, <1>11, <1>12

(* A new session of the other side: stale correspondents are given up, and told
   so.  An Allower is of its stack's present session, and waits for none. *)
LEMMA FreshHolds ==
  ASSUME NEW E, NEW N, NEW S, NEW U, NEW R, W(E, N, S, U, R), Handshakes(E, N),
         NEW p \in Peers, NEW k \in N, k.to = p, NEW r, r = NewSession(p, E[p], k)
  PROVE  Holds(E, N, p, r)
<1> DEFINE e == E[p]
           q == Other(p)
           gone == {t \in e.allows : t.rf /\ ~Valid(t.si, k.si)}
           f == [e EXCEPT !.rsid = k.si, !.allows = @ \ gone, !.doneTransactions = {}]
           nacks == {AllowPkt(p, t, "nack", <<>>) : t \in gone}
<1>1. /\ E \in [Peers -> EstateRecords] /\ e \in EstateRecords /\ Regular(E, N)
      /\ e.tid \in Nat /\ PacketOK(E, S, k)
  BY Ready, IsRegular, EstateFields DEF W
<1>2. \/ r.e = e /\ r.out = {}
      \/ ~k.cf /\ r.e = f /\ r.out = nacks
  BY <1>1 DEF NewSession, RemoveStaleCorrespondents, Result, EstateRecords
<1>3. CASE r.e = e /\ r.out = {}
  BY <1>1, <1>3, QuietHolds DEF SameKeys
<1>4. CASE ~k.cf /\ r.e = f /\ r.out = nacks
  <2>1. /\ f.allows = e.allows \ gone /\ f.privee = e.privee /\ f.publee = e.publee
        /\ f.allowed = e.allowed /\ f.sid = e.sid /\ f.tid = e.tid
    BY <1>1 DEF EstateRecords
  <2>2. ASSUME NEW c \in nacks PROVE Vain(E, c)
    <3>1. PICK t \in gone : c = AllowPkt(p, t, "nack", <<>>)
      BY <2>2
    <3>2. c.pk = "nack" /\ c.cf /\ c.to = Other(p)
      BY <3>1, AllowPktFields
    <3> QED
      BY <3>2, Others DEF Vain, Idle, Nacks, Initiator
  <2>3. ASSUME NEW t \in gone, NEW u \in E[q].allows, ~u.rf, Same(t, u)
        PROVE  FALSE
    <3>1. q \in Peers /\ E[q].sid = Nth(S[q]) /\ S[q] \in 0 .. MaxSids
          /\ S \in [Peers -> 0 .. MaxSids]
      BY Others, Ready
    <3>2. t.si = E[q].sid
      BY <2>3, <3>1 DEF Handshakes, SideOK, AllowerOK, Same
    <3>3. Started(S, q, k.si)
      BY <1>1, <1>4 DEF PacketOK, Used, Initiator
    <3>4. PICK j \in 0 .. MaxSids : j <= S[q] /\ k.si = Nth(j)
      BY <3>1, <3>3, StartedId
    <3>5. S[q] >= j
      BY <3>1, <3>4, Circle
    <3>6. Valid(t.si, k.si)
      BY <3>1, <3>2, <3>4, <3>5, NthValid
    <3> QED
      BY <2>3, <3>6
  <2> HIDE DEF f, nacks, gone
  <2>4. \A t \in e.allows : t \notin r.e.allows => t \in gone
    BY <1>4, <2>1
  <2>5. /\ r.e.allows \subseteq e.allows /\ r.e.privee = e.privee /\ r.e.publee = e.publee
        /\ r.e.allowed = e.allowed /\ r.e.sid = e.sid
        /\ r.e.tid \in Nat /\ e.tid <= r.e.tid
    BY <1>1, <1>4, <2>1
  <2>6. \A c \in r.out : Vain(E, c)
    BY <1>4, <2>2
  <2>7. \A t \in e.allows : t.rf /\ t \notin r.e.allows =>
          \A u \in E[Other(p)].allows : ~u.rf => ~Same(t, u)
    BY <2>3, <2>4
  <2> QED
    BY <1>1, <2>5, <2>6, <2>7, StillHolds
<1> QED
  BY <1>2, <1>3, <1>4

(* processRx as a whole. *)
LEMMA ProcessedHolds ==
  ASSUME NEW E, NEW N, NEW S, NEW U, NEW R, W(E, N, S, U, R), Handshakes(E, N),
         NEW p \in Peers, NEW k \in N, k.to = p, NEW r, r = Processed(p, E[p], k)
  PROVE  Holds(E, N, p, r)
<1> DEFINE e == E[p]
<1>1. PacketOK(E, S, k) /\ k.cf \in BOOLEAN
  BY DEF W, PacketOK
<1>2. E \in [Peers -> EstateRecords] /\ Regular(E, N) /\ e.tid \in Nat
  BY Ready, IsRegular, EstateFields
<1>3. CASE IsStale(e, k)
  <2> DEFINE out == IF k.pk \in Nacks THEN {} ELSE {Reply(k, "nack")}
  <2>1. r = Result(e, out)
    BY <1>3 DEF Processed
  <2>2. Vain(E, Reply(k, "nack"))
    BY <1>1, <1>3, NackVain DEF IsStale, Nacks
  <2>3. \A c \in out : Vain(E, c)
    BY <2>2
  <2> HIDE DEF out
  <2>4. r.e = e /\ r.out = out
    BY <2>1 DEF Result
  <2> QED
    BY <1>2, <2>3, <2>4, QuietHolds DEF SameKeys
<1>4. CASE ~IsStale(e, k)
  <2> DEFINE fresh == NewSession(p, e, k)
             F == Put(E, p, fresh)
             M == N \cup fresh.out
             done == Dispatch(p, fresh.e, k)
  <2>1. Reached(E, N, S, U, R, p, fresh)
    BY <1>1, <1>4, FreshMoves
  <2>2. Holds(E, N, p, fresh)
    <3>1. fresh = NewSession(p, E[p], k)
      OBVIOUS
    <3> HIDE DEF fresh
    <3> QED
      BY <3>1, FreshHolds
  <2>3. r = Result(done.e, fresh.out \cup done.out)
    BY <1>4 DEF Processed
  <2> HIDE DEF fresh
  <2>4. F[p] = fresh.e
    BY <1>1, <1>2 DEF Put
  <2>5. W(F, M, S, U, R) /\ Handshakes(F, M)
    BY <1>1, <1>2, <2>1, <2>2, ReachedIs DEF Holds
  <2>6. done = Dispatch(p, F[p], k)
    BY <2>4
  <2>7. k \in M
    OBVIOUS
  <2> HIDE DEF F, M, done
  <2>8. Holds(F, M, p, done)
    BY <1>1, <2>5, <2>6, <2>7, DispatchHolds
  <2>9. r.e = done.e /\ r.out = fresh.out \cup done.out
    BY <2>3 DEF Result
  <2>10. Put(F, p, done) = Put(E, p, r)
    BY <2>9 DEF Put, F
  <2>11. M \cup done.out = N \cup r.out
    BY <2>9 DEF M
  <2> QED
    BY <2>8, <2>10, <2>11 DEF Holds
<1> QED
  BY <1>3, <1>4

-----------------------------------------------------------------------------
(* The steps.                                                                *)

LEMMA SentHolds ==
  ASSUME NEW p \in Peers, NEW r, Holds(estate, net, p, r),
         estate' = Put(estate, p, r), net' \subseteq net \cup r.out
  PROVE  Handshakes(estate', net')
BY FewerHandshakes DEF Holds

LEMMA AllowHolds ==
  ASSUME IInv, Handshakes(estate, net), NEW p \in Peers, Allow(p)
  PROVE  Handshakes(estate', net')
<1> DEFINE e == estate[p]
           d == [e EXCEPT !.tid = @ + 1]
           r == Rekey(d)
           t == [rf |-> FALSE, si |-> r.sid, ti |-> r.tid, tx |-> "hello", oreo |-> 0]
           f == [r EXCEPT !.allows = @ \cup {t}]
           F == [estate EXCEPT ![p] = f]
           i == Redone(p, t, r)
           M == net \cup {i}
<1>1. /\ estate \in [Peers -> EstateRecords] /\ e \in EstateRecords /\ Regular(estate, net)
      /\ e.sid \in Nat /\ e.tid \in Nat
  BY Ready, IsRegular, EstateFields DEF IInv
<1>2. e.allows = {} /\ estate' = F /\ net' \subseteq M
  BY DEF Allow, Hello, Result, Send
<1>3. d \in EstateRecords /\ d.tid = e.tid + 1 /\ d.sid = e.sid /\ d.allows = {}
  <2>1. e.tid + 1 \in Nat
    BY <1>1
  <2>2. d \in EstateRecords
    BY <1>1, <2>1, Zenon DEF EstateRecords
  <2> QED
    BY <1>1, <1>2, <2>2 DEF EstateRecords
<1> HIDE DEF d
<1>4. /\ r \in EstateRecords /\ r.sid = e.sid /\ r.tid = e.tid + 1 /\ r.allows = {}
      /\ r.allowed = FALSE
  BY <1>3, Rekeyed
<1> HIDE DEF r
<1>5. t.rf = FALSE /\ t.si = e.sid /\ t.ti = e.tid + 1 /\ t.tx = "hello"
  BY <1>4
<1>6. i = AllowPkt(p, t, "hello", <<r.privee>>)
  BY <1>5 DEF Redone
<1> HIDE DEF t
<1>7. /\ f.allows = {t} /\ ~f.allowed /\ f.privee = r.privee /\ f.sid = e.sid
      /\ f.tid = e.tid + 1
  BY <1>4 DEF EstateRecords
<1>8. /\ i.tk = "allow" /\ i.pk = "hello" /\ i.to = Other(p) /\ i.cf = FALSE
      /\ i.body = <<r.privee>>
  BY <1>5, <1>6, AllowPktFields
<1> HIDE DEF i, f
<1>9. F[p] = f /\ F[Other(p)] = estate[Other(p)]
  BY <1>1, Others
<1>10. ASSUME NEW k \in net PROVE ~Of(p, t, k)
  <2>1. Initiator(k) = p => Used(estate, sessions, p, k.si, k.ti)
    BY <1>10 DEF IInv, W, PacketOK
  <2>2. k.ti \in Nat
    BY <1>10 DEF IInv, W, PacketOK
  <2> QED
    BY <1>1, <1>5, <2>1, <2>2 DEF Used, Of, Same
<1>11. ASSUME NEW u \in estate[Other(p)].allows, u.rf PROVE ~Same(u, t)
  <2>1. Other(p) \in Peers /\ Other(Other(p)) = p
    BY Others
  <2>2. u \in AllowRecords /\ AllowOK(estate, sessions, Other(p), u)
    BY <1>11, <2>1, Ready DEF IInv
  <2>3. Used(estate, sessions, p, u.si, u.ti) /\ u.ti \in Nat
    BY <1>11, <2>1, <2>2 DEF AllowOK, AllowRecords
  <2> QED
    BY <1>1, <1>5, <2>3 DEF Used, Same
<1>12. \A c \in M : c \in net \/ c = i
  OBVIOUS
<1>13. t.ti <= F[p].tid
  BY <1>1, <1>5, <1>7, <1>9
<1> HIDE DEF F, M
<1>14. Handshakes(F, M)
  <2>1. /\ ~F[p].allowed /\ F[p].allows = {t} /\ ~t.rf /\ t.tx = "hello" /\ t.si = F[p].sid
        /\ i.pk = "hello" /\ ~i.cf /\ i.to = Other(p) /\ i.body = <<F[p].privee>>
    BY <1>5, <1>7, <1>8, <1>9
  <2> QED
    BY <1>1, <1>2, <1>9, <1>10, <1>11, <1>12, <1>13, <2>1, Asked
<1> QED
  BY <1>2, <1>14, FewerHandshakes

LEMMA SubmitHolds ==
  ASSUME IInv, Handshakes(estate, net), NEW m \in Msgs, Submit(m)
  PROVE  Handshakes(estate', net')
<1> DEFINE p == From[m]
           e == estate[p]
           r == Messages(p, e, <<m>>)
<1>1. p \in Peers
  BY FromAssumption
<1>2. estate \in [Peers -> EstateRecords] /\ e \in EstateRecords /\ Regular(estate, net)
  BY <1>1, Ready, IsRegular DEF IInv
<1>3. estate' = Put(estate, p, r) /\ net' \subseteq net \cup r.out
  BY DEF Submit, Send, Put
<1>4. /\ SameKeys(r.e, e) /\ r.e.sid = e.sid /\ r.e.tid \in Nat /\ e.tid <= r.e.tid
      /\ \A c \in r.out : c.tk = "message"
  <2> DEFINE M == <<m>>
  <2>1. M \in Seq(Msgs) /\ r = Messages(p, e, M)
    OBVIOUS
  <2> HIDE DEF r, e, p, M
  <2>2. e \in EstateRecords
    BY <1>2
  <2> QED
    BY <2>1, <2>2, MessagesKeys
<1> HIDE DEF p, r
<1>5. \A c \in r.out : Vain(estate, c)
  BY <1>4, MessageVain
<1>6. Holds(estate, net, p, r)
  BY <1>1, <1>2, <1>4, <1>5, QuietHolds
<1> QED
  BY <1>1, <1>3, <1>6, SentHolds

LEMMA RedoHolds ==
  ASSUME IInv, Handshakes(estate, net), NEW p \in Peers, Redo(p)
  PROVE  Handshakes(estate', net')
<1> DEFINE e == estate[p]
<1>1. /\ estate \in [Peers -> EstateRecords] /\ Regular(estate, net) /\ e.tid \in Nat
      /\ estate' = estate
  BY Ready, IsRegular, EstateFields DEF IInv, Redo
<1>2. CASE \E t \in e.allows : Send({Redone(p, t, e)})
  <2>1. PICK t \in e.allows : Send({Redone(p, t, e)})
    BY <1>2
  <2> DEFINE i == Redone(p, t, e)
  <2>2. t \in AllowRecords /\ AllowOK(estate, sessions, p, t) /\ t.rf \in BOOLEAN
    BY Ready DEF IInv, AllowRecords
  <2>3. t.tx \in (IF t.rf THEN {"cookie", "ack"} ELSE {"hello", "initiate"})
    BY <2>2 DEF AllowOK
  <2>4. /\ i.to = Other(p) /\ i.cf = t.rf /\ i.si = t.si /\ i.ti = t.ti
        /\ \/ t.tx = "hello" /\ i.pk = "hello" /\ i.body = <<e.privee>>
           \/ t.tx = "initiate" /\ i.pk = "initiate" /\ i.body = <<e.privee, t.oreo>>
           \/ t.tx = "cookie" /\ i.pk = "cookie" /\ i.body = <<t.oreo>>
           \/ t.tx = "ack" /\ i.pk = "ack"
    <3>1. \/ t.tx = "hello" /\ i = AllowPkt(p, t, "hello", <<e.privee>>)
          \/ t.tx = "initiate" /\ i = AllowPkt(p, t, "initiate", <<e.privee, t.oreo>>)
          \/ t.tx = "cookie" /\ i = AllowPkt(p, t, "cookie", <<t.oreo>>)
          \/ t.tx = "ack" /\ i = AllowPkt(p, t, "ack", <<>>)
      BY <2>3 DEF Redone
    <3> HIDE DEF i
    <3> QED
      BY <3>1, AllowPktFields
  <2>5. net' \subseteq net \cup {i}
    BY <2>1 DEF Send
  <2> HIDE DEF i
  <2>6. /\ Same(t, i)
        /\ \/ ~t.rf /\ i.pk = "hello" /\ i.body = <<e.privee>>
           \/ ~t.rf /\ i.pk = "initiate" /\ i.body = <<e.privee, t.oreo>> /\ t.tx = "initiate"
           \/ t.rf /\ i.pk = "cookie" /\ i.body = <<t.oreo>>
           \/ t.rf /\ i.pk = "ack" /\ t.tx = "ack"
    BY <2>2, <2>3, <2>4 DEF Same
  <2>7. \A c \in net' : c \in net \/ c = i
    BY <2>5
  <2>8. Handshakes(estate, net')
    BY <1>1, <2>4, <2>6, <2>7, Repeated
  <2> QED
    BY <1>1, <2>8
<1>3. CASE \E x \in e.messengers : Send({MessagePkt(p, x)})
  <2>1. PICK x \in e.messengers : Send({MessagePkt(p, x)})
    BY <1>3
  <2> DEFINE r == Result(e, {MessagePkt(p, x)})
  <2>2. r.e = e /\ r.out = {MessagePkt(p, x)}
    BY DEF Result
  <2>3. MessagePkt(p, x).tk = "message"
    BY DEF MessagePkt, Pkt
  <2>4. net' \subseteq net \cup r.out /\ estate' = Put(estate, p, r)
    BY <1>1, <2>1, <2>2 DEF Send, Put
  <2> HIDE DEF r
  <2>5. Holds(estate, net, p, r)
    BY <1>1, <2>2, <2>3, MessageVain, QuietHolds DEF SameKeys
  <2> QED
    BY <2>4, <2>5, SentHolds
<1> QED
  BY <1>2, <1>3 DEF Redo

LEMMA TimeoutHolds ==
  ASSUME timely', IInv, Handshakes(estate, net), NEW p \in Peers, Timeout(p)
  PROVE  Handshakes(estate', net')
<1> DEFINE e == estate[p]
           q == Other(p)
<1>1. /\ estate \in [Peers -> EstateRecords] /\ e \in EstateRecords /\ Regular(estate, net)
      /\ e.tid \in Nat
  BY Ready, IsRegular, EstateFields DEF IInv
<1>2. PICK t \in e.allows :
        /\ ~Awaited(p, t)
        /\ estate' = [estate EXCEPT ![p] = Forget(e, t).e]
        /\ Send(IF t.rf THEN {AllowPkt(p, t, "refuse", <<>>)} ELSE {})
  BY DEF Timeout
<1> DEFINE out == IF t.rf THEN {AllowPkt(p, t, "refuse", <<>>)} ELSE {}
           r == Result(Forget(e, t).e, out)
<1>3. r.e = [e EXCEPT !.allows = @ \ {t}] /\ r.out = out
  BY DEF Result, Forget
<1>4. /\ r.e.allows = e.allows \ {t} /\ r.e.privee = e.privee /\ r.e.publee = e.publee
      /\ r.e.allowed = e.allowed /\ r.e.sid = e.sid /\ r.e.tid = e.tid
  <2>1. e \in EstateRecords
    BY <1>1
  <2> HIDE DEF e
  <2> QED
    BY <1>3, <2>1 DEF EstateRecords
<1>5. estate' = Put(estate, p, r) /\ net' \subseteq net \cup r.out
  <2>1. r.e = Forget(e, t).e
    BY DEF Result
  <2> QED
    BY <1>2, <1>3, <2>1 DEF Put, Send
<1> HIDE DEF r
<1>6. \A c \in r.out : Vain(estate, c)
  <2> SUFFICES ASSUME NEW c \in r.out PROVE Vain(estate, c)
    OBVIOUS
  <2>1. t.rf /\ c = AllowPkt(p, t, "refuse", <<>>)
    BY <1>3
  <2>2. c.pk = "refuse" /\ c.cf /\ c.to = Other(p)
    BY <2>1, AllowPktFields
  <2> QED
    BY <2>2, Others DEF Vain, Idle, Nacks, Initiator
<1>7. \A u \in e.allows : u.rf /\ u \notin r.e.allows =>
        \A i \in estate[Other(p)].allows : ~i.rf => ~Same(u, i)
  BY <1>2, <1>4 DEF Awaited, Same
<1>8. r.e.tid \in Nat /\ e.tid <= r.e.tid /\ r.e.allows \subseteq e.allows
  BY <1>1, <1>4
<1>9. Holds(estate, net, p, r)
  BY <1>1, <1>4, <1>6, <1>7, <1>8, StillHolds
<1> QED
  BY <1>5, <1>9, SentHolds

LEMMA RestartHolds ==
  ASSUME timely', IInv, Handshakes(estate, net), NEW p \in Peers, Restart(p)
  PROVE  Handshakes(estate', net')
<1> DEFINE f == NewEstate(NextId(estate[p].sid), estate[p].privee + 1)
           q == Other(p)
<1>1. estate \in [Peers -> EstateRecords] /\ Regular(estate, net)
  BY Ready, IsRegular DEF IInv
<1>2. /\ \A t \in estate[p].allows : ~Awaited(p, t)
      /\ estate' = [estate EXCEPT ![p] = f] /\ net' = net
  BY DEF Restart
<1>3. f.allowed = FALSE /\ f.allows = {}
  BY DEF NewEstate
<1> HIDE DEF f
<1>4. /\ estate'[q] = estate[q] /\ ~estate'[p].allowed /\ estate'[p].allows = {}
      /\ Other(q) = p
  BY <1>1, <1>2, <1>3, Others
<1>5. \A u \in estate[q].allows : ~u.rf => ~Answered(estate, q, u)
  BY <1>2, <1>4 DEF Awaited, Answered, Same
<1>6. Handshakes(estate', net)
  BY <1>1, <1>4, <1>5, Begun
<1> QED
  BY <1>2, <1>6

LEMMA ReceiveHolds ==
  ASSUME IInv, Handshakes(estate, net), NEW k \in net, NEW copies, Receive(k, copies)
  PROVE  Handshakes(estate', net')
<1> DEFINE p == k.to
           r == Processed(p, estate[p], k)
<1>1. estate' = Put(estate, p, r) /\ net' \subseteq net \cup r.out
  <2> DEFINE fresh == NewSession(p, estate[p], k)
             done == Dispatch(p, fresh.e, k)
             stale == ~k.cf /\ ~Valid(k.si, estate[p].rsid)
             result == IF stale
                       THEN Result(estate[p], IF k.pk \in Nacks THEN {} ELSE {Reply(k, "nack")})
                       ELSE Result(done.e, fresh.out \cup done.out)
             path == (net \ ({k} \ copies)) \cup result.out
  <2>1. /\ estate' = [estate EXCEPT ![p] = result.e]
        /\ net' = IF Cardinality(path) <= MaxNet THEN path ELSE net \ ({k} \ copies)
    BY Zenon DEF Receive
  <2>2. result = r
    BY DEF Processed, IsStale
  <2> HIDE DEF result, r
  <2> QED
    BY <2>1, <2>2 DEF Put
<1>2. p \in Peers
  BY DEF IInv, W, PacketOK
<1>3. k.to = p /\ r = Processed(p, estate[p], k)
  OBVIOUS
<1> HIDE DEF p, r
<1>4. Holds(estate, net, p, r)
  BY <1>2, <1>3, ProcessedHolds DEF IInv
<1> QED
  BY <1>1, <1>2, <1>4, SentHolds

LEMMA HandshakesInit ==
  ASSUME Init
  PROVE  Handshakes(estate, net)
<1>1. /\ net = {} /\ \A p \in Peers : estate[p].allows = {} /\ estate[p].allowed = FALSE
  BY DEF Init, NewEstate
<1>2. estate["a"].allowed = FALSE
  BY <1>1 DEF Peers
<1>3. \A p \in Peers : SideOK(estate, net, p) /\ ~Accepting(estate, net, p)
  BY <1>1 DEF SideOK, Accepting
<1> QED
  BY <1>2, <1>3 DEF Handshakes

LEMMA HandshakesStep ==
  ASSUME IInv, timely => Handshakes(estate, net), [Next]_vars, timely'
  PROVE  Handshakes(estate', net')
<1>1. timely
  BY DEF Next, vars, Allow, Submit, Redo, Timeout, Restart, Receive, Lose
<1>2. Handshakes(estate, net)
  BY <1>1
<1>3. CASE \E p \in Peers : Allow(p) \/ Redo(p) \/ Timeout(p) \/ Restart(p)
  BY <1>2, <1>3, AllowHolds, RedoHolds, TimeoutHolds, RestartHolds
<1>4. CASE \E m \in Msgs : Submit(m)
  BY <1>2, <1>4, SubmitHolds
<1>5. CASE \E k \in net : \/ \E copies \in {{}} \cup (IF Quick THEN {} ELSE {{k}}) : Receive(k, copies)
                          \/ Lose(k)
  <2>1. PICK k \in net : \/ \E copies \in {{}} \cup (IF Quick THEN {} ELSE {{k}}) : Receive(k, copies)
                         \/ Lose(k)
    BY <1>5
  <2>2. CASE Lose(k)
    <3>1. estate' = estate /\ net' \subseteq net
      BY <2>2 DEF Lose
    <3> QED
      BY <1>2, <3>1, FewerHandshakes
  <2> QED
    BY <1>2, <2>1, <2>2, ReceiveHolds
<1>6. CASE UNCHANGED vars
  BY <1>2, <1>6 DEF vars
<1> QED
  BY <1>3, <1>4, <1>5, <1>6 DEF Next

(* Two stacks that allow each other hold each other's short term keys, whatever
   is lost, repeated or overtaken, however the handshakes of both overlap,
   refuse one another, time out or are cut short by a restart: until the first
   time that an Allowent ends by its timer or by a restart while the Allower it
   answers still waits (timely).  Nothing in the code prevents that (a stack may
   restart, or be given a shorter timeout), and then the keys may differ. *)
THEOREM KeysMatch == Spec => []KeysAgree
<1> DEFINE H == timely => Handshakes(estate, net)
<1>1. Init => IInv /\ H
  BY InvariantInit, HandshakesInit
<1>2. IInv /\ H /\ [Next]_vars => IInv' /\ H'
  <2> SUFFICES ASSUME IInv, H, [Next]_vars PROVE IInv' /\ H'
    OBVIOUS
  <2>1. timely' => Handshakes(estate', net')
    BY HandshakesStep
  <2>2. H'
    BY <2>1 DEF Handshakes, SideOK, AllowerOK, AllowentOK, Accepting, Accepts, Expected,
                Answered, Match
  <2> QED
    BY <2>2, InvariantStep
<1>3. IInv /\ H => KeysAgree
  BY DEF Handshakes, Match, KeysAgree, Box, Peers, Other
<1> QED
  BY <1>1, <1>2, <1>3, PTL DEF Spec
=============================================================================
