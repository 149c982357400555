-------------------------- MODULE Numbering_proofs --------------------------
(***************************************************************************)
(* Session numbers compare as the sessions do, on a circle of any size, as  *)
(* long as neither side is half of it behind the other.                     *)
(***************************************************************************)
EXTENDS Numbering, TLAPS

(* The remainders of a difference of two numbers on the circle. *)
LEMMA Remainders ==
  ASSUME NEW W \in Nat, W > 0, NEW d \in Int, -W < d, d < W
  PROVE  d % W = IF d >= 0 THEN d ELSE d + W
<1>1. CASE d >= 0
  BY <1>1, Z3
<1>2. CASE d < 0
  BY <1>2, Z3
<1> QED
  BY <1>1, <1>2

LEMMA Circle == /\ Half \in Nat /\ Half > 2 /\ Modulo = 2 * Half
                /\ Window \in Nat /\ Window <= Half - 2
BY HalfAssumption, WindowAssumption DEF Modulo

(* Going back g sessions stays on the circle, and is undone by NextId. *)
LEMMA EarlierFacts ==
  ASSUME NEW n \in Ids, NEW g \in 0 .. Window
  PROVE  /\ Earlier(n, g) \in Ids /\ NextId(n) \in Ids
         /\ Earlier(n, 0) = n
         /\ Earlier(NextId(n), g + 1) = Earlier(n, g)
BY Circle DEF Ids, Earlier, NextId

(* Of two sessions within the window of n, the one further back is not valid
   after the other; the other way round it is. *)
LEMMA ValidMeansNotOlder ==
  ASSUME NEW n \in Ids, NEW g \in 0 .. Window, NEW k \in 0 .. Window
  PROVE  Valid(Earlier(n, g), Earlier(n, k)) <=> g <= k
<1> DEFINE d == Earlier(n, g) - Earlier(n, k)
<1>1. d % Modulo = IF d >= 0 THEN d ELSE d + Modulo
  <2>1. d \in Int /\ -Modulo < d /\ d < Modulo /\ Modulo \in Nat /\ Modulo > 0
    BY Circle, EarlierFacts DEF Ids
  <2> QED
    BY <2>1, Remainders
<1>2. /\ Earlier(n, g) # 0 /\ Earlier(n, k) # 0
      /\ n \in Int /\ 1 <= n /\ n <= Modulo - 1
  BY Circle, EarlierFacts DEF Ids
<1>3. Valid(Earlier(n, g), Earlier(n, k)) <=> (IF d >= 0 THEN d ELSE d + Modulo) < Half
  BY <1>1, <1>2 DEF Valid
<1> QED
  BY <1>2, <1>3, Circle DEF Earlier

IInv == NumbersOK /\ LeadIsRight

(* lead never exceeds the window and always tells how far rsid is behind, if
   the receiver knows a session. *)
THEOREM LeadTheorem == Spec => []IInv
<1>1. Init => IInv
  BY Circle DEF Init, IInv, NumbersOK, LeadIsRight
<1>2. IInv /\ [Next]_numbers => IInv'
  <2> SUFFICES ASSUME IInv, [Next]_numbers PROVE IInv'
    OBVIOUS
  <2>1. CASE NextSession
    <3>1. sid' \in Ids /\ lead' \in 0 .. Window /\ rsid' = rsid
      BY <2>1, Circle, EarlierFacts DEF IInv, NumbersOK, NextSession
    <3>2. ASSUME rsid # 0 PROVE Earlier(sid', lead') = Earlier(sid, lead)
      BY <2>1, <3>2, EarlierFacts DEF IInv, NumbersOK, NextSession
    <3>3. rsid = 0 => lead' = lead
      BY <2>1 DEF NextSession
    <3> QED
      BY <3>1, <3>2, <3>3 DEF IInv, NumbersOK, LeadIsRight
  <2>2. ASSUME NEW g \in 0 .. Window, Receive(g) PROVE IInv'
    <3>1. /\ sid' = sid /\ lead' = g /\ rsid' = Earlier(sid, g)
          /\ Earlier(sid, g) \in Ids /\ Earlier(sid, g) # 0
      BY <2>2, EarlierFacts DEF IInv, NumbersOK, Receive, Ids
    <3> QED
      BY <2>2, <3>1 DEF IInv, NumbersOK, LeadIsRight
  <2>3. CASE Restart
    BY <2>3, Circle DEF IInv, NumbersOK, LeadIsRight, Restart
  <2>4. CASE UNCHANGED numbers
    BY <2>4 DEF IInv, NumbersOK, LeadIsRight, numbers
  <2> QED
    BY <2>1, <2>2, <2>3, <2>4 DEF Next
<1> QED
  BY <1>1, <1>2, PTL DEF Spec

(* Both session numbers stay on the circle, which skips 0, and the receiver is
   never more sessions behind than the window.  rsid is 0 until it knows one. *)
THEOREM NumbersTheorem == Spec => []NumbersOK
<1>1. IInv => NumbersOK
  BY DEF IInv
<1> QED
  BY <1>1, LeadTheorem, PTL

(* validRsid accepts a packet exactly when its session is not older than the
   one the receiver knows, whatever rolled over in between. *)
THEOREM ValidTheorem == Spec => []ValidIffNotOlder
<1>1. IInv => ValidIffNotOlder
  <2> SUFFICES ASSUME IInv, NEW g \in 0 .. Window
               PROVE  Valid(Earlier(sid, g), rsid) <=> g <= lead
    BY DEF ValidIffNotOlder
  <2>1. CASE rsid = 0
    BY <2>1, Circle DEF IInv, LeadIsRight, Valid
  <2>2. CASE rsid # 0
    BY <2>2, ValidMeansNotOlder DEF IInv, NumbersOK, LeadIsRight
  <2> QED
    BY <2>1, <2>2
<1> QED
  BY <1>1, LeadTheorem, PTL
=============================================================================
