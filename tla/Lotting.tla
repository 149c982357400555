------------------------------- MODULE Lotting -------------------------------
(***************************************************************************)
(* Session and transaction numbers (raet/lotting.py, raet/raeting.py): they *)
(* count up, roll over to 1 because 0 is special, and are compared in a     *)
(* half window of the number circle.                                        *)
(***************************************************************************)
EXTENDS Integers

CONSTANT Half  \* SID_WRAP_DELTA: 2^31

ASSUME HalfAssumption == Half \in Nat /\ Half > 2

Modulo == 2 * Half        \* SID_WRAP_MODULO
Ids    == 1 .. Modulo - 1 \* what nextSid and nextTid hand out

(* Mutant: rolls over to the special 0. *)
NextIdZero(n) == IF n + 1 > Modulo - 1 THEN 0 ELSE n + 1

(* nextSid, nextTid *)
NextId(n) == IF n + 1 > Modulo - 1 THEN 1 ELSE n + 1

(* Mutant: compares as if numbers never rolled over. *)
ValidPlain(new, old) == old = 0 \/ new = 0 \/ new >= old

(* Lot.validateSid *)
Valid(new, old) == old = 0 \/ new = 0 \/ (new - old) % Modulo < Half

=============================================================================
