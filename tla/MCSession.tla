------------------------------ MODULE MCSession ------------------------------
(* Instance of Session for TLC: one message from "a" and, where there is time,
   one from "b". *)
EXTENDS Session

CONSTANTS m1, m2

OneMsg  == {m1}
TwoMsgs == {m1, m2}
Sender  == [m \in Msgs |-> IF m = m1 THEN "a" ELSE "b"]
=============================================================================
