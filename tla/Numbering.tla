------------------------------ MODULE Numbering ------------------------------
(***************************************************************************)
(* The session number of one direction: the initiating stack's remote.sid   *)
(* and what the other stack last saw of it, remote.rsid.  Packets of every  *)
(* recent session may still arrive.  The numbers live on a circle; lead     *)
(* counts how many sessions the receiver is behind, which neither knows.    *)
(***************************************************************************)
EXTENDS Lotting

CONSTANT Window  \* bound: sessions a packet, or the receiver, may be behind

ASSUME WindowAssumption == Window \in 0 .. Half - 2

VARIABLES
  sid,   \* the initiating stack's session
  rsid,  \* the corresponding stack's idea of it
  lead   \* sessions started since the one rsid names; Window while rsid is 0

numbers == <<sid, rsid, lead>>

(* The number of the session g before the one numbered n. *)
Earlier(n, g) == IF n - g > 0 THEN n - g ELSE n - g + (Modulo - 1)

NumbersOK == sid \in Ids /\ rsid \in Ids \cup {0} /\ lead \in 0 .. Window

Init == sid \in Ids /\ rsid = 0 /\ lead = Window

(* nextSid at the end of an allow transaction, or on restart. *)
NextSession ==
  /\ rsid = 0 \/ lead < Window
  /\ sid' = NextId(sid)
  /\ lead' = IF rsid = 0 THEN lead ELSE lead + 1
  /\ UNCHANGED rsid

(* The receiver restarts: the keep has sid, not rsid.  A vacuous join, too,
   sets rsid to 0. *)
Restart == rsid' = 0 /\ lead' = Window /\ UNCHANGED sid

(* processRx: a packet of the session g before the current one. *)
Receive(g) ==
  LET si == Earlier(sid, g)
  IN /\ Valid(si, rsid)
     /\ rsid' = si /\ lead' = g
     /\ UNCHANGED sid

Next == NextSession \/ Restart \/ \E g \in 0 .. Window : Receive(g)

Spec == Init /\ [][Next]_numbers

-----------------------------------------------------------------------------
(* lead is what it says: rsid is the number of the session lead before sid,
   unless it is 0, with which every session is as good as the current one. *)
LeadIsRight == IF rsid = 0 THEN lead = Window ELSE rsid = Earlier(sid, lead)

(* validRsid lets in exactly the packets of the session the receiver knows and
   of later ones, across the rollover: a stale session is never mistaken for a
   newer one, nor a newer one for stale.  A receiver that knows none lets in
   every session. *)
ValidIffNotOlder == \A g \in 0 .. Window : Valid(Earlier(sid, g), rsid) <=> g <= lead
=============================================================================
