------------------------------- MODULE Delivery -------------------------------
(***************************************************************************)
(* What RAET's message transaction promises within one session: a message  *)
(* given to the stack is appended to the other stack's rxMsgs at most once, *)
(* as long as that one remembers it, and the initiator counts it as         *)
(* complete only after that.  It may give a message up, before or after it  *)
(* was delivered, and never knows which.                                    *)
(***************************************************************************)
EXTENDS Naturals

CONSTANT Msgs

VARIABLES
  status,    \* the initiator's view of each message
  delivered, \* how often the correspondent's application got it
  forgotten  \* messages the correspondent forgot before the initiator was done

Statuses == {"idle", "pending", "done", "failed"}

DTypeOK ==
  /\ status \in [Msgs -> Statuses]
  /\ delivered \in [Msgs -> Nat]
  /\ forgotten \subseteq Msgs

DInit ==
  /\ status = [m \in Msgs |-> "idle"]
  /\ delivered = [m \in Msgs |-> 0]
  /\ forgotten = {}

(* RoadStack.message accepts or, when not allowed, refuses the message. *)
Submit(m) ==
  /\ status[m] = "idle"
  /\ \E s \in {"pending", "failed"} : status' = [status EXCEPT ![m] = s]
  /\ UNCHANGED <<delivered, forgotten>>

Deliver(m) ==
  /\ status[m] # "idle" /\ (delivered[m] = 0 \/ m \in forgotten)
  /\ delivered' = [delivered EXCEPT ![m] = @ + 1]
  /\ UNCHANGED <<status, forgotten>>

(* MsgStaleTimeout has passed, and the initiator still retries. *)
Forget(m) ==
  /\ status[m] = "pending"
  /\ forgotten' = forgotten \cup {m}
  /\ UNCHANGED <<status, delivered>>

Complete(m) ==
  /\ status[m] = "pending" /\ delivered[m] > 0
  /\ status' = [status EXCEPT ![m] = "done"]
  /\ UNCHANGED <<delivered, forgotten>>

GiveUp(m) ==
  /\ status[m] = "pending"
  /\ status' = [status EXCEPT ![m] = "failed"]
  /\ UNCHANGED <<delivered, forgotten>>

DNext == \E m \in Msgs : Submit(m) \/ Deliver(m) \/ Forget(m) \/ Complete(m) \/ GiveUp(m)

DSpec == DInit /\ [][DNext]_<<status, delivered, forgotten>>
=============================================================================
