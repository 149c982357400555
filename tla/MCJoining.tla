----------------------------- MODULE MCJoining -----------------------------
(* Small instances of Joining. *)
EXTENDS Joining

OnceBoth == [s \in Stacks |-> "once"]
=============================================================================
