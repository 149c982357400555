----------------------------- MODULE Acceptance -----------------------------
(***************************************************************************)
(* The acceptance of a role and its keys: RoadKeep.statusRole in           *)
(* raet/road/keeping.py.  What the keep has on disk for a role is an       *)
(* acceptance and a pair of keys; "none" is the None of a role without a   *)
(* file.                                                                   *)
(***************************************************************************)

Modes == {"never", "once", "always"}
Statuses == {"none", "pending", "accepted", "rejected"}

RoleData(acceptance, keys) == [acceptance |-> acceptance, keys |-> keys]

FirstStatus(auto) == IF auto = "never" THEN "pending" ELSE "accepted"

(* Mutant: a role that was rejected is judged by its keys alone. *)
StatusRoleByKeys(auto, data, keys) ==
  IF auto = "always" \/ data.acceptance = "none" THEN FirstStatus(auto)
  ELSE IF data.keys # keys THEN "rejected"
  ELSE IF auto = "once" THEN "accepted" ELSE data.acceptance

(* Mutant: a role that is pending takes other keys. *)
StatusRolePendingAny(auto, data, keys) ==
  IF auto = "always" \/ data.acceptance \in {"none", "pending"} THEN FirstStatus(auto)
  ELSE IF data.acceptance = "rejected" \/ data.keys # keys THEN "rejected"
  ELSE IF auto = "once" THEN "accepted" ELSE data.acceptance

(* The status of the keys, given the data on disk. *)
StatusRole(auto, data, keys) ==
  IF auto = "always" \/ data.acceptance = "none" THEN FirstStatus(auto)
  ELSE IF data.acceptance = "rejected" \/ data.keys # keys THEN "rejected"
  ELSE IF auto = "once" THEN "accepted" ELSE data.acceptance

(* What statusRole(dump=True) leaves on disk. *)
Persisted(auto, data, keys) ==
  LET status == StatusRole(auto, data, keys)
  IN IF status = "rejected" THEN data ELSE RoleData(status, keys)
=============================================================================
