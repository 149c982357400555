-------------------------------- MODULE Keep --------------------------------
(***************************************************************************)
(* The remotes of a RoadStack and the files that persist them              *)
(* (raet/stacking.py, class KeepStack; raet/keeping.py;                    *)
(* raet/road/keeping.py): one file for each remote, one for each role with *)
(* the acceptance and the keys, one for the local estate with puid.        *)
(*                                                                         *)
(* The handlers of a stack run one at a time.  What a handler does to the  *)
(* memory is one step; the files it writes and clears are left in todo and *)
(* reach the disk one by one, since the process may stop between them.     *)
(* Keep.dump truncates the file before it writes it, so the process may    *)
(* also stop with that file torn.                                          *)
(***************************************************************************)
EXTENDS Naturals, Sequences, FiniteSets, Acceptance

CONSTANTS
  Names,     \* names of remotes
  Roles,     \* roles of remotes, several remotes may have the same one
  Keys,      \* long term keys of a role
  Autos,     \* values the operator gives RoadKeep.auto, another at each start
  Mutable,   \* RoadStack.mutable
  NoFile,    \* no file on disk
  Torn,      \* a file cut off while it was written
  MaxUid,    \* largest uid, 2^32 - 1 in the code
  MaxCrash   \* bound: crashes

None == "none"  \* no role, no keys

ASSUME ConstantsAssumption ==
  /\ Autos \subseteq Modes /\ Autos # {} /\ Mutable \in BOOLEAN
  /\ IsFiniteSet(Names) /\ MaxUid \in Nat /\ MaxUid > Cardinality(Names) /\ MaxCrash \in Nat
  /\ None \notin Roles \cup Keys /\ NoFile # Torn

LocalUid == 1      \* nextUid of a new stack, taken by its local estate

VARIABLES
  remotes,     \* nameRemotes: the remotes in memory
  puid,        \* stack.puid, the last uid handed out
  remoteFile,  \* remote/estate.<name>.json
  roleFile,    \* role/remote/role.<role>.json
  localFile,   \* local/estate.json, its puid, 0 for no file and for a torn one
  todo,        \* file operations the handler in progress has still to do
  auto,        \* RoadKeep.auto
  life,        \* "up", "down", or "raised": an exception left the stack
  crashes

Files == <<remoteFile, roleFile, localFile>>
vars == <<remotes, puid, remoteFile, roleFile, localFile, todo, auto, life, crashes>>

Uids == 1 .. MaxUid

(* joined is "answered" between the response of a Joinent and its ack, where
   the code has None. *)
RemoteRecords ==
  [uid: Uids, role: Roles \cup {None}, keys: Keys \cup {None}, acceptance: Statuses,
   joined: {"no", "answered", "yes"}]
FileRecords == [uid: Uids, role: Roles, joined: BOOLEAN]
RoleRecords == [acceptance: Statuses, keys: Keys \cup {None}]

ASSUME FileAssumption == \A f \in {NoFile, Torn} : f \notin FileRecords \cup RoleRecords

FileOps ==
  [op: {"clear"}, name: Names] \cup [op: {"remote"}, name: Names, data: FileRecords]
    \cup [op: {"role"}, role: Roles, data: RoleRecords] \cup [op: {"local"}, puid: Uids]

(* The memory and the files keep their shapes. *)
TypeOK ==
  /\ DOMAIN remotes \subseteq Names
  /\ \A n \in DOMAIN remotes : remotes[n] \in RemoteRecords
  /\ puid \in Uids
  /\ remoteFile \in [Names -> FileRecords \cup {NoFile, Torn}]
  /\ roleFile \in [Roles -> RoleRecords \cup {NoFile, Torn}]
  /\ localFile \in {0} \cup Uids
  /\ todo \in Seq(FileOps)
  /\ auto \in Autos /\ life \in {"up", "down", "raised"}
  /\ crashes \in Nat

-----------------------------------------------------------------------------
(* File operations.                                                         *)

ClearOp(n) == [op |-> "clear", name |-> n]
RoleOp(role, data) == [op |-> "role", role |-> role, data |-> data]
LocalOp(uid) == [op |-> "local", puid |-> uid]

(* RoadKeep.dumpRemoteRole: what the remote has in memory. *)
DumpRole(r) == <<RoleOp(r.role, RoleData(r.acceptance, r.keys))>>

(* RoadKeep.dumpRemote writes the file of the remote and then that of its role. *)
DumpRemote(n, r) ==
  <<[op |-> "remote", name |-> n,
     data |-> [uid |-> r.uid, role |-> r.role, joined |-> r.joined = "yes"]]>> \o DumpRole(r)

(* The role data on disk, and what statusRole(dump=True) writes of it. *)
Stored(role) == IF roleFile[role] = NoFile THEN RoleData("none", None) ELSE roleFile[role]

DumpStatus(role, keys) ==
  LET data == Persisted(auto, Stored(role), keys)
  IN IF data = Stored(role) THEN <<>> ELSE <<RoleOp(role, data)>>

-----------------------------------------------------------------------------
(* The remotes in memory.                                                   *)

Put(f, n, r) == [x \in DOMAIN f \cup {n} |-> IF x = n THEN r ELSE f[x]]
Drop(f, n)   == [x \in DOMAIN f \ {n} |-> f[x]]

(* Mutant: the uid after puid, in use or not. *)
NextUidUnchecked == IF puid = MaxUid THEN 1 ELSE puid + 1

(* Mutant: no rollover. *)
NextUidUnbounded == puid + 1

(* RemoteEstate.__init__: nextUid, which rolls over after MaxUid, until the
   uid is not in use. *)
Used == {remotes[n].uid : n \in DOMAIN remotes} \cup {LocalUid}
Ahead(uid) == IF uid > puid THEN uid ELSE uid + MaxUid
NextUid == CHOOSE u \in Uids \ Used : \A v \in Uids \ Used : Ahead(u) <= Ahead(v)

Idle == life = "up" /\ todo = <<>>

(* A handler ran: the memory is rem, the files are to change by ops. *)
Handled(rem, ops) ==
  /\ Idle
  /\ remotes' = rem /\ todo' = ops
  /\ UNCHANGED <<Files, auto, life, crashes>>

(* createRemote: a remote to be joined, in memory only. *)
CreateRemote(n) ==
  /\ n \notin DOMAIN remotes
  /\ puid' = NextUid
  /\ Handled(Put(remotes, n, [uid |-> NextUid, role |-> None, keys |-> None,
                              acceptance |-> "none", joined |-> "no"]), <<>>)

(* KeepStack.removeRemote(clear=True). *)
RemoveRemote(n) ==
  /\ n \in DOMAIN remotes
  /\ Handled(Drop(remotes, n), <<ClearOp(n)>>)
  /\ UNCHANGED puid

(* Joiner.join, and the Joinent's timeout or refusal: the join starts again.
   Only a renewal, which had to change fuid, is dumped. *)
StartJoin(n, renewal) ==
  /\ n \in DOMAIN remotes
  /\ LET r == [remotes[n] EXCEPT !.joined = "no"]
     IN /\ renewal => r.role # None
        /\ Handled(Put(remotes, n, r), IF renewal THEN DumpRemote(n, r) ELSE <<>>)
  /\ UNCHANGED puid

-----------------------------------------------------------------------------
(* What a join does to the remotes and their files (Joiner and Joinent in   *)
(* raet/road/transacting.py), given the name, role and keys the other side  *)
(* presents.                                                                *)

Status(role, keys) == StatusRole(auto, Stored(role), keys)

(* The remote at n goes by the name new: the file of n is cleared, none is
   written before the join completes. *)
Renamed(n, new, r) == Put(Drop(remotes, n), new, r)

(* Mutant: renameRemote(clear=False). *)
RenameOpsKept(n, new) == <<>>

RenameOps(n, new) == IF new = n THEN <<>> ELSE <<ClearOp(n)>>

Taken(n, new) == new \in DOMAIN remotes \ {n}

(* Mutant: only the local estate is saved at the end of a join. *)
CompleteLocally(n, r) == <<LocalOp(puid)>>

(* Joiner.completify and Joinent.complete, but for what they send. *)
CompleteOps(n, r) == DumpRemote(n, r) \o <<LocalOp(puid)>>

(* A Joiner is answered by a remote that was created for it. *)
Introduced(n, new, role, keys) ==
  LET status == Status(role, keys)
      r == [remotes[n] EXCEPT !.role = role, !.keys = keys, !.acceptance = status,
                              !.joined = IF status = "accepted" THEN "yes" ELSE "no"]
  IN /\ n \in DOMAIN remotes /\ remotes[n].role = None
     /\ ~Taken(n, new) /\ roleFile[role] # Torn
     /\ IF status = "rejected"
        THEN Handled(Drop(remotes, n), RenameOps(n, new) \o <<ClearOp(new)>>)
        ELSE Handled(Renamed(n, new, r),
                     RenameOps(n, new) \o DumpStatus(role, keys)
                       \o (IF status = "accepted" THEN CompleteOps(new, r)
                                                  ELSE DumpRemote(new, r)))
     /\ UNCHANGED puid

(* A Joinent is asked by a remote nobody knows: it is added unless rejected,
   and completed by the ack. *)
Asked(new, role, keys) ==
  LET status == Status(role, keys)
      r == [uid |-> NextUid, role |-> role, keys |-> keys, acceptance |-> status,
            joined |-> IF status = "accepted" THEN "answered" ELSE "no"]
  IN /\ new \notin DOMAIN remotes /\ roleFile[role] # Torn
     /\ puid' = NextUid
     /\ IF status = "rejected"
        THEN Handled(remotes, <<>>)
        ELSE Handled(Put(remotes, new, r),
                     DumpStatus(role, keys)
                       \o (IF status = "accepted" THEN <<>> ELSE DumpRemote(new, r)))

(* A Joiner (joined at once) or Joinent (answered) meets a remote known
   before; what it presents may have changed if the road is mutable. *)
Rejoined(n, new, role, keys, joiner) ==
  LET status == Status(role, keys)
      same == role = remotes[n].role /\ keys = remotes[n].keys
      met == [remotes[n] EXCEPT !.acceptance = status]
      r == [met EXCEPT !.role = role, !.keys = keys,
                       !.joined = IF status # "accepted" THEN "no"
                                  ELSE IF joiner THEN "yes" ELSE "answered"]
      ops == DumpStatus(role, keys) \o RenameOps(n, new)
  IN /\ n \in DOMAIN remotes /\ remotes[n].role # None
     /\ remotes[n].joined = "no" \/ (~joiner /\ remotes[n].joined = "yes")
     /\ Mutable \/ (same /\ new = n)
     /\ roleFile[role] # Torn
     /\ CASE status = "rejected" /\ same -> Handled(Drop(remotes, n), <<ClearOp(n)>>)
          [] status = "rejected" /\ ~same -> Handled(remotes, <<>>)
          [] status # "rejected" /\ Taken(n, new) ->
               Handled(Put(remotes, n, met), DumpStatus(role, keys))
          [] OTHER ->
               Handled(Renamed(n, new, r),
                       ops \o (CASE status # "accepted" -> DumpRemote(new, r)
                                 [] joiner /\ status = "accepted" -> CompleteOps(new, r)
                                 [] OTHER -> <<>>))
     /\ UNCHANGED puid

(* Joinent.complete: the ack came.  The acceptance is not looked at again. *)
Complete(n) ==
  /\ n \in DOMAIN remotes /\ remotes[n].joined = "answered"
  /\ LET r == [remotes[n] EXCEPT !.joined = "yes"]
     IN Handled(Put(remotes, n, r), CompleteOps(n, r))
  /\ UNCHANGED puid

(* The redo of a pended join: statusRemote may have become another. *)
RedoPended(n, joiner) ==
  LET role == remotes[n].role
      keys == remotes[n].keys
      status == Status(role, keys)
      r == [remotes[n] EXCEPT !.acceptance = status,
                              !.joined = IF status # "accepted" THEN "no"
                                         ELSE IF joiner THEN "yes" ELSE "answered"]
  IN /\ n \in DOMAIN remotes /\ role # None /\ remotes[n].joined = "no"
     /\ roleFile[role] # Torn
     /\ IF status = "rejected"
        THEN Handled(Drop(remotes, n), <<ClearOp(n)>>)
        ELSE Handled(Put(remotes, n, r),
                     DumpStatus(role, keys)
                       \o (IF joiner /\ status = "accepted" THEN CompleteOps(n, r) ELSE <<>>))
     /\ UNCHANGED puid

(* statusRole of a role whose file is torn: load returned None and update
   raises. *)
RaiseStatus(role) ==
  /\ Idle /\ roleFile[role] = Torn
  /\ life' = "raised" /\ remotes' = <<>> /\ puid' = LocalUid
  /\ UNCHANGED <<Files, todo, auto, crashes>>

(* rejectRemote, pendRemote and acceptRemote, by an outside entity. *)
SetAcceptance(n, status) ==
  /\ n \in DOMAIN remotes /\ remotes[n].role # None
  /\ LET r == [remotes[n] EXCEPT !.acceptance = status]
     IN Handled(Put(remotes, n, r), DumpRole(r))
  /\ UNCHANGED puid

-----------------------------------------------------------------------------
(* The disk, crashes and restarts.                                          *)

Apply(o, torn) ==
  CASE o.op = "clear" ->
         /\ remoteFile' = [remoteFile EXCEPT ![o.name] = NoFile]
         /\ UNCHANGED <<roleFile, localFile>>
    [] o.op = "remote" ->
         /\ remoteFile' = [remoteFile EXCEPT ![o.name] = IF torn THEN Torn ELSE o.data]
         /\ UNCHANGED <<roleFile, localFile>>
    [] o.op = "role" ->
         /\ roleFile' = [roleFile EXCEPT ![o.role] = IF torn THEN Torn ELSE o.data]
         /\ UNCHANGED <<remoteFile, localFile>>
    [] o.op = "local" ->
         /\ localFile' = IF torn THEN 0 ELSE o.puid
         /\ UNCHANGED <<remoteFile, roleFile>>

FileStep ==
  /\ life = "up" /\ todo # <<>>
  /\ Apply(Head(todo), FALSE)
  /\ todo' = Tail(todo)
  /\ UNCHANGED <<remotes, puid, auto, life, crashes>>

(* The process stops: between two file operations, or in one. *)
Crash ==
  /\ life = "up" /\ crashes < MaxCrash
  /\ crashes' = crashes + 1
  /\ life' = "down" /\ remotes' = <<>> /\ puid' = LocalUid /\ todo' = <<>>
  /\ \/ UNCHANGED Files
     \/ todo # <<>> /\ Head(todo).op # "clear" /\ Apply(Head(todo), TRUE)
  /\ UNCHANGED auto

(* loadAllRemoteData: every file of a remote, with the data of its role. *)
Found == {n \in Names : remoteFile[n] # NoFile}
Loaded(n) ==
  LET f == remoteFile[n]
  IN [uid |-> f.uid, role |-> f.role, keys |-> Stored(f.role).keys,
      acceptance |-> Stored(f.role).acceptance, joined |-> IF f.joined THEN "yes" ELSE "no"]

Loadable(n) == remoteFile[n] # Torn /\ roleFile[remoteFile[n].role] # Torn

(* addRemote raises for a uid that is taken. *)
Restorable ==
  /\ \A n \in Found : Loadable(n)
  /\ \A n \in Found : remoteFile[n].uid # LocalUid
  /\ \A n, m \in Found : remoteFile[n].uid = remoteFile[m].uid => n = m

Orders(S) ==
  {s \in [1 .. Cardinality(S) -> S] : \A i, j \in DOMAIN s : s[i] = s[j] => i = j}

(* dumpRemotes(clear=True): clear the files of all remotes, then write them. *)
DumpRemotes(order, rem) ==
  [i \in DOMAIN order |-> ClearOp(order[i])]
    \o [i \in 1 .. 2 * Len(order) |->
          LET n == order[(i + 1) \div 2]
          IN DumpRemote(n, rem[n])[2 - (i % 2)]]

(* KeepStack.__init__. *)
Restart ==
  /\ life # "up"
  /\ auto' \in Autos
  /\ IF Restorable
     THEN \E order \in Orders(Found) :
            LET rem == [n \in Found |-> Loaded(n)]
                uid == IF localFile = 0 THEN LocalUid ELSE localFile
            IN /\ remotes' = rem /\ puid' = uid /\ life' = "up"
               /\ todo' = <<LocalOp(uid)>> \o DumpRemotes(order, rem)
     ELSE life' = "raised" /\ UNCHANGED <<remotes, puid, todo>>
  /\ UNCHANGED <<Files, crashes>>

Init ==
  /\ remotes = <<>> /\ puid = LocalUid
  /\ remoteFile = [n \in Names |-> NoFile]
  /\ roleFile = [r \in Roles |-> NoFile]
  /\ localFile = 0
  /\ todo = <<LocalOp(LocalUid)>>
  /\ auto \in Autos /\ life = "up" /\ crashes = 0

Next ==
  \/ \E n \in Names :
       \/ CreateRemote(n) \/ RemoveRemote(n) \/ Complete(n)
       \/ \E b \in BOOLEAN : StartJoin(n, b) \/ RedoPended(n, b)
       \/ \E s \in Statuses \ {"none"} : SetAcceptance(n, s)
       \/ \E r \in Roles, k \in Keys :
            \/ Asked(n, r, k)
            \/ \E new \in Names :
                 \/ Introduced(n, new, r, k)
                 \/ \E b \in BOOLEAN : Rejoined(n, new, r, k, b)
  \/ \E r \in Roles : RaiseStatus(r)
  \/ FileStep \/ Crash \/ Restart

Spec == Init /\ [][Next]_vars

-----------------------------------------------------------------------------
(* Properties.                                                              *)

TornFile ==
  \/ \E n \in Names : remoteFile[n] = Torn
  \/ \E r \in Roles : roleFile[r] = Torn

(* Whatever a crash interrupts, only a file torn by it makes a restart or a
   join raise: no two files give their remotes the same uid.  (restoreRemotes,
   addRemote) *)
RaisedOnlyIfTorn == life = "raised" => TornFile

(* Between handlers, each file belongs to the remote of its name and to no
   other, so a restart brings back no remote that was removed or renamed.
   (renameRemote, removeRemote, dumpRemotes) *)
NoGhostFile ==
  Idle => \A n \in Found : n \in DOMAIN remotes /\ remoteFile[n].uid = remotes[n].uid

(* Between handlers, a remote that is joined would be found again, joined and
   with the keys it has, after a crash.  (completify, complete) *)
JoinedPersisted ==
  Idle => \A n \in DOMAIN remotes : remotes[n].joined = "yes" =>
            /\ remoteFile[n] = [uid |-> remotes[n].uid, role |-> remotes[n].role, joined |-> TRUE]
            /\ roleFile[remotes[n].role] \in RoleRecords
            /\ auto # "always" => roleFile[remotes[n].role].keys = remotes[n].keys

(* A role that has keys keeps them: a file once written with keys is never
   written with others unless every key is accepted.  (statusRole,
   dumpRemoteRole) *)
KeysKept ==
  [][\A r \in Roles :
       roleFile[r] \in RoleRecords /\ roleFile'[r] \in RoleRecords /\ auto # "always"
         => roleFile'[r].keys = roleFile[r].keys]_vars

(* A rejection by an outside entity sticks: while every remote of the role
   has it in memory, no handler writes another status for the role, except
   the outside entity's.  (statusRole, rejectRemote) *)
RejectionSticks ==
  [][\A r \in Roles :
       /\ Idle /\ auto # "always"
       /\ roleFile[r] \in RoleRecords /\ roleFile[r].acceptance = "rejected"
       /\ \A n \in DOMAIN remotes : remotes[n].role = r => remotes[n].acceptance = "rejected"
       /\ ~\E n \in Names, s \in Statuses : SetAcceptance(n, s)
       => \A i \in DOMAIN todo' :
            todo'[i].op = "role" /\ todo'[i].role = r => todo'[i].data.acceptance = "rejected"]_vars

(* "Persisted status is only set to rejected by an outside entity": no handler
   is about to write a rejection of a role that is not rejected on disk.
   (RoadKeep.statusRole, RoadKeep.dumpRemote) *)
OnlyOutsideRejects ==
  [][\A r \in Roles :
       /\ Idle /\ roleFile[r] \in RoleRecords /\ roleFile[r].acceptance # "rejected"
       /\ ~\E n \in Names, s \in Statuses : SetAcceptance(n, s)
       => \A i \in DOMAIN todo' :
            todo'[i].op = "role" /\ todo'[i].role = r => todo'[i].data.acceptance # "rejected"]_vars
=============================================================================
