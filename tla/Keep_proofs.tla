---------------------------- MODULE Keep_proofs ----------------------------
(***************************************************************************)
(* Proofs about the remotes of a stack and their files: types, the keys of *)
(* a role and its rejection, for any remotes, roles, keys and modes, and   *)
(* whatever crashes interrupt.                                             *)
(***************************************************************************)
EXTENDS Keep, FiniteSetTheorems, SequenceTheorems, TLAPS

-----------------------------------------------------------------------------
(* The status of a role.                                                    *)

(* Keys that are not rejected are those on disk, if the role was ever judged,
   unless every key is accepted. *)
LEMMA StatusMeansKeys ==
  ASSUME NEW mode, NEW data, NEW keys, data.acceptance # "none", mode # "always",
         StatusRole(mode, data, keys) # "rejected"
  PROVE  data.keys = keys /\ data.acceptance # "rejected"
BY DEF StatusRole

(* A role that was rejected stays so. *)
LEMMA RejectedStays ==
  ASSUME NEW mode, NEW data, NEW keys, data.acceptance = "rejected", mode # "always"
  PROVE  StatusRole(mode, data, keys) = "rejected"
BY DEF StatusRole

LEMMA StatusTypes ==
  ASSUME NEW mode \in Modes, NEW data, data.acceptance \in Statuses, NEW keys
  PROVE  StatusRole(mode, data, keys) \in Statuses \ {"none"}
BY DEF StatusRole, FirstStatus, Modes, Statuses

(* What is written for keys that are not rejected is their status. *)
LEMMA PersistedStatus ==
  ASSUME NEW mode, NEW data, NEW keys, StatusRole(mode, data, keys) # "rejected"
  PROVE  Persisted(mode, data, keys) = RoleData(StatusRole(mode, data, keys), keys)
BY DEF Persisted

-----------------------------------------------------------------------------
(* The next uid.                                                            *)

(* A remote that is not there yet finds a uid that is not in use. *)
LEMMA NextUidFree ==
  ASSUME TypeOK, NEW n \in Names, n \notin DOMAIN remotes
  PROVE  NextUid \in Uids \ Used
<1> DEFINE D == DOMAIN remotes
           U == {remotes[m].uid : m \in D}
           f == [m \in D |-> remotes[m].uid]
           free == Uids \ Used
<1>1. IsFiniteSet(D) /\ Cardinality(D) <= Cardinality(Names) - 1 /\ Cardinality(D) \in Nat
      /\ Cardinality(Names) \in Nat
  <2>1. D \in SUBSET (Names \ {n}) /\ IsFiniteSet(Names)
    BY ConstantsAssumption DEF TypeOK
  <2>2. IsFiniteSet(Names \ {n}) /\ Cardinality(Names \ {n}) = Cardinality(Names) - 1
    BY <2>1, FS_RemoveElement
  <2>3. IsFiniteSet(D) /\ Cardinality(D) <= Cardinality(Names \ {n})
    BY <2>1, <2>2, FS_Subset
  <2>4. Cardinality(Names) \in Nat /\ Cardinality(D) \in Nat
    BY <2>1, <2>3, FS_CardinalityType
  <2> QED
    BY <2>2, <2>3, <2>4
<1>2. IsFiniteSet(U) /\ Cardinality(U) <= Cardinality(D)
  <2>1. f \in Surjection(D, U)
    BY DEF Surjection
  <2> QED
    BY <1>1, <2>1, FS_Surjection
<1>3. IsFiniteSet(Used) /\ Cardinality(Used) <= Cardinality(D) + 1
  <2>1. Used = U \cup {LocalUid}
    BY DEF Used
  <2>2. /\ IsFiniteSet(U \cup {LocalUid})
        /\ Cardinality(U \cup {LocalUid}) =
             IF LocalUid \in U THEN Cardinality(U) ELSE Cardinality(U) + 1
    BY <1>2, FS_AddElement
  <2>3. Cardinality(U) \in Nat
    BY <1>2, FS_CardinalityType
  <2> QED
    BY <1>1, <1>2, <2>1, <2>2, <2>3
<1>4. Cardinality(Uids) = MaxUid
  <2>1. MaxUid \in Nat /\ 1 \in Int /\ MaxUid \in Int
    BY ConstantsAssumption
  <2>2. Cardinality(1 .. MaxUid) = IF 1 > MaxUid THEN 0 ELSE MaxUid - 1 + 1
    BY <2>1, FS_Interval
  <2> QED
    BY <2>1, <2>2 DEF Uids
<1>5. free # {}
  <2> SUFFICES ASSUME Uids \subseteq Used PROVE FALSE
    OBVIOUS
  <2>1. Cardinality(Uids) <= Cardinality(Used) /\ Cardinality(Used) \in Nat
    BY <1>3, FS_Subset, FS_CardinalityType
  <2> QED
    BY <1>1, <1>3, <1>4, <2>1, ConstantsAssumption
<1>6. \A u \in Uids : Ahead(u) \in Nat
  BY ConstantsAssumption DEF Uids, Ahead, TypeOK
<1> DEFINE A == {Ahead(u) : u \in free}
           R == OpToRel(<, Nat)
<1>7. \E x \in A : \A y \in A : x <= y
  <2>1. A \subseteq Nat /\ A # {}
    BY <1>5, <1>6
  <2>2. IsWellFoundedOn(R, Nat)
    BY NatLessThanWellFounded
  <2>3. \A x, y \in Nat : x < y => <<x, y>> \in R
    BY DEF OpToRel
  <2> HIDE DEF R, A
  <2>4. PICK x \in A : \A y \in A : <<y, x>> \notin R
    BY <2>1, <2>2, WFMin
  <2>5. ASSUME NEW y \in A PROVE x <= y
    <3>1. ~(y < x)
      BY <2>1, <2>3, <2>4
    <3> QED
      BY <2>1, <3>1
  <2> QED
    BY <2>5
<1>8. \E u \in free : \A v \in free : Ahead(u) <= Ahead(v)
  BY <1>7
<1> HIDE DEF free
<1>9. (CHOOSE u \in free : \A v \in free : Ahead(u) <= Ahead(v)) \in free
  BY <1>8
<1> QED
  BY <1>9 DEF NextUid, free

-----------------------------------------------------------------------------
(* The inductive invariant.                                                 *)

Writes(s, role) == \E i \in DOMAIN s : s[i].op = "role" /\ s[i].role = role

(* What the disk says of a role was judged, and a remote that has a file was
   judged before. *)
DiskInv ==
  /\ \A r \in Roles : roleFile[r] \in RoleRecords => roleFile[r].acceptance # "none"
  /\ \A n \in Names : remoteFile[n] \in FileRecords => roleFile[remoteFile[n].role] # NoFile

(* So was a remote in memory that has a role: it has a file or is about to. *)
MemoryInv ==
  \A n \in DOMAIN remotes :
    LET r == remotes[n]
    IN IF r.role = None THEN r.joined = "no"
       ELSE /\ r.acceptance # "none" /\ roleFile[r.role] # Torn
            /\ roleFile[r.role] # NoFile \/ Writes(todo, r.role)

(* The file of a role is written before those of its remotes. *)
TodoInv ==
  \A i \in DOMAIN todo :
    /\ todo[i].op = "role" => todo[i].data.acceptance # "none"
    /\ todo[i].op = "remote" =>
         \/ roleFile[todo[i].data.role] # NoFile
         \/ \E j \in 1 .. i - 1 : todo[j].op = "role" /\ todo[j].role = todo[i].data.role

(* Memory, disk and what is to be written agree on the keys of each role. *)
Bound(key) ==
  /\ \A n \in DOMAIN remotes : remotes[n].role # None => remotes[n].keys = key[remotes[n].role]
  /\ \A i \in DOMAIN todo : todo[i].op = "role" => todo[i].data.keys = key[todo[i].role]
  /\ \A r \in Roles : roleFile[r] \in RoleRecords => roleFile[r].keys = key[r]

OneKey == \E key \in [Roles -> Keys \cup {None}] : Bound(key)

IInv ==
  /\ TypeOK /\ DiskInv /\ MemoryInv /\ TodoInv
  /\ life # "up" => remotes = <<>> /\ todo = <<>>
  /\ life = "up" /\ auto # "always" => OneKey

-----------------------------------------------------------------------------
(* What handlers have in common.                                            *)

Settled(r, k) == roleFile[r] \in RoleRecords /\ (auto # "always" => roleFile[r].keys = k)

(* Keys k of role r: as on disk, or those a handler brings for a role that has
   no file. *)
OKPair(role, keys, r, k) == Settled(r, k) \/ (r = role /\ k = keys)

OKRemote(role, keys, r) ==
  /\ r \in RemoteRecords
  /\ IF r.role = None THEN r.joined = "no"
     ELSE r.acceptance # "none" /\ OKPair(role, keys, r.role, r.keys)

OKOps(role, keys) ==
  {o \in FileOps :
     /\ o.op = "role" => o.data.acceptance # "none" /\ OKPair(role, keys, o.role, o.data.keys)
     /\ o.op = "remote" => roleFile[o.data.role] \in RoleRecords \/ o.data.role = role}

FirstWrites(s, role) ==
  \E i \in DOMAIN s :
    /\ s[i].op = "role" /\ s[i].role = role
    /\ \A j \in 1 .. i - 1 : s[j].op = "clear"

(* A handler that may bring keys of one role without a file. *)
HandlerStep(role, keys, rem, ops) ==
  /\ Handled(rem, ops) /\ puid' \in Uids
  /\ role # None => role \in Roles /\ roleFile[role] = NoFile /\ FirstWrites(ops, role)
  /\ keys \in Keys \cup {None}
  /\ DOMAIN rem \subseteq Names
  /\ \A n \in DOMAIN rem : OKRemote(role, keys, rem[n])
  /\ ops \in Seq(OKOps(role, keys))

(* Between handlers a remote with a role is settled. *)
LEMMA IdleSettled ==
  ASSUME IInv, Idle, NEW n \in DOMAIN remotes, remotes[n].role # None
  PROVE  /\ remotes[n] \in RemoteRecords /\ remotes[n].role \in Roles
         /\ remotes[n].acceptance # "none"
         /\ Settled(remotes[n].role, remotes[n].keys)
<1> DEFINE r == remotes[n]
<1>1. r \in RemoteRecords /\ r.role \in Roles
  BY DEF IInv, TypeOK, RemoteRecords
<1>2. ~Writes(todo, r.role)
  BY DEF Idle, Writes
<1>3. roleFile[r.role] # Torn /\ roleFile[r.role] # NoFile /\ r.acceptance # "none"
  BY <1>2 DEF IInv, MemoryInv
<1>4. roleFile[r.role] \in RoleRecords
  BY <1>1, <1>3 DEF IInv, TypeOK
<1>5. auto # "always" => roleFile[r.role].keys = r.keys
  BY <1>1, <1>4 DEF IInv, Idle, OneKey, Bound
<1> QED
  BY <1>1, <1>3, <1>4, <1>5 DEF Settled

LEMMA HandlerInv ==
  ASSUME IInv, NEW role, NEW keys, NEW rem, NEW ops, HandlerStep(role, keys, rem, ops)
  PROVE  IInv'
<1>1. /\ life = "up" /\ todo = <<>> /\ remotes' = rem /\ todo' = ops
      /\ UNCHANGED <<remoteFile, roleFile, localFile, auto, life, crashes>>
      /\ puid' \in Uids
  BY DEF HandlerStep, Handled, Idle, Files
<1>2. ops \in Seq(FileOps) /\ \A i \in DOMAIN ops : ops[i] \in OKOps(role, keys)
  <2>1. OKOps(role, keys) \subseteq FileOps
    BY DEF OKOps
  <2>2. ops \in Seq(OKOps(role, keys))
    BY DEF HandlerStep
  <2> QED
    BY <2>1, <2>2
<1>3. \A n \in DOMAIN rem : OKRemote(role, keys, rem[n])
  BY DEF HandlerStep
<1>4. TypeOK'
  BY <1>1, <1>2, <1>3 DEF IInv, TypeOK, HandlerStep, OKRemote
<1>5. DiskInv'
  BY <1>1 DEF IInv, DiskInv
<1>6. MemoryInv'
  <2> SUFFICES ASSUME NEW n \in DOMAIN rem
               PROVE  IF rem[n].role = None THEN rem[n].joined = "no"
                      ELSE /\ rem[n].acceptance # "none" /\ roleFile[rem[n].role] # Torn
                           /\ roleFile[rem[n].role] # NoFile \/ Writes(ops, rem[n].role)
    BY <1>1 DEF MemoryInv, Writes
  <2>1. CASE rem[n].role = None
    BY <1>3, <2>1 DEF OKRemote
  <2>2. CASE rem[n].role # None
    <3>1. rem[n].acceptance # "none" /\ OKPair(role, keys, rem[n].role, rem[n].keys)
      BY <1>3, <2>2 DEF OKRemote
    <3>2. CASE Settled(rem[n].role, rem[n].keys)
      BY <2>2, <3>1, <3>2, FileAssumption DEF Settled
    <3>3. CASE rem[n].role = role
      <4>1. roleFile[role] = NoFile /\ Writes(ops, role)
        BY <2>2, <3>3 DEF HandlerStep, FirstWrites, Writes
      <4> QED
        BY <2>2, <3>1, <3>3, <4>1, ConstantsAssumption
    <3> QED
      BY <3>1, <3>2, <3>3 DEF OKPair
  <2> QED
    BY <2>1, <2>2
<1>7. TodoInv'
  <2> SUFFICES ASSUME NEW i \in DOMAIN ops
               PROVE  /\ ops[i].op = "role" => ops[i].data.acceptance # "none"
                      /\ ops[i].op = "remote" =>
                           \/ roleFile[ops[i].data.role] # NoFile
                           \/ \E j \in 1 .. i - 1 :
                                ops[j].op = "role" /\ ops[j].role = ops[i].data.role
    BY <1>1 DEF TodoInv
  <2>1. ops[i] \in OKOps(role, keys)
    BY <1>2
  <2>2. ops[i].op = "role" => ops[i].data.acceptance # "none"
    BY <2>1 DEF OKOps
  <2>3. ASSUME ops[i].op = "remote", roleFile[ops[i].data.role] = NoFile
        PROVE  \E j \in 1 .. i - 1 : ops[j].op = "role" /\ ops[j].role = ops[i].data.role
    <3>1. ops[i].data.role = role /\ ops[i].data.role \in Roles
      BY <2>1, <2>3, FileAssumption DEF OKOps, FileOps, FileRecords
    <3>2. FirstWrites(ops, role)
      BY <3>1, ConstantsAssumption DEF HandlerStep
    <3>3. PICK j \in DOMAIN ops : /\ ops[j].op = "role" /\ ops[j].role = role
                                  /\ \A k \in 1 .. j - 1 : ops[k].op = "clear"
      BY <3>2 DEF FirstWrites
    <3>4. i \in Nat \ {0} /\ j \in Nat \ {0}
      BY <1>2
    <3>5. j < i
      BY <2>3, <3>3, <3>4
    <3> QED
      BY <3>1, <3>3, <3>4, <3>5
  <2> QED
    BY <2>2, <2>3
<1>8. ASSUME auto # "always" PROVE OneKey'
  <2>1. PICK key \in [Roles -> Keys \cup {None}] : Bound(key)
    BY <1>1, <1>8 DEF IInv, OneKey
  <2> DEFINE new == [r \in Roles |-> IF r = role THEN keys ELSE key[r]]
  <2>2. new \in [Roles -> Keys \cup {None}]
    BY DEF HandlerStep
  <2>3. \A r \in Roles : roleFile[r] \in RoleRecords => r # role /\ roleFile[r].keys = key[r]
    BY <2>1, FileAssumption, ConstantsAssumption DEF Bound, HandlerStep
  <2>4. ASSUME NEW r \in Roles, NEW k, OKPair(role, keys, r, k) PROVE k = new[r]
    BY <1>8, <2>3, <2>4 DEF OKPair, Settled
  <2> HIDE DEF new
  <2>5. \A n \in DOMAIN rem : rem[n].role # None => rem[n].keys = new[rem[n].role]
    <3> SUFFICES ASSUME NEW n \in DOMAIN rem, rem[n].role # None
                 PROVE  rem[n].keys = new[rem[n].role]
      OBVIOUS
    <3>1. rem[n].role \in Roles /\ OKPair(role, keys, rem[n].role, rem[n].keys)
      BY <1>3 DEF OKRemote, RemoteRecords
    <3> QED
      BY <2>4, <3>1
  <2>6. \A i \in DOMAIN ops : ops[i].op = "role" => ops[i].data.keys = new[ops[i].role]
    <3> SUFFICES ASSUME NEW i \in DOMAIN ops, ops[i].op = "role"
                 PROVE  ops[i].data.keys = new[ops[i].role]
      OBVIOUS
    <3>1. ops[i] \in OKOps(role, keys)
      BY <1>2
    <3>2. ops[i].role \in Roles /\ OKPair(role, keys, ops[i].role, ops[i].data.keys)
      BY <3>1 DEF OKOps, FileOps
    <3> QED
      BY <2>4, <3>2
  <2>7. \A r \in Roles : roleFile[r] \in RoleRecords => roleFile[r].keys = new[r]
    BY <2>3 DEF new
  <2>8. Bound(new)'
    BY <1>1, <2>5, <2>6, <2>7 DEF Bound
  <2> QED
    BY <2>2, <2>8 DEF OneKey
<1> QED
  BY <1>1, <1>4, <1>5, <1>6, <1>7, <1>8 DEF IInv

-----------------------------------------------------------------------------
(* The remotes and the operations handlers leave behind.                    *)

LEMMA RemotesKept ==
  ASSUME IInv, Idle, NEW b, NEW k, NEW n \in DOMAIN remotes
  PROVE  n \in Names /\ OKRemote(b, k, remotes[n])
<1>1. n \in Names /\ remotes[n] \in RemoteRecords
  BY DEF IInv, TypeOK
<1>2. CASE remotes[n].role = None
  BY <1>1, <1>2 DEF IInv, MemoryInv, OKRemote
<1>3. CASE remotes[n].role # None
  BY <1>1, <1>3, IdleSettled DEF OKRemote, OKPair
<1> QED
  BY <1>2, <1>3

OKRemotes(b, k, rem) ==
  DOMAIN rem \subseteq Names /\ \A n \in DOMAIN rem : OKRemote(b, k, rem[n])

LEMMA DropOK ==
  ASSUME IInv, Idle, NEW b, NEW k, NEW n
  PROVE  OKRemotes(b, k, Drop(remotes, n)) /\ OKRemotes(b, k, remotes)
BY RemotesKept DEF OKRemotes, Drop

LEMMA PutOK ==
  ASSUME NEW b, NEW k, NEW rem, OKRemotes(b, k, rem), NEW n \in Names, NEW r, OKRemote(b, k, r)
  PROVE  OKRemotes(b, k, Put(rem, n, r))
BY DEF OKRemotes, Put

LEMMA RecordOps ==
  ASSUME NEW b, NEW k, NEW n \in Names, NEW r, OKRemote(b, k, r), r.role # None
  PROVE  /\ DumpRole(r) \in Seq(OKOps(b, k))
         /\ DumpRemote(n, r) \in Seq(OKOps(b, k))
<1>1. /\ r \in RemoteRecords /\ r.role \in Roles /\ r.acceptance # "none"
      /\ OKPair(b, k, r.role, r.keys)
  BY DEF OKRemote, RemoteRecords
<1> DEFINE o == RoleOp(r.role, RoleData(r.acceptance, r.keys))
           d == [uid |-> r.uid, role |-> r.role, joined |-> r.joined = "yes"]
           p == [op |-> "remote", name |-> n, data |-> d]
<1>2. o \in OKOps(b, k)
  <2>1. RoleData(r.acceptance, r.keys) \in RoleRecords
    BY <1>1 DEF RemoteRecords, RoleRecords, RoleData
  <2>2. o \in [op: {"role"}, role: Roles, data: RoleRecords]
    BY <1>1, <2>1 DEF RoleOp
  <2> QED
    BY <1>1, <2>2 DEF OKOps, FileOps, RoleOp, RoleData
<1>3. p \in OKOps(b, k)
  <2>1. d \in FileRecords
    BY <1>1 DEF RemoteRecords, FileRecords
  <2>2. p \in [op: {"remote"}, name: Names, data: FileRecords]
    BY <2>1
  <2>3. roleFile[r.role] \in RoleRecords \/ r.role = b
    BY <1>1 DEF OKPair, Settled
  <2> QED
    BY <2>2, <2>3 DEF OKOps, FileOps
<1>4. DumpRole(r) = <<o>> /\ DumpRemote(n, r) = <<p>> \o <<o>>
  BY DEF DumpRole, DumpRemote
<1> HIDE DEF o, p
<1> QED
  BY <1>2, <1>3, <1>4

LEMMA ClearOK ==
  ASSUME NEW b, NEW k, NEW n \in Names
  PROVE  ClearOp(n) \in OKOps(b, k)
BY DEF ClearOp, OKOps, FileOps

LEMMA CompleteOK ==
  ASSUME TypeOK, NEW b, NEW k, NEW n \in Names, NEW r, OKRemote(b, k, r), r.role # None
  PROVE  CompleteOps(n, r) \in Seq(OKOps(b, k))
<1>1. LocalOp(puid) \in OKOps(b, k)
  BY DEF LocalOp, OKOps, FileOps, TypeOK
<1> QED
  BY <1>1, RecordOps DEF CompleteOps

LEMMA RenameOK ==
  ASSUME NEW b, NEW k, NEW n \in Names, NEW new
  PROVE  /\ RenameOps(n, new) \in Seq(OKOps(b, k))
         /\ \A i \in DOMAIN RenameOps(n, new) : RenameOps(n, new)[i].op = "clear"
<1>1. RenameOps(n, new) = <<>> \/ RenameOps(n, new) = <<ClearOp(n)>>
  BY DEF RenameOps
<1>2. CASE RenameOps(n, new) = <<>>
  BY <1>2
<1>3. CASE RenameOps(n, new) = <<ClearOp(n)>>
  <2>1. \A i \in DOMAIN <<ClearOp(n)>> : <<ClearOp(n)>>[i] = ClearOp(n)
    OBVIOUS
  <2>2. ClearOp(n).op = "clear"
    BY DEF ClearOp
  <2> QED
    BY <1>3, <2>1, <2>2, ClearOK
<1> QED
  BY <1>1, <1>2, <1>3

LEMMA FirstLeft ==
  ASSUME NEW S, NEW s \in Seq(S), NEW t \in Seq(S), NEW role, FirstWrites(s, role)
  PROVE  FirstWrites(s \o t, role)
<1>1. PICK i \in DOMAIN s : /\ s[i].op = "role" /\ s[i].role = role
                            /\ \A j \in 1 .. i - 1 : s[j].op = "clear"
  BY DEF FirstWrites
<1>2. i \in DOMAIN (s \o t) /\ (s \o t)[i] = s[i]
  OBVIOUS
<1>3. \A j \in 1 .. i - 1 : (s \o t)[j] = s[j]
  OBVIOUS
<1> QED
  BY <1>1, <1>2, <1>3 DEF FirstWrites

LEMMA FirstRight ==
  ASSUME NEW S, NEW s \in Seq(S), NEW t \in Seq(S), NEW role, FirstWrites(t, role),
         \A i \in DOMAIN s : s[i].op = "clear"
  PROVE  FirstWrites(s \o t, role)
<1>1. PICK i \in DOMAIN t : /\ t[i].op = "role" /\ t[i].role = role
                            /\ \A j \in 1 .. i - 1 : t[j].op = "clear"
  BY DEF FirstWrites
<1>2. i + Len(s) \in DOMAIN (s \o t) /\ (s \o t)[i + Len(s)] = t[i]
  OBVIOUS
<1>3. ASSUME NEW j \in 1 .. i + Len(s) - 1 PROVE (s \o t)[j].op = "clear"
  <2>1. CASE j <= Len(s)
    BY <2>1
  <2>2. CASE j > Len(s)
    <3>1. j - Len(s) \in 1 .. i - 1 /\ (s \o t)[j] = t[j - Len(s)]
      BY <2>2
    <3> QED
      BY <1>1, <3>1
  <2> QED
    BY <2>1, <2>2
<1> DEFINE u == s \o t
           m == i + Len(s)
<1>4. m \in DOMAIN u /\ u[m].op = "role" /\ u[m].role = role
  BY <1>1, <1>2
<1>5. \A j \in 1 .. m - 1 : u[j].op = "clear"
  BY <1>3
<1> HIDE DEF u, m
<1>6. FirstWrites(u, role)
  BY <1>4, <1>5 DEF FirstWrites
<1> QED
  BY <1>6 DEF u

-----------------------------------------------------------------------------
(* What a role that is not rejected leaves behind.                          *)

Brought(role) == IF roleFile[role] = NoFile THEN role ELSE None

LEMMA StoredTypes ==
  ASSUME TypeOK, NEW role \in Roles, roleFile[role] # Torn
  PROVE  Stored(role) \in RoleRecords
BY DEF TypeOK, Stored, RoleData, RoleRecords, Statuses

LEMMA StatusInTypes ==
  ASSUME TypeOK, NEW role \in Roles, NEW keys, roleFile[role] # Torn
  PROVE  Status(role, keys) \in Statuses \ {"none"}
BY StoredTypes, StatusTypes, ConstantsAssumption DEF TypeOK, Status, RoleRecords

(* The keys are those on disk, unless there are none yet. *)
LEMMA StatusSettled ==
  ASSUME IInv, NEW role \in Roles, NEW keys, roleFile[role] # Torn,
         Status(role, keys) # "rejected"
  PROVE  OKPair(Brought(role), keys, role, keys)
<1>1. CASE roleFile[role] = NoFile
  BY <1>1 DEF OKPair, Brought
<1>2. CASE roleFile[role] # NoFile
  <2>1. roleFile[role] \in RoleRecords /\ roleFile[role].acceptance # "none"
    BY <1>2 DEF IInv, TypeOK, DiskInv
  <2>2. Stored(role) = roleFile[role]
    BY <1>2 DEF Stored
  <2>3. auto # "always" => roleFile[role].keys = keys
    BY <2>1, <2>2, StatusMeansKeys DEF Status
  <2> QED
    BY <2>1, <2>3 DEF OKPair, Settled
<1> QED
  BY <1>1, <1>2

LEMMA DumpStatusOK ==
  ASSUME IInv, NEW role \in Roles, NEW keys \in Keys \cup {None}, roleFile[role] # Torn,
         Status(role, keys) # "rejected"
  PROVE  /\ DumpStatus(role, keys) \in Seq(OKOps(Brought(role), keys))
         /\ Brought(role) # None =>
              /\ roleFile[role] = NoFile /\ Brought(role) = role
              /\ FirstWrites(DumpStatus(role, keys), role)
<1> DEFINE data == RoleData(Status(role, keys), keys)
           o == RoleOp(role, data)
<1>1. Persisted(auto, Stored(role), keys) = data
  BY PersistedStatus DEF Status
<1>2. DumpStatus(role, keys) = IF data = Stored(role) THEN <<>> ELSE <<o>>
  BY <1>1 DEF DumpStatus
<1>3. Status(role, keys) \in Statuses \ {"none"}
  BY StatusInTypes DEF IInv
<1>4. o \in OKOps(Brought(role), keys)
  <2>1. data \in RoleRecords
    BY <1>3 DEF RoleRecords, RoleData
  <2>2. o \in [op: {"role"}, role: Roles, data: RoleRecords]
    BY <2>1 DEF RoleOp
  <2>3. o.role = role /\ o.op = "role" /\ o.data.acceptance # "none" /\ o.data.keys = keys
    BY <1>3 DEF RoleOp, RoleData
  <2>4. OKPair(Brought(role), keys, role, keys)
    BY StatusSettled
  <2> HIDE DEF o
  <2> QED
    BY <2>2, <2>3, <2>4 DEF OKOps, FileOps
<1>5. roleFile[role] = NoFile => data # Stored(role)
  BY <1>3 DEF Stored, RoleData
<1>6. o.op = "role" /\ o.role = role
  BY DEF RoleOp
<1> HIDE DEF data, o
<1>7. FirstWrites(<<o>>, role)
  BY <1>6 DEF FirstWrites
<1>8. DumpStatus(role, keys) \in Seq(OKOps(Brought(role), keys))
  <2>1. <<o>> \in Seq(OKOps(Brought(role), keys)) /\ <<>> \in Seq(OKOps(Brought(role), keys))
    BY <1>4
  <2> QED
    BY <1>2, <2>1
<1>9. ASSUME roleFile[role] = NoFile PROVE FirstWrites(DumpStatus(role, keys), role)
  <2>1. DumpStatus(role, keys) = <<o>>
    BY <1>2, <1>5, <1>9
  <2> QED
    BY <1>7, <2>1
<1> QED
  BY <1>8, <1>9 DEF Brought

(* Operations may follow it, and files be cleared before it. *)
LEMMA OpsAround ==
  ASSUME NEW S, NEW b, NEW s \in Seq(S), b # None => FirstWrites(s, b), NEW t \in Seq(S)
  PROVE  /\ s \o t \in Seq(S) /\ (b # None => FirstWrites(s \o t, b))
         /\ (\A i \in DOMAIN t : t[i].op = "clear")
              => t \o s \in Seq(S) /\ (b # None => FirstWrites(t \o s, b))
<1>1. s \o t \in Seq(S) /\ t \o s \in Seq(S)
  OBVIOUS
<1>2. b # None => FirstWrites(s \o t, b)
  BY FirstLeft
<1>3. (\A i \in DOMAIN t : t[i].op = "clear") /\ b # None => FirstWrites(t \o s, b)
  BY FirstRight
<1> QED
  BY <1>1, <1>2, <1>3

(* Such a handler is one that HandlerInv is about. *)
LEMMA BringingStep ==
  ASSUME IInv, NEW role \in Roles, NEW keys \in Keys \cup {None}, roleFile[role] # Torn,
         NEW rem, NEW ops, Handled(rem, ops), puid' \in Uids,
         OKRemotes(Brought(role), keys, rem), ops \in Seq(OKOps(Brought(role), keys)),
         Brought(role) # None => FirstWrites(ops, Brought(role))
  PROVE  IInv'
<1>1. Brought(role) # None => roleFile[role] = NoFile /\ Brought(role) = role
  BY DEF Brought
<1>2. HandlerStep(Brought(role), keys, rem, ops)
  BY <1>1 DEF HandlerStep, OKRemotes
<1> QED
  BY <1>2, HandlerInv

(* One that brings nothing. *)
LEMMA PlainStep ==
  ASSUME IInv, NEW rem, NEW ops, Handled(rem, ops), puid' \in Uids,
         OKRemotes(None, None, rem), ops \in Seq(OKOps(None, None))
  PROVE  IInv'
<1>1. HandlerStep(None, None, rem, ops)
  BY DEF HandlerStep, OKRemotes
<1> QED
  BY <1>1, HandlerInv

-----------------------------------------------------------------------------
(* Every handler preserves the invariant.                                   *)

LEMMA HandledIdle ==
  ASSUME NEW rem, NEW ops, Handled(rem, ops), TypeOK
  PROVE  Idle /\ puid \in Uids
BY DEF Handled, TypeOK

LEMMA CreateRemoteInv ==
  ASSUME IInv, NEW n \in Names, CreateRemote(n)
  PROVE  IInv'
<1> DEFINE r == [uid |-> NextUid, role |-> None, keys |-> None, acceptance |-> "none", joined |-> "no"]
<1>1. /\ n \notin DOMAIN remotes /\ puid' = NextUid /\ Handled(Put(remotes, n, r), <<>>)
  BY DEF CreateRemote
<1>2. NextUid \in Uids
  BY <1>1, NextUidFree DEF IInv
<1>3. OKRemote(None, None, r)
  BY <1>2 DEF OKRemote, RemoteRecords, Statuses
<1>4. Idle
  BY <1>1 DEF Handled
<1> HIDE DEF r
<1>5. OKRemotes(None, None, Put(remotes, n, r))
  BY <1>3, <1>4, DropOK, PutOK
<1>6. <<>> \in Seq(OKOps(None, None))
  OBVIOUS
<1> QED
  BY <1>1, <1>2, <1>5, <1>6, PlainStep

LEMMA RemoveRemoteInv ==
  ASSUME IInv, NEW n \in Names, RemoveRemote(n)
  PROVE  IInv'
<1>1. Handled(Drop(remotes, n), <<ClearOp(n)>>) /\ puid' = puid
  BY DEF RemoveRemote
<1>2. Idle /\ puid' \in Uids
  BY <1>1, HandledIdle DEF IInv
<1>3. OKRemotes(None, None, Drop(remotes, n))
  BY <1>2, DropOK
<1>4. <<ClearOp(n)>> \in Seq(OKOps(None, None))
  BY ClearOK
<1> QED
  BY <1>1, <1>2, <1>3, <1>4, PlainStep

(* A remote that keeps its role and keys is as good as it was. *)
LEMMA SameKeysOK ==
  ASSUME NEW b, NEW k, NEW q, NEW r \in RemoteRecords, OKRemote(b, k, q),
         r.role = q.role, r.keys = q.keys, r.acceptance # "none" \/ r.acceptance = q.acceptance,
         r.role = None => r.joined = "no"
  PROVE  OKRemote(b, k, r)
BY DEF OKRemote

LEMMA StartJoinInv ==
  ASSUME IInv, NEW n \in Names, NEW renewal \in BOOLEAN, StartJoin(n, renewal)
  PROVE  IInv'
<1> DEFINE r == [remotes[n] EXCEPT !.joined = "no"]
           ops == IF renewal THEN DumpRemote(n, r) ELSE <<>>
<1>1. /\ n \in DOMAIN remotes /\ Handled(Put(remotes, n, r), ops) /\ puid' = puid
      /\ renewal => r.role # None
  BY DEF StartJoin
<1>2. Idle /\ puid' \in Uids
  BY <1>1, HandledIdle DEF IInv
<1>3. OKRemote(None, None, remotes[n]) /\ remotes[n] \in RemoteRecords
  BY <1>1, <1>2, RemotesKept DEF OKRemote
<1>4. /\ r \in RemoteRecords /\ r.role = remotes[n].role /\ r.keys = remotes[n].keys
      /\ r.acceptance = remotes[n].acceptance /\ r.joined = "no"
  BY <1>3 DEF RemoteRecords
<1> HIDE DEF r
<1>5. OKRemote(None, None, r)
  BY <1>3, <1>4, SameKeysOK
<1>6. OKRemotes(None, None, Put(remotes, n, r))
  BY <1>2, <1>5, DropOK, PutOK
<1>7. ops \in Seq(OKOps(None, None))
  BY <1>1, <1>5, RecordOps
<1> QED
  BY <1>1, <1>2, <1>6, <1>7, PlainStep

LEMMA CompleteInv ==
  ASSUME IInv, NEW n \in Names, Complete(n)
  PROVE  IInv'
<1> DEFINE r == [remotes[n] EXCEPT !.joined = "yes"]
<1>1. /\ n \in DOMAIN remotes /\ remotes[n].joined = "answered"
      /\ Handled(Put(remotes, n, r), CompleteOps(n, r)) /\ puid' = puid
  BY DEF Complete
<1>2. Idle /\ puid' \in Uids
  BY <1>1, HandledIdle DEF IInv
<1>3. OKRemote(None, None, remotes[n]) /\ remotes[n] \in RemoteRecords
  BY <1>1, <1>2, RemotesKept DEF OKRemote
<1>4. /\ r \in RemoteRecords /\ r.role = remotes[n].role /\ r.keys = remotes[n].keys
      /\ r.acceptance = remotes[n].acceptance
  BY <1>3 DEF RemoteRecords
<1>5. r.role # None
  BY <1>1, <1>3, <1>4 DEF OKRemote
<1> HIDE DEF r
<1>6. OKRemote(None, None, r)
  BY <1>3, <1>4, <1>5, SameKeysOK
<1>7. OKRemotes(None, None, Put(remotes, n, r))
  BY <1>2, <1>6, DropOK, PutOK
<1>8. CompleteOps(n, r) \in Seq(OKOps(None, None))
  BY <1>5, <1>6, CompleteOK DEF IInv
<1> QED
  BY <1>1, <1>2, <1>7, <1>8, PlainStep

LEMMA SetAcceptanceInv ==
  ASSUME IInv, NEW n \in Names, NEW status \in Statuses \ {"none"}, SetAcceptance(n, status)
  PROVE  IInv'
<1> DEFINE r == [remotes[n] EXCEPT !.acceptance = status]
<1>1. /\ n \in DOMAIN remotes /\ remotes[n].role # None
      /\ Handled(Put(remotes, n, r), DumpRole(r)) /\ puid' = puid
  BY DEF SetAcceptance
<1>2. Idle /\ puid' \in Uids
  BY <1>1, HandledIdle DEF IInv
<1>3. OKRemote(None, None, remotes[n]) /\ remotes[n] \in RemoteRecords
  BY <1>1, <1>2, RemotesKept DEF OKRemote
<1>4. /\ r \in RemoteRecords /\ r.role = remotes[n].role /\ r.keys = remotes[n].keys
      /\ r.acceptance # "none"
  BY <1>3 DEF RemoteRecords
<1> HIDE DEF r
<1>5. OKRemote(None, None, r)
  BY <1>1, <1>3, <1>4, SameKeysOK
<1>6. OKRemotes(None, None, Put(remotes, n, r))
  BY <1>2, <1>5, DropOK, PutOK
<1>7. DumpRole(r) \in Seq(OKOps(None, None))
  BY <1>1, <1>4, <1>5, RecordOps
<1> QED
  BY <1>1, <1>2, <1>6, <1>7, PlainStep

(* The remote that a join leaves for a role that is not rejected. *)
LEMMA JoinedRemoteOK ==
  ASSUME IInv, NEW role \in Roles, NEW keys \in Keys \cup {None}, roleFile[role] # Torn,
         Status(role, keys) # "rejected",
         NEW r \in RemoteRecords, r.role = role, r.keys = keys, r.acceptance = Status(role, keys)
  PROVE  OKRemote(Brought(role), keys, r) /\ r.role # None
<1>1. Status(role, keys) \in Statuses \ {"none"}
  BY StatusInTypes DEF IInv
<1>2. OKPair(Brought(role), keys, role, keys)
  BY StatusSettled
<1> QED
  BY <1>1, <1>2, ConstantsAssumption DEF OKRemote

LEMMA IntroducedInv ==
  ASSUME IInv, NEW n \in Names, NEW new \in Names, NEW role \in Roles, NEW keys \in Keys,
         Introduced(n, new, role, keys)
  PROVE  IInv'
<1> DEFINE status == Status(role, keys)
           b == Brought(role)
           r == [remotes[n] EXCEPT !.role = role, !.keys = keys, !.acceptance = status,
                                   !.joined = IF status = "accepted" THEN "yes" ELSE "no"]
           tail == IF status = "accepted" THEN CompleteOps(new, r) ELSE DumpRemote(new, r)
<1>1. /\ n \in DOMAIN remotes /\ remotes[n].role = None /\ roleFile[role] # Torn /\ puid' = puid
      /\ IF status = "rejected"
         THEN Handled(Drop(remotes, n), RenameOps(n, new) \o <<ClearOp(new)>>)
         ELSE Handled(Renamed(n, new, r),
                      RenameOps(n, new) \o DumpStatus(role, keys) \o tail)
  BY DEF Introduced
<1>2. Idle /\ puid' \in Uids
  BY <1>1, HandledIdle DEF IInv
<1>3. CASE status = "rejected"
  <2>1. OKRemotes(None, None, Drop(remotes, n))
    BY <1>2, DropOK
  <2>2. RenameOps(n, new) \o <<ClearOp(new)>> \in Seq(OKOps(None, None))
    BY ClearOK, RenameOK
  <2> QED
    BY <1>1, <1>2, <1>3, <2>1, <2>2, PlainStep
<1>4. CASE status # "rejected"
  <2>1. /\ r \in RemoteRecords /\ r.role = role /\ r.keys = keys /\ r.acceptance = status
    <3>1. remotes[n] \in RemoteRecords /\ status \in Statuses
      BY <1>1, StatusInTypes DEF IInv, TypeOK
    <3> QED
      BY <3>1 DEF RemoteRecords
  <2> HIDE DEF r
  <2>2. OKRemote(b, keys, r) /\ r.role # None
    BY <1>1, <1>4, <2>1, JoinedRemoteOK
  <2>3. OKRemotes(b, keys, Renamed(n, new, r))
    BY <1>2, <2>2, DropOK, PutOK DEF Renamed
  <2>4. tail \in Seq(OKOps(b, keys))
    BY <2>2, RecordOps, CompleteOK DEF IInv
  <2>5. /\ DumpStatus(role, keys) \in Seq(OKOps(b, keys))
        /\ b # None => b = role /\ FirstWrites(DumpStatus(role, keys), role)
    BY <1>1, <1>4, DumpStatusOK
  <2> HIDE DEF b, tail, status
  <2>6. /\ RenameOps(n, new) \o DumpStatus(role, keys) \in Seq(OKOps(b, keys))
        /\ b # None => FirstWrites(RenameOps(n, new) \o DumpStatus(role, keys), b)
    <3>1. b # None => FirstWrites(DumpStatus(role, keys), b)
      BY <2>5
    <3>2. /\ RenameOps(n, new) \in Seq(OKOps(b, keys))
          /\ \A i \in DOMAIN RenameOps(n, new) : RenameOps(n, new)[i].op = "clear"
      BY RenameOK
    <3> QED
      BY <2>5, <3>1, <3>2, OpsAround
  <2>7. /\ RenameOps(n, new) \o DumpStatus(role, keys) \o tail \in Seq(OKOps(b, keys))
        /\ b # None => FirstWrites(RenameOps(n, new) \o DumpStatus(role, keys) \o tail, b)
    BY <2>4, <2>6, OpsAround
  <2>8. Handled(Renamed(n, new, r), RenameOps(n, new) \o DumpStatus(role, keys) \o tail)
    BY <1>1, <1>4
  <2> QED
    BY <1>1, <1>2, <2>3, <2>7, <2>8, BringingStep DEF b
<1> QED
  BY <1>3, <1>4

LEMMA AskedInv ==
  ASSUME IInv, NEW new \in Names, NEW role \in Roles, NEW keys \in Keys, Asked(new, role, keys)
  PROVE  IInv'
<1> DEFINE status == Status(role, keys)
           b == Brought(role)
           r == [uid |-> NextUid, role |-> role, keys |-> keys, acceptance |-> status,
                 joined |-> IF status = "accepted" THEN "answered" ELSE "no"]
           tail == IF status = "accepted" THEN <<>> ELSE DumpRemote(new, r)
<1>1. /\ new \notin DOMAIN remotes /\ roleFile[role] # Torn /\ puid' = NextUid
      /\ IF status = "rejected" THEN Handled(remotes, <<>>)
         ELSE Handled(Put(remotes, new, r), DumpStatus(role, keys) \o tail)
  BY DEF Asked
<1>2. Idle /\ NextUid \in Uids
  BY <1>1, HandledIdle, NextUidFree DEF IInv
<1>3. CASE status = "rejected"
  <2>1. OKRemotes(None, None, remotes) /\ <<>> \in Seq(OKOps(None, None))
    BY <1>2, DropOK
  <2> QED
    BY <1>1, <1>2, <1>3, <2>1, PlainStep
<1>4. CASE status # "rejected"
  <2>1. /\ r \in RemoteRecords /\ r.role = role /\ r.keys = keys /\ r.acceptance = status
    <3>1. status \in Statuses
      BY <1>1, StatusInTypes DEF IInv
    <3> QED
      BY <1>2, <3>1 DEF RemoteRecords
  <2> HIDE DEF r
  <2>2. OKRemote(b, keys, r) /\ r.role # None
    BY <1>1, <1>4, <2>1, JoinedRemoteOK
  <2>3. OKRemotes(b, keys, Put(remotes, new, r))
    BY <1>2, <2>2, DropOK, PutOK
  <2>4. tail \in Seq(OKOps(b, keys))
    BY <2>2, RecordOps
  <2>5. /\ DumpStatus(role, keys) \in Seq(OKOps(b, keys))
        /\ b # None => b = role /\ FirstWrites(DumpStatus(role, keys), role)
    BY <1>1, <1>4, DumpStatusOK
  <2> HIDE DEF b, tail, status
  <2>6. /\ DumpStatus(role, keys) \o tail \in Seq(OKOps(b, keys))
        /\ b # None => FirstWrites(DumpStatus(role, keys) \o tail, b)
    <3>1. b # None => FirstWrites(DumpStatus(role, keys), b)
      BY <2>5
    <3> QED
      BY <2>4, <2>5, <3>1, OpsAround
  <2>7. Handled(Put(remotes, new, r), DumpStatus(role, keys) \o tail)
    BY <1>1, <1>4
  <2> QED
    BY <1>1, <1>2, <2>3, <2>6, <2>7, BringingStep DEF b
<1> QED
  BY <1>3, <1>4

LEMMA RedoPendedInv ==
  ASSUME IInv, NEW n \in Names, NEW joiner \in BOOLEAN, RedoPended(n, joiner)
  PROVE  IInv'
<1> DEFINE role == remotes[n].role
           keys == remotes[n].keys
           status == Status(role, keys)
           b == Brought(role)
           r == [remotes[n] EXCEPT !.acceptance = status,
                                   !.joined = IF status # "accepted" THEN "no"
                                              ELSE IF joiner THEN "yes" ELSE "answered"]
           tail == IF joiner /\ status = "accepted" THEN CompleteOps(n, r) ELSE <<>>
<1>1. /\ n \in DOMAIN remotes /\ role # None /\ roleFile[role] # Torn /\ puid' = puid
      /\ IF status = "rejected" THEN Handled(Drop(remotes, n), <<ClearOp(n)>>)
         ELSE Handled(Put(remotes, n, r), DumpStatus(role, keys) \o tail)
  BY DEF RedoPended
<1>2. Idle /\ puid' \in Uids
  BY <1>1, HandledIdle DEF IInv
<1>3. remotes[n] \in RemoteRecords /\ role \in Roles /\ keys \in Keys \cup {None}
  BY <1>1 DEF IInv, TypeOK, RemoteRecords
<1>4. CASE status = "rejected"
  <2>1. OKRemotes(None, None, Drop(remotes, n)) /\ <<ClearOp(n)>> \in Seq(OKOps(None, None))
    BY <1>2, DropOK, ClearOK
  <2> QED
    BY <1>1, <1>2, <1>4, <2>1, PlainStep
<1>5. CASE status # "rejected"
  <2>1. /\ r \in RemoteRecords /\ r.role = role /\ r.keys = keys /\ r.acceptance = status
    <3>1. status \in Statuses
      BY <1>1, <1>3, StatusInTypes DEF IInv
    <3> QED
      BY <1>3, <3>1 DEF RemoteRecords
  <2> HIDE DEF r
  <2>2. OKRemote(b, keys, r) /\ r.role # None
    BY <1>1, <1>3, <1>5, <2>1, JoinedRemoteOK
  <2>3. OKRemotes(b, keys, Put(remotes, n, r))
    BY <1>2, <2>2, DropOK, PutOK
  <2>4. tail \in Seq(OKOps(b, keys))
    <3>1. <<>> \in Seq(OKOps(b, keys))
      OBVIOUS
    <3> QED
      BY <2>2, <3>1, CompleteOK DEF IInv
  <2>5. /\ DumpStatus(role, keys) \in Seq(OKOps(b, keys))
        /\ b # None => b = role /\ FirstWrites(DumpStatus(role, keys), role)
    BY <1>1, <1>3, <1>5, DumpStatusOK
  <2>6. Handled(Put(remotes, n, r), DumpStatus(role, keys) \o tail)
    BY <1>1, <1>5 DEF r
  <2> HIDE DEF b, tail, status, role, keys
  <2>7. /\ DumpStatus(role, keys) \o tail \in Seq(OKOps(b, keys))
        /\ b # None => FirstWrites(DumpStatus(role, keys) \o tail, b)
    <3>1. b # None => FirstWrites(DumpStatus(role, keys), b)
      BY <2>5
    <3> QED
      BY <2>4, <2>5, <3>1, OpsAround
  <2> QED
    BY <1>1, <1>2, <1>3, <2>3, <2>6, <2>7, BringingStep DEF b
<1> QED
  BY <1>4, <1>5

LEMMA RejoinedInv ==
  ASSUME IInv, NEW n \in Names, NEW new \in Names, NEW role \in Roles, NEW keys \in Keys,
         NEW joiner \in BOOLEAN, Rejoined(n, new, role, keys, joiner)
  PROVE  IInv'
<1> DEFINE status == Status(role, keys)
           b == Brought(role)
           same == role = remotes[n].role /\ keys = remotes[n].keys
           met == [remotes[n] EXCEPT !.acceptance = status]
           r == [met EXCEPT !.role = role, !.keys = keys,
                            !.joined = IF status # "accepted" THEN "no"
                                       ELSE IF joiner THEN "yes" ELSE "answered"]
           dump == DumpStatus(role, keys)
           ops == dump \o RenameOps(n, new)
           tail == CASE status # "accepted" -> DumpRemote(new, r)
                     [] joiner /\ status = "accepted" -> CompleteOps(new, r)
                     [] OTHER -> <<>>
<1>1. /\ n \in DOMAIN remotes /\ remotes[n].role # None /\ roleFile[role] # Torn /\ puid' = puid
      /\ \/ status = "rejected" /\ same /\ Handled(Drop(remotes, n), <<ClearOp(n)>>)
         \/ status = "rejected" /\ ~same /\ Handled(remotes, <<>>)
         \/ status # "rejected" /\ Handled(Put(remotes, n, met), dump)
         \/ status # "rejected" /\ Handled(Renamed(n, new, r), ops \o tail)
  BY DEF Rejoined
<1>2. Idle /\ puid' \in Uids
  BY <1>1, HandledIdle DEF IInv
<1>3. CASE Handled(Drop(remotes, n), <<ClearOp(n)>>)
  <2>1. OKRemotes(None, None, Drop(remotes, n)) /\ <<ClearOp(n)>> \in Seq(OKOps(None, None))
    BY <1>2, DropOK, ClearOK
  <2> QED
    BY <1>2, <1>3, <2>1, PlainStep
<1>4. CASE Handled(remotes, <<>>)
  <2>1. OKRemotes(None, None, remotes) /\ <<>> \in Seq(OKOps(None, None))
    BY <1>2, DropOK
  <2> QED
    BY <1>2, <1>4, <2>1, PlainStep
<1>5. remotes[n] \in RemoteRecords /\ status \in Statuses \ {"none"}
  BY <1>1, StatusInTypes DEF IInv, TypeOK
<1>6. ASSUME status # "rejected"
      PROVE  /\ dump \in Seq(OKOps(b, keys)) /\ (b # None => FirstWrites(dump, b))
             /\ OKRemote(b, keys, met) /\ OKRemote(b, keys, r) /\ r.role # None
  <2>1. dump \in Seq(OKOps(b, keys)) /\ (b # None => b = role /\ FirstWrites(dump, role))
    BY <1>1, <1>6, DumpStatusOK
  <2>2. /\ r \in RemoteRecords /\ r.role = role /\ r.keys = keys /\ r.acceptance = status
        /\ met \in RemoteRecords /\ met.role = remotes[n].role /\ met.keys = remotes[n].keys
        /\ met.acceptance = status
    BY <1>5 DEF RemoteRecords
  <2>3. OKRemote(b, keys, remotes[n])
    BY <1>1, <1>2, RemotesKept
  <2> HIDE DEF r, met
  <2>4. OKRemote(b, keys, met)
    BY <1>1, <1>5, <2>2, <2>3, SameKeysOK
  <2>5. OKRemote(b, keys, r) /\ r.role # None
    BY <1>1, <1>6, <2>2, JoinedRemoteOK
  <2> HIDE DEF b, dump
  <2> QED
    BY <2>1, <2>4, <2>5
<1>7. CASE status # "rejected" /\ Handled(Put(remotes, n, met), dump)
  <2> HIDE DEF met, r, dump
  <2>1. OKRemotes(b, keys, Put(remotes, n, met))
    BY <1>2, <1>6, <1>7, DropOK, PutOK
  <2> QED
    BY <1>1, <1>2, <1>6, <1>7, <2>1, BringingStep
<1>8. CASE status # "rejected" /\ Handled(Renamed(n, new, r), ops \o tail)
  <2> HIDE DEF met, r, dump
  <2>1. OKRemotes(b, keys, Renamed(n, new, r))
    BY <1>2, <1>6, <1>8, DropOK, PutOK DEF Renamed
  <2>2. tail \in Seq(OKOps(b, keys))
    <3>1. <<>> \in Seq(OKOps(b, keys))
      OBVIOUS
    <3>2. DumpRemote(new, r) \in Seq(OKOps(b, keys)) /\ CompleteOps(new, r) \in Seq(OKOps(b, keys))
      BY <1>6, <1>8, RecordOps, CompleteOK DEF IInv
    <3>3. tail \in {DumpRemote(new, r), CompleteOps(new, r), <<>>}
      OBVIOUS
    <3> HIDE DEF tail
    <3> QED
      BY <3>1, <3>2, <3>3
  <2> HIDE DEF tail
  <2>3. ops \in Seq(OKOps(b, keys)) /\ (b # None => FirstWrites(ops, b))
    BY <1>6, <1>8, RenameOK, OpsAround
  <2> HIDE DEF ops
  <2>4. ops \o tail \in Seq(OKOps(b, keys)) /\ (b # None => FirstWrites(ops \o tail, b))
    BY <2>2, <2>3, OpsAround
  <2> QED
    BY <1>1, <1>2, <1>8, <2>1, <2>4, BringingStep
<1> QED
  BY <1>1, <1>3, <1>4, <1>7, <1>8

-----------------------------------------------------------------------------
(* The disk, crashes and restarts preserve the invariant.                   *)

LEMMA InitInv ==
  ASSUME Init
  PROVE  IInv
<1> DEFINE o == LocalOp(LocalUid)
<1>1. LocalUid \in Uids
  <2>1. Cardinality(Names) \in Nat /\ MaxUid \in Nat /\ MaxUid > Cardinality(Names)
    BY ConstantsAssumption, FS_CardinalityType
  <2> QED
    BY <2>1 DEF LocalUid, Uids
<1>2. o \in FileOps /\ o.op = "local"
  BY <1>1 DEF LocalOp, FileOps
<1>3. DOMAIN remotes = {} /\ \A r \in Roles : roleFile[r] \notin RoleRecords
  BY FileAssumption DEF Init
<1>4. todo = <<o>> /\ life = "up" /\ auto \in Autos
  BY DEF Init
<1>5. TypeOK
  BY <1>1, <1>2, <1>3 DEF Init, TypeOK
<1> HIDE DEF o
<1>6. DiskInv /\ MemoryInv /\ TodoInv
  BY <1>2, <1>3, <1>4, FileAssumption DEF Init, DiskInv, MemoryInv, TodoInv
<1>7. OneKey
  <2>1. [r \in Roles |-> None] \in [Roles -> Keys \cup {None}]
    OBVIOUS
  <2>2. Bound([r \in Roles |-> None])
    BY <1>2, <1>3, <1>4 DEF Bound
  <2> QED
    BY <2>1, <2>2 DEF OneKey
<1> QED
  BY <1>4, <1>5, <1>6, <1>7 DEF IInv

LEMMA RaiseStatusInv ==
  ASSUME IInv, NEW role, RaiseStatus(role)
  PROVE  IInv'
<1>1. /\ life' = "raised" /\ remotes' = <<>> /\ puid' = LocalUid /\ todo = <<>> /\ todo' = todo
      /\ UNCHANGED <<remoteFile, roleFile, localFile, auto, crashes>>
  BY DEF RaiseStatus, Idle, Files
<1>2. LocalUid \in Uids
  <2>1. Cardinality(Names) \in Nat /\ MaxUid \in Nat /\ MaxUid > Cardinality(Names)
    BY ConstantsAssumption, FS_CardinalityType
  <2> QED
    BY <2>1 DEF LocalUid, Uids
<1>3. TypeOK'
  BY <1>1, <1>2 DEF IInv, TypeOK
<1> QED
  BY <1>1, <1>3 DEF IInv, DiskInv, MemoryInv, TodoInv

(* The first operation that is left, as it reaches the disk or is torn. *)
LEMMA ApplyDisk ==
  ASSUME IInv, todo # <<>>, NEW torn \in BOOLEAN, Apply(Head(todo), torn)
  PROVE  /\ remoteFile' \in [Names -> FileRecords \cup {NoFile, Torn}]
         /\ roleFile' \in [Roles -> RoleRecords \cup {NoFile, Torn}]
         /\ localFile' \in {0} \cup Uids
         /\ DiskInv'
         /\ \A r \in Roles : roleFile'[r] # roleFile[r] =>
              /\ Head(todo).op = "role" /\ Head(todo).role = r
              /\ roleFile'[r] = IF torn THEN Torn ELSE Head(todo).data
         /\ \A r \in Roles : roleFile[r] # NoFile => roleFile'[r] # NoFile
<1> DEFINE o == Head(todo)
<1>1. o \in FileOps /\ 1 \in DOMAIN todo /\ o = todo[1]
  BY DEF IInv, TypeOK
<1>2. /\ o.op = "role" => o.data.acceptance # "none"
      /\ o.op = "remote" => roleFile[o.data.role] # NoFile
  <2>1. 1 .. 1 - 1 = {}
    OBVIOUS
  <2> QED
    BY <1>1, <2>1 DEF IInv, TodoInv
<1>3. /\ remoteFile \in [Names -> FileRecords \cup {NoFile, Torn}]
      /\ roleFile \in [Roles -> RoleRecords \cup {NoFile, Torn}]
      /\ localFile \in {0} \cup Uids
      /\ DiskInv
  BY DEF IInv, TypeOK
<1>4. NoFile # Torn /\ NoFile \notin FileRecords \cup RoleRecords /\ Torn \notin FileRecords \cup RoleRecords
  BY ConstantsAssumption, FileAssumption
<1> HIDE DEF o
<1>5. CASE o.op = "clear"
  <2>1. /\ o.name \in Names /\ remoteFile' = [remoteFile EXCEPT ![o.name] = NoFile]
        /\ UNCHANGED <<roleFile, localFile>>
    BY <1>1, <1>5 DEF Apply, FileOps, o
  <2> QED
    BY <1>3, <1>4, <2>1 DEF DiskInv
<1>6. CASE o.op = "remote"
  <2>1. /\ o.name \in Names /\ o.data \in FileRecords /\ UNCHANGED <<roleFile, localFile>>
        /\ remoteFile' = [remoteFile EXCEPT ![o.name] = IF torn THEN Torn ELSE o.data]
    BY <1>1, <1>6 DEF Apply, FileOps, o
  <2> QED
    BY <1>2, <1>3, <1>4, <1>6, <2>1 DEF DiskInv
<1>7. CASE o.op = "role"
  <2>1. /\ o.role \in Roles /\ o.data \in RoleRecords /\ UNCHANGED <<remoteFile, localFile>>
        /\ roleFile' = [roleFile EXCEPT ![o.role] = IF torn THEN Torn ELSE o.data]
    BY <1>1, <1>7 DEF Apply, FileOps, o
  <2>2. roleFile' \in [Roles -> RoleRecords \cup {NoFile, Torn}]
    BY <1>3, <2>1
  <2>3. \A r \in Roles : roleFile'[r] # roleFile[r] =>
          r = o.role /\ roleFile'[r] = IF torn THEN Torn ELSE o.data
    BY <1>3, <2>1
  <2>4. \A r \in Roles : roleFile[r] # NoFile => roleFile'[r] # NoFile
    BY <1>4, <2>1, <2>3
  <2>5. DiskInv'
    <3>1. \A r \in Roles : roleFile'[r] \in RoleRecords => roleFile'[r].acceptance # "none"
      BY <1>2, <1>3, <1>4, <1>7, <2>3 DEF DiskInv
    <3>2. \A n \in Names : remoteFile'[n] \in FileRecords => roleFile'[remoteFile'[n].role] # NoFile
      BY <1>3, <2>1, <2>4 DEF DiskInv, FileRecords
    <3> QED
      BY <3>1, <3>2 DEF DiskInv
  <2> QED
    BY <1>3, <1>7, <2>1, <2>2, <2>3, <2>4, <2>5 DEF o
<1>8. CASE o.op = "local"
  <2>1. /\ o.puid \in Uids /\ localFile' = (IF torn THEN 0 ELSE o.puid)
        /\ UNCHANGED <<remoteFile, roleFile>>
    BY <1>1, <1>8 DEF Apply, FileOps, o
  <2> QED
    BY <1>3, <2>1 DEF DiskInv
<1> QED
  BY <1>1, <1>5, <1>6, <1>7, <1>8 DEF FileOps

LEMMA FileStepInv ==
  ASSUME IInv, FileStep
  PROVE  IInv'
<1> DEFINE o == Head(todo)
<1>1. /\ life = "up" /\ todo # <<>> /\ Apply(o, FALSE) /\ todo' = Tail(todo)
      /\ UNCHANGED <<remotes, puid, auto, life, crashes>>
  BY DEF FileStep
<1>2. /\ remoteFile' \in [Names -> FileRecords \cup {NoFile, Torn}]
      /\ roleFile' \in [Roles -> RoleRecords \cup {NoFile, Torn}]
      /\ localFile' \in {0} \cup Uids
      /\ DiskInv'
      /\ \A r \in Roles : roleFile'[r] # roleFile[r] =>
           o.op = "role" /\ o.role = r /\ roleFile'[r] = o.data
      /\ \A r \in Roles : roleFile[r] # NoFile => roleFile'[r] # NoFile
  BY <1>1, ApplyDisk
<1>3. /\ todo \in Seq(FileOps) /\ todo' \in Seq(FileOps) /\ o = todo[1] /\ 1 \in DOMAIN todo
      /\ Len(todo') = Len(todo) - 1
      /\ \A i \in DOMAIN todo' : i + 1 \in DOMAIN todo /\ todo'[i] = todo[i + 1]
  BY <1>1 DEF IInv, TypeOK
<1>4. o \in FileOps
  BY <1>3
<1>5. ASSUME o.op = "role" PROVE o.role \in Roles /\ roleFile'[o.role] = o.data /\ o.data \in RoleRecords
  <2>1. o.role \in Roles /\ o.data \in RoleRecords
    BY <1>4, <1>5 DEF FileOps
  <2>2. roleFile' = [roleFile EXCEPT ![o.role] = o.data]
    BY <1>1, <1>5 DEF Apply
  <2> QED
    BY <2>1, <2>2 DEF IInv, TypeOK
<1> HIDE DEF o
<1>6. TypeOK'
  BY <1>1, <1>2, <1>3 DEF IInv, TypeOK
<1>7. MemoryInv'
  <2> SUFFICES ASSUME NEW n \in DOMAIN remotes, remotes[n].role # None
               PROVE  /\ remotes[n].acceptance # "none" /\ roleFile'[remotes[n].role] # Torn
                      /\ roleFile'[remotes[n].role] # NoFile \/ Writes(todo', remotes[n].role)
    BY <1>1 DEF IInv, MemoryInv, Writes
  <2> DEFINE role == remotes[n].role
  <2>1. role \in Roles
    BY DEF IInv, TypeOK, RemoteRecords
  <2>2. /\ remotes[n].acceptance # "none" /\ roleFile[role] # Torn
        /\ roleFile[role] # NoFile \/ Writes(todo, role)
    BY DEF IInv, MemoryInv
  <2> HIDE DEF role
  <2>3. roleFile'[role] # Torn
    BY <1>2, <1>5, <2>1, <2>2, FileAssumption
  <2>4. ASSUME Writes(todo, role) PROVE roleFile'[role] # NoFile \/ Writes(todo', role)
    <3>1. PICK i \in DOMAIN todo : todo[i].op = "role" /\ todo[i].role = role
      BY <2>4 DEF Writes
    <3>2. CASE i = 1
      <4>1. o.op = "role" /\ o.role = role
        BY <1>3, <3>1, <3>2
      <4> QED
        BY <1>5, <4>1, FileAssumption
    <3>3. CASE i # 1
      <4>1. i - 1 \in DOMAIN todo' /\ todo'[i - 1] = todo[i]
        BY <1>3, <3>3
      <4> QED
        BY <3>1, <4>1 DEF Writes
    <3> QED
      BY <3>2, <3>3
  <2> QED
    BY <1>2, <2>1, <2>2, <2>3, <2>4 DEF role
<1>8. TodoInv'
  <2> SUFFICES ASSUME NEW i \in DOMAIN todo'
               PROVE  /\ todo'[i].op = "role" => todo'[i].data.acceptance # "none"
                      /\ todo'[i].op = "remote" =>
                           \/ roleFile'[todo'[i].data.role] # NoFile
                           \/ \E j \in 1 .. i - 1 :
                                todo'[j].op = "role" /\ todo'[j].role = todo'[i].data.role
    BY DEF TodoInv
  <2>1. i + 1 \in DOMAIN todo /\ todo'[i] = todo[i + 1] /\ i \in Nat \ {0}
    BY <1>3
  <2>2. todo'[i].op = "role" => todo'[i].data.acceptance # "none"
    BY <2>1 DEF IInv, TodoInv
  <2>3. ASSUME todo'[i].op = "remote"
        PROVE  \/ roleFile'[todo'[i].data.role] # NoFile
               \/ \E j \in 1 .. i - 1 : todo'[j].op = "role" /\ todo'[j].role = todo'[i].data.role
    <3> DEFINE role == todo'[i].data.role
    <3>1. role \in Roles
      <4>1. todo'[i] \in FileOps
        BY <1>3
      <4> QED
        BY <2>3, <4>1 DEF FileOps, FileRecords
    <3>2. \/ roleFile[role] # NoFile
          \/ \E j \in 1 .. (i + 1) - 1 : todo[j].op = "role" /\ todo[j].role = role
      BY <2>1, <2>3 DEF IInv, TodoInv
    <3> HIDE DEF role
    <3>3. CASE roleFile[role] # NoFile
      BY <1>2, <3>1, <3>3 DEF role
    <3>4. ASSUME NEW j \in 1 .. (i + 1) - 1, todo[j].op = "role", todo[j].role = role
          PROVE  roleFile'[role] # NoFile \/ \E k \in 1 .. i - 1 : todo'[k].op = "role" /\ todo'[k].role = role
      <4>1. CASE j = 1
        <5>1. o.op = "role" /\ o.role = role
          BY <1>3, <3>4, <4>1
        <5> QED
          BY <1>5, <5>1, FileAssumption
      <4>2. CASE j # 1
        <5>1. j - 1 \in 1 .. i - 1 /\ j - 1 \in DOMAIN todo' /\ todo'[j - 1] = todo[j]
          BY <1>3, <2>1, <4>2
        <5> QED
          BY <3>4, <5>1
      <4> QED
        BY <4>1, <4>2
    <3> QED
      BY <3>2, <3>3, <3>4 DEF role
  <2> QED
    BY <2>2, <2>3
<1>9. ASSUME auto' # "always" PROVE OneKey'
  <2>1. PICK key \in [Roles -> Keys \cup {None}] : Bound(key)
    BY <1>1, <1>9 DEF IInv, OneKey
  <2>2. \A i \in DOMAIN todo' : todo'[i].op = "role" => todo'[i].data.keys = key[todo'[i].role]
    BY <1>3, <2>1 DEF Bound
  <2>3. o.op = "role" => o.data.keys = key[o.role]
    BY <1>3, <2>1 DEF Bound
  <2>4. \A r \in Roles : roleFile'[r] \in RoleRecords => roleFile'[r].keys = key[r]
    BY <1>2, <2>1, <2>3 DEF Bound
  <2>5. Bound(key)'
    BY <1>1, <2>1, <2>2, <2>4 DEF Bound
  <2> QED
    BY <2>5 DEF OneKey
<1> QED
  BY <1>1, <1>2, <1>6, <1>7, <1>8, <1>9 DEF IInv

LEMMA CrashInv ==
  ASSUME IInv, Crash
  PROVE  IInv'
<1>1. /\ life' = "down" /\ remotes' = <<>> /\ puid' = LocalUid /\ todo' = <<>> /\ auto' = auto
      /\ crashes' \in Nat
  BY DEF Crash, IInv, TypeOK
<1>2. LocalUid \in Uids
  <2>1. Cardinality(Names) \in Nat /\ MaxUid \in Nat /\ MaxUid > Cardinality(Names)
    BY ConstantsAssumption, FS_CardinalityType
  <2> QED
    BY <2>1 DEF LocalUid, Uids
<1>3. /\ remoteFile' \in [Names -> FileRecords \cup {NoFile, Torn}]
      /\ roleFile' \in [Roles -> RoleRecords \cup {NoFile, Torn}]
      /\ localFile' \in {0} \cup Uids
      /\ DiskInv'
  <2>1. CASE UNCHANGED Files
    BY <2>1 DEF Files, IInv, TypeOK, DiskInv
  <2>2. CASE todo # <<>> /\ Apply(Head(todo), TRUE)
    BY <2>2, ApplyDisk
  <2> QED
    BY <2>1, <2>2 DEF Crash
<1>4. TypeOK'
  BY <1>1, <1>2, <1>3 DEF IInv, TypeOK
<1> QED
  BY <1>1, <1>3, <1>4 DEF IInv, MemoryInv, TodoInv

LEMMA DumpRemotesIn ==
  ASSUME NEW S, NEW order \in Orders(Found), NEW rem, IsFiniteSet(Names),
         \A n \in Found : ClearOp(n) \in S /\ DumpRemote(n, rem[n]) \in Seq(S)
  PROVE  DumpRemotes(order, rem) \in Seq(S)
<1> DEFINE c == [i \in DOMAIN order |-> ClearOp(order[i])]
           w == [i \in 1 .. 2 * Len(order) |->
                   LET n == order[(i + 1) \div 2]
                   IN DumpRemote(n, rem[n])[2 - (i % 2)]]
<1>1. order \in Seq(Found)
  <2>1. IsFiniteSet(Found)
    BY FS_Subset DEF Found
  <2>2. Cardinality(Found) \in Nat
    BY <2>1, FS_CardinalityType
  <2> QED
    BY <2>2 DEF Orders
<1>2. c \in Seq(S)
  <2>1. Len(order) \in Nat /\ DOMAIN order = 1 .. Len(order) /\ \A i \in DOMAIN order : order[i] \in Found
    BY <1>1
  <2>2. c \in [1 .. Len(order) -> S]
    BY <2>1
  <2> HIDE DEF c
  <2> QED
    BY <2>1, <2>2
<1>3. ASSUME NEW i \in 1 .. 2 * Len(order) PROVE w[i] \in S
  <2> DEFINE j == (i + 1) \div 2
  <2>1. j \in 1 .. Len(order) /\ 2 - (i % 2) \in {1, 2}
    BY <1>1
  <2>2. order[j] \in Found
    BY <1>1, <2>1
  <2>3. Len(DumpRemote(order[j], rem[order[j]])) = 2
    BY DEF DumpRemote, DumpRole
  <2> DEFINE d == DumpRemote(order[j], rem[order[j]])
             m == 2 - (i % 2)
  <2>4. d \in Seq(S) /\ Len(d) = 2 /\ m \in {1, 2}
    BY <2>1, <2>2, <2>3
  <2>5. w[i] = d[m]
    OBVIOUS
  <2> HIDE DEF d, m, w
  <2>6. d[m] \in S
    <3>1. m \in 1 .. Len(d)
      BY <2>4
    <3> QED
      BY <2>4, <3>1, ElementOfSeq
  <2> QED
    BY <2>5, <2>6
<1>4. w \in Seq(S)
  <2>1. 2 * Len(order) \in Nat
    BY <1>1
  <2> HIDE DEF w
  <2>2. w \in [1 .. 2 * Len(order) -> S]
    BY <1>3 DEF w
  <2> QED
    BY <2>1, <2>2
<1>5. DumpRemotes(order, rem) = c \o w
  BY DEF DumpRemotes
<1> HIDE DEF c, w
<1> QED
  BY <1>2, <1>4, <1>5

(* What is loaded has been judged, with the keys on disk. *)
LEMMA LoadedOK ==
  ASSUME IInv, Restorable, NEW n \in Found
  PROVE  /\ Loaded(n) \in RemoteRecords /\ Loaded(n).role \in Roles
         /\ Loaded(n).acceptance # "none"
         /\ roleFile[Loaded(n).role] \in RoleRecords
         /\ Loaded(n).keys = roleFile[Loaded(n).role].keys
<1> DEFINE f == remoteFile[n]
<1>1. n \in Names /\ f \in FileRecords
  BY DEF IInv, TypeOK, Found, Restorable, Loadable
<1>2. f.role \in Roles /\ f.uid \in Uids /\ f.joined \in BOOLEAN
  BY <1>1 DEF FileRecords
<1>3. roleFile[f.role] \in RoleRecords /\ roleFile[f.role] # NoFile
  BY <1>1, <1>2 DEF IInv, TypeOK, DiskInv, Restorable, Loadable
<1>4. /\ Stored(f.role) = roleFile[f.role] /\ roleFile[f.role].acceptance # "none"
      /\ roleFile[f.role].acceptance \in Statuses /\ roleFile[f.role].keys \in Keys \cup {None}
  BY <1>2, <1>3 DEF IInv, DiskInv, Stored, RoleRecords
<1> QED
  BY <1>2, <1>3, <1>4 DEF Loaded, RemoteRecords

LEMMA RestartInv ==
  ASSUME IInv, Restart
  PROVE  IInv'
<1>1. auto' \in Autos /\ UNCHANGED <<remoteFile, roleFile, localFile, crashes>> /\ remotes = <<>> /\ todo = <<>>
  BY DEF Restart, Files, IInv
<1>2. CASE ~Restorable
  <2>1. life' = "raised" /\ remotes' = remotes /\ puid' = puid /\ todo' = todo
    BY <1>2 DEF Restart
  <2>2. TypeOK'
    BY <1>1, <2>1 DEF IInv, TypeOK
  <2> QED
    BY <1>1, <2>1, <2>2 DEF IInv, DiskInv, MemoryInv, TodoInv
<1>3. CASE Restorable
  <2> DEFINE rem == [n \in Found |-> Loaded(n)]
             uid == IF localFile = 0 THEN LocalUid ELSE localFile
  <2>3. PICK key \in [Roles -> Keys \cup {None}] :
          \A r \in Roles : roleFile[r] \in RoleRecords => roleFile[r].keys = key[r]
    <3> DEFINE k == [r \in Roles |-> IF roleFile[r] \in RoleRecords THEN roleFile[r].keys ELSE None]
    <3>1. k \in [Roles -> Keys \cup {None}]
      BY DEF RoleRecords
    <3> QED
      BY <3>1
  <2> DEFINE S == {o \in FileOps :
                 /\ o.op = "role" => o.data.acceptance # "none" /\ o.data.keys = key[o.role]
                 /\ o.op = "remote" => roleFile[o.data.role] # NoFile}
  <2>1. PICK order \in Orders(Found) :
          /\ remotes' = rem /\ puid' = uid /\ life' = "up"
          /\ todo' = <<LocalOp(uid)>> \o DumpRemotes(order, rem)
    BY <1>3 DEF Restart
  <2>2. uid \in Uids
    <3>1. Cardinality(Names) \in Nat /\ MaxUid \in Nat /\ MaxUid > Cardinality(Names)
      BY ConstantsAssumption, FS_CardinalityType
    <3> QED
      BY <3>1 DEF IInv, TypeOK, LocalUid, Uids
  <2>4. \A n \in Found : /\ n \in Names /\ rem[n] \in RemoteRecords /\ rem[n].role \in Roles
                         /\ rem[n].acceptance # "none" /\ roleFile[rem[n].role] \in RoleRecords
                         /\ rem[n].keys = key[rem[n].role]
    <3> SUFFICES ASSUME NEW n \in Found
                 PROVE  /\ n \in Names /\ rem[n] \in RemoteRecords /\ rem[n].role \in Roles
                        /\ rem[n].acceptance # "none" /\ roleFile[rem[n].role] \in RoleRecords
                        /\ rem[n].keys = key[rem[n].role]
      OBVIOUS
    <3>1. rem[n] = Loaded(n) /\ n \in Names
      BY DEF Found
    <3> HIDE DEF rem
    <3> QED
      BY <1>3, <2>3, <3>1, LoadedOK
  <2> HIDE DEF rem, uid
  <2>5. ASSUME NEW n \in Found PROVE ClearOp(n) \in S /\ DumpRemote(n, rem[n]) \in Seq(S)
    <3> DEFINE r == rem[n]
               o == RoleOp(r.role, RoleData(r.acceptance, r.keys))
               d == [uid |-> r.uid, role |-> r.role, joined |-> r.joined = "yes"]
               p == [op |-> "remote", name |-> n, data |-> d]
    <3>1. /\ n \in Names /\ r \in RemoteRecords /\ r.role \in Roles /\ r.acceptance # "none"
          /\ roleFile[r.role] \in RoleRecords /\ r.keys = key[r.role]
      BY <2>4
    <3> HIDE DEF r
    <3>2. o \in S
      <4>1. RoleData(r.acceptance, r.keys) \in RoleRecords
        BY <3>1 DEF RemoteRecords, RoleRecords, RoleData
      <4>2. o \in [op: {"role"}, role: Roles, data: RoleRecords]
        BY <3>1, <4>1 DEF RoleOp
      <4> QED
        BY <3>1, <4>2 DEF FileOps, RoleOp, RoleData
    <3>3. p \in S
      <4>1. d \in FileRecords
        BY <3>1 DEF RemoteRecords, FileRecords
      <4>2. p \in [op: {"remote"}, name: Names, data: FileRecords]
        BY <3>1, <4>1
      <4> QED
        BY <3>1, <4>2, FileAssumption DEF FileOps
    <3>4. ClearOp(n) \in S
      BY <3>1 DEF ClearOp, FileOps
    <3>5. DumpRemote(n, rem[n]) = <<p>> \o <<o>>
      BY DEF DumpRemote, DumpRole, r
    <3> HIDE DEF o, p, S
    <3> QED
      BY <3>2, <3>3, <3>4, <3>5
  <2>6. LocalOp(uid) \in S
    BY <2>2 DEF LocalOp, FileOps
  <2> HIDE DEF S
  <2>7. todo' \in Seq(S)
    <3>1. DumpRemotes(order, rem) \in Seq(S)
      BY <2>5, DumpRemotesIn, ConstantsAssumption
    <3> QED
      BY <2>1, <2>6, <3>1
  <2>8. \A i \in DOMAIN todo' :
          /\ todo'[i] \in FileOps
          /\ todo'[i].op = "role" => todo'[i].data.acceptance # "none"
                                     /\ todo'[i].data.keys = key[todo'[i].role]
          /\ todo'[i].op = "remote" => roleFile[todo'[i].data.role] # NoFile
    <3>1. \A i \in DOMAIN todo' : todo'[i] \in S
      BY <2>7
    <3> QED
      BY <3>1 DEF S
  <2>9. todo' \in Seq(FileOps)
    <3>1. S \subseteq FileOps
      BY DEF S
    <3> QED
      BY <2>7, <3>1
  <2>10. DOMAIN rem = Found
    BY DEF rem
  <2>11. TypeOK'
    BY <1>1, <2>1, <2>2, <2>4, <2>9, <2>10 DEF IInv, TypeOK
  <2>12. DiskInv'
    BY <1>1 DEF IInv, DiskInv
  <2>13. MemoryInv'
    BY <1>1, <2>1, <2>4, <2>10, FileAssumption, ConstantsAssumption DEF MemoryInv
  <2>14. TodoInv'
    BY <1>1, <2>8 DEF TodoInv
  <2>15. Bound(key)'
    BY <1>1, <2>1, <2>3, <2>4, <2>8, <2>10 DEF Bound
  <2> QED
    BY <2>1, <2>3, <2>11, <2>12, <2>13, <2>14, <2>15 DEF IInv, OneKey
<1> QED
  BY <1>2, <1>3

-----------------------------------------------------------------------------
(* The invariant holds, and the keys of a role are kept.                    *)

HandlerOf(n) ==
  \/ CreateRemote(n) \/ RemoveRemote(n) \/ Complete(n)
  \/ \E b \in BOOLEAN : StartJoin(n, b) \/ RedoPended(n, b)
  \/ \E s \in Statuses \ {"none"} : SetAcceptance(n, s)
  \/ \E r \in Roles, k \in Keys :
       \/ Asked(n, r, k)
       \/ \E new \in Names :
            Introduced(n, new, r, k) \/ \E b \in BOOLEAN : Rejoined(n, new, r, k, b)

LEMMA HandlerOfInv ==
  ASSUME IInv, NEW n \in Names, HandlerOf(n)
  PROVE  IInv' /\ UNCHANGED roleFile
<1>1. CASE CreateRemote(n)
  BY <1>1, CreateRemoteInv DEF CreateRemote, Handled, Files
<1>2. CASE RemoveRemote(n)
  BY <1>2, RemoveRemoteInv DEF RemoveRemote, Handled, Files
<1>3. CASE Complete(n)
  BY <1>3, CompleteInv DEF Complete, Handled, Files
<1>4. ASSUME NEW b \in BOOLEAN, StartJoin(n, b) PROVE IInv' /\ UNCHANGED roleFile
  BY <1>4, StartJoinInv DEF StartJoin, Handled, Files
<1>5. ASSUME NEW b \in BOOLEAN, RedoPended(n, b) PROVE IInv' /\ UNCHANGED roleFile
  BY <1>5, RedoPendedInv DEF RedoPended, Handled, Files
<1>6. ASSUME NEW s \in Statuses \ {"none"}, SetAcceptance(n, s) PROVE IInv' /\ UNCHANGED roleFile
  BY <1>6, SetAcceptanceInv DEF SetAcceptance, Handled, Files
<1>7. ASSUME NEW r \in Roles, NEW k \in Keys, Asked(n, r, k) PROVE IInv' /\ UNCHANGED roleFile
  BY <1>7, AskedInv DEF Asked, Handled, Files
<1>8. ASSUME NEW r \in Roles, NEW k \in Keys, NEW new \in Names, Introduced(n, new, r, k)
      PROVE  IInv' /\ UNCHANGED roleFile
  BY <1>8, IntroducedInv DEF Introduced, Handled, Files
<1>9. ASSUME NEW r \in Roles, NEW k \in Keys, NEW new \in Names, NEW b \in BOOLEAN, Rejoined(n, new, r, k, b)
      PROVE  IInv' /\ UNCHANGED roleFile
  <2>1. UNCHANGED roleFile
    BY <1>9 DEF Rejoined, Handled, Files
  <2> QED
    BY <1>9, <2>1, RejoinedInv
<1> QED
  BY <1>1, <1>2, <1>3, <1>4, <1>5, <1>6, <1>7, <1>8, <1>9 DEF HandlerOf

LEMMA NextCases ==
  ASSUME [Next]_vars
  PROVE  \/ \E n \in Names : HandlerOf(n)
         \/ \E r \in Roles : RaiseStatus(r)
         \/ FileStep \/ Crash \/ Restart \/ UNCHANGED vars
BY DEF Next, HandlerOf

LEMMA InvHolds == Spec => []IInv
<1>1. Init => IInv
  BY InitInv
<1>2. IInv /\ [Next]_vars => IInv'
  <2> SUFFICES ASSUME IInv, [Next]_vars PROVE IInv'
    OBVIOUS
  <2>1. ASSUME NEW n \in Names, HandlerOf(n) PROVE IInv'
    BY <2>1, HandlerOfInv
  <2>2. CASE UNCHANGED vars
    BY <2>2 DEF vars, IInv, TypeOK, DiskInv, MemoryInv, TodoInv, OneKey, Bound, Writes
  <2> QED
    BY <2>1, <2>2, NextCases, RaiseStatusInv, FileStepInv, CrashInv, RestartInv
<1> QED
  BY <1>1, <1>2, PTL DEF Spec

(* The memory of a stack and its files keep their shapes, whatever joins,
   crashes and restarts do: in particular a new remote always finds a uid, and
   a file that is loaded finds the file of its role. *)
THEOREM KeepTypes == Spec => []TypeOK
<1>1. IInv => TypeOK
  BY DEF IInv
<1> QED
  BY <1>1, InvHolds, PTL

(* The keys on disk for a role are never replaced, unless every key is
   accepted: of all remotes that have the role, none ever has other keys to
   write. *)
THEOREM KeysKeptTheorem == Spec => KeysKept
<1>1. IInv /\ [Next]_vars =>
        [\A r \in Roles :
           roleFile[r] \in RoleRecords /\ roleFile'[r] \in RoleRecords /\ auto # "always"
             => roleFile'[r].keys = roleFile[r].keys]_vars
  <2> SUFFICES ASSUME IInv, [Next]_vars, NEW r \in Roles,
                      roleFile[r] \in RoleRecords, roleFile'[r] \in RoleRecords, auto # "always"
               PROVE  roleFile'[r].keys = roleFile[r].keys
    OBVIOUS
  <2>1. ASSUME NEW n \in Names, HandlerOf(n) PROVE UNCHANGED roleFile
    BY <2>1, HandlerOfInv
  <2>2. ASSUME NEW q \in Roles, RaiseStatus(q) PROVE UNCHANGED roleFile
    BY <2>2 DEF RaiseStatus, Files
  <2>3. CASE FileStep
    <3>1. PICK key \in [Roles -> Keys \cup {None}] : Bound(key)
      BY <2>3 DEF FileStep, IInv, OneKey
    <3>2. CASE roleFile'[r] # roleFile[r]
      <4>1. /\ Head(todo).op = "role" /\ Head(todo).role = r /\ roleFile'[r] = Head(todo).data
            /\ todo # <<>>
        BY <2>3, <3>2, ApplyDisk DEF FileStep
      <4>2. 1 \in DOMAIN todo /\ Head(todo) = todo[1]
        BY <4>1 DEF IInv, TypeOK
      <4> QED
        BY <3>1, <4>1, <4>2 DEF Bound
    <3> QED
      BY <3>2
  <2>4. CASE Crash
    <3>1. CASE UNCHANGED Files
      BY <3>1 DEF Files
    <3>2. CASE todo # <<>> /\ Apply(Head(todo), TRUE)
      BY <3>2, ApplyDisk, FileAssumption
    <3> QED
      BY <2>4, <3>1, <3>2 DEF Crash
  <2>5. CASE Restart
    BY <2>5 DEF Restart, Files
  <2>6. CASE UNCHANGED vars
    BY <2>6 DEF vars
  <2> QED
    BY <2>1, <2>2, <2>3, <2>4, <2>5, <2>6, NextCases
<1> QED
  BY <1>1, InvHolds, PTL DEF Spec, KeysKept

-----------------------------------------------------------------------------
(* A rejection sticks.                                                      *)

(* Operations that write no other status than this for no other role. *)
OpsOf(role, status) ==
  {o \in FileOps : o.op = "role" => o.role = role /\ o.data.acceptance = status}

LEMMA ClearOf ==
  ASSUME NEW q, NEW a, NEW n \in Names, NEW new \in Names
  PROVE  /\ <<>> \in Seq(OpsOf(q, a)) /\ <<ClearOp(n)>> \in Seq(OpsOf(q, a))
         /\ RenameOps(n, new) \in Seq(OpsOf(q, a))
<1>1. ClearOp(n) \in OpsOf(q, a)
  BY DEF ClearOp, OpsOf, FileOps
<1> QED
  BY <1>1 DEF RenameOps

LEMMA RecordOf ==
  ASSUME TypeOK, NEW n \in Names, NEW r \in RemoteRecords, r.role # None
  PROVE  /\ DumpRole(r) \in Seq(OpsOf(r.role, r.acceptance))
         /\ DumpRemote(n, r) \in Seq(OpsOf(r.role, r.acceptance))
         /\ CompleteOps(n, r) \in Seq(OpsOf(r.role, r.acceptance))
<1> DEFINE o == RoleOp(r.role, RoleData(r.acceptance, r.keys))
           d == [uid |-> r.uid, role |-> r.role, joined |-> r.joined = "yes"]
           p == [op |-> "remote", name |-> n, data |-> d]
           S == OpsOf(r.role, r.acceptance)
<1>1. o \in S
  <2>1. RoleData(r.acceptance, r.keys) \in RoleRecords /\ r.role \in Roles
    BY DEF RemoteRecords, RoleRecords, RoleData
  <2>2. o \in [op: {"role"}, role: Roles, data: RoleRecords]
    BY <2>1 DEF RoleOp
  <2> QED
    BY <2>2 DEF OpsOf, FileOps, RoleOp, RoleData
<1>2. p \in S
  <2>1. d \in FileRecords
    BY DEF RemoteRecords, FileRecords
  <2>2. p \in [op: {"remote"}, name: Names, data: FileRecords]
    BY <2>1
  <2> QED
    BY <2>2 DEF OpsOf, FileOps
<1>3. LocalOp(puid) \in S
  BY DEF LocalOp, OpsOf, FileOps, TypeOK
<1>4. DumpRole(r) = <<o>> /\ DumpRemote(n, r) = <<p>> \o <<o>>
  BY DEF DumpRole, DumpRemote
<1> HIDE DEF o, p, S
<1>5. DumpRole(r) \in Seq(S) /\ DumpRemote(n, r) \in Seq(S)
  BY <1>1, <1>2, <1>4
<1>6. CompleteOps(n, r) \in Seq(S)
  BY <1>3, <1>5 DEF CompleteOps
<1> QED
  BY <1>5, <1>6 DEF S

LEMMA StatusOf ==
  ASSUME TypeOK, NEW role \in Roles, NEW keys \in Keys \cup {None}, roleFile[role] # Torn,
         Status(role, keys) # "rejected"
  PROVE  DumpStatus(role, keys) \in Seq(OpsOf(role, Status(role, keys)))
<1> DEFINE data == RoleData(Status(role, keys), keys)
           o == RoleOp(role, data)
<1>1. DumpStatus(role, keys) \in {<<>>, <<o>>}
  <2>1. Persisted(auto, Stored(role), keys) = data
    BY PersistedStatus DEF Status
  <2> QED
    BY <2>1 DEF DumpStatus
<1>2. o \in OpsOf(role, Status(role, keys))
  <2>1. data \in RoleRecords
    BY StatusInTypes DEF RoleRecords, RoleData
  <2>2. o \in [op: {"role"}, role: Roles, data: RoleRecords]
    BY <2>1 DEF RoleOp
  <2> QED
    BY <2>2 DEF OpsOf, FileOps, RoleOp, RoleData
<1> DEFINE S == OpsOf(role, Status(role, keys))
<1> HIDE DEF o, S
<1>3. <<>> \in Seq(S) /\ <<o>> \in Seq(S)
  BY <1>2 DEF S
<1> QED
  BY <1>1, <1>3 DEF S

(* The role is rejected: on disk, and in memory by every remote that has it. *)
Rejected(r) ==
  /\ Idle /\ auto # "always"
  /\ roleFile[r] \in RoleRecords /\ roleFile[r].acceptance = "rejected"
  /\ \A n \in DOMAIN remotes : remotes[n].role = r => remotes[n].acceptance = "rejected"

LEMMA RejectedStatus ==
  ASSUME NEW r, Rejected(r), NEW keys
  PROVE  Status(r, keys) = "rejected"
<1>1. Stored(r) = roleFile[r]
  BY FileAssumption DEF Rejected, Stored
<1> QED
  BY <1>1, RejectedStays DEF Rejected, Status

(* What a handler writes spares the rejection. *)
Sparing(r) ==
  \E q \in Roles \cup {None}, a \in Statuses :
    todo' \in Seq(OpsOf(q, a)) /\ (q = r => a = "rejected")

LEMMA ClearsSpare ==
  ASSUME NEW r \in Roles, todo' \in Seq(OpsOf(None, "rejected"))
  PROVE  Sparing(r)
BY DEF Sparing, Statuses

(* So does one that writes what a remote has in memory. *)
LEMMA RecordSpares ==
  ASSUME IInv, NEW r \in Roles, Rejected(r), NEW n \in DOMAIN remotes, NEW m \in RemoteRecords,
         m.role = remotes[n].role, m.acceptance = remotes[n].acceptance,
         todo' \in Seq(OpsOf(m.role, m.acceptance))
  PROVE  Sparing(r)
BY DEF Sparing, Rejected, RemoteRecords

LEMMA JoinSpares ==
  ASSUME IInv, NEW r \in Roles, Rejected(r), NEW role \in Roles, NEW keys \in Keys \cup {None},
         roleFile[role] # Torn, Status(role, keys) # "rejected",
         todo' \in Seq(OpsOf(role, Status(role, keys)))
  PROVE  Sparing(r)
<1>1. role # r
  BY RejectedStatus
<1>2. Status(role, keys) \in Statuses
  BY StatusInTypes DEF IInv
<1> QED
  BY <1>1, <1>2 DEF Sparing

LEMMA IntroducedSpares ==
  ASSUME IInv, NEW r \in Roles, Rejected(r), NEW n \in Names, NEW new \in Names,
         NEW role \in Roles, NEW keys \in Keys, Introduced(n, new, role, keys)
  PROVE  Sparing(r)
<1> DEFINE status == Status(role, keys)
           m == [remotes[n] EXCEPT !.role = role, !.keys = keys, !.acceptance = status,
                                   !.joined = IF status = "accepted" THEN "yes" ELSE "no"]
           tail == IF status = "accepted" THEN CompleteOps(new, m) ELSE DumpRemote(new, m)
<1>1. /\ n \in DOMAIN remotes /\ roleFile[role] # Torn
      /\ todo' = IF status = "rejected" THEN RenameOps(n, new) \o <<ClearOp(new)>>
                 ELSE RenameOps(n, new) \o DumpStatus(role, keys) \o tail
  BY DEF Introduced, Handled
<1>2. CASE status = "rejected"
  <2>1. todo' \in Seq(OpsOf(None, "rejected"))
    BY <1>1, <1>2, ClearOf
  <2> QED
    BY <2>1, ClearsSpare
<1>3. CASE status # "rejected"
  <2> DEFINE S == OpsOf(role, status)
  <2>1. m \in RemoteRecords /\ m.role = role /\ m.acceptance = status /\ m.role # None
    <3>1. remotes[n] \in RemoteRecords /\ status \in Statuses
      BY <1>1, StatusInTypes DEF IInv, TypeOK
    <3> QED
      BY <3>1, ConstantsAssumption DEF RemoteRecords
  <2> HIDE DEF m
  <2>2. tail \in Seq(S)
    BY <2>1, RecordOf DEF IInv
  <2>3. DumpStatus(role, keys) \in Seq(S) /\ RenameOps(n, new) \in Seq(S)
    BY <1>1, <1>3, StatusOf, ClearOf DEF IInv
  <2> HIDE DEF tail, S
  <2>4. RenameOps(n, new) \o DumpStatus(role, keys) \o tail \in Seq(S)
    BY <2>2, <2>3
  <2> QED
    BY <1>1, <1>3, <2>4, JoinSpares DEF S
<1> QED
  BY <1>2, <1>3

LEMMA AskedSpares ==
  ASSUME IInv, NEW r \in Roles, Rejected(r), NEW new \in Names, NEW role \in Roles,
         NEW keys \in Keys, Asked(new, role, keys)
  PROVE  Sparing(r)
<1> DEFINE status == Status(role, keys)
           m == [uid |-> NextUid, role |-> role, keys |-> keys, acceptance |-> status,
                 joined |-> IF status = "accepted" THEN "answered" ELSE "no"]
           tail == IF status = "accepted" THEN <<>> ELSE DumpRemote(new, m)
<1>1. /\ new \notin DOMAIN remotes /\ roleFile[role] # Torn
      /\ todo' = IF status = "rejected" THEN <<>> ELSE DumpStatus(role, keys) \o tail
  BY DEF Asked, Handled
<1>2. CASE status = "rejected"
  <2>1. todo' \in Seq(OpsOf(None, "rejected"))
    BY <1>1, <1>2, ClearOf
  <2> QED
    BY <2>1, ClearsSpare
<1>3. CASE status # "rejected"
  <2> DEFINE S == OpsOf(role, status)
  <2>1. m \in RemoteRecords /\ m.role = role /\ m.acceptance = status /\ m.role # None
    <3>1. NextUid \in Uids /\ status \in Statuses
      BY <1>1, NextUidFree, StatusInTypes DEF IInv
    <3> QED
      BY <3>1, ConstantsAssumption DEF RemoteRecords
  <2> HIDE DEF m
  <2>2. DumpStatus(role, keys) \in Seq(S) /\ <<>> \in Seq(S)
    BY <1>1, <1>3, StatusOf DEF IInv
  <2>3. tail \in Seq(S)
    BY <2>1, <2>2, RecordOf DEF IInv
  <2> HIDE DEF tail, S
  <2>4. DumpStatus(role, keys) \o tail \in Seq(S)
    BY <2>2, <2>3
  <2> QED
    BY <1>1, <1>3, <2>4, JoinSpares DEF S
<1> QED
  BY <1>2, <1>3

LEMMA RedoPendedSpares ==
  ASSUME IInv, NEW r \in Roles, Rejected(r), NEW n \in Names, NEW joiner \in BOOLEAN,
         RedoPended(n, joiner)
  PROVE  Sparing(r)
<1> DEFINE role == remotes[n].role
           keys == remotes[n].keys
           status == Status(role, keys)
           m == [remotes[n] EXCEPT !.acceptance = status,
                                   !.joined = IF status # "accepted" THEN "no"
                                              ELSE IF joiner THEN "yes" ELSE "answered"]
           tail == IF joiner /\ status = "accepted" THEN CompleteOps(n, m) ELSE <<>>
<1>1. /\ n \in DOMAIN remotes /\ role # None /\ roleFile[role] # Torn
      /\ todo' = IF status = "rejected" THEN <<ClearOp(n)>> ELSE DumpStatus(role, keys) \o tail
  BY DEF RedoPended, Handled
<1>2. remotes[n] \in RemoteRecords /\ role \in Roles /\ keys \in Keys \cup {None}
  BY <1>1 DEF IInv, TypeOK, RemoteRecords
<1>3. CASE status = "rejected"
  <2>1. todo' \in Seq(OpsOf(None, "rejected"))
    BY <1>1, <1>3, ClearOf
  <2> QED
    BY <2>1, ClearsSpare
<1>4. CASE status # "rejected"
  <2> DEFINE S == OpsOf(role, status)
  <2>1. m \in RemoteRecords /\ m.role = role /\ m.acceptance = status /\ m.role # None
    <3>1. status \in Statuses
      BY <1>1, <1>2, StatusInTypes DEF IInv
    <3> QED
      BY <1>1, <1>2, <3>1 DEF RemoteRecords
  <2> HIDE DEF m
  <2>2. DumpStatus(role, keys) \in Seq(S) /\ <<>> \in Seq(S)
    BY <1>1, <1>2, <1>4, StatusOf DEF IInv
  <2>3. tail \in Seq(S)
    BY <2>1, <2>2, RecordOf DEF IInv
  <2> HIDE DEF tail, S
  <2>4. DumpStatus(role, keys) \o tail \in Seq(S)
    BY <2>2, <2>3
  <2> QED
    BY <1>1, <1>2, <1>4, <2>4, JoinSpares DEF S
<1> QED
  BY <1>3, <1>4

LEMMA RejoinedSpares ==
  ASSUME IInv, NEW r \in Roles, Rejected(r), NEW n \in Names, NEW new \in Names,
         NEW role \in Roles, NEW keys \in Keys, NEW joiner \in BOOLEAN,
         Rejoined(n, new, role, keys, joiner)
  PROVE  Sparing(r)
<1> DEFINE status == Status(role, keys)
           met == [remotes[n] EXCEPT !.acceptance = status]
           m == [met EXCEPT !.role = role, !.keys = keys,
                            !.joined = IF status # "accepted" THEN "no"
                                       ELSE IF joiner THEN "yes" ELSE "answered"]
           dump == DumpStatus(role, keys)
           tail == CASE status # "accepted" -> DumpRemote(new, m)
                     [] joiner /\ status = "accepted" -> CompleteOps(new, m)
                     [] OTHER -> <<>>
<1>1. /\ n \in DOMAIN remotes /\ roleFile[role] # Torn
      /\ \/ todo' = <<ClearOp(n)>> \/ todo' = <<>>
         \/ status # "rejected" /\ todo' = dump
         \/ status # "rejected" /\ todo' = dump \o RenameOps(n, new) \o tail
  BY DEF Rejoined, Handled
<1>2. CASE todo' = <<ClearOp(n)>> \/ todo' = <<>>
  <2>1. todo' \in Seq(OpsOf(None, "rejected"))
    BY <1>2, ClearOf
  <2> QED
    BY <2>1, ClearsSpare
<1>3. ASSUME status # "rejected" PROVE dump \in Seq(OpsOf(role, status))
  BY <1>1, <1>3, StatusOf DEF IInv
<1>4. CASE status # "rejected" /\ todo' = dump
  BY <1>1, <1>3, <1>4, JoinSpares
<1>5. CASE status # "rejected" /\ todo' = dump \o RenameOps(n, new) \o tail
  <2> DEFINE S == OpsOf(role, status)
  <2>1. m \in RemoteRecords /\ m.role = role /\ m.acceptance = status /\ m.role # None
    <3>1. remotes[n] \in RemoteRecords /\ status \in Statuses
      BY <1>1, StatusInTypes DEF IInv, TypeOK
    <3> QED
      BY <3>1, ConstantsAssumption DEF RemoteRecords
  <2> HIDE DEF m
  <2>2. RenameOps(n, new) \in Seq(S) /\ <<>> \in Seq(S)
    BY ClearOf
  <2>3. DumpRemote(new, m) \in Seq(S) /\ CompleteOps(new, m) \in Seq(S)
    BY <2>1, RecordOf DEF IInv
  <2>4. tail \in {DumpRemote(new, m), CompleteOps(new, m), <<>>}
    OBVIOUS
  <2>5. dump \in Seq(S)
    BY <1>3, <1>5
  <2> HIDE DEF tail, S, dump
  <2>6. tail \in Seq(S)
    BY <2>2, <2>3, <2>4
  <2>7. dump \o RenameOps(n, new) \o tail \in Seq(S)
    BY <2>2, <2>5, <2>6
  <2> QED
    BY <1>1, <1>5, <2>7, JoinSpares DEF S
<1> QED
  BY <1>1, <1>2, <1>4, <1>5

LEMMA HandlerSpares ==
  ASSUME IInv, NEW r \in Roles, Rejected(r), NEW n \in Names, HandlerOf(n),
         ~\E m \in Names, s \in Statuses : SetAcceptance(m, s)
  PROVE  Sparing(r)
<1>1. CASE CreateRemote(n)
  <2>1. todo' = <<>>
    BY <1>1 DEF CreateRemote, Handled
  <2> QED
    BY <2>1, ClearOf, ClearsSpare
<1>2. CASE RemoveRemote(n)
  <2>1. todo' = <<ClearOp(n)>>
    BY <1>2 DEF RemoveRemote, Handled
  <2> QED
    BY <2>1, ClearOf, ClearsSpare
<1>3. CASE Complete(n)
  <2> DEFINE m == [remotes[n] EXCEPT !.joined = "yes"]
  <2>1. n \in DOMAIN remotes /\ remotes[n].joined = "answered" /\ todo' = CompleteOps(n, m)
    BY <1>3 DEF Complete, Handled
  <2>2. remotes[n] \in RemoteRecords /\ remotes[n].role # None
    BY <2>1 DEF IInv, TypeOK, MemoryInv
  <2>3. m \in RemoteRecords /\ m.role = remotes[n].role /\ m.acceptance = remotes[n].acceptance
    BY <2>2 DEF RemoteRecords
  <2> HIDE DEF m
  <2>4. todo' \in Seq(OpsOf(m.role, m.acceptance))
    BY <2>1, <2>2, <2>3, RecordOf DEF IInv
  <2> QED
    BY <2>1, <2>3, <2>4, RecordSpares
<1>4. ASSUME NEW b \in BOOLEAN, StartJoin(n, b) PROVE Sparing(r)
  <2> DEFINE m == [remotes[n] EXCEPT !.joined = "no"]
  <2>1. /\ n \in DOMAIN remotes /\ (b => m.role # None)
        /\ todo' = IF b THEN DumpRemote(n, m) ELSE <<>>
    BY <1>4 DEF StartJoin, Handled
  <2>2. remotes[n] \in RemoteRecords
    BY <2>1 DEF IInv, TypeOK
  <2>3. m \in RemoteRecords /\ m.role = remotes[n].role /\ m.acceptance = remotes[n].acceptance
    BY <2>2 DEF RemoteRecords
  <2> HIDE DEF m
  <2>4. todo' \in Seq(OpsOf(m.role, m.acceptance))
    BY <2>1, <2>3, RecordOf, ClearOf DEF IInv
  <2> QED
    BY <2>1, <2>3, <2>4, RecordSpares
<1>5. ASSUME NEW b \in BOOLEAN, RedoPended(n, b) PROVE Sparing(r)
  BY <1>5, RedoPendedSpares
<1>6. ASSUME NEW q \in Roles, NEW k \in Keys, Asked(n, q, k) PROVE Sparing(r)
  BY <1>6, AskedSpares
<1>7. ASSUME NEW q \in Roles, NEW k \in Keys, NEW new \in Names, Introduced(n, new, q, k) PROVE Sparing(r)
  BY <1>7, IntroducedSpares
<1>8. ASSUME NEW q \in Roles, NEW k \in Keys, NEW new \in Names, NEW b \in BOOLEAN, Rejoined(n, new, q, k, b)
      PROVE  Sparing(r)
  BY <1>8, RejoinedSpares
<1> QED
  BY <1>1, <1>2, <1>3, <1>4, <1>5, <1>6, <1>7, <1>8 DEF HandlerOf

(* While a role is rejected on disk and by its remotes, no handler but the
   outside entity's writes another status for it, with whatever keys it is
   presented and whichever of its remotes joins. *)
THEOREM RejectionTheorem == Spec => RejectionSticks
<1>1. IInv /\ [Next]_vars =>
        [\A r \in Roles :
           /\ Idle /\ auto # "always"
           /\ roleFile[r] \in RoleRecords /\ roleFile[r].acceptance = "rejected"
           /\ \A n \in DOMAIN remotes : remotes[n].role = r => remotes[n].acceptance = "rejected"
           /\ ~\E n \in Names, s \in Statuses : SetAcceptance(n, s)
           => \A i \in DOMAIN todo' :
                todo'[i].op = "role" /\ todo'[i].role = r => todo'[i].data.acceptance = "rejected"]_vars
  <2> SUFFICES ASSUME IInv, [Next]_vars, NEW r \in Roles, Rejected(r),
                      ~\E n \in Names, s \in Statuses : SetAcceptance(n, s)
               PROVE  \A i \in DOMAIN todo' :
                        todo'[i].op = "role" /\ todo'[i].role = r => todo'[i].data.acceptance = "rejected"
    BY DEF Rejected
  <2>1. ASSUME NEW n \in Names, HandlerOf(n)
        PROVE  \A i \in DOMAIN todo' :
                 todo'[i].op = "role" /\ todo'[i].role = r => todo'[i].data.acceptance = "rejected"
    <3>1. Sparing(r)
      BY <2>1, HandlerSpares
    <3>2. PICK q \in Roles \cup {None}, a \in Statuses :
            todo' \in Seq(OpsOf(q, a)) /\ (q = r => a = "rejected")
      BY <3>1 DEF Sparing
    <3>3. \A i \in DOMAIN todo' : todo'[i] \in OpsOf(q, a)
      BY <3>2
    <3> QED
      BY <3>2, <3>3 DEF OpsOf
  <2>2. Idle
    BY DEF Rejected
  <2>3. CASE Crash \/ FileStep \/ Restart \/ UNCHANGED vars \/ \E q \in Roles : RaiseStatus(q)
    <3>1. todo' = <<>>
      BY <2>2, <2>3 DEF Crash, FileStep, Restart, RaiseStatus, Idle, vars
    <3> QED
      BY <3>1
  <2> QED
    BY <2>1, <2>3, NextCases
<1> QED
  BY <1>1, InvHolds, PTL DEF Spec, RejectionSticks

-----------------------------------------------------------------------------
(* The files of the remotes.                                                *)

(* The names a sequence of operations clears, and those it writes. *)
Cleared(s) == {n \in Names : \E i \in DOMAIN s : s[i].op = "clear" /\ s[i].name = n}
Written(s) == {n \in Names : \E i \in DOMAIN s : s[i].op = "remote" /\ s[i].name = n}

(* What is written of a remote. *)
Want(r) == [uid |-> r.uid, role |-> r.role, joined |-> r.joined = "yes"]

ClearsFirst(s) ==
  \A i, j \in DOMAIN s : s[i].op = "clear" /\ s[j].op = "remote" => i < j

(* While the stack runs, a file is of the remote of its name or is about to be
   cleared, before any is written, and a joined remote has its file or is about
   to get it. *)
UpInv ==
  /\ \A n \in Names : remoteFile[n] # Torn
  /\ \A n \in DOMAIN remotes :
       /\ remotes[n].uid # LocalUid
       /\ \A m \in DOMAIN remotes : remotes[n].uid = remotes[m].uid => n = m
  /\ \A n \in Found :
       n \in Cleared(todo) \/ (n \in DOMAIN remotes /\ remoteFile[n].uid = remotes[n].uid)
  /\ \A i \in DOMAIN todo :
       todo[i].op = "remote" =>
         todo[i].name \in DOMAIN remotes /\ todo[i].data = Want(remotes[todo[i].name])
  /\ ClearsFirst(todo)
  /\ \A n \in DOMAIN remotes :
       remotes[n].joined = "yes" =>
         \/ n \in Written(todo)
         \/ remoteFile[n] = Want(remotes[n]) /\ n \notin Cleared(todo)

(* No two files have the same uid, at any time. *)
DistinctInv ==
  \A n, m \in Names :
    remoteFile[n] \in FileRecords =>
      /\ remoteFile[n].uid # LocalUid
      /\ remoteFile[m] \in FileRecords /\ remoteFile[n].uid = remoteFile[m].uid => n = m

FilesInv == DistinctInv /\ (life = "up" => UpInv) /\ RaisedOnlyIfTorn

(* Operations that may come before the records of a join, and a join's own. *)
Earlier(C) == {o \in FileOps : o.op # "remote" /\ (o.op = "clear" => o.name \in C)}
Record(m, r) ==
  {o \in FileOps : o.op # "clear" /\ (o.op = "remote" => o.name = m /\ o.data = Want(r))}

LEMMA Parts ==
  ASSUME NEW C, NEW m, NEW r, NEW s \in Seq(Earlier(C)), NEW t \in Seq(Record(m, r))
  PROVE  /\ ClearsFirst(s \o t) /\ Cleared(s \o t) = Cleared(s) /\ Cleared(s) \subseteq C
         /\ Written(s \o t) = Written(t)
         /\ \A i \in DOMAIN (s \o t) :
              (s \o t)[i].op = "remote" => (s \o t)[i].name = m /\ (s \o t)[i].data = Want(r)
<1> DEFINE u == s \o t
<1>1. /\ Len(s) \in Nat /\ Len(t) \in Nat /\ DOMAIN s = 1 .. Len(s) /\ DOMAIN t = 1 .. Len(t)
      /\ DOMAIN u = 1 .. Len(s) + Len(t)
      /\ \A i \in 1 .. Len(s) + Len(t) : u[i] = IF i <= Len(s) THEN s[i] ELSE t[i - Len(s)]
  BY LenProperties, ConcatProperties
<1>2. /\ \A i \in DOMAIN s : s[i].op # "remote" /\ (s[i].op = "clear" => s[i].name \in C)
      /\ \A i \in DOMAIN t :
           t[i].op # "clear" /\ (t[i].op = "remote" => t[i].name = m /\ t[i].data = Want(r))
  <2>1. \A i \in DOMAIN s : s[i] \in Earlier(C)
    OBVIOUS
  <2>2. \A i \in DOMAIN t : t[i] \in Record(m, r)
    OBVIOUS
  <2> QED
    BY <2>1, <2>2 DEF Earlier, Record
<1> HIDE DEF u
<1>3. /\ \A i \in DOMAIN u :
           \/ i \in DOMAIN s /\ u[i] = s[i] /\ i <= Len(s)
           \/ i > Len(s) /\ i - Len(s) \in DOMAIN t /\ u[i] = t[i - Len(s)]
      /\ \A i \in DOMAIN s : i \in DOMAIN u /\ u[i] = s[i]
      /\ \A i \in DOMAIN t : i + Len(s) \in DOMAIN u /\ u[i + Len(s)] = t[i]
  BY <1>1
<1>4. ClearsFirst(u)
  <2> SUFFICES ASSUME NEW i \in DOMAIN u, NEW j \in DOMAIN u, u[i].op = "clear", u[j].op = "remote"
               PROVE  i < j
    BY DEF ClearsFirst
  <2>1. i \in DOMAIN s /\ i <= Len(s)
    BY <1>2, <1>3
  <2>2. j > Len(s)
    BY <1>2, <1>3
  <2> QED
    BY <1>1, <2>1, <2>2
<1>5. Cleared(u) = Cleared(s)
  <2>1. ASSUME NEW n \in Cleared(u) PROVE n \in Cleared(s)
    BY <1>2, <1>3 DEF Cleared
  <2>2. ASSUME NEW n \in Cleared(s) PROVE n \in Cleared(u)
    BY <1>3 DEF Cleared
  <2> QED
    BY <2>1, <2>2
<1>6. Cleared(s) \subseteq C
  BY <1>2 DEF Cleared
<1>7. Written(u) = Written(t)
  <2>1. ASSUME NEW n \in Written(u) PROVE n \in Written(t)
    BY <1>2, <1>3 DEF Written
  <2>2. ASSUME NEW n \in Written(t) PROVE n \in Written(u)
    <3>1. PICK i \in DOMAIN t : t[i].op = "remote" /\ t[i].name = n
      BY DEF Written
    <3>2. i + Len(s) \in DOMAIN u /\ u[i + Len(s)].op = "remote" /\ u[i + Len(s)].name = n
      BY <1>3, <3>1
    <3> DEFINE k == i + Len(s)
    <3>3. k \in DOMAIN u /\ u[k].op = "remote" /\ u[k].name = n
      BY <3>2
    <3> HIDE DEF k
    <3> QED
      BY <3>3 DEF Written
  <2> QED
    BY <2>1, <2>2
<1>8. \A i \in DOMAIN u : u[i].op = "remote" => u[i].name = m /\ u[i].data = Want(r)
  BY <1>2, <1>3
<1> QED
  BY <1>4, <1>5, <1>6, <1>7, <1>8 DEF u

LEMMA HandledFiles ==
  ASSUME NEW rem, NEW ops, Handled(rem, ops)
  PROVE  /\ Idle /\ life = "up" /\ life' = "up" /\ todo = <<>> /\ remotes' = rem /\ todo' = ops
         /\ remoteFile' = remoteFile /\ roleFile' = roleFile
         /\ Cleared(todo) = {} /\ Written(todo) = {}
BY DEF Handled, Idle, Files, Cleared, Written

(* A handler moves a remote, or adds one, and leaves the others alone. *)
LEMMA MovedFiles ==
  ASSUME IInv, FilesInv, NEW n \in Names, NEW m \in Names, NEW r \in RemoteRecords, NEW rem,
         NEW s \in Seq(Earlier({n} \ {m})), NEW t \in Seq(Record(m, r)),
         Handled(rem, s \o t),
         DOMAIN rem = (DOMAIN remotes \ {n}) \cup {m}, m \notin DOMAIN remotes \ {n},
         rem[m] = r, \A x \in DOMAIN remotes \ {n} : rem[x] = remotes[x],
         \/ n \in DOMAIN remotes /\ r.uid = remotes[n].uid
         \/ n = m /\ n \notin DOMAIN remotes /\ r.uid \notin Used,
         n # m => n \in Cleared(s),
         r.joined = "yes" =>
           \/ m \in Written(t)
           \/ n = m /\ n \in DOMAIN remotes /\ remotes[n].joined = "yes" /\ Want(r) = Want(remotes[n])
  PROVE  FilesInv'
<1>1. /\ life = "up" /\ life' = "up" /\ todo = <<>> /\ remotes' = rem /\ todo' = s \o t
      /\ remoteFile' = remoteFile /\ roleFile' = roleFile
      /\ Cleared(todo) = {} /\ Written(todo) = {}
  BY HandledFiles
<1>2. /\ ClearsFirst(todo') /\ Cleared(todo') = Cleared(s) /\ Cleared(s) \subseteq {n} \ {m}
      /\ Written(todo') = Written(t)
      /\ \A i \in DOMAIN todo' :
           todo'[i].op = "remote" => todo'[i].name = m /\ todo'[i].data = Want(r)
  BY <1>1, Parts
<1>3. UpInv
  BY <1>1 DEF FilesInv
<1>4. DistinctInv' /\ RaisedOnlyIfTorn'
  BY <1>1 DEF FilesInv, DistinctInv, RaisedOnlyIfTorn
<1>5. /\ r.uid # LocalUid
      /\ \A x \in DOMAIN remotes \ {n} : remotes[x].uid # LocalUid /\ remotes[x].uid # r.uid
  BY <1>3 DEF UpInv, Used
<1>6. ASSUME NEW x \in DOMAIN rem
      PROVE  /\ rem[x].uid # LocalUid
             /\ \A y \in DOMAIN rem : rem[x].uid = rem[y].uid => x = y
  BY <1>3, <1>5 DEF UpInv
<1>7. ASSUME NEW x \in Found
      PROVE  x \in Cleared(s) \/ (x \in DOMAIN rem /\ remoteFile[x].uid = rem[x].uid)
  <2>1. x \in DOMAIN remotes /\ remoteFile[x].uid = remotes[x].uid
    BY <1>1, <1>3 DEF UpInv
  <2>2. CASE x = n
    BY <2>1, <2>2
  <2>3. CASE x # n
    BY <2>1, <2>3
  <2> QED
    BY <2>2, <2>3
<1>8. ASSUME NEW x \in DOMAIN rem, rem[x].joined = "yes"
      PROVE  x \in Written(t) \/ (remoteFile[x] = Want(rem[x]) /\ x \notin Cleared(s))
  <2>1. CASE x \in DOMAIN remotes \ {n}
    BY <1>1, <1>2, <1>3, <1>8, <2>1 DEF UpInv
  <2>2. CASE x = m
    BY <1>1, <1>2, <1>3, <1>8, <2>2 DEF UpInv
  <2> QED
    BY <2>1, <2>2
<1>9. UpInv'
  <2>1. Found' = Found
    BY <1>1 DEF Found
  <2>2. \A x \in Names : remoteFile'[x] # Torn
    BY <1>1, <1>3 DEF UpInv
  <2>3. \A i \in DOMAIN todo' :
          todo'[i].op = "remote" =>
            todo'[i].name \in DOMAIN remotes' /\ todo'[i].data = Want(remotes'[todo'[i].name])
    BY <1>1, <1>2
  <2>4. \A x \in Found' :
          x \in Cleared(todo') \/ (x \in DOMAIN remotes' /\ remoteFile'[x].uid = remotes'[x].uid)
    BY <1>1, <1>2, <1>7, <2>1
  <2>5. \A x \in DOMAIN remotes' :
          remotes'[x].joined = "yes" =>
            \/ x \in Written(todo')
            \/ remoteFile'[x] = Want(remotes'[x]) /\ x \notin Cleared(todo')
    BY <1>1, <1>2, <1>8
  <2>6. \A x \in DOMAIN remotes' :
          /\ remotes'[x].uid # LocalUid
          /\ \A y \in DOMAIN remotes' : remotes'[x].uid = remotes'[y].uid => x = y
    BY <1>1, <1>6
  <2> QED
    BY <1>2, <2>2, <2>3, <2>4, <2>5, <2>6 DEF UpInv
<1> QED
  BY <1>4, <1>9 DEF FilesInv

(* Or removes it. *)
LEMMA RemovedFiles ==
  ASSUME IInv, FilesInv, NEW n \in Names, NEW C, NEW s \in Seq(Earlier(C)),
         Handled(Drop(remotes, n), s), n \in Cleared(s), C \cap (DOMAIN remotes \ {n}) = {}
  PROVE  FilesInv'
<1> DEFINE rem == Drop(remotes, n)
<1>1. /\ life = "up" /\ life' = "up" /\ todo = <<>> /\ remotes' = rem /\ todo' = s
      /\ remoteFile' = remoteFile /\ roleFile' = roleFile
      /\ Cleared(todo) = {} /\ Written(todo) = {}
  BY HandledFiles
<1>2. DOMAIN rem = DOMAIN remotes \ {n} /\ \A x \in DOMAIN remotes \ {n} : rem[x] = remotes[x]
  BY DEF Drop
<1> HIDE DEF rem
<1>3. \A i \in DOMAIN s : s[i].op # "remote" /\ (s[i].op = "clear" => s[i].name \in C)
  <2>1. \A i \in DOMAIN s : s[i] \in Earlier(C)
    OBVIOUS
  <2> QED
    BY <2>1 DEF Earlier
<1>4. UpInv
  BY <1>1 DEF FilesInv
<1>5. DistinctInv' /\ RaisedOnlyIfTorn'
  BY <1>1 DEF FilesInv, DistinctInv, RaisedOnlyIfTorn
<1>6. Cleared(todo') \subseteq C /\ n \in Cleared(todo') /\ ClearsFirst(todo')
  BY <1>1, <1>3 DEF Cleared, ClearsFirst
<1>7. Found' = Found
  BY <1>1 DEF Found
<1>8. \A x \in Found : x \in DOMAIN remotes /\ remoteFile[x].uid = remotes[x].uid
  BY <1>1, <1>4 DEF UpInv
<1>9. \A x \in DOMAIN remotes : remotes[x].joined = "yes" => remoteFile[x] = Want(remotes[x])
  BY <1>1, <1>4 DEF UpInv
<1>10. \A x \in DOMAIN remotes' : remotes'[x] = remotes[x] /\ x \in DOMAIN remotes \ {n}
  BY <1>1, <1>2
<1>11. UpInv'
  <2>1. \A x \in Names : remoteFile'[x] # Torn
    BY <1>1, <1>4 DEF UpInv
  <2>2. \A x \in DOMAIN remotes' :
          /\ remotes'[x].uid # LocalUid
          /\ \A y \in DOMAIN remotes' : remotes'[x].uid = remotes'[y].uid => x = y
    BY <1>4, <1>10 DEF UpInv
  <2>3. \A x \in Found' :
          x \in Cleared(todo') \/ (x \in DOMAIN remotes' /\ remoteFile'[x].uid = remotes'[x].uid)
    BY <1>1, <1>2, <1>6, <1>7, <1>8
  <2>4. \A i \in DOMAIN todo' : todo'[i].op # "remote"
    BY <1>1, <1>3
  <2>5. \A x \in DOMAIN remotes' :
          remotes'[x].joined = "yes" =>
            remoteFile'[x] = Want(remotes'[x]) /\ x \notin Cleared(todo')
    BY <1>1, <1>6, <1>9, <1>10
  <2> QED
    BY <1>6, <2>1, <2>2, <2>3, <2>4, <2>5 DEF UpInv
<1> QED
  BY <1>5, <1>11 DEF FilesInv

(* Or does nothing. *)
LEMMA LeftFiles ==
  ASSUME IInv, FilesInv, Handled(remotes, <<>>)
  PROVE  FilesInv'
<1>1. /\ life' = life /\ todo' = todo /\ remotes' = remotes
      /\ remoteFile' = remoteFile /\ roleFile' = roleFile
  BY HandledFiles
<1> QED
  BY <1>1 DEF FilesInv, UpInv, DistinctInv, RaisedOnlyIfTorn, TornFile, ClearsFirst, Cleared,
              Written, Found

(* The operations of the handlers are such. *)
LEMMA EarlierOps ==
  ASSUME NEW C, NEW n \in Names, NEW new
  PROVE  /\ n \in C => <<ClearOp(n)>> \in Seq(Earlier(C)) /\ n \in Cleared(<<ClearOp(n)>>)
         /\ RenameOps(n, new) \in Seq(Earlier({n} \ {new}))
         /\ n # new => n \in Cleared(RenameOps(n, new))
<1> DEFINE o == ClearOp(n)
<1>1. o \in FileOps /\ o.op = "clear" /\ o.name = n
  BY DEF ClearOp, FileOps
<1> HIDE DEF o
<1>2. \A D : n \in D => o \in Earlier(D)
  BY <1>1 DEF Earlier
<1>3. DOMAIN <<o>> = 1 .. 1 /\ <<o>>[1] = o
  OBVIOUS
<1>4. n \in Cleared(<<o>>)
  <2> DEFINE s == <<o>>
  <2>1. 1 \in DOMAIN s /\ s[1].op = "clear" /\ s[1].name = n
    BY <1>1, <1>3
  <2> HIDE DEF s
  <2>2. n \in Cleared(s)
    BY <2>1 DEF Cleared
  <2> QED
    BY <2>2 DEF s
<1>5. n \in C => <<o>> \in Seq(Earlier(C))
  BY <1>2
<1>6. RenameOps(n, new) = IF new = n THEN <<>> ELSE <<o>>
  BY DEF RenameOps, o
<1>7. n # new => <<o>> \in Seq(Earlier({n} \ {new}))
  BY <1>2
<1>8. <<>> \in Seq(Earlier({n} \ {new}))
  OBVIOUS
<1>9. RenameOps(n, new) \in Seq(Earlier({n} \ {new}))
  BY <1>6, <1>7, <1>8
<1>10. n # new => n \in Cleared(RenameOps(n, new))
  BY <1>4, <1>6
<1> QED
  BY <1>4, <1>5, <1>9, <1>10 DEF o

LEMMA StatusEarlier ==
  ASSUME TypeOK, NEW role \in Roles, NEW keys \in Keys \cup {None}, roleFile[role] # Torn,
         Status(role, keys) # "rejected", NEW C
  PROVE  DumpStatus(role, keys) \in Seq(Earlier(C))
<1> DEFINE data == RoleData(Status(role, keys), keys)
           o == RoleOp(role, data)
<1>1. DumpStatus(role, keys) \in {<<>>, <<o>>}
  <2>1. Persisted(auto, Stored(role), keys) = data
    BY PersistedStatus DEF Status
  <2> QED
    BY <2>1 DEF DumpStatus
<1>2. o \in Earlier(C)
  <2>1. data \in RoleRecords
    BY StatusInTypes DEF RoleRecords, RoleData
  <2>2. o \in [op: {"role"}, role: Roles, data: RoleRecords]
    BY <2>1 DEF RoleOp
  <2> QED
    BY <2>2 DEF Earlier, FileOps, RoleOp
<1> HIDE DEF o
<1>3. <<>> \in Seq(Earlier(C)) /\ <<o>> \in Seq(Earlier(C))
  BY <1>2
<1> QED
  BY <1>1, <1>3

LEMMA RecordsOf ==
  ASSUME TypeOK, NEW n \in Names, NEW r \in RemoteRecords, r.role # None
  PROVE  /\ DumpRole(r) \in Seq(Record(n, r))
         /\ DumpRemote(n, r) \in Seq(Record(n, r)) /\ n \in Written(DumpRemote(n, r))
         /\ CompleteOps(n, r) \in Seq(Record(n, r)) /\ n \in Written(CompleteOps(n, r))
<1> DEFINE o == RoleOp(r.role, RoleData(r.acceptance, r.keys))
           d == [uid |-> r.uid, role |-> r.role, joined |-> r.joined = "yes"]
           p == [op |-> "remote", name |-> n, data |-> d]
           l == LocalOp(puid)
           S == Record(n, r)
<1>1. o \in S
  <2>1. RoleData(r.acceptance, r.keys) \in RoleRecords /\ r.role \in Roles
    BY DEF RemoteRecords, RoleRecords, RoleData
  <2>2. o \in [op: {"role"}, role: Roles, data: RoleRecords]
    BY <2>1 DEF RoleOp
  <2> QED
    BY <2>2 DEF Record, FileOps, RoleOp
<1>2. p \in S /\ p.op = "remote" /\ p.name = n
  <2>1. d \in FileRecords /\ d = Want(r)
    BY DEF RemoteRecords, FileRecords, Want
  <2> HIDE DEF d
  <2>2. p \in [op: {"remote"}, name: Names, data: FileRecords]
    BY <2>1
  <2> QED
    BY <2>1, <2>2 DEF Record, FileOps
<1>3. l \in S
  BY DEF LocalOp, Record, FileOps, TypeOK
<1>4. DumpRole(r) = <<o>> /\ DumpRemote(n, r) = <<p>> \o <<o>>
      /\ CompleteOps(n, r) = (<<p>> \o <<o>>) \o <<l>>
  BY DEF DumpRole, DumpRemote, CompleteOps
<1> HIDE DEF d, o, p, l, S
<1>5. DumpRole(r) \in Seq(S) /\ DumpRemote(n, r) \in Seq(S) /\ CompleteOps(n, r) \in Seq(S)
  BY <1>1, <1>2, <1>3, <1>4
<1>6. ASSUME NEW s, s = <<p>> \o <<o>> \/ s = (<<p>> \o <<o>>) \o <<l>>
      PROVE  n \in Written(s)
  <2>1. /\ <<p>> \in Seq(S) /\ <<o>> \in Seq(S) /\ <<l>> \in Seq(S)
        /\ Len(<<p>>) = 1 /\ Len(<<o>>) = 1 /\ Len(<<l>>) = 1 /\ <<p>>[1] = p
    BY <1>1, <1>2, <1>3
  <2> DEFINE w == <<p>> \o <<o>>
  <2>2. w \in Seq(S) /\ Len(w) = 2 /\ w[1] = p
    BY <2>1
  <2> HIDE DEF w
  <2>3. /\ 1 \in DOMAIN w
        /\ 1 \in DOMAIN (w \o <<l>>) /\ (w \o <<l>>)[1] = p
    BY <2>1, <2>2
  <2>4. s = w \/ s = w \o <<l>>
    BY <1>6 DEF w
  <2>5. 1 \in DOMAIN s /\ s[1] = p
    BY <2>2, <2>3, <2>4
  <2> QED
    BY <1>2, <2>5 DEF Written
<1> QED
  BY <1>4, <1>5, <1>6 DEF S

LEMMA ClearedBoth ==
  ASSUME NEW S, NEW s \in Seq(S), NEW t \in Seq(S)
  PROVE  s \o t \in Seq(S) /\ Cleared(s) \cup Cleared(t) \subseteq Cleared(s \o t)
<1> DEFINE u == s \o t
<1>1. /\ \A i \in DOMAIN s : i \in DOMAIN u /\ u[i] = s[i]
      /\ \A i \in DOMAIN t : i + Len(s) \in DOMAIN u /\ u[i + Len(s)] = t[i]
      /\ u \in Seq(S)
  OBVIOUS
<1> HIDE DEF u
<1>2. ASSUME NEW n \in Cleared(s) PROVE n \in Cleared(u)
  BY <1>1 DEF Cleared
<1>3. ASSUME NEW n \in Cleared(t) PROVE n \in Cleared(u)
  <2>1. PICK i \in DOMAIN t : t[i].op = "clear" /\ t[i].name = n
    BY <1>3 DEF Cleared
  <2> DEFINE k == i + Len(s)
  <2>2. k \in DOMAIN u /\ u[k].op = "clear" /\ u[k].name = n
    BY <1>1, <2>1
  <2> HIDE DEF k
  <2> QED
    BY <1>3, <2>2 DEF Cleared
<1> QED
  BY <1>1, <1>2, <1>3 DEF u

(* A handler puts a remote in the place of the one it is about. *)
LEMMA PutFiles ==
  ASSUME IInv, FilesInv, NEW n \in Names, NEW r \in RemoteRecords, NEW ops,
         NEW s \in Seq(Earlier({})), NEW t \in Seq(Record(n, r)), ops = s \o t,
         Handled(Put(remotes, n, r), ops),
         \/ n \in DOMAIN remotes /\ r.uid = remotes[n].uid
         \/ n \notin DOMAIN remotes /\ r.uid \notin Used,
         r.joined = "yes" =>
           \/ n \in Written(t)
           \/ n \in DOMAIN remotes /\ remotes[n].joined = "yes" /\ Want(r) = Want(remotes[n])
  PROVE  FilesInv'
<1> DEFINE rem == Put(remotes, n, r)
<1>1. /\ DOMAIN rem = (DOMAIN remotes \ {n}) \cup {n} /\ rem[n] = r
      /\ \A x \in DOMAIN remotes \ {n} : rem[x] = remotes[x]
  BY DEF Put
<1> HIDE DEF rem
<1>2. s \in Seq(Earlier({n} \ {n}))
  OBVIOUS
<1>3. Handled(rem, s \o t)
  BY DEF rem
<1> QED
  BY <1>1, <1>2, <1>3, MovedFiles

LEMMA RenamedFiles ==
  ASSUME IInv, FilesInv, NEW n \in DOMAIN remotes, NEW new \in Names, NEW r \in RemoteRecords,
         NEW s \in Seq(Earlier({n} \ {new})), NEW t \in Seq(Record(new, r)),
         Handled(Renamed(n, new, r), s \o t), ~Taken(n, new), r.uid = remotes[n].uid,
         n # new => n \in Cleared(s), r.joined = "yes" => new \in Written(t)
  PROVE  FilesInv'
<1> DEFINE rem == Renamed(n, new, r)
<1>1. /\ DOMAIN rem = (DOMAIN remotes \ {n}) \cup {new} /\ rem[new] = r
      /\ \A x \in DOMAIN remotes \ {n} : x # new => rem[x] = remotes[x]
  BY DEF Renamed, Put, Drop
<1>2. new \notin DOMAIN remotes \ {n} /\ n \in Names
  BY DEF Taken, IInv, TypeOK
<1> HIDE DEF rem
<1>3. Handled(rem, s \o t) /\ \A x \in DOMAIN remotes \ {n} : rem[x] = remotes[x]
  BY <1>1, <1>2 DEF rem
<1> QED
  BY <1>1, <1>2, <1>3, MovedFiles

LEMMA CreateRemoteFiles ==
  ASSUME IInv, FilesInv, NEW n \in Names, CreateRemote(n)
  PROVE  FilesInv'
<1> DEFINE r == [uid |-> NextUid, role |-> None, keys |-> None, acceptance |-> "none", joined |-> "no"]
<1>1. n \notin DOMAIN remotes /\ Handled(Put(remotes, n, r), <<>>)
  BY DEF CreateRemote
<1>2. NextUid \in Uids \ Used
  BY <1>1, NextUidFree DEF IInv
<1>3. r \in RemoteRecords /\ r.uid \notin Used /\ r.joined # "yes"
  BY <1>2 DEF RemoteRecords, Statuses
<1> HIDE DEF r
<1>4. <<>> \in Seq(Earlier({})) /\ <<>> \in Seq(Record(n, r)) /\ <<>> = <<>> \o <<>>
  OBVIOUS
<1> QED
  BY <1>1, <1>3, <1>4, PutFiles

LEMMA RemoveRemoteFiles ==
  ASSUME IInv, FilesInv, NEW n \in Names, RemoveRemote(n)
  PROVE  FilesInv'
<1>1. Handled(Drop(remotes, n), <<ClearOp(n)>>)
  BY DEF RemoveRemote
<1>2. <<ClearOp(n)>> \in Seq(Earlier({n})) /\ n \in Cleared(<<ClearOp(n)>>)
  BY EarlierOps
<1> QED
  BY <1>1, <1>2, RemovedFiles

LEMMA StartJoinFiles ==
  ASSUME IInv, FilesInv, NEW n \in Names, NEW renewal \in BOOLEAN, StartJoin(n, renewal)
  PROVE  FilesInv'
<1> DEFINE r == [remotes[n] EXCEPT !.joined = "no"]
           ops == IF renewal THEN DumpRemote(n, r) ELSE <<>>
<1>1. /\ n \in DOMAIN remotes /\ Handled(Put(remotes, n, r), ops)
      /\ renewal => r.role # None
  BY DEF StartJoin
<1>2. remotes[n] \in RemoteRecords
  BY <1>1 DEF IInv, TypeOK
<1>3. r \in RemoteRecords /\ r.uid = remotes[n].uid /\ r.joined # "yes"
  BY <1>2 DEF RemoteRecords
<1> HIDE DEF r
<1>4. renewal => DumpRemote(n, r) \in Seq(Record(n, r))
  BY <1>1, <1>3, RecordsOf DEF IInv
<1>5. <<>> \in Seq(Record(n, r)) /\ <<>> \in Seq(Earlier({}))
  OBVIOUS
<1>6. ops \in Seq(Record(n, r))
  BY <1>4, <1>5
<1> HIDE DEF ops
<1>7. ops = <<>> \o ops
  BY <1>6, ConcatEmptySeq
<1> QED
  BY <1>1, <1>3, <1>5, <1>6, <1>7, PutFiles

LEMMA CompleteFiles ==
  ASSUME IInv, FilesInv, NEW n \in Names, Complete(n)
  PROVE  FilesInv'
<1> DEFINE r == [remotes[n] EXCEPT !.joined = "yes"]
           ops == CompleteOps(n, r)
<1>1. /\ n \in DOMAIN remotes /\ Handled(Put(remotes, n, r), ops)
      /\ remotes[n].joined = "answered"
  BY DEF Complete
<1>2. remotes[n] \in RemoteRecords
  BY <1>1 DEF IInv, TypeOK
<1>3. r \in RemoteRecords /\ r.uid = remotes[n].uid /\ r.role = remotes[n].role
  BY <1>2 DEF RemoteRecords
<1>4. r.role # None
  BY <1>1, <1>3 DEF IInv, MemoryInv
<1> HIDE DEF r
<1>5. ops \in Seq(Record(n, r)) /\ n \in Written(ops)
  BY <1>3, <1>4, RecordsOf DEF IInv
<1> HIDE DEF ops
<1>6. ops = <<>> \o ops /\ <<>> \in Seq(Earlier({}))
  BY <1>5, ConcatEmptySeq
<1> QED
  BY <1>1, <1>3, <1>5, <1>6, PutFiles

LEMMA SetAcceptanceFiles ==
  ASSUME IInv, FilesInv, NEW n \in Names, NEW status \in Statuses \ {"none"}, SetAcceptance(n, status)
  PROVE  FilesInv'
<1> DEFINE r == [remotes[n] EXCEPT !.acceptance = status]
           ops == DumpRole(r)
<1>1. n \in DOMAIN remotes /\ remotes[n].role # None /\ Handled(Put(remotes, n, r), ops)
  BY DEF SetAcceptance
<1>2. remotes[n] \in RemoteRecords
  BY <1>1 DEF IInv, TypeOK
<1>3. /\ r \in RemoteRecords /\ r.uid = remotes[n].uid /\ r.role = remotes[n].role
      /\ r.joined = remotes[n].joined
  BY <1>2 DEF RemoteRecords
<1> HIDE DEF r
<1>4. Want(r) = Want(remotes[n])
  BY <1>3 DEF Want
<1>5. ops \in Seq(Record(n, r))
  BY <1>1, <1>3, RecordsOf DEF IInv
<1> HIDE DEF ops
<1>6. ops = <<>> \o ops /\ <<>> \in Seq(Earlier({}))
  BY <1>5, ConcatEmptySeq
<1> QED
  BY <1>1, <1>3, <1>4, <1>5, <1>6, PutFiles

LEMMA IntroducedFiles ==
  ASSUME IInv, FilesInv, NEW n \in Names, NEW new \in Names, NEW role \in Roles, NEW keys \in Keys,
         Introduced(n, new, role, keys)
  PROVE  FilesInv'
<1> DEFINE status == Status(role, keys)
           r == [remotes[n] EXCEPT !.role = role, !.keys = keys, !.acceptance = status,
                                   !.joined = IF status = "accepted" THEN "yes" ELSE "no"]
           tail == IF status = "accepted" THEN CompleteOps(new, r) ELSE DumpRemote(new, r)
           dump == DumpStatus(role, keys)
           ops == RenameOps(n, new)
<1>1. /\ n \in DOMAIN remotes /\ ~Taken(n, new) /\ roleFile[role] # Torn
      /\ IF status = "rejected"
         THEN Handled(Drop(remotes, n), ops \o <<ClearOp(new)>>)
         ELSE Handled(Renamed(n, new, r), ops \o dump \o tail)
  BY DEF Introduced
<1>2. CASE status = "rejected"
  <2> DEFINE C == {n, new}
  <2>1. ops \in Seq(Earlier({n} \ {new})) /\ (n # new => n \in Cleared(ops))
    BY EarlierOps
  <2>2. <<ClearOp(new)>> \in Seq(Earlier(C)) /\ new \in Cleared(<<ClearOp(new)>>)
    BY EarlierOps
  <2>3. ops \in Seq(Earlier(C))
    <3> DEFINE A == Earlier({n} \ {new})
               B == Earlier(C)
    <3>1. A \subseteq B
      BY DEF Earlier
    <3>2. ops \in Seq(A)
      BY <2>1
    <3> HIDE DEF A, B, ops
    <3>3. ops \in Seq(B)
      BY <3>1, <3>2
    <3> QED
      BY <3>3 DEF B
  <2>4. C \cap (DOMAIN remotes \ {n}) = {}
    BY <1>1 DEF Taken
  <2> DEFINE c == <<ClearOp(new)>>
             s == ops \o c
  <2>5. Handled(Drop(remotes, n), s)
    BY <1>1, <1>2
  <2> HIDE DEF C, ops, c
  <2>6. s \in Seq(Earlier(C)) /\ n \in Cleared(s)
    BY <2>1, <2>2, <2>3, ClearedBoth DEF c
  <2> HIDE DEF s
  <2> QED
    BY <2>4, <2>5, <2>6, RemovedFiles
<1>3. CASE status # "rejected"
  <2>1. remotes[n] \in RemoteRecords /\ status \in Statuses
    BY <1>1, StatusInTypes DEF IInv, TypeOK
  <2>2. /\ r \in RemoteRecords /\ r.uid = remotes[n].uid /\ r.role # None
        /\ r.joined = "yes" => status = "accepted"
    BY <2>1, ConstantsAssumption DEF RemoteRecords
  <2>3. Handled(Renamed(n, new, r), ops \o dump \o tail)
    BY <1>1, <1>3
  <2> HIDE DEF r
  <2>4. tail \in Seq(Record(new, r)) /\ (r.joined = "yes" => new \in Written(tail))
    BY <2>2, RecordsOf DEF IInv
  <2>5. ops \in Seq(Earlier({n} \ {new})) /\ (n # new => n \in Cleared(ops))
    BY EarlierOps
  <2>6. dump \in Seq(Earlier({n} \ {new}))
    BY <1>1, <1>3, StatusEarlier DEF IInv
  <2> HIDE DEF ops, dump, tail, status
  <2>7. ops \o dump \in Seq(Earlier({n} \ {new})) /\ (n # new => n \in Cleared(ops \o dump))
    BY <2>5, <2>6, ClearedBoth
  <2> QED
    BY <1>1, <2>2, <2>3, <2>4, <2>7, RenamedFiles
<1> QED
  BY <1>2, <1>3

LEMMA AskedFiles ==
  ASSUME IInv, FilesInv, NEW new \in Names, NEW role \in Roles, NEW keys \in Keys, Asked(new, role, keys)
  PROVE  FilesInv'
<1> DEFINE status == Status(role, keys)
           r == [uid |-> NextUid, role |-> role, keys |-> keys, acceptance |-> status,
                 joined |-> IF status = "accepted" THEN "answered" ELSE "no"]
           tail == IF status = "accepted" THEN <<>> ELSE DumpRemote(new, r)
           dump == DumpStatus(role, keys)
<1>1. /\ new \notin DOMAIN remotes /\ roleFile[role] # Torn
      /\ IF status = "rejected" THEN Handled(remotes, <<>>)
         ELSE Handled(Put(remotes, new, r), dump \o tail)
  BY DEF Asked
<1>2. CASE status = "rejected"
  BY <1>1, <1>2, LeftFiles
<1>3. CASE status # "rejected"
  <2>1. status \in Statuses /\ NextUid \in Uids \ Used
    BY <1>1, StatusInTypes, NextUidFree DEF IInv
  <2>2. r \in RemoteRecords /\ r.uid \notin Used /\ r.role # None /\ r.joined # "yes"
    BY <2>1, ConstantsAssumption DEF RemoteRecords
  <2>3. Handled(Put(remotes, new, r), dump \o tail)
    BY <1>1, <1>3
  <2> HIDE DEF r
  <2>4. DumpRemote(new, r) \in Seq(Record(new, r)) /\ <<>> \in Seq(Record(new, r))
    BY <2>2, RecordsOf DEF IInv
  <2>5. tail \in Seq(Record(new, r))
    BY <2>4
  <2>6. dump \in Seq(Earlier({}))
    BY <1>1, <1>3, StatusEarlier DEF IInv
  <2> HIDE DEF dump, tail, status
  <2> QED
    BY <1>1, <2>2, <2>3, <2>5, <2>6, PutFiles
<1> QED
  BY <1>2, <1>3

LEMMA RedoPendedFiles ==
  ASSUME IInv, FilesInv, NEW n \in Names, NEW joiner \in BOOLEAN, RedoPended(n, joiner)
  PROVE  FilesInv'
<1> DEFINE role == remotes[n].role
           keys == remotes[n].keys
           status == Status(role, keys)
           r == [remotes[n] EXCEPT !.acceptance = status,
                                   !.joined = IF status # "accepted" THEN "no"
                                              ELSE IF joiner THEN "yes" ELSE "answered"]
           tail == IF joiner /\ status = "accepted" THEN CompleteOps(n, r) ELSE <<>>
           dump == DumpStatus(role, keys)
<1>1. /\ n \in DOMAIN remotes /\ role # None /\ roleFile[role] # Torn
      /\ IF status = "rejected" THEN Handled(Drop(remotes, n), <<ClearOp(n)>>)
         ELSE Handled(Put(remotes, n, r), dump \o tail)
  BY DEF RedoPended
<1>2. remotes[n] \in RemoteRecords /\ role \in Roles /\ keys \in Keys \cup {None}
  BY <1>1 DEF IInv, TypeOK, RemoteRecords
<1>3. CASE status = "rejected"
  <2>1. <<ClearOp(n)>> \in Seq(Earlier({n})) /\ n \in Cleared(<<ClearOp(n)>>)
    BY EarlierOps
  <2> QED
    BY <1>1, <1>3, <2>1, RemovedFiles
<1>4. CASE status # "rejected"
  <2>1. status \in Statuses
    BY <1>1, <1>2, StatusInTypes DEF IInv
  <2>2. /\ r \in RemoteRecords /\ r.uid = remotes[n].uid /\ r.role = role
        /\ r.joined = "yes" => joiner /\ status = "accepted"
    BY <1>2, <2>1 DEF RemoteRecords
  <2>3. Handled(Put(remotes, n, r), dump \o tail)
    BY <1>1, <1>4
  <2> HIDE DEF r
  <2>4. /\ CompleteOps(n, r) \in Seq(Record(n, r)) /\ n \in Written(CompleteOps(n, r))
        /\ <<>> \in Seq(Record(n, r))
    BY <1>1, <2>2, RecordsOf DEF IInv
  <2>5. tail \in Seq(Record(n, r)) /\ (r.joined = "yes" => n \in Written(tail))
    BY <2>2, <2>4
  <2>6. dump \in Seq(Earlier({}))
    BY <1>1, <1>2, <1>4, StatusEarlier DEF IInv
  <2> HIDE DEF dump, tail, status
  <2> QED
    BY <1>1, <2>2, <2>3, <2>5, <2>6, PutFiles
<1> QED
  BY <1>3, <1>4

LEMMA RejoinedFiles ==
  ASSUME IInv, FilesInv, NEW n \in Names, NEW new \in Names, NEW role \in Roles, NEW keys \in Keys,
         NEW joiner \in BOOLEAN, Rejoined(n, new, role, keys, joiner)
  PROVE  FilesInv'
<1> DEFINE status == Status(role, keys)
           same == role = remotes[n].role /\ keys = remotes[n].keys
           met == [remotes[n] EXCEPT !.acceptance = status]
           r == [met EXCEPT !.role = role, !.keys = keys,
                            !.joined = IF status # "accepted" THEN "no"
                                       ELSE IF joiner THEN "yes" ELSE "answered"]
           dump == DumpStatus(role, keys)
           ops == dump \o RenameOps(n, new)
           tail == CASE status # "accepted" -> DumpRemote(new, r)
                     [] joiner /\ status = "accepted" -> CompleteOps(new, r)
                     [] OTHER -> <<>>
<1>1. /\ n \in DOMAIN remotes /\ remotes[n].role # None /\ roleFile[role] # Torn
      /\ \/ status = "rejected" /\ same /\ Handled(Drop(remotes, n), <<ClearOp(n)>>)
         \/ status = "rejected" /\ ~same /\ Handled(remotes, <<>>)
         \/ status # "rejected" /\ Handled(Put(remotes, n, met), dump)
         \/ status # "rejected" /\ ~Taken(n, new) /\ Handled(Renamed(n, new, r), ops \o tail)
  BY DEF Rejoined
<1>2. CASE Handled(Drop(remotes, n), <<ClearOp(n)>>)
  <2>1. <<ClearOp(n)>> \in Seq(Earlier({n})) /\ n \in Cleared(<<ClearOp(n)>>)
    BY EarlierOps
  <2> QED
    BY <1>2, <2>1, RemovedFiles
<1>3. CASE Handled(remotes, <<>>)
  BY <1>3, LeftFiles
<1>4. remotes[n] \in RemoteRecords /\ status \in Statuses
  BY <1>1, StatusInTypes DEF IInv, TypeOK
<1>5. /\ met \in RemoteRecords /\ met.uid = remotes[n].uid /\ met.role = remotes[n].role
      /\ met.joined = remotes[n].joined
      /\ r \in RemoteRecords /\ r.uid = remotes[n].uid /\ r.role # None
      /\ r.joined = "yes" => joiner /\ status = "accepted"
  BY <1>4, ConstantsAssumption DEF RemoteRecords
<1>6. CASE status # "rejected" /\ Handled(Put(remotes, n, met), dump)
  <2>1. dump \in Seq(Earlier({}))
    BY <1>1, <1>6, StatusEarlier DEF IInv
  <2> HIDE DEF met, dump
  <2>2. Want(met) = Want(remotes[n])
    BY <1>5 DEF Want
  <2>3. <<>> \in Seq(Record(n, met)) /\ dump = dump \o <<>>
    BY <2>1, ConcatEmptySeq
  <2> QED
    BY <1>1, <1>5, <1>6, <2>1, <2>2, <2>3, PutFiles
<1>7. CASE status # "rejected" /\ ~Taken(n, new) /\ Handled(Renamed(n, new, r), ops \o tail)
  <2>1. dump \in Seq(Earlier({n} \ {new}))
    BY <1>1, <1>7, StatusEarlier DEF IInv
  <2>2. RenameOps(n, new) \in Seq(Earlier({n} \ {new})) /\ (n # new => n \in Cleared(RenameOps(n, new)))
    BY EarlierOps
  <2> HIDE DEF met, r, dump
  <2>3. /\ CompleteOps(new, r) \in Seq(Record(new, r)) /\ new \in Written(CompleteOps(new, r))
        /\ DumpRemote(new, r) \in Seq(Record(new, r)) /\ <<>> \in Seq(Record(new, r))
    BY <1>5, RecordsOf DEF IInv
  <2>4. /\ tail \in {DumpRemote(new, r), CompleteOps(new, r), <<>>}
        /\ joiner /\ status = "accepted" => tail = CompleteOps(new, r)
    OBVIOUS
  <2> HIDE DEF tail
  <2>5. tail \in Seq(Record(new, r)) /\ (r.joined = "yes" => new \in Written(tail))
    BY <1>5, <2>3, <2>4
  <2>6. ops \in Seq(Earlier({n} \ {new})) /\ (n # new => n \in Cleared(ops))
    BY <2>1, <2>2, ClearedBoth
  <2> HIDE DEF ops
  <2> QED
    BY <1>1, <1>5, <1>7, <2>5, <2>6, RenamedFiles
<1> QED
  BY <1>1, <1>2, <1>3, <1>6, <1>7

LEMMA HandlerFiles ==
  ASSUME IInv, FilesInv, NEW n \in Names, HandlerOf(n)
  PROVE  FilesInv'
<1>1. CASE CreateRemote(n)
  BY <1>1, CreateRemoteFiles
<1>2. CASE RemoveRemote(n)
  BY <1>2, RemoveRemoteFiles
<1>3. CASE Complete(n)
  BY <1>3, CompleteFiles
<1>4. ASSUME NEW b \in BOOLEAN, StartJoin(n, b) \/ RedoPended(n, b) PROVE FilesInv'
  BY <1>4, StartJoinFiles, RedoPendedFiles
<1>5. ASSUME NEW s \in Statuses \ {"none"}, SetAcceptance(n, s) PROVE FilesInv'
  BY <1>5, SetAcceptanceFiles
<1>6. ASSUME NEW r \in Roles, NEW k \in Keys, Asked(n, r, k) PROVE FilesInv'
  BY <1>6, AskedFiles
<1>7. ASSUME NEW r \in Roles, NEW k \in Keys, NEW new \in Names, Introduced(n, new, r, k)
      PROVE  FilesInv'
  BY <1>7, IntroducedFiles
<1>8. ASSUME NEW r \in Roles, NEW k \in Keys, NEW new \in Names, NEW b \in BOOLEAN, Rejoined(n, new, r, k, b)
      PROVE  FilesInv'
  BY <1>8, RejoinedFiles
<1> QED
  BY <1>1, <1>2, <1>3, <1>4, <1>5, <1>6, <1>7, <1>8 DEF HandlerOf

-----------------------------------------------------------------------------
(* The files as the disk, crashes and restarts change them.                 *)

LEMMA RaiseStatusFiles ==
  ASSUME FilesInv, NEW role \in Roles, RaiseStatus(role)
  PROVE  FilesInv'
<1>1. life' = "raised" /\ remoteFile' = remoteFile /\ roleFile' = roleFile /\ roleFile[role] = Torn
  BY DEF RaiseStatus, Files
<1> QED
  BY <1>1 DEF FilesInv, DistinctInv, RaisedOnlyIfTorn, TornFile

LEMMA FileStepFiles ==
  ASSUME IInv, FilesInv, FileStep
  PROVE  FilesInv'
<1> DEFINE o == Head(todo)
<1>1. /\ life = "up" /\ todo # <<>> /\ Apply(o, FALSE) /\ todo' = Tail(todo) /\ life' = "up"
      /\ remotes' = remotes
  BY DEF FileStep
<1>2. /\ o \in FileOps /\ o = todo[1] /\ 1 \in DOMAIN todo
      /\ \A i \in DOMAIN todo' : i \in Nat /\ i + 1 \in DOMAIN todo /\ todo'[i] = todo[i + 1]
      /\ \A i \in DOMAIN todo : i = 1 \/ (i - 1 \in DOMAIN todo' /\ todo'[i - 1] = todo[i])
  BY <1>1 DEF IInv, TypeOK
<1>3. remoteFile \in [Names -> FileRecords \cup {NoFile, Torn}]
  BY DEF IInv, TypeOK
<1>4. UpInv /\ DistinctInv
  BY <1>1 DEF FilesInv
<1>5. NoFile # Torn /\ NoFile \notin FileRecords /\ Torn \notin FileRecords
  BY ConstantsAssumption, FileAssumption
<1>6. /\ o.op = "clear" => o.name \in Names /\ remoteFile' = [remoteFile EXCEPT ![o.name] = NoFile]
      /\ o.op = "remote" => /\ o.name \in Names /\ o.data \in FileRecords
                            /\ remoteFile' = [remoteFile EXCEPT ![o.name] = o.data]
      /\ o.op \notin {"clear", "remote"} => remoteFile' = remoteFile
      /\ o.op \in {"clear", "remote", "role", "local"}
  BY <1>1, <1>2 DEF Apply, FileOps
<1> HIDE DEF o
<1>7. /\ \A n \in Cleared(todo') : n \in Cleared(todo)
      /\ \A n \in Cleared(todo) : n \in Cleared(todo') \/ (o.op = "clear" /\ o.name = n)
      /\ \A n \in Written(todo) : n \in Written(todo') \/ (o.op = "remote" /\ o.name = n)
      /\ o.op = "clear" => o.name \in Cleared(todo)
  <2>1. ASSUME NEW n \in Cleared(todo') PROVE n \in Cleared(todo)
    BY <1>2 DEF Cleared
  <2>2. ASSUME NEW n \in Cleared(todo) PROVE n \in Cleared(todo') \/ (o.op = "clear" /\ o.name = n)
    BY <1>2 DEF Cleared
  <2>3. ASSUME NEW n \in Written(todo) PROVE n \in Written(todo') \/ (o.op = "remote" /\ o.name = n)
    BY <1>2 DEF Written
  <2>4. o.op = "clear" => o.name \in Cleared(todo)
    BY <1>2, <1>6 DEF Cleared
  <2> QED
    BY <2>1, <2>2, <2>3, <2>4
<1>8. ClearsFirst(todo')
  <2> SUFFICES ASSUME NEW i \in DOMAIN todo', NEW j \in DOMAIN todo',
                      todo'[i].op = "clear", todo'[j].op = "remote"
               PROVE  i < j
    BY DEF ClearsFirst
  <2>1. i + 1 < j + 1
    BY <1>2, <1>4 DEF UpInv, ClearsFirst
  <2> QED
    BY <1>2, <2>1
<1>9. \A i \in DOMAIN todo' :
        todo'[i].op = "remote" =>
          todo'[i].name \in DOMAIN remotes /\ todo'[i].data = Want(remotes[todo'[i].name])
  BY <1>2, <1>4 DEF UpInv
<1>10. ASSUME NEW n \in Found, n \notin Cleared(todo)
       PROVE  n \in DOMAIN remotes /\ remoteFile[n].uid = remotes[n].uid
  BY <1>4, <1>10 DEF UpInv
<1>11. ASSUME NEW n \in DOMAIN remotes, remotes[n].joined = "yes"
       PROVE  n \in Written(todo) \/ (remoteFile[n] = Want(remotes[n]) /\ n \notin Cleared(todo))
  BY <1>4, <1>11 DEF UpInv
<1>12. /\ \A n \in Names : remoteFile[n] # Torn
       /\ \A n \in DOMAIN remotes :
            /\ remotes[n].uid # LocalUid
            /\ \A m \in DOMAIN remotes : remotes[n].uid = remotes[m].uid => n = m
       /\ DOMAIN remotes \subseteq Names
  BY <1>4 DEF UpInv, IInv, TypeOK
<1>13. SUFFICES /\ DistinctInv'
                /\ \A n \in Names : remoteFile'[n] # Torn
                /\ \A n \in Names : remoteFile'[n] # NoFile =>
                     \/ n \in Cleared(todo')
                     \/ n \in DOMAIN remotes /\ remoteFile'[n].uid = remotes[n].uid
                /\ \A n \in DOMAIN remotes : remotes[n].joined = "yes" =>
                     \/ n \in Written(todo')
                     \/ remoteFile'[n] = Want(remotes[n]) /\ n \notin Cleared(todo')
  <2>1. RaisedOnlyIfTorn'
    BY <1>1 DEF RaisedOnlyIfTorn
  <2>2. Found' = {n \in Names : remoteFile'[n] # NoFile}
    BY DEF Found
  <2>3. UpInv'
    BY <1>1, <1>8, <1>9, <1>12, <1>13, <2>2 DEF UpInv
  <2> QED
    BY <1>13, <2>1, <2>3 DEF FilesInv
<1>14. CASE o.op = "clear"
  <2>1. /\ remoteFile'[o.name] = NoFile /\ o.name \in Cleared(todo)
        /\ \A n \in Names : n # o.name => remoteFile'[n] = remoteFile[n]
    BY <1>3, <1>6, <1>7, <1>14
  <2>2. DistinctInv'
    BY <1>4, <1>5, <2>1 DEF DistinctInv
  <2>3. \A n \in Names : remoteFile'[n] # Torn
    BY <1>5, <1>12, <2>1
  <2>4. ASSUME NEW n \in Names, remoteFile'[n] # NoFile
        PROVE  n \in Cleared(todo') \/ (n \in DOMAIN remotes /\ remoteFile'[n].uid = remotes[n].uid)
    <3>1. n # o.name /\ remoteFile'[n] = remoteFile[n] /\ n \in Found
      BY <2>1, <2>4 DEF Found
    <3> QED
      BY <1>7, <1>10, <3>1
  <2>5. ASSUME NEW n \in DOMAIN remotes, remotes[n].joined = "yes"
        PROVE  \/ n \in Written(todo')
               \/ remoteFile'[n] = Want(remotes[n]) /\ n \notin Cleared(todo')
    <3>1. CASE n \in Written(todo)
      BY <1>7, <1>14, <3>1
    <3>2. CASE remoteFile[n] = Want(remotes[n]) /\ n \notin Cleared(todo)
      BY <1>7, <1>12, <2>1, <3>2
    <3> QED
      BY <1>11, <2>5, <3>1, <3>2
  <2> QED
    BY <2>2, <2>3, <2>4, <2>5
<1>15. CASE o.op = "remote"
  <2>1. /\ o.name \in DOMAIN remotes /\ o.data = Want(remotes[o.name])
        /\ o.name \in Names /\ o.data \in FileRecords /\ remoteFile'[o.name] = o.data
        /\ \A n \in Names : n # o.name => remoteFile'[n] = remoteFile[n]
    BY <1>2, <1>3, <1>4, <1>6, <1>15 DEF UpInv
  <2>2. Cleared(todo) = {} /\ Cleared(todo') = {}
    <3>1. \A i \in DOMAIN todo : todo[i].op # "clear"
      <4> SUFFICES ASSUME NEW i \in DOMAIN todo, todo[i].op = "clear" PROVE FALSE
        OBVIOUS
      <4>1. i < 1
        BY <1>2, <1>4, <1>15 DEF UpInv, ClearsFirst
      <4>2. i \in Nat \ {0}
        BY DEF IInv, TypeOK
      <4> QED
        BY <4>1, <4>2
    <3>2. Cleared(todo) = {}
      BY <3>1 DEF Cleared
    <3> QED
      BY <1>7, <3>2
  <2>3. ASSUME NEW n \in Names, remoteFile'[n] # NoFile
        PROVE  n \in DOMAIN remotes /\ remoteFile'[n].uid = remotes[n].uid
    <3>1. CASE n = o.name
      BY <2>1, <3>1 DEF Want
    <3>2. CASE n # o.name
      <4>1. n \in Found /\ remoteFile'[n] = remoteFile[n]
        BY <2>1, <2>3, <3>2 DEF Found
      <4> QED
        BY <1>10, <2>2, <4>1
    <3> QED
      BY <3>1, <3>2
  <2>4. DistinctInv'
    <3> SUFFICES ASSUME NEW n \in Names, NEW m \in Names, remoteFile'[n] \in FileRecords
                 PROVE  /\ remoteFile'[n].uid # LocalUid
                        /\ remoteFile'[m] \in FileRecords /\ remoteFile'[n].uid = remoteFile'[m].uid => n = m
      BY DEF DistinctInv
    <3>1. n \in DOMAIN remotes /\ remoteFile'[n].uid = remotes[n].uid
      BY <1>5, <2>3
    <3>2. remoteFile'[m] \in FileRecords => m \in DOMAIN remotes /\ remoteFile'[m].uid = remotes[m].uid
      BY <1>5, <2>3
    <3> QED
      BY <1>12, <3>1, <3>2
  <2>5. \A n \in Names : remoteFile'[n] # Torn
    BY <1>5, <1>12, <2>1
  <2>6. ASSUME NEW n \in DOMAIN remotes, remotes[n].joined = "yes"
        PROVE  \/ n \in Written(todo')
               \/ remoteFile'[n] = Want(remotes[n]) /\ n \notin Cleared(todo')
    <3>1. CASE n = o.name
      BY <2>1, <2>2, <3>1
    <3>2. CASE n # o.name
      BY <1>7, <1>11, <1>12, <2>1, <2>2, <2>6, <3>2
    <3> QED
      BY <3>1, <3>2
  <2> QED
    BY <2>3, <2>4, <2>5, <2>6
<1>16. CASE o.op \notin {"clear", "remote"}
  <2>1. remoteFile' = remoteFile
    BY <1>6, <1>16
  <2>2. DistinctInv'
    BY <1>4, <2>1 DEF DistinctInv
  <2>3. ASSUME NEW n \in Names, remoteFile'[n] # NoFile
        PROVE  n \in Cleared(todo') \/ (n \in DOMAIN remotes /\ remoteFile'[n].uid = remotes[n].uid)
    <3>1. n \in Found
      BY <2>1, <2>3 DEF Found
    <3> QED
      BY <1>7, <1>10, <1>16, <2>1, <3>1
  <2>4. ASSUME NEW n \in DOMAIN remotes, remotes[n].joined = "yes"
        PROVE  \/ n \in Written(todo')
               \/ remoteFile'[n] = Want(remotes[n]) /\ n \notin Cleared(todo')
    BY <1>7, <1>11, <1>16, <2>1, <2>4
  <2> QED
    BY <1>12, <2>1, <2>2, <2>3, <2>4
<1> QED
  BY <1>14, <1>15, <1>16

LEMMA CrashFiles ==
  ASSUME IInv, FilesInv, Crash
  PROVE  FilesInv'
<1>1. life' = "down"
  BY DEF Crash
<1>2. remoteFile' = remoteFile \/ \E n \in Names : remoteFile' = [remoteFile EXCEPT ![n] = Torn]
  <2>1. CASE UNCHANGED Files
    BY <2>1 DEF Files
  <2>2. CASE todo # <<>> /\ Head(todo).op # "clear" /\ Apply(Head(todo), TRUE)
    <3>1. Head(todo) \in FileOps
      BY <2>2 DEF IInv, TypeOK
    <3> QED
      BY <2>2, <3>1 DEF Apply, FileOps
  <2> QED
    BY <2>1, <2>2 DEF Crash
<1>3. \A n \in Names : remoteFile'[n] \in FileRecords => remoteFile'[n] = remoteFile[n]
  BY <1>2, FileAssumption DEF IInv, TypeOK
<1>4. DistinctInv'
  BY <1>3 DEF FilesInv, DistinctInv
<1> QED
  BY <1>1, <1>4 DEF FilesInv, RaisedOnlyIfTorn

(* The stack restarts unless a file was torn. *)
LEMMA RestorableUnlessTorn ==
  ASSUME IInv, DistinctInv, ~Restorable
  PROVE  TornFile
<1> SUFFICES ASSUME ~TornFile PROVE FALSE
  OBVIOUS
<1>1. ASSUME NEW n \in Found PROVE n \in Names /\ remoteFile[n] \in FileRecords
  BY DEF Found, TornFile, IInv, TypeOK
<1>2. \A n \in Found : Loadable(n)
  BY <1>1 DEF Loadable, TornFile, FileRecords
<1>3. \A n \in Found : /\ remoteFile[n].uid # LocalUid
                       /\ \A m \in Found : remoteFile[n].uid = remoteFile[m].uid => n = m
  BY <1>1 DEF DistinctInv
<1> QED
  BY <1>2, <1>3 DEF Restorable

(* What a restart writes: the files it found, after it has cleared them all. *)
RestartOps(l, order, rem) == <<l>> \o DumpRemotes(order, rem)

LEMMA DumpedRemotes ==
  ASSUME IsFiniteSet(Names), NEW order \in Orders(Found), NEW rem, NEW l, l.op = "local",
         NEW s, s = RestartOps(l, order, rem)
  PROVE  /\ ClearsFirst(s) /\ Found \subseteq Written(s)
         /\ \A i \in DOMAIN s :
              s[i].op = "remote" => s[i].name \in Found /\ s[i].data = Want(rem[s[i].name])
<1> DEFINE k == Cardinality(Found)
           c == [i \in DOMAIN order |-> ClearOp(order[i])]
           w == [i \in 1 .. 2 * Len(order) |->
                   LET n == order[(i + 1) \div 2]
                   IN DumpRemote(n, rem[n])[2 - (i % 2)]]
<1>1. /\ k \in Nat /\ IsFiniteSet(Found) /\ Found \subseteq Names
  BY FS_Subset, FS_CardinalityType DEF Found
<1>2. /\ order \in [1 .. k -> Found] /\ \A i, j \in 1 .. k : order[i] = order[j] => i = j
  BY DEF Orders
<1>3. order \in Seq(Found) /\ Len(order) = k /\ DOMAIN order = 1 .. k
  BY <1>1, <1>2
<1> HIDE DEF k
<1>4. \A n \in Found : \E j \in 1 .. k : order[j] = n
  <2> DEFINE R == {order[j] : j \in 1 .. k}
  <2>1. order \in Bijection(1 .. k, R)
    <3>1. order \in [1 .. k -> R] /\ \A x \in R : \E j \in 1 .. k : order[j] = x
      BY <1>2
    <3> HIDE DEF R
    <3> QED
      BY <1>2, <3>1 DEF Bijection, Injection, IsInjective, Surjection
  <2>2. IsFiniteSet(1 .. k) /\ Cardinality(1 .. k) = k
    <3>1. 1 \in Int /\ k \in Int
      BY <1>1
    <3>2. IsFiniteSet(1 .. k) /\ Cardinality(1 .. k) = IF 1 > k THEN 0 ELSE k - 1 + 1
      BY <3>1, FS_Interval
    <3> QED
      BY <1>1, <3>2
  <2>3. ExistsBijection(1 .. k, R)
    BY <2>1 DEF ExistsBijection
  <2>4. Cardinality(R) = k
    BY <2>2, <2>3, FS_Bijection
  <2>5. R \in SUBSET Found
    BY <1>2
  <2> HIDE DEF R
  <2>6. R = Found
    BY <1>1, <2>4, <2>5, FS_Subset DEF k
  <2> QED
    BY <2>6 DEF R
<1>5. \A i \in 1 .. k : i \in DOMAIN c /\ c[i].op = "clear"
  BY <1>3 DEF ClearOp
<1>6. Len(c) = k /\ DOMAIN c = 1 .. k /\ c \in Seq({c[i] : i \in 1 .. k})
  <2>1. DOMAIN c = 1 .. k
    BY <1>3
  <2> HIDE DEF c
  <2>2. c = [i \in 1 .. k |-> c[i]]
    BY <2>1 DEF c
  <2> DEFINE S == {c[i] : i \in 1 .. k}
  <2>3. c \in [1 .. k -> S]
    BY <2>2
  <2> HIDE DEF S
  <2>4. c \in Seq(S) /\ Len(c) = k
    BY <1>1, <2>1, <2>3
  <2> QED
    BY <2>1, <2>4 DEF S
<1>7. DOMAIN w = 1 .. 2 * k
  BY <1>3
<1>8. ASSUME NEW j \in 1 .. k
      PROVE  /\ order[j] \in Found /\ 2 * j - 1 \in 1 .. 2 * k /\ 2 * j \in 1 .. 2 * k
             /\ w[2 * j - 1].op = "remote" /\ w[2 * j - 1].name = order[j]
             /\ w[2 * j - 1].data = Want(rem[order[j]])
             /\ w[2 * j].op = "role"
  <2> DEFINE n == order[j]
             d == DumpRemote(n, rem[n])
  <2>1. /\ order[j] \in Found /\ 2 * j - 1 \in 1 .. 2 * Len(order) /\ 2 * j \in 1 .. 2 * Len(order)
        /\ (2 * j - 1 + 1) \div 2 = j /\ (2 * j + 1) \div 2 = j
        /\ 2 - ((2 * j - 1) % 2) = 1 /\ 2 - ((2 * j) % 2) = 2
    BY <1>2, <1>3
  <2>2. w[2 * j - 1] = d[1] /\ w[2 * j] = d[2]
    BY <2>1
  <2>3. /\ d[1] = [op |-> "remote", name |-> n, data |-> Want(rem[n])]
        /\ d[2] = RoleOp(rem[n].role, RoleData(rem[n].acceptance, rem[n].keys))
    BY DEF DumpRemote, DumpRole, Want
  <2> HIDE DEF w, d
  <2> QED
    BY <1>3, <2>1, <2>2, <2>3 DEF RoleOp
<1>9. \A i \in 1 .. 2 * k : \E j \in 1 .. k : i = 2 * j - 1 \/ i = 2 * j
  <2> SUFFICES ASSUME NEW i \in 1 .. 2 * k PROVE \E j \in 1 .. k : i = 2 * j - 1 \/ i = 2 * j
    OBVIOUS
  <2>1. (i + 1) \div 2 \in 1 .. k
    BY <1>1
  <2>2. i = 2 * ((i + 1) \div 2) - 1 \/ i = 2 * ((i + 1) \div 2)
    BY <1>1
  <2> QED
    BY <2>1, <2>2
<1>10. Len(w) = 2 * k /\ w \in Seq({w[i] : i \in 1 .. 2 * k})
  <2> HIDE DEF w
  <2>1. w = [i \in 1 .. 2 * k |-> w[i]]
    BY <1>7 DEF w
  <2> QED
    BY <1>1, <1>7, <2>1
<1>11. s = <<l>> \o (c \o w)
  BY DEF RestartOps, DumpRemotes
<1> HIDE DEF c, w
<1>12. /\ DOMAIN s = 1 .. 3 * k + 1
       /\ s[1] = l
       /\ \A i \in 2 .. k + 1 : s[i] = c[i - 1]
       /\ \A i \in k + 2 .. 3 * k + 1 : s[i] = w[i - k - 1]
  <2> DEFINE u == c \o w
             S == {c[i] : i \in 1 .. k} \cup {w[i] : i \in 1 .. 2 * k}
  <2>1. c \in Seq(S) /\ w \in Seq(S)
    BY <1>6, <1>10
  <2> HIDE DEF S
  <2>2. /\ u \in Seq(S) /\ Len(u) = 3 * k
        /\ \A i \in 1 .. k : u[i] = c[i]
        /\ \A i \in k + 1 .. 3 * k : u[i] = w[i - k]
    <3>1. /\ DOMAIN c = 1 .. Len(c) /\ DOMAIN w = 1 .. Len(w) /\ u \in Seq(S)
          /\ Len(u) = Len(c) + Len(w)
          /\ \A i \in 1 .. Len(c) + Len(w) : u[i] = IF i <= Len(c) THEN c[i] ELSE w[i - Len(c)]
      BY <2>1, LenProperties, ConcatProperties
    <3> HIDE DEF u
    <3> QED
      BY <1>1, <1>6, <1>10, <3>1
  <2> HIDE DEF u
  <2>3. <<l>> \in Seq({l}) /\ Len(<<l>>) = 1 /\ <<l>>[1] = l
    OBVIOUS
  <2>4. /\ Len(<<l>> \o u) = 3 * k + 1 /\ DOMAIN (<<l>> \o u) = 1 .. 3 * k + 1
        /\ (<<l>> \o u)[1] = l
        /\ \A i \in 2 .. 3 * k + 1 : (<<l>> \o u)[i] = u[i - 1]
    BY <1>1, <2>2, <2>3
  <2>5. s = <<l>> \o u
    BY <1>11 DEF u
  <2>6. \A i \in 2 .. k + 1 : s[i] = c[i - 1]
    BY <1>1, <2>2, <2>4, <2>5
  <2>7. \A i \in k + 2 .. 3 * k + 1 : s[i] = w[i - k - 1]
    BY <1>1, <2>2, <2>4, <2>5
  <2> QED
    BY <2>4, <2>5, <2>6, <2>7
<1>13. ASSUME NEW i \in DOMAIN s
       PROVE  \/ i = 1 /\ s[i].op = "local"
              \/ i \in 2 .. k + 1 /\ s[i].op = "clear"
              \/ /\ i > k + 1
                 /\ \/ s[i].op = "role"
                    \/ s[i].op = "remote" /\ s[i].name \in Found /\ s[i].data = Want(rem[s[i].name])
  <2>1. CASE i = 1
    BY <1>12, <2>1
  <2>2. CASE i \in 2 .. k + 1
    BY <1>1, <1>5, <1>12, <2>2
  <2>3. CASE i \in k + 2 .. 3 * k + 1
    <3>1. i - k - 1 \in 1 .. 2 * k /\ s[i] = w[i - k - 1]
      BY <1>1, <1>12, <2>3
    <3>2. PICK j \in 1 .. k : i - k - 1 = 2 * j - 1 \/ i - k - 1 = 2 * j
      BY <1>9, <3>1
    <3>3. w[i - k - 1].op = "role" \/
          (/\ w[i - k - 1].op = "remote" /\ w[i - k - 1].name \in Found
           /\ w[i - k - 1].data = Want(rem[w[i - k - 1].name]))
      <4>1. w[2 * j].op = "role"
        BY <1>8
      <4>2. /\ w[2 * j - 1].op = "remote" /\ w[2 * j - 1].name \in Found
            /\ w[2 * j - 1].data = Want(rem[w[2 * j - 1].name])
        BY <1>8
      <4> QED
        BY <3>2, <4>1, <4>2
    <3>4. i > k + 1
      BY <1>1, <2>3
    <3> QED
      BY <3>1, <3>3, <3>4
  <2> QED
    BY <1>1, <1>12, <2>1, <2>2, <2>3
<1>14. ClearsFirst(s)
  <2> SUFFICES ASSUME NEW i \in DOMAIN s, NEW j \in DOMAIN s, s[i].op = "clear", s[j].op = "remote"
               PROVE  i < j
    BY DEF ClearsFirst
  <2>1. i \in 2 .. k + 1 /\ j > k + 1 /\ j \in Nat
    BY <1>12, <1>13
  <2> QED
    BY <1>1, <2>1
<1>15. ASSUME NEW n \in Found PROVE n \in Written(s)
  <2>1. PICK j \in 1 .. k : order[j] = n
    BY <1>4
  <2> DEFINE i == k + 2 * j
  <2>2. i \in k + 2 .. 3 * k + 1 /\ i - k - 1 = 2 * j - 1 /\ i \in DOMAIN s
    BY <1>1, <1>12
  <2>3. s[i].op = "remote" /\ s[i].name = n
    BY <1>8, <1>12, <2>1, <2>2
  <2> HIDE DEF i
  <2> QED
    BY <1>1, <2>2, <2>3 DEF Written
<1> QED
  BY <1>13, <1>14, <1>15

LEMMA RestartFiles ==
  ASSUME IInv, FilesInv, Restart
  PROVE  FilesInv'
<1>1. remoteFile' = remoteFile /\ roleFile' = roleFile
  BY DEF Restart, Files
<1>2. DistinctInv /\ DistinctInv'
  BY <1>1 DEF FilesInv, DistinctInv
<1>3. CASE ~Restorable
  <2>1. TornFile' /\ life' = "raised"
    BY <1>1, <1>2, <1>3, RestorableUnlessTorn DEF TornFile, Restart
  <2> QED
    BY <1>2, <2>1 DEF FilesInv, RaisedOnlyIfTorn
<1>4. CASE Restorable
  <2> DEFINE rem == [n \in Found |-> Loaded(n)]
             uid == IF localFile = 0 THEN LocalUid ELSE localFile
             l == LocalOp(uid)
  <2>1. PICK order \in Orders(Found) :
          remotes' = rem /\ life' = "up" /\ todo' = <<l>> \o DumpRemotes(order, rem)
    BY <1>4 DEF Restart
  <2>2. /\ DOMAIN rem = Found
        /\ \A n \in Found : rem[n].uid = remoteFile[n].uid
    BY DEF Loaded
  <2>3. l.op = "local"
    BY DEF LocalOp
  <2> HIDE DEF rem, l
  <2>4. /\ ClearsFirst(todo') /\ Found \subseteq Written(todo')
        /\ \A i \in DOMAIN todo' :
             todo'[i].op = "remote" => todo'[i].name \in Found /\ todo'[i].data = Want(rem[todo'[i].name])
    <3> DEFINE s == RestartOps(l, order, rem)
    <3>1. order \in Orders(Found) /\ IsFiniteSet(Names)
      BY <2>1, ConstantsAssumption
    <3>2. /\ ClearsFirst(s) /\ Found \subseteq Written(s)
          /\ \A i \in DOMAIN s :
               s[i].op = "remote" => s[i].name \in Found /\ s[i].data = Want(rem[s[i].name])
      BY <2>3, <3>1, DumpedRemotes
    <3>3. todo' = s
      BY <2>1 DEF RestartOps
    <3> HIDE DEF s
    <3> QED
      BY <3>2, <3>3
  <2>5. Found' = Found
    BY <1>1 DEF Found
  <2>6. \A n \in Names : remoteFile'[n] # Torn
    BY <1>1, <1>4, ConstantsAssumption DEF Restorable, Loadable, Found
  <2>7. \A n \in DOMAIN remotes' :
          /\ remotes'[n].uid # LocalUid
          /\ \A m \in DOMAIN remotes' : remotes'[n].uid = remotes'[m].uid => n = m
    BY <1>4, <2>1, <2>2 DEF Restorable
  <2>8. \A n \in Found' : n \in DOMAIN remotes' /\ remoteFile'[n].uid = remotes'[n].uid
    BY <1>1, <2>1, <2>2, <2>5
  <2>9. \A n \in DOMAIN remotes' : n \in Written(todo')
    BY <2>1, <2>2, <2>4
  <2>10. UpInv'
    BY <2>1, <2>2, <2>4, <2>6, <2>7, <2>8, <2>9 DEF UpInv
  <2> QED
    BY <1>2, <2>1, <2>10 DEF FilesInv, RaisedOnlyIfTorn
<1> QED
  BY <1>3, <1>4

LEMMA InitFiles ==
  ASSUME Init
  PROVE  FilesInv
<1> DEFINE o == LocalOp(LocalUid)
<1>1. /\ DOMAIN remotes = {} /\ life = "up" /\ todo = <<o>>
      /\ \A n \in Names : remoteFile[n] = NoFile
  BY DEF Init
<1>2. o.op = "local"
  BY DEF LocalOp
<1> HIDE DEF o
<1>3. \A i \in DOMAIN todo : todo[i].op = "local"
  BY <1>1, <1>2
<1>4. Found = {} /\ NoFile # Torn /\ NoFile \notin FileRecords
  BY <1>1, ConstantsAssumption, FileAssumption DEF Found
<1>5. UpInv
  BY <1>1, <1>3, <1>4 DEF UpInv, ClearsFirst
<1>6. DistinctInv
  BY <1>1, <1>4 DEF DistinctInv
<1> QED
  BY <1>1, <1>5, <1>6 DEF FilesInv, RaisedOnlyIfTorn

LEMMA FilesHold == Spec => [](IInv /\ FilesInv)
<1>1. Init => IInv /\ FilesInv
  BY InitInv, InitFiles
<1>2. IInv /\ FilesInv /\ [Next]_vars => FilesInv'
  <2> SUFFICES ASSUME IInv, FilesInv, [Next]_vars PROVE FilesInv'
    OBVIOUS
  <2>1. ASSUME NEW n \in Names, HandlerOf(n) PROVE FilesInv'
    BY <2>1, HandlerFiles
  <2>2. CASE UNCHANGED vars
    BY <2>2 DEF vars, FilesInv, UpInv, DistinctInv, RaisedOnlyIfTorn, TornFile, ClearsFirst, Cleared,
                Written, Found
  <2> QED
    BY <2>1, <2>2, NextCases, RaiseStatusFiles, FileStepFiles, CrashFiles, RestartFiles
<1> QED
  BY <1>1, <1>2, InvHolds, PTL DEF Spec

(* Whatever a crash interrupts, the stack raises, when it restarts or when it
   judges a role, only if it tore a file: no two files ever give their remotes
   the same uid, or the one of the local estate. *)
THEOREM RaisesOnlyWhenTorn == Spec => []RaisedOnlyIfTorn
<1>1. FilesInv => RaisedOnlyIfTorn
  BY DEF FilesInv
<1> QED
  BY <1>1, FilesHold, PTL

(* Between handlers each file is of the remote of its name: none is left of a
   remote that was removed or renamed, even if a crash and a restart came in
   between. *)
THEOREM NoGhosts == Spec => []NoGhostFile
<1>1. IInv /\ FilesInv => NoGhostFile
  <2> SUFFICES ASSUME FilesInv, Idle PROVE NoGhostFile
    BY DEF NoGhostFile
  <2>1. UpInv /\ Cleared(todo) = {}
    BY DEF Idle, FilesInv, Cleared
  <2> QED
    BY <2>1 DEF UpInv, NoGhostFile
<1> QED
  BY <1>1, FilesHold, PTL

(* Between handlers a remote that is joined has its file, which says so, and the
   file of its role with the keys it has. *)
THEOREM JoinedKept == Spec => []JoinedPersisted
<1>1. IInv /\ FilesInv => JoinedPersisted
  <2> SUFFICES ASSUME IInv, FilesInv, Idle, NEW n \in DOMAIN remotes, remotes[n].joined = "yes"
               PROVE  /\ remoteFile[n] = [uid |-> remotes[n].uid, role |-> remotes[n].role, joined |-> TRUE]
                      /\ roleFile[remotes[n].role] \in RoleRecords
                      /\ auto # "always" => roleFile[remotes[n].role].keys = remotes[n].keys
    BY DEF JoinedPersisted
  <2>1. UpInv /\ Written(todo) = {}
    BY DEF Idle, FilesInv, Written
  <2>2. remoteFile[n] = Want(remotes[n])
    BY <2>1 DEF UpInv
  <2>3. remotes[n].role # None /\ Settled(remotes[n].role, remotes[n].keys)
    <3>1. remotes[n].role # None
      BY DEF IInv, MemoryInv
    <3> QED
      BY <3>1, IdleSettled
  <2> QED
    BY <2>2, <2>3 DEF Want, Settled
<1> QED
  BY <1>1, FilesHold, PTL
=============================================================================
