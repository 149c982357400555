---------------------------- MODULE Joining_proofs ----------------------------
(***************************************************************************)
(* Proofs about joins: types, the two indexes of remotes, and credentials  *)
(* on a road that is not mutable, for any modes, bounds and restarts; and, *)
(* of two stacks until one is restarted, that the uids agree and that no   *)
(* handler raises.                                                         *)
(***************************************************************************)
EXTENDS Joining, WellFoundedInduction, TLAPS

-----------------------------------------------------------------------------
(* The inductive invariant.                                                 *)

StackFields ==
  {"remotes", "names", "joinees", "ghost", "puid", "trans", "files", "role",
   "savedPuid", "keys", "restarts", "raised"}

RoleRecords == [acceptance: Statuses, keys: KeyGens]

(* On a fixed road no credentials change, and no remote is made but for a
   stack that asks. *)
Fixed(s) == s \notin Mutables /\ s \notin Creators

(* The remotes R of s, their names N, joins T, files F and the role K. *)
Core(s, R, N, T, F, K) ==
  /\ DOMAIN R \subseteq Uids \ {0} /\ \A u \in DOMAIN R : R[u] \in Remotes
  /\ DOMAIN N \subseteq Names /\ \A n \in DOMAIN N : N[n] \in DOMAIN R /\ R[N[n]].name = n
  /\ \A u \in DOMAIN R : R[u].name \in DOMAIN N /\ N[R[u].name] = u
  /\ T \subseteq Transactions
  /\ \A t \in T : t.uid \in DOMAIN R /\ (t.tx = "request" => t.le # 0)
  /\ F \subseteq Files /\ \A f \in F : f.uid \in DOMAIN R /\ R[f.uid].name = f.name
  /\ \A f, g \in F : f.name = g.name => f = g
  /\ K \in RoleRecords
  /\ s \notin Creators => \A u \in DOMAIN R : R[u].name = "peer"
  /\ Fixed(s) =>
       /\ \A u \in DOMAIN R : R[u].fuid # 0 /\ R[u].keys # 0 /\ R[u].keys = K.keys
       /\ \A t \in T : t.rmt \/ ~t.vacuous
       /\ \A f \in F : f.fuid = R[f.uid].fuid

(* The other fields. *)
Misc(S) ==
  /\ DOMAIN S = StackFields
  /\ S.joinees \in Uids /\ S.puid \in Uids /\ S.savedPuid \in Uids
  /\ S.ghost \in Remotes /\ S.raised \in BOOLEAN
  /\ S.restarts \in 0 .. MaxRestart /\ S.keys \in 1 .. S.restarts + 1

Sound(s, S) == Misc(S) /\ Core(s, S.remotes, S.names, S.trans, S.files, S.role)

PacketOK(p) ==
  /\ p \in Packets
  /\ p.pk = "request" => p.se # 0
  /\ p.pk \in {"request", "response"} => p.keys # 0

IInv ==
  /\ DOMAIN stack = Stacks /\ \A s \in Stacks : Sound(s, stack[s])
  /\ stack["a"].restarts + stack["b"].restarts <= MaxRestart
  /\ \A p \in net : PacketOK(p)

(* Credentials are the same where a remote is still there. *)
SameRemotes(R, Q) ==
  \A u \in DOMAIN R \cap DOMAIN Q :
    Q[u].name = R[u].name /\ Q[u].fuid = R[u].fuid /\ Q[u].keys = R[u].keys

(* What a handler of s may make of S. *)
Fine(s, S, d) ==
  /\ Sound(s, d.st) /\ d.st.restarts = S.restarts
  /\ \A p \in d.out : PacketOK(p)
  /\ Fixed(s) => SameRemotes(S.remotes, d.st.remotes)

-----------------------------------------------------------------------------
(* What the operations on the parts keep.                                   *)

LEMMA Ids ==
  /\ \A s \in Stacks : Other(s) \in Stacks /\ Other(s) # s
  /\ Stacks = {"a", "b"}
  /\ 0 \in Uids /\ 1 \in Uids /\ LocalUid \in Uids /\ 0 \in Tids /\ 0 \in KeyGens /\ 1 \in KeyGens
  /\ Uids \subseteq Nat /\ KeyGens \subseteq Nat /\ Tids \subseteq Nat
  /\ MaxUid \in Nat /\ MaxTid \in Nat /\ MaxRestart \in Nat
BY ConstantsAssumption DEF Stacks, Other, Uids, LocalUid, Tids, KeyGens

LEMMA FewerJoins ==
  ASSUME NEW s, NEW R, NEW N, NEW T, NEW F, NEW K, Core(s, R, N, T, F, K),
         NEW V \in SUBSET T
  PROVE  Core(s, R, N, V, F, K)
BY DEF Core

LEMMA AnotherJoin ==
  ASSUME NEW s, NEW R, NEW N, NEW T, NEW F, NEW K, Core(s, R, N, T, F, K),
         NEW t \in Transactions, t.uid \in DOMAIN R, Fixed(s) => t.rmt \/ ~t.vacuous,
         t.tx = "request" => t.le # 0
  PROVE  Core(s, R, N, T \cup {t}, F, K)
BY DEF Core

LEMMA OtherRole ==
  ASSUME NEW s, NEW R, NEW N, NEW T, NEW F, NEW K, Core(s, R, N, T, F, K),
         NEW L \in RoleRecords, Fixed(s) => L.keys = K.keys \/ DOMAIN R = {}
  PROVE  Core(s, R, N, T, F, L)
BY DEF Core

(* R with the record of u replaced by r. *)
Changed(R, u, r, Q) ==
  /\ DOMAIN Q = DOMAIN R /\ Q[u] = r
  /\ \A v \in DOMAIN R : v # u => Q[v] = R[v]

LEMMA RemoteChanges ==
  ASSUME NEW s, NEW R, NEW N, NEW T, NEW F, NEW K, Core(s, R, N, T, F, K),
         NEW u \in DOMAIN R, NEW r \in Remotes, NEW Q, Changed(R, u, r, Q), r.name = R[u].name,
         Fixed(s) => r.fuid = R[u].fuid /\ r.keys = R[u].keys
  PROVE  /\ Core(s, Q, N, T, F, K)
         /\ Fixed(s) => SameRemotes(R, Q)
<1>1. \A v \in DOMAIN R : Q[v] \in Remotes /\ Q[v].name = R[v].name
  BY DEF Changed, Core
<1>2. DOMAIN Q = DOMAIN R
  BY DEF Changed
<1>3. Fixed(s) => \A v \in DOMAIN R : Q[v].fuid = R[v].fuid /\ Q[v].keys = R[v].keys
  BY DEF Changed
<1>4. Fixed(s) =>
       /\ \A v \in DOMAIN Q : Q[v].fuid # 0 /\ Q[v].keys # 0 /\ Q[v].keys = K.keys
       /\ \A t \in T : t.rmt \/ ~t.vacuous
       /\ \A f \in F : f.fuid = Q[f.uid].fuid
  BY <1>2, <1>3 DEF Core
<1>5. /\ \A n \in DOMAIN N : N[n] \in DOMAIN Q /\ Q[N[n]].name = n
      /\ \A v \in DOMAIN Q : Q[v].name \in DOMAIN N /\ N[Q[v].name] = v
      /\ \A f \in F : f.uid \in DOMAIN Q /\ Q[f.uid].name = f.name
      /\ s \notin Creators => \A v \in DOMAIN Q : Q[v].name = "peer"
  BY <1>1, <1>2 DEF Core
<1>6. Core(s, Q, N, T, F, K)
  BY <1>1, <1>2, <1>4, <1>5 DEF Core
<1> QED
  BY <1>1, <1>2, <1>3, <1>6 DEF SameRemotes

(* dumpRemote *)
FileOf(R, u) == [name |-> R[u].name, uid |-> u, fuid |-> R[u].fuid, joined |-> R[u].joined]

LEMMA RemoteDumped ==
  ASSUME NEW s, NEW R, NEW N, NEW T, NEW F, NEW K, Core(s, R, N, T, F, K), NEW u \in DOMAIN R
  PROVE  Core(s, R, N, T, {f \in F : f.name # R[u].name} \cup {FileOf(R, u)}, K)
<1> DEFINE g == FileOf(R, u)
           G == {f \in F : f.name # R[u].name} \cup {g}
<1>1. R[u] \in Remotes /\ u \in Uids
  BY DEF Core
<1>2. g \in Files /\ g.name = R[u].name /\ g.uid = u /\ g.fuid = R[u].fuid
  BY <1>1 DEF FileOf, Files, Remotes
<1> HIDE DEF g
<1>3. G \subseteq Files /\ (\A f, h \in G : f.name = h.name => f = h)
  BY <1>2 DEF Core
<1>4. \A f \in G : f.uid \in DOMAIN R /\ R[f.uid].name = f.name
  BY <1>2 DEF Core
<1>5. Fixed(s) => \A f \in G : f.fuid = R[f.uid].fuid
  BY <1>2 DEF Core
<1> HIDE DEF G
<1>6. Core(s, R, N, T, G, K)
  BY <1>3, <1>4, <1>5 DEF Core
<1> QED
  BY <1>6 DEF G, g

(* removeRemote *)
LEMMA RemoteRemoved ==
  ASSUME NEW s, NEW R, NEW N, NEW T, NEW F, NEW K, Core(s, R, N, T, F, K), NEW u \in DOMAIN R
  PROVE  /\ Core(s, Drop(R, u), Drop(N, R[u].name), T \ {t \in T : t.uid = u},
                 {f \in F : f.name # R[u].name}, K)
         /\ SameRemotes(R, Drop(R, u))
<1> DEFINE Q == Drop(R, u)
           M == Drop(N, R[u].name)
           V == T \ {t \in T : t.uid = u}
           G == {f \in F : f.name # R[u].name}
<1>1. DOMAIN Q = DOMAIN R \ {u} /\ \A v \in DOMAIN Q : Q[v] = R[v]
  BY DEF Drop
<1>2. DOMAIN M = DOMAIN N \ {R[u].name} /\ \A n \in DOMAIN M : M[n] = N[n]
  BY DEF Drop
<1> HIDE DEF Q, M
<1>3. \A n \in DOMAIN M : M[n] \in DOMAIN Q /\ Q[M[n]].name = n
  BY <1>1, <1>2 DEF Core
<1>4. \A v \in DOMAIN Q : Q[v].name \in DOMAIN M /\ M[Q[v].name] = v
  BY <1>1, <1>2 DEF Core
<1>5. \A f \in G : f.uid \in DOMAIN Q /\ Q[f.uid].name = f.name
  BY <1>1 DEF Core
<1>6. /\ V \subseteq Transactions
      /\ \A t \in V : t.uid \in DOMAIN Q /\ (t.tx = "request" => t.le # 0)
  BY <1>1 DEF Core
<1>7. /\ DOMAIN Q \subseteq Uids \ {0} /\ \A v \in DOMAIN Q : Q[v] \in Remotes
      /\ DOMAIN M \subseteq Names /\ G \subseteq Files
      /\ s \notin Creators => \A v \in DOMAIN Q : Q[v].name = "peer"
      /\ \A f, g \in G : f.name = g.name => f = g
      /\ K \in RoleRecords
  BY <1>1, <1>2 DEF Core
<1>8. Fixed(s) =>
       /\ \A v \in DOMAIN Q : Q[v].fuid # 0 /\ Q[v].keys # 0 /\ Q[v].keys = K.keys
       /\ \A t \in V : t.rmt \/ ~t.vacuous
       /\ \A f \in G : f.fuid = Q[f.uid].fuid
  BY <1>1, <1>5 DEF Core
<1>9. Core(s, Q, M, V, G, K)
  BY <1>3, <1>4, <1>5, <1>6, <1>7, <1>8 DEF Core
<1>10. SameRemotes(R, Q)
  BY <1>1 DEF SameRemotes
<1> QED
  BY <1>9, <1>10 DEF Q, M

(* renameRemote *)
LEMMA RemoteRenamed ==
  ASSUME NEW s, NEW R, NEW N, NEW T, NEW F, NEW K, Core(s, R, N, T, F, K), NEW u \in DOMAIN R,
         R[u].name # "peer", "peer" \notin DOMAIN N \/ N["peer"] = u
  PROVE  Core(s, [R EXCEPT ![u].name = "peer"], Put(Drop(N, R[u].name), "peer", u), T,
              {f \in F : f.name # R[u].name}, K)
<1> DEFINE r == [R[u] EXCEPT !.name = "peer"]
           Q == [R EXCEPT ![u].name = "peer"]
           M == Put(Drop(N, R[u].name), "peer", u)
           G == {f \in F : f.name # R[u].name}
<1>0. R[u] \in Remotes /\ "peer" \in Names
  BY DEF Core, Names
<1>1. DOMAIN Q = DOMAIN R /\ Q[u] = r /\ \A v \in DOMAIN R : v # u => Q[v] = R[v]
  OBVIOUS
<1>2. r \in Remotes
  BY <1>0, Zenon DEF Remotes
<1>3. r.name = "peer" /\ r.fuid = R[u].fuid /\ r.keys = R[u].keys
  BY <1>0 DEF Remotes
<1>4. /\ DOMAIN M = (DOMAIN N \ {R[u].name}) \cup {"peer"} /\ M["peer"] = u
      /\ \A n \in DOMAIN M : n # "peer" => M[n] = N[n]
  BY DEF Put, Drop
<1> HIDE DEF r, Q, M
<1>5. "peer" \notin DOMAIN N
  BY DEF Core
<1>6. \A n \in DOMAIN M : M[n] \in DOMAIN Q /\ Q[M[n]].name = n
  <2> SUFFICES ASSUME NEW n \in DOMAIN M, n # "peer" PROVE M[n] \in DOMAIN Q /\ Q[M[n]].name = n
    BY <1>1, <1>3, <1>4
  <2>1. n \in DOMAIN N /\ n # R[u].name /\ M[n] = N[n]
    BY <1>4
  <2>2. N[n] \in DOMAIN R /\ R[N[n]].name = n
    BY <2>1 DEF Core
  <2>3. N[n] # u
    BY <2>1, <2>2
  <2> QED
    BY <1>1, <2>1, <2>2, <2>3
<1>7. \A v \in DOMAIN Q : Q[v].name \in DOMAIN M /\ M[Q[v].name] = v
  <2> SUFFICES ASSUME NEW v \in DOMAIN R, v # u PROVE Q[v].name \in DOMAIN M /\ M[Q[v].name] = v
    BY <1>1, <1>3, <1>4
  <2>1. Q[v].name = R[v].name /\ R[v].name \in DOMAIN N /\ N[R[v].name] = v /\ N[R[u].name] = u
    BY <1>1 DEF Core
  <2>2. R[v].name # R[u].name /\ R[v].name # "peer"
    BY <1>5, <2>1
  <2> QED
    BY <1>4, <2>1, <2>2
<1>8. \A f \in G : f.uid \in DOMAIN Q /\ Q[f.uid].name = f.name
  BY <1>1 DEF Core
<1>9. /\ DOMAIN Q \subseteq Uids \ {0} /\ \A v \in DOMAIN Q : Q[v] \in Remotes
      /\ DOMAIN M \subseteq Names /\ G \subseteq Files
      /\ s \notin Creators => \A v \in DOMAIN Q : Q[v].name = "peer"
      /\ \A f, g \in G : f.name = g.name => f = g
      /\ K \in RoleRecords /\ T \subseteq Transactions
      /\ \A t \in T : t.uid \in DOMAIN Q /\ (t.tx = "request" => t.le # 0)
  BY <1>0, <1>1, <1>2, <1>3, <1>4 DEF Core
<1>10. ~Fixed(s)
  BY DEF Fixed, Core
<1>11. Core(s, Q, M, T, G, K)
  BY <1>6, <1>7, <1>8, <1>9, <1>10 DEF Core
<1> QED
  BY <1>11 DEF Q, M

(* addRemote with its name. *)
LEMMA RemoteAdded ==
  ASSUME NEW s, NEW R, NEW N, NEW T, NEW F, NEW K, Core(s, R, N, T, F, K),
         NEW u \in Uids \ {0}, u \notin DOMAIN R, NEW r \in Remotes, r.name \notin DOMAIN N,
         s \notin Creators => r.name = "peer",
         Fixed(s) => r.fuid # 0 /\ r.keys # 0 /\ r.keys = K.keys
  PROVE  /\ Core(s, Put(R, u, r), Put(N, r.name, u), T, F, K)
         /\ SameRemotes(R, Put(R, u, r))
<1> DEFINE Q == Put(R, u, r)
           M == Put(N, r.name, u)
<1>1. DOMAIN Q = DOMAIN R \cup {u} /\ Q[u] = r /\ \A v \in DOMAIN R : Q[v] = R[v]
  BY DEF Put
<1>2. DOMAIN M = DOMAIN N \cup {r.name} /\ M[r.name] = u /\ \A n \in DOMAIN N : M[n] = N[n]
  BY DEF Put
<1>3. r.name \in Names
  BY DEF Remotes
<1> HIDE DEF Q, M
<1>4. \A n \in DOMAIN M : M[n] \in DOMAIN Q /\ Q[M[n]].name = n
  BY <1>1, <1>2 DEF Core
<1>5. \A v \in DOMAIN Q : Q[v].name \in DOMAIN M /\ M[Q[v].name] = v
  BY <1>1, <1>2 DEF Core
<1>6. \A f \in F : f.uid \in DOMAIN Q /\ Q[f.uid].name = f.name
  BY <1>1 DEF Core
<1>7. /\ DOMAIN Q \subseteq Uids \ {0} /\ \A v \in DOMAIN Q : Q[v] \in Remotes
      /\ DOMAIN M \subseteq Names /\ F \subseteq Files
      /\ s \notin Creators => \A v \in DOMAIN Q : Q[v].name = "peer"
      /\ \A f, g \in F : f.name = g.name => f = g
      /\ K \in RoleRecords /\ T \subseteq Transactions
      /\ \A t \in T : t.uid \in DOMAIN Q /\ (t.tx = "request" => t.le # 0)
  BY <1>1, <1>2, <1>3 DEF Core
<1>8. Fixed(s) =>
       /\ \A v \in DOMAIN Q : Q[v].fuid # 0 /\ Q[v].keys # 0 /\ Q[v].keys = K.keys
       /\ \A t \in T : t.rmt \/ ~t.vacuous
       /\ \A f \in F : f.fuid = Q[f.uid].fuid
  BY <1>1, <1>6 DEF Core
<1>9. Core(s, Q, M, T, F, K)
  BY <1>4, <1>5, <1>6, <1>7, <1>8 DEF Core
<1>10. SameRemotes(R, Q)
  BY <1>1 DEF SameRemotes
<1> QED
  BY <1>9, <1>10 DEF Q, M

-----------------------------------------------------------------------------
(* What the operations on a stack keep.                                     *)

(* The remotes of T are those of S, and on a fixed road unchanged. *)
Keeps(s, S, T) ==
  /\ Sound(s, T) /\ T.restarts = S.restarts
  /\ DOMAIN T.remotes = DOMAIN S.remotes
  /\ Fixed(s) => SameRemotes(S.remotes, T.remotes)

LEMMA KeepsItself ==
  ASSUME NEW s, NEW S, Sound(s, S)
  PROVE  Keeps(s, S, S)
BY DEF Keeps, SameRemotes

LEMMA KeepsOn ==
  ASSUME NEW s, NEW S, NEW T, NEW U, Keeps(s, S, T), Keeps(s, T, U)
  PROVE  Keeps(s, S, U)
BY DEF Keeps, SameRemotes

LEMMA KeepsFine ==
  ASSUME NEW s, NEW S, NEW T, NEW d, Keeps(s, S, T), Fine(s, T, d)
  PROVE  Fine(s, S, d)
<1>1. Sound(s, d.st) /\ d.st.restarts = S.restarts /\ \A p \in d.out : PacketOK(p)
  BY DEF Keeps, Fine
<1>2. Fixed(s) => SameRemotes(S.remotes, d.st.remotes)
  BY DEF Keeps, Fine, SameRemotes
<1> QED
  BY <1>1, <1>2 DEF Fine

LEMMA KeptIsFine ==
  ASSUME NEW s, NEW S, NEW T, Keeps(s, S, T), NEW out, \A p \in out : PacketOK(p)
  PROVE  Fine(s, S, Did(T, out))
BY DEF Keeps, Fine, Did

LEMMA SoundFields ==
  ASSUME NEW s, NEW S, Sound(s, S)
  PROVE  /\ DOMAIN S = StackFields /\ Core(s, S.remotes, S.names, S.trans, S.files, S.role)
         /\ S.role \in RoleRecords /\ S.trans \subseteq Transactions
         /\ DOMAIN S.remotes \subseteq Uids \ {0}
         /\ \A u \in DOMAIN S.remotes : S.remotes[u] \in Remotes
         /\ \A t \in S.trans : t.uid \in DOMAIN S.remotes /\ t \in Transactions
         /\ S.joinees \in Uids /\ S.ghost \in Remotes /\ S.puid \in Uids
BY DEF Sound, Misc, Core

(* Everything but the joins, joinees and an exception stays. *)
LEMMA JoinsChange ==
  ASSUME NEW s, NEW S, Sound(s, S), NEW T, DOMAIN T = StackFields,
         /\ T.remotes = S.remotes /\ T.names = S.names /\ T.files = S.files /\ T.role = S.role
         /\ T.puid = S.puid /\ T.savedPuid = S.savedPuid /\ T.ghost = S.ghost
         /\ T.restarts = S.restarts /\ T.keys = S.keys,
         T.joinees \in Uids, T.raised \in BOOLEAN,
         Core(s, S.remotes, S.names, T.trans, S.files, S.role)
  PROVE  Keeps(s, S, T)
BY DEF Keeps, Sound, Misc, SameRemotes

LEMMA Added ==
  ASSUME NEW s, NEW S, Sound(s, S), NEW t \in Transactions, t.uid \in DOMAIN S.remotes,
         Fixed(s) => t.rmt \/ ~t.vacuous, t.tx = "request" => t.le # 0
  PROVE  Keeps(s, S, Add(S, t)) /\ Add(S, t).remotes = S.remotes
<1>1. /\ DOMAIN S = StackFields /\ Core(s, S.remotes, S.names, S.trans, S.files, S.role)
      /\ S.joinees \in Uids /\ S.raised \in BOOLEAN /\ t.uid \in Uids /\ TRUE \in BOOLEAN
  BY DEF Sound, Misc, Transactions
<1>2. Core(s, S.remotes, S.names, S.trans \cup {t}, S.files, S.role)
  BY <1>1, AnotherJoin
<1>3. CASE \E x \in Joins(S, t.uid) : Index(x) = Index(t)
  <2> DEFINE T == [S EXCEPT !.raised = TRUE]
  <2>1. Add(S, t) = T
    BY <1>3 DEF Add
  <2>2. /\ DOMAIN T = StackFields
        /\ T.remotes = S.remotes /\ T.names = S.names /\ T.files = S.files /\ T.role = S.role
        /\ T.puid = S.puid /\ T.savedPuid = S.savedPuid /\ T.ghost = S.ghost
        /\ T.restarts = S.restarts /\ T.keys = S.keys
        /\ T.joinees = S.joinees /\ T.raised = TRUE /\ T.trans = S.trans
    BY <1>1 DEF StackFields
  <2> HIDE DEF T
  <2>3. Keeps(s, S, T)
    BY <1>1, <2>2, JoinsChange
  <2> QED
    BY <2>1, <2>2, <2>3
<1>4. CASE ~ \E x \in Joins(S, t.uid) : Index(x) = Index(t)
  <2> DEFINE j == IF t.vacuous THEN t.uid ELSE S.joinees
             T == [S EXCEPT !.trans = S.trans \cup {t}, !.joinees = j]
  <2>1. Add(S, t) = T
    BY <1>4 DEF Add
  <2>2. /\ DOMAIN T = StackFields
        /\ T.remotes = S.remotes /\ T.names = S.names /\ T.files = S.files /\ T.role = S.role
        /\ T.puid = S.puid /\ T.savedPuid = S.savedPuid /\ T.ghost = S.ghost
        /\ T.restarts = S.restarts /\ T.keys = S.keys
        /\ T.joinees = j /\ T.raised = S.raised /\ T.trans = S.trans \cup {t}
    BY <1>1 DEF StackFields
  <2>3. j \in Uids
    BY <1>1
  <2> HIDE DEF T, j
  <2>4. Keeps(s, S, T)
    BY <1>1, <1>2, <2>2, <2>3, JoinsChange
  <2> QED
    BY <2>1, <2>2, <2>4
<1> QED
  BY <1>3, <1>4

LEMMA Removed ==
  ASSUME NEW s, NEW S, Sound(s, S), NEW t
  PROVE  /\ Keeps(s, S, Remove(S, t)) /\ Remove(S, t).remotes = S.remotes
         /\ Remove(S, t).names = S.names
         /\ Remove(S, t).role = S.role /\ Remove(S, t).trans = S.trans \ {t}
<1> DEFINE j == IF t.vacuous /\ (\A x \in S.trans \ {t} : x.uid # t.uid) THEN 0 ELSE S.joinees
           T == [S EXCEPT !.trans = S.trans \ {t}, !.joinees = j]
<1>1. Remove(S, t) = T
  BY DEF Remove
<1>2. /\ DOMAIN S = StackFields /\ Core(s, S.remotes, S.names, S.trans, S.files, S.role)
      /\ S.joinees \in Uids /\ S.raised \in BOOLEAN /\ 0 \in Uids
  BY Ids DEF Sound, Misc
<1>3. /\ DOMAIN T = StackFields
      /\ T.remotes = S.remotes /\ T.names = S.names /\ T.files = S.files /\ T.role = S.role
      /\ T.puid = S.puid /\ T.savedPuid = S.savedPuid /\ T.ghost = S.ghost
      /\ T.restarts = S.restarts /\ T.keys = S.keys
      /\ T.joinees = j /\ T.raised = S.raised /\ T.trans = S.trans \ {t}
  BY <1>2 DEF StackFields
<1>4. j \in Uids
  BY <1>2
<1>5. Core(s, S.remotes, S.names, S.trans \ {t}, S.files, S.role)
  BY <1>2, FewerJoins
<1> HIDE DEF T, j
<1>6. Keeps(s, S, T)
  BY <1>2, <1>3, <1>4, <1>5, JoinsChange
<1> QED
  BY <1>1, <1>3, <1>6

LEMMA SentKeeps ==
  ASSUME NEW s, NEW S, Sound(s, S), NEW t \in Transactions, t.uid \in DOMAIN S.remotes,
         Fixed(s) => t.rmt \/ ~t.vacuous, NEW pk \in {"response", "pend"}
  PROVE  Keeps(s, S, Sent(S, t, pk)) /\ Sent(S, t, pk).remotes = S.remotes
<1> DEFINE x == [t EXCEPT !.tx = pk]
           V == (S.trans \ {t}) \cup {x}
           T == [S EXCEPT !.trans = V]
<1>1. Sent(S, t, pk) = T
  BY DEF Sent
<1>2. /\ DOMAIN S = StackFields /\ Core(s, S.remotes, S.names, S.trans, S.files, S.role)
      /\ S.joinees \in Uids /\ S.raised \in BOOLEAN
  BY DEF Sound, Misc
<1>3. /\ DOMAIN T = StackFields
      /\ T.remotes = S.remotes /\ T.names = S.names /\ T.files = S.files /\ T.role = S.role
      /\ T.puid = S.puid /\ T.savedPuid = S.savedPuid /\ T.ghost = S.ghost
      /\ T.restarts = S.restarts /\ T.keys = S.keys
      /\ T.joinees = S.joinees /\ T.raised = S.raised /\ T.trans = V
  BY <1>2 DEF StackFields
<1>4. x \in Transactions
  <2>1. pk \in {"request", "response", "pend"}
    OBVIOUS
  <2> QED
    BY <2>1, Zenon DEF Transactions
<1>5. x.uid = t.uid /\ x.tx = pk
  BY DEF Transactions
<1>6. x.rmt = t.rmt
  BY DEF Transactions
<1>7. x.vacuous = t.vacuous
  BY DEF Transactions
<1> HIDE DEF x
<1>8. Core(s, S.remotes, S.names, S.trans \ {t}, S.files, S.role)
  BY <1>2, FewerJoins
<1>9. Fixed(s) => x.rmt \/ ~x.vacuous
  BY <1>6, <1>7
<1>10. Core(s, S.remotes, S.names, V, S.files, S.role)
  BY <1>4, <1>5, <1>8, <1>9, AnotherJoin
<1> HIDE DEF T, V
<1>11. Keeps(s, S, T)
  BY <1>2, <1>3, <1>10, JoinsChange
<1> QED
  BY <1>1, <1>3, <1>11

(* The record r of a remote with one field changed is one. *)
LEMMA RemoteRecord ==
  ASSUME NEW r \in Remotes
  PROVE  /\ r.name \in Names /\ r.fuid \in Uids /\ r.keys \in KeyGens /\ r.tid \in Tids
         /\ \A b \in BOOLEAN : [r EXCEPT !.joined = b] \in Remotes
         /\ \A b \in Statuses : [r EXCEPT !.acceptance = b] \in Remotes
         /\ \A b \in Uids : [r EXCEPT !.fuid = b] \in Remotes
         /\ \A b \in KeyGens : [r EXCEPT !.keys = b] \in Remotes
         /\ \A b \in Tids : [r EXCEPT !.tid = b] \in Remotes
         /\ \A b \in Names : [r EXCEPT !.name = b] \in Remotes
<1>1. r.name \in Names /\ r.fuid \in Uids /\ r.keys \in KeyGens /\ r.tid \in Tids
  BY DEF Remotes
<1>2. \A b \in BOOLEAN : [r EXCEPT !.joined = b] \in Remotes
  BY Zenon DEF Remotes
<1>3. \A b \in Statuses : [r EXCEPT !.acceptance = b] \in Remotes
  BY Zenon DEF Remotes
<1>4. \A b \in Uids : [r EXCEPT !.fuid = b] \in Remotes
  BY Zenon DEF Remotes
<1>5. \A b \in KeyGens : [r EXCEPT !.keys = b] \in Remotes
  BY Zenon DEF Remotes
<1>6. \A b \in Tids : [r EXCEPT !.tid = b] \in Remotes
  BY Zenon DEF Remotes
<1>7. \A b \in Names : [r EXCEPT !.name = b] \in Remotes
  BY Zenon DEF Remotes
<1> QED
  BY <1>1, <1>2, <1>3, <1>4, <1>5, <1>6, <1>7

(* Only the remotes change. *)
OnlyRemotes(S, T, R) ==
  /\ DOMAIN T = StackFields /\ T.remotes = R
  /\ T.names = S.names /\ T.trans = S.trans /\ T.files = S.files /\ T.role = S.role
  /\ T.joinees = S.joinees /\ T.puid = S.puid /\ T.savedPuid = S.savedPuid
  /\ T.ghost = S.ghost /\ T.restarts = S.restarts /\ T.keys = S.keys /\ T.raised = S.raised

LEMMA RemotesReplaced ==
  ASSUME NEW S, DOMAIN S = StackFields, NEW R
  PROVE  OnlyRemotes(S, [S EXCEPT !.remotes = R], R)
BY DEF OnlyRemotes, StackFields

LEMMA RemoteSet ==
  ASSUME NEW s, NEW S, Sound(s, S), NEW u \in DOMAIN S.remotes, NEW r \in Remotes,
         r.name = S.remotes[u].name,
         Fixed(s) => r.fuid = S.remotes[u].fuid /\ r.keys = S.remotes[u].keys,
         NEW R, Changed(S.remotes, u, r, R), NEW T, OnlyRemotes(S, T, R)
  PROVE  Keeps(s, S, T) /\ T.remotes[u] = r
<1>1. Core(s, S.remotes, S.names, S.trans, S.files, S.role)
  BY SoundFields
<1>2. Core(s, R, S.names, S.trans, S.files, S.role) /\ (Fixed(s) => SameRemotes(S.remotes, R))
  BY <1>1, RemoteChanges
<1>3. T.remotes = R /\ DOMAIN R = DOMAIN S.remotes /\ R[u] = r /\ T.restarts = S.restarts
  BY DEF OnlyRemotes, Changed
<1>4. Misc(T)
  BY DEF OnlyRemotes, Sound, Misc
<1>5. Core(s, T.remotes, T.names, T.trans, T.files, T.role)
  BY <1>2 DEF OnlyRemotes
<1> QED
  BY <1>2, <1>3, <1>4, <1>5 DEF Keeps, Sound

(* A record put in place of the one there. *)
LEMMA Updated ==
  ASSUME NEW s, NEW S, Sound(s, S), NEW u \in DOMAIN S.remotes, NEW r \in Remotes,
         r.name = S.remotes[u].name,
         Fixed(s) => r.fuid = S.remotes[u].fuid /\ r.keys = S.remotes[u].keys
  PROVE  /\ Keeps(s, S, Update(S, u, r)) /\ Update(S, u, r).remotes[u] = r
         /\ OnlyRemotes(S, Update(S, u, r), Update(S, u, r).remotes)
<1> DEFINE R == Put(S.remotes, u, r)
<1>1. Changed(S.remotes, u, r, R)
  BY DEF Changed, Put
<1>2. OnlyRemotes(S, Update(S, u, r), R)
  BY SoundFields, RemotesReplaced DEF Update
<1> HIDE DEF R
<1>3. Update(S, u, r).remotes = R
  BY <1>2 DEF OnlyRemotes
<1> QED
  BY <1>1, <1>2, <1>3, RemoteSet

LEMMA SetField ==
  ASSUME NEW S, DOMAIN S = StackFields, NEW u \in DOMAIN S.remotes, NEW r, NEW T,
         T = [S EXCEPT !.remotes = [S.remotes EXCEPT ![u] = r]]
  PROVE  /\ Changed(S.remotes, u, r, T.remotes) /\ OnlyRemotes(S, T, T.remotes)
<1> DEFINE R == [S.remotes EXCEPT ![u] = r]
<1>1. Changed(S.remotes, u, r, R)
  BY DEF Changed
<1> HIDE DEF R
<1>2. OnlyRemotes(S, T, R)
  BY RemotesReplaced DEF R
<1>3. T.remotes = R
  BY <1>2 DEF OnlyRemotes
<1> QED
  BY <1>1, <1>2, <1>3

(* joined and acceptance may be set anywhere. *)
LEMMA JoinedSet ==
  ASSUME NEW s, NEW S, Sound(s, S), NEW u \in DOMAIN S.remotes, NEW b \in BOOLEAN
  PROVE  /\ Keeps(s, S, [S EXCEPT !.remotes[u].joined = b])
         /\ [S EXCEPT !.remotes[u].joined = b].remotes[u] = [S.remotes[u] EXCEPT !.joined = b]
<1> DEFINE r == [S.remotes[u] EXCEPT !.joined = b]
           T == [S EXCEPT !.remotes[u].joined = b]
<1>1. S.remotes[u] \in Remotes /\ DOMAIN S = StackFields
  BY SoundFields
<1>2. r \in Remotes
  BY <1>1, RemoteRecord
<1>3. r.name = S.remotes[u].name /\ r.fuid = S.remotes[u].fuid /\ r.keys = S.remotes[u].keys
  BY <1>1 DEF Remotes
<1>4. T = [S EXCEPT !.remotes = [S.remotes EXCEPT ![u] = r]]
  OBVIOUS
<1> HIDE DEF r, T
<1>5. Changed(S.remotes, u, r, T.remotes) /\ OnlyRemotes(S, T, T.remotes)
  BY <1>1, <1>4, SetField
<1>6. Keeps(s, S, T) /\ T.remotes[u] = r
  BY <1>2, <1>3, <1>5, RemoteSet
<1> QED
  BY <1>6 DEF r, T

LEMMA AcceptanceSet ==
  ASSUME NEW s, NEW S, Sound(s, S), NEW u \in DOMAIN S.remotes, NEW b \in Statuses
  PROVE  /\ Keeps(s, S, [S EXCEPT !.remotes[u].acceptance = b])
         /\ [S EXCEPT !.remotes[u].acceptance = b].remotes[u]
              = [S.remotes[u] EXCEPT !.acceptance = b]
         /\ OnlyRemotes(S, [S EXCEPT !.remotes[u].acceptance = b],
                        [S EXCEPT !.remotes[u].acceptance = b].remotes)
<1> DEFINE r == [S.remotes[u] EXCEPT !.acceptance = b]
           T == [S EXCEPT !.remotes[u].acceptance = b]
<1>1. S.remotes[u] \in Remotes /\ DOMAIN S = StackFields
  BY SoundFields
<1>2. r \in Remotes
  BY <1>1, RemoteRecord
<1>3. r.name = S.remotes[u].name /\ r.fuid = S.remotes[u].fuid /\ r.keys = S.remotes[u].keys
  BY <1>1 DEF Remotes
<1>4. T = [S EXCEPT !.remotes = [S.remotes EXCEPT ![u] = r]]
  OBVIOUS
<1> HIDE DEF r, T
<1>5. Changed(S.remotes, u, r, T.remotes) /\ OnlyRemotes(S, T, T.remotes)
  BY <1>1, <1>4, SetField
<1>6. Keeps(s, S, T) /\ T.remotes[u] = r
  BY <1>2, <1>3, <1>5, RemoteSet
<1> QED
  BY <1>5, <1>6 DEF r, T

(* Uid and keys only where the road may change or they are the same. *)
LEMMA FuidSet ==
  ASSUME NEW s, NEW S, Sound(s, S), NEW u \in DOMAIN S.remotes, NEW b \in Uids,
         Fixed(s) => b = S.remotes[u].fuid
  PROVE  /\ Keeps(s, S, [S EXCEPT !.remotes[u].fuid = b])
         /\ [S EXCEPT !.remotes[u].fuid = b].remotes[u] = [S.remotes[u] EXCEPT !.fuid = b]
         /\ OnlyRemotes(S, [S EXCEPT !.remotes[u].fuid = b],
                        [S EXCEPT !.remotes[u].fuid = b].remotes)
<1> DEFINE r == [S.remotes[u] EXCEPT !.fuid = b]
           T == [S EXCEPT !.remotes[u].fuid = b]
<1>1. S.remotes[u] \in Remotes /\ DOMAIN S = StackFields
  BY SoundFields
<1>2. r \in Remotes
  BY <1>1, RemoteRecord
<1>3. r.name = S.remotes[u].name /\ r.fuid = b /\ r.keys = S.remotes[u].keys
  BY <1>1 DEF Remotes
<1>4. T = [S EXCEPT !.remotes = [S.remotes EXCEPT ![u] = r]]
  OBVIOUS
<1> HIDE DEF r, T
<1>5. Changed(S.remotes, u, r, T.remotes) /\ OnlyRemotes(S, T, T.remotes)
  BY <1>1, <1>4, SetField
<1>6. Keeps(s, S, T) /\ T.remotes[u] = r
  BY <1>2, <1>3, <1>5, RemoteSet
<1> QED
  BY <1>5, <1>6 DEF r, T

LEMMA KeysSet ==
  ASSUME NEW s, NEW S, Sound(s, S), NEW u \in DOMAIN S.remotes, NEW b \in KeyGens,
         Fixed(s) => b = S.remotes[u].keys
  PROVE  /\ Keeps(s, S, [S EXCEPT !.remotes[u].keys = b])
         /\ [S EXCEPT !.remotes[u].keys = b].remotes[u] = [S.remotes[u] EXCEPT !.keys = b]
         /\ OnlyRemotes(S, [S EXCEPT !.remotes[u].keys = b],
                        [S EXCEPT !.remotes[u].keys = b].remotes)
<1> DEFINE r == [S.remotes[u] EXCEPT !.keys = b]
           T == [S EXCEPT !.remotes[u].keys = b]
<1>1. S.remotes[u] \in Remotes /\ DOMAIN S = StackFields
  BY SoundFields
<1>2. r \in Remotes
  BY <1>1, RemoteRecord
<1>3. r.name = S.remotes[u].name /\ r.fuid = S.remotes[u].fuid /\ r.keys = b
  BY <1>1 DEF Remotes
<1>4. T = [S EXCEPT !.remotes = [S.remotes EXCEPT ![u] = r]]
  OBVIOUS
<1> HIDE DEF r, T
<1>5. Changed(S.remotes, u, r, T.remotes) /\ OnlyRemotes(S, T, T.remotes)
  BY <1>1, <1>4, SetField
<1>6. Keeps(s, S, T) /\ T.remotes[u] = r
  BY <1>2, <1>3, <1>5, RemoteSet
<1> QED
  BY <1>5, <1>6 DEF r, T

-----------------------------------------------------------------------------
(* Files and the role.                                                      *)

LEMMA StatusTypes ==
  ASSUME NEW s \in Stacks, NEW S, S.role \in RoleRecords, NEW keys \in KeyGens
  PROVE  /\ Status(s, S, keys) \in Statuses /\ Status(s, S, keys) # "none"
         /\ Persisted(AutoMode[s], S.role, keys) \in RoleRecords
         /\ Persisted(AutoMode[s], S.role, keys).keys \in {S.role.keys, keys}
         /\ Status(s, S, keys) # "rejected" => Persisted(AutoMode[s], S.role, keys).keys = keys
         /\ Status(s, S, keys) = "rejected" => Persisted(AutoMode[s], S.role, keys) = S.role
<1>1. AutoMode[s] \in Modes /\ S.role.acceptance \in Statuses
  BY ConstantsAssumption DEF RoleRecords
<1>2. Status(s, S, keys) \in Statuses \ {"none"}
  BY <1>1 DEF Status, StatusRole, FirstStatus, Modes, Statuses
<1>3. Persisted(AutoMode[s], S.role, keys) =
        IF Status(s, S, keys) = "rejected" THEN S.role ELSE RoleData(Status(s, S, keys), keys)
  BY DEF Persisted, Status
<1> QED
  BY <1>2, <1>3 DEF RoleData, RoleRecords

(* Everything but the role and the files stays. *)
LEMMA DiskChanges ==
  ASSUME NEW s, NEW S, Sound(s, S), NEW T, DOMAIN T = StackFields,
         /\ T.remotes = S.remotes /\ T.names = S.names /\ T.trans = S.trans
         /\ T.joinees = S.joinees /\ T.puid = S.puid /\ T.ghost = S.ghost
         /\ T.restarts = S.restarts /\ T.keys = S.keys /\ T.raised = S.raised,
         T.savedPuid \in {S.savedPuid, S.puid},
         Core(s, S.remotes, S.names, S.trans, T.files, T.role)
  PROVE  Keeps(s, S, T)
BY DEF Keeps, Sound, Misc, SameRemotes

LEMMA LocalDumped ==
  ASSUME NEW s, NEW S, Sound(s, S)
  PROVE  Keeps(s, S, DumpLocal(S)) /\ DumpLocal(S).remotes = S.remotes
<1> DEFINE T == [S EXCEPT !.savedPuid = S.puid]
<1>1. DOMAIN S = StackFields /\ Core(s, S.remotes, S.names, S.trans, S.files, S.role)
  BY SoundFields
<1>2. /\ DOMAIN T = StackFields
      /\ T.remotes = S.remotes /\ T.names = S.names /\ T.trans = S.trans
      /\ T.joinees = S.joinees /\ T.puid = S.puid /\ T.ghost = S.ghost
      /\ T.restarts = S.restarts /\ T.keys = S.keys /\ T.raised = S.raised
      /\ T.savedPuid = S.puid /\ T.files = S.files /\ T.role = S.role
  BY <1>1 DEF StackFields
<1> HIDE DEF T
<1>3. Keeps(s, S, T)
  BY <1>1, <1>2, DiskChanges
<1> QED
  BY <1>2, <1>3 DEF T, DumpLocal

LEMMA StatusDumped ==
  ASSUME NEW s \in Stacks, NEW S, Sound(s, S), NEW keys \in KeyGens,
         Fixed(s) => keys = S.role.keys \/ DOMAIN S.remotes = {}
  PROVE  /\ Keeps(s, S, StatusDump(s, S, keys))
         /\ StatusDump(s, S, keys).remotes = S.remotes
         /\ StatusDump(s, S, keys).names = S.names
         /\ StatusDump(s, S, keys).trans = S.trans
         /\ StatusDump(s, S, keys).role = Persisted(AutoMode[s], S.role, keys)
<1> DEFINE K == Persisted(AutoMode[s], S.role, keys)
           T == [S EXCEPT !.role = K]
<1>1. DOMAIN S = StackFields /\ Core(s, S.remotes, S.names, S.trans, S.files, S.role)
      /\ S.role \in RoleRecords
  BY SoundFields
<1>2. K \in RoleRecords /\ K.keys \in {S.role.keys, keys}
  BY <1>1, StatusTypes
<1>3. StatusDump(s, S, keys) = T
  BY DEF StatusDump
<1> HIDE DEF K
<1>4. /\ DOMAIN T = StackFields
      /\ T.remotes = S.remotes /\ T.names = S.names /\ T.trans = S.trans
      /\ T.joinees = S.joinees /\ T.puid = S.puid /\ T.ghost = S.ghost
      /\ T.restarts = S.restarts /\ T.keys = S.keys /\ T.raised = S.raised
      /\ T.savedPuid = S.savedPuid /\ T.files = S.files /\ T.role = K
  BY <1>1 DEF StackFields
<1>5. Core(s, S.remotes, S.names, S.trans, S.files, K)
  BY <1>1, <1>2, OtherRole
<1> HIDE DEF T
<1>6. Keeps(s, S, T)
  BY <1>1, <1>4, <1>5, DiskChanges
<1> QED
  BY <1>3, <1>4, <1>6 DEF K

LEMMA Dumped ==
  ASSUME NEW s, NEW S, Sound(s, S), NEW u \in DOMAIN S.remotes
  PROVE  Keeps(s, S, DumpRemote(S, u)) /\ DumpRemote(S, u).remotes = S.remotes
<1> DEFINE r == S.remotes[u]
           G == {f \in S.files : f.name # r.name} \cup {FileOf(S.remotes, u)}
           K == IF r.keys = 0 THEN S.role ELSE RoleData(r.acceptance, r.keys)
           T == [S EXCEPT !.files = G, !.role = K]
<1>1. DOMAIN S = StackFields /\ Core(s, S.remotes, S.names, S.trans, S.files, S.role)
      /\ S.role \in RoleRecords /\ r \in Remotes
  BY SoundFields
<1>2. DumpRemote(S, u) = T
  BY DEF DumpRemote, FileOf
<1>3. K \in RoleRecords
  BY <1>1 DEF RoleRecords, RoleData, Remotes
<1>4. Fixed(s) => K.keys = S.role.keys
  BY <1>1 DEF Core, RoleData
<1>5. Core(s, S.remotes, S.names, S.trans, G, S.role)
  BY <1>1, RemoteDumped
<1>6. Core(s, S.remotes, S.names, S.trans, G, K)
  <2> HIDE DEF G, K
  <2> QED
    BY <1>3, <1>4, <1>5, OtherRole
<1> HIDE DEF G, K
<1>7. /\ DOMAIN T = StackFields
      /\ T.remotes = S.remotes /\ T.names = S.names /\ T.trans = S.trans
      /\ T.joinees = S.joinees /\ T.puid = S.puid /\ T.ghost = S.ghost
      /\ T.restarts = S.restarts /\ T.keys = S.keys /\ T.raised = S.raised
      /\ T.savedPuid = S.savedPuid /\ T.files = G /\ T.role = K
  BY <1>1 DEF StackFields
<1> HIDE DEF T
<1>8. Keeps(s, S, T)
  BY <1>1, <1>6, <1>7, DiskChanges
<1> QED
  BY <1>2, <1>7, <1>8

LEMMA Renamed ==
  ASSUME NEW s, NEW S, Sound(s, S), NEW u \in DOMAIN S.remotes, ~NameTaken(S, u)
  PROVE  /\ Keeps(s, S, Rename(S, u))
         /\ Rename(S, u).remotes[u].name = "peer"
         /\ Rename(S, u).remotes[u].fuid = S.remotes[u].fuid
         /\ Rename(S, u).remotes[u].keys = S.remotes[u].keys
         /\ Rename(S, u).remotes[u].acceptance = S.remotes[u].acceptance
         /\ Rename(S, u).role = S.role
         /\ S.remotes[u].name = "peer" => Rename(S, u) = S
<1> DEFINE old == S.remotes[u].name
           R == [S.remotes EXCEPT ![u].name = "peer"]
           N == Put(Drop(S.names, old), "peer", u)
           G == {f \in S.files : f.name # old}
           T == [[S EXCEPT !.files = G] EXCEPT !.names = N, !.remotes = R]
<1>1. DOMAIN S = StackFields /\ Core(s, S.remotes, S.names, S.trans, S.files, S.role)
      /\ S.remotes[u] \in Remotes
  BY SoundFields
<1>2. CASE old = "peer"
  <2>1. Rename(S, u) = S
    BY <1>2 DEF Rename
  <2> QED
    BY <1>2, <2>1, KeepsItself
<1>3. CASE old # "peer"
  <2>1. Rename(S, u) = T
    BY <1>3 DEF Rename, ClearFile
  <2>2. Core(s, R, N, S.trans, G, S.role)
    BY <1>1, <1>3, RemoteRenamed DEF NameTaken
  <2>3. DOMAIN R = DOMAIN S.remotes /\ R[u] = [S.remotes[u] EXCEPT !.name = "peer"]
    OBVIOUS
  <2>4. /\ R[u].name = "peer" /\ R[u].fuid = S.remotes[u].fuid /\ R[u].keys = S.remotes[u].keys
        /\ R[u].acceptance = S.remotes[u].acceptance
    BY <1>1, <2>3 DEF Remotes
  <2> HIDE DEF R, N, G
  <2>5. /\ DOMAIN T = StackFields
        /\ T.remotes = R /\ T.names = N /\ T.trans = S.trans
        /\ T.joinees = S.joinees /\ T.puid = S.puid /\ T.ghost = S.ghost
        /\ T.restarts = S.restarts /\ T.keys = S.keys /\ T.raised = S.raised
        /\ T.savedPuid = S.savedPuid /\ T.files = G /\ T.role = S.role
    BY <1>1 DEF StackFields
  <2> HIDE DEF T
  <2>6. Misc(T)
    BY <2>5 DEF Sound, Misc
  <2>7. ~Fixed(s)
    BY <1>1, <1>3 DEF Core, Fixed
  <2>8. Keeps(s, S, T)
    BY <2>2, <2>3, <2>5, <2>6, <2>7 DEF Keeps, Sound
  <2> QED
    BY <1>3, <2>1, <2>4, <2>5, <2>8
<1> QED
  BY <1>2, <1>3

-----------------------------------------------------------------------------
(* Packets.                                                                 *)

PacketKinds == {"request", "response", "pend", "ack", "nack", "refuse", "reject", "renew"}

LEMMA PacketType ==
  ASSUME NEW to \in Stacks, NEW pk \in PacketKinds, NEW cf \in BOOLEAN, NEW se \in Uids,
         NEW de \in Uids, NEW ti \in Tids, NEW keys \in KeyGens, NEW uid \in Uids
  PROVE  [to |-> to, pk |-> pk, cf |-> cf, se |-> se, de |-> de, ti |-> ti,
          keys |-> keys, uid |-> uid] \in Packets
BY Zenon DEF Packets, PacketKinds

(* The keys a stack sends. *)
Keyed(s) == s \in Stacks /\ stack[s].keys \in KeyGens \ {0}

LEMMA PacketSound ==
  ASSUME NEW s, Keyed(s), NEW t \in Transactions, NEW pk \in PacketKinds,
         pk = "request" => t.le # 0
  PROVE  PacketOK(Packet(s, t, pk))
<1> DEFINE p == Packet(s, t, pk)
           k == IF pk \in {"request", "response"} THEN stack[s].keys ELSE 0
           v == IF pk = "response" THEN t.uid ELSE 0
<1>1. Other(s) \in Stacks /\ 0 \in Uids /\ 0 \in KeyGens
  BY Ids DEF Keyed
<1>2. /\ t.uid \in Uids /\ t.le \in Uids /\ t.re \in Uids /\ t.ti \in Tids
  BY DEF Transactions
<1>3. t.rmt \in BOOLEAN
  BY DEF Transactions
<1>4. k \in KeyGens /\ v \in Uids
  BY <1>1, <1>2 DEF Keyed
<1>5. p = [to |-> Other(s), pk |-> pk, cf |-> t.rmt, se |-> t.le, de |-> t.re, ti |-> t.ti,
           keys |-> k, uid |-> v]
  BY DEF Packet
<1>6. pk \in {"request", "response"} => k # 0
  BY DEF Keyed
<1> HIDE DEF k, v
<1>7. p \in Packets
  BY <1>1, <1>2, <1>3, <1>4, <1>5, PacketType
<1>8. p.pk = pk /\ p.se = t.le /\ p.keys = k
  BY <1>5
<1> QED
  BY <1>6, <1>7, <1>8 DEF PacketOK

LEMMA AnswerSound ==
  ASSUME NEW s \in Stacks, NEW p, PacketOK(p), NEW pk \in Nacks
  PROVE  PacketOK(Answer(s, p, pk))
<1> DEFINE q == Answer(s, p, pk)
<1>1. Other(s) \in Stacks /\ 0 \in Uids /\ 0 \in KeyGens
  BY Ids
<1>2. p.se \in Uids /\ p.de \in Uids /\ p.ti \in Tids /\ pk \in PacketKinds
  BY DEF PacketOK, Packets, PacketKinds, Nacks
<1>3. (~p.cf) \in BOOLEAN
  OBVIOUS
<1>4. q = [to |-> Other(s), pk |-> pk, cf |-> ~p.cf, se |-> p.de, de |-> p.se, ti |-> p.ti,
           keys |-> 0, uid |-> 0]
  BY DEF Answer
<1> DEFINE cf == ~p.cf
<1>5. cf \in BOOLEAN /\ q = [to |-> Other(s), pk |-> pk, cf |-> cf, se |-> p.de, de |-> p.se,
                            ti |-> p.ti, keys |-> 0, uid |-> 0]
  BY <1>3, <1>4, Zenon
<1> HIDE DEF cf, q
<1>6. q \in Packets
  BY <1>1, <1>2, <1>5, PacketType
<1>7. q.pk = pk /\ pk \notin {"request", "response"}
  BY <1>5 DEF Nacks
<1> QED
  BY <1>6, <1>7 DEF PacketOK, q

LEMMA RemotesRemoved ==
  ASSUME NEW s, Keyed(s), NEW S, Sound(s, S), NEW u \in DOMAIN S.remotes
  PROVE  Fine(s, S, RemoveRemote(s, S, u))
<1> DEFINE name == S.remotes[u].name
           joins == Joins(S, u)
           R == Drop(S.remotes, u)
           N == Drop(S.names, name)
           V == S.trans \ joins
           G == {f \in S.files : f.name # name}
           vacuous == \E t \in joins : t.vacuous
           j == IF vacuous THEN 0 ELSE S.joinees
           g == IF ~vacuous /\ S.joinees = u THEN S.remotes[u] ELSE S.ghost
           T == [[S EXCEPT !.files = G] EXCEPT
                   !.remotes = R, !.names = N, !.trans = V, !.joinees = j, !.ghost = g]
           out == {Packet(s, t, "nack") : t \in {x \in joins : x.rmt}}
<1>1. DOMAIN S = StackFields /\ Core(s, S.remotes, S.names, S.trans, S.files, S.role)
      /\ S.remotes[u] \in Remotes /\ S.joinees \in Uids /\ S.ghost \in Remotes
      /\ S.trans \subseteq Transactions
  BY SoundFields
<1>2. name \in DOMAIN S.names
  BY <1>1 DEF Core
<1>3. RemoveRemote(s, S, u) = Did(T, out)
  BY <1>2 DEF RemoveRemote, ClearFile
<1>4. Core(s, R, N, V, G, S.role) /\ SameRemotes(S.remotes, R)
  BY <1>1, RemoteRemoved DEF Joins
<1>5. j \in Uids /\ g \in Remotes
  BY <1>1, Ids
<1>6. \A p \in out : PacketOK(p)
  <2> SUFFICES ASSUME NEW t \in joins PROVE PacketOK(Packet(s, t, "nack"))
    OBVIOUS
  <2>1. t \in Transactions
    BY <1>1 DEF Joins
  <2> QED
    BY <2>1, PacketSound DEF PacketKinds
<1> HIDE DEF R, N, V, G, j, g, out
<1>7. /\ DOMAIN T = StackFields
      /\ T.remotes = R /\ T.names = N /\ T.trans = V
      /\ T.joinees = j /\ T.puid = S.puid /\ T.ghost = g
      /\ T.restarts = S.restarts /\ T.keys = S.keys /\ T.raised = S.raised
      /\ T.savedPuid = S.savedPuid /\ T.files = G /\ T.role = S.role
  BY <1>1 DEF StackFields
<1> HIDE DEF T
<1>8. Misc(T)
  BY <1>5, <1>7 DEF Sound, Misc
<1> QED
  BY <1>3, <1>4, <1>6, <1>7, <1>8 DEF Fine, Sound, Did

(* A transaction of the stack. *)
LEMMA JoinFacts ==
  ASSUME NEW s, NEW S, Sound(s, S), NEW t \in S.trans
  PROVE  /\ t \in Transactions /\ t.uid \in DOMAIN S.remotes /\ t.uid \in Uids \ {0}
         /\ Fixed(s) => t.rmt \/ ~t.vacuous
         /\ t.tx = "request" => t.le # 0
         /\ t.tx \in PacketKinds
<1>1. t \in Transactions /\ t.uid \in DOMAIN S.remotes /\ t.uid \in Uids \ {0}
  BY DEF Sound, Core
<1>2. t.tx \in PacketKinds
  BY <1>1 DEF Transactions, PacketKinds
<1> QED
  BY <1>1, <1>2 DEF Sound, Core

LEMMA NackFine ==
  ASSUME NEW s, Keyed(s), NEW S, Sound(s, S), NEW t \in Transactions, NEW pk \in Nacks
  PROVE  Fine(s, S, Nack(s, S, t, pk))
<1>1. PacketOK(Packet(s, t, pk))
  BY PacketSound DEF Nacks, PacketKinds
<1>2. Keeps(s, S, Remove(S, t))
  BY Removed
<1>3. Fine(s, S, Did(Remove(S, t), {Packet(s, t, pk)}))
  BY <1>1, <1>2, KeptIsFine
<1> QED
  BY <1>3 DEF Nack

(* Nothing or less than the state and no packet. *)
LEMMA Quietly ==
  ASSUME NEW s, NEW S, NEW T, Keeps(s, S, T)
  PROVE  Fine(s, S, Did(T, {}))
BY KeptIsFine

LEMMA JoineesSet ==
  ASSUME NEW s, NEW S, Sound(s, S)
  PROVE  /\ Keeps(s, S, [S EXCEPT !.joinees = 0])
         /\ [S EXCEPT !.joinees = 0].remotes = S.remotes
         /\ [S EXCEPT !.joinees = 0].names = S.names
         /\ [S EXCEPT !.joinees = 0].trans = S.trans
         /\ [S EXCEPT !.joinees = 0].joinees = 0
         /\ [S EXCEPT !.joinees = 0].puid = S.puid
<1> DEFINE T == [S EXCEPT !.joinees = 0]
<1>1. /\ DOMAIN S = StackFields /\ Core(s, S.remotes, S.names, S.trans, S.files, S.role)
      /\ S.raised \in BOOLEAN /\ 0 \in Uids
  BY Ids DEF Sound, Misc
<1>2. /\ DOMAIN T = StackFields
      /\ T.remotes = S.remotes /\ T.names = S.names /\ T.files = S.files /\ T.role = S.role
      /\ T.puid = S.puid /\ T.savedPuid = S.savedPuid /\ T.ghost = S.ghost
      /\ T.restarts = S.restarts /\ T.keys = S.keys
      /\ T.joinees = 0 /\ T.raised = S.raised /\ T.trans = S.trans
  BY <1>1 DEF StackFields
<1> HIDE DEF T
<1>3. Keeps(s, S, T)
  BY <1>1, <1>2, JoinsChange
<1> QED
  BY <1>2, <1>3 DEF T

LEMMA RefusedFine ==
  ASSUME NEW s \in Stacks, NEW S, Sound(s, S), NEW p, PacketOK(p), NEW uid, NEW pk \in Nacks
  PROVE  Fine(s, S, Refused(s, S, p, uid, pk))
<1> DEFINE T == IF p.de = 0 /\ Joins(S, uid) = {} THEN [S EXCEPT !.joinees = 0] ELSE S
<1>1. Keeps(s, S, T)
  BY JoineesSet, KeepsItself
<1>2. PacketOK(Answer(s, p, pk))
  BY AnswerSound
<1> HIDE DEF T
<1>3. Fine(s, S, Did(T, {Answer(s, p, pk)}))
  BY <1>1, <1>2, KeptIsFine
<1> QED
  BY <1>3 DEF Refused, T

-----------------------------------------------------------------------------
(* Joiner.                                                                  *)

LEMMA StartJoinFine ==
  ASSUME NEW s, Keyed(s), NEW S, Sound(s, S), NEW uid \in DOMAIN S.remotes,
         S.remotes[uid].tid < MaxTid, NEW renewal \in BOOLEAN
  PROVE  Fine(s, S, StartJoin(s, S, uid, renewal))
<1> DEFINE r == S.remotes[uid]
           q == [r EXCEPT !.tid = @ + 1]
           x == [q EXCEPT !.joined = FALSE]
           y == [r EXCEPT !.tid = @ + 1, !.joined = FALSE]
           v == r.fuid = 0
           t == [rmt |-> FALSE, uid |-> uid, le |-> uid, re |-> r.fuid, ti |-> r.tid + 1,
                 vacuous |-> v, renewal |-> renewal, tx |-> "request"]
           tried == Update(S, uid, q)
           asked == Update(tried, uid, x)
<1>1. /\ r \in Remotes /\ uid \in Uids \ {0} /\ r.fuid \in Uids /\ FALSE \in BOOLEAN
      /\ Core(s, S.remotes, S.names, S.trans, S.files, S.role)
  BY SoundFields, RemoteRecord
<1>2. r.tid + 1 \in Tids
  BY <1>1, RemoteRecord, ConstantsAssumption DEF Tids
<1>3. q \in Remotes /\ q.name = r.name /\ q.fuid = r.fuid /\ q.keys = r.keys
  <2>1. q \in Remotes
    BY <1>1, <1>2, RemoteRecord
  <2> QED
    BY <1>1, <2>1 DEF Remotes
<1>4. x = y
  OBVIOUS
<1>5. x \in Remotes /\ x.name = q.name /\ x.fuid = q.fuid /\ x.keys = q.keys
  <2> HIDE DEF q
  <2>1. x \in Remotes
    BY <1>1, <1>3, RemoteRecord
  <2> QED
    BY <1>3, <2>1 DEF Remotes
<1>6. t \in Transactions
  <2>1. v \in BOOLEAN
    OBVIOUS
  <2>2. "request" \in {"request", "response", "pend"}
    OBVIOUS
  <2> HIDE DEF v, r
  <2> QED
    BY <1>1, <1>2, <2>1, <2>2, Zenon DEF Transactions
<1>7. t.uid = uid /\ t.le = uid /\ (Fixed(s) => ~t.vacuous)
  <2>1. Fixed(s) => r.fuid # 0
    BY <1>1 DEF Core
  <2> QED
    BY <2>1
<1>8. StartJoin(s, S, uid, renewal) =
        IF Joins(S, uid) # {} THEN Did(tried, {})
        ELSE Did(Add(asked, t), {Packet(s, t, "request")})
  <2>1. StartJoin(s, S, uid, renewal) =
          IF Joins(S, uid) # {} THEN Did(tried, {})
          ELSE Did(Add(Update(tried, uid, y), t), {Packet(s, t, "request")})
    BY DEF StartJoin
  <2> QED
    BY <1>4, <2>1
<1> HIDE DEF q, x, y, t
<1>9. Keeps(s, S, tried) /\ tried.remotes[uid] = q
  BY <1>3, Updated
<1> HIDE DEF tried
<1>10. Sound(s, tried) /\ uid \in DOMAIN tried.remotes
  BY <1>9 DEF Keeps
<1>11. Keeps(s, tried, asked)
  BY <1>5, <1>9, <1>10, Updated
<1> HIDE DEF asked
<1>12. Keeps(s, S, asked) /\ Sound(s, asked) /\ uid \in DOMAIN asked.remotes
  BY <1>9, <1>10, <1>11, KeepsOn DEF Keeps
<1>13. Keeps(s, asked, Add(asked, t))
  BY <1>1, <1>6, <1>7, <1>12, Added
<1>14. Keeps(s, S, Add(asked, t))
  BY <1>12, <1>13, KeepsOn
<1>15. PacketOK(Packet(s, t, "request"))
  BY <1>1, <1>6, <1>7, PacketSound DEF PacketKinds
<1>16. Fine(s, S, Did(tried, {})) /\ Fine(s, S, Did(Add(asked, t), {Packet(s, t, "request")}))
  BY <1>9, <1>14, <1>15, KeptIsFine
<1> QED
  BY <1>8, <1>16

(* completify, and complete of the other side. *)
LEMMA Completed ==
  ASSUME NEW s, NEW S, Sound(s, S), NEW t, t.uid \in DOMAIN S.remotes
  PROVE  Keeps(s, S, Remove(DumpLocal(DumpRemote([S EXCEPT !.remotes[t.uid].joined = TRUE], t.uid)), t))
<1> DEFINE A == [S EXCEPT !.remotes[t.uid].joined = TRUE]
           B == DumpRemote(A, t.uid)
           C == DumpLocal(B)
<1>1. Keeps(s, S, A)
  BY JoinedSet
<1> HIDE DEF A
<1>2. Sound(s, A) /\ t.uid \in DOMAIN A.remotes
  BY <1>1 DEF Keeps
<1>3. Keeps(s, A, B)
  BY <1>2, Dumped
<1> HIDE DEF B
<1>4. Sound(s, B)
  BY <1>3 DEF Keeps
<1>5. Keeps(s, B, C)
  BY <1>4, LocalDumped
<1> HIDE DEF C
<1>6. Sound(s, C)
  BY <1>5 DEF Keeps
<1>7. Keeps(s, C, Remove(C, t))
  BY <1>6, Removed
<1>8. Keeps(s, S, Remove(C, t))
  BY <1>1, <1>3, <1>5, <1>7, KeepsOn
<1> QED
  BY <1>8 DEF A, B, C

LEMMA CompletifyFine ==
  ASSUME NEW s, Keyed(s), NEW S, Sound(s, S), NEW t \in Transactions, t.uid \in DOMAIN S.remotes
  PROVE  Fine(s, S, Completify(s, S, t))
<1>1. PacketOK(Packet(s, t, "ack"))
  BY PacketSound DEF PacketKinds
<1> DEFINE T == Remove(DumpLocal(DumpRemote([S EXCEPT !.remotes[t.uid].joined = TRUE], t.uid)), t)
<1>2. Keeps(s, S, T)
  BY Completed
<1>3. Completify(s, S, t) = Did(T, {Packet(s, t, "ack")})
  BY DEF Completify
<1> HIDE DEF T
<1> QED
  BY <1>1, <1>2, <1>3, KeptIsFine

(* A name found at the remote itself is not taken. *)
LEMMA NameNotTaken ==
  ASSUME NEW s, NEW S, Sound(s, S), NEW u \in DOMAIN S.remotes, S.remotes[u].name = "peer"
  PROVE  ~NameTaken(S, u)
BY SoundFields DEF Core, NameTaken

LEMMA AcceptedFine ==
  ASSUME NEW s, Keyed(s), NEW S, Sound(s, S), NEW t \in Transactions, t.uid \in DOMAIN S.remotes,
         NEW p, PacketOK(p), ~t.rmt, ~t.rmt => (Fixed(s) => ~t.vacuous),
         Status(s, S, p.keys) # "rejected",
         Fixed(s) => p.uid = S.remotes[t.uid].fuid /\ p.keys = S.remotes[t.uid].keys
  PROVE  Fine(s, S, Accepted(s, S, t, p))
<1> DEFINE u == t.uid
           status == Status(s, S, p.keys)
           A == StatusDump(s, S, p.keys)
           B == [A EXCEPT !.remotes[u].acceptance = status]
           C == [B EXCEPT !.remotes[u].fuid = p.uid]
           D == [C EXCEPT !.remotes[u].keys = p.keys]
           met == Rename(D, u)
<1>1. /\ u \in DOMAIN S.remotes /\ p.keys \in KeyGens /\ p.uid \in Uids /\ s \in Stacks
      /\ S.role \in RoleRecords
      /\ Fixed(s) => S.remotes[u].keys = S.role.keys
  BY SoundFields DEF PacketOK, Packets, Keyed, Core
<1>2. Keeps(s, S, A) /\ A.names = S.names /\ A.remotes = S.remotes
  BY <1>1, StatusDumped
<1>3. status \in Statuses
  BY <1>1, StatusTypes
<1>4. Accepted(s, S, t, p) =
        IF NameTaken(S, u) THEN Nack(s, B, t, "reject")
        ELSE IF status = "accepted" THEN Completify(s, met, t)
        ELSE Did(Sent(DumpRemote(met, u), t, "pend"), {Packet(s, t, "pend")})
  <2>1. D = [B EXCEPT !.remotes[u].fuid = p.uid, !.remotes[u].keys = p.keys]
    OBVIOUS
  <2> QED
    BY <2>1 DEF Accepted
<1> HIDE DEF A, status, u
<1>5. Sound(s, A) /\ u \in DOMAIN A.remotes
  BY <1>1, <1>2 DEF Keeps
<1>6. Keeps(s, A, B) /\ B.remotes[u] = [A.remotes[u] EXCEPT !.acceptance = status]
      /\ OnlyRemotes(A, B, B.remotes)
  BY <1>3, <1>5, AcceptanceSet
<1> HIDE DEF B
<1>7. /\ Sound(s, B) /\ u \in DOMAIN B.remotes /\ A.remotes[u] \in Remotes
      /\ B.names = S.names
  BY <1>2, <1>5, <1>6, SoundFields DEF Keeps, OnlyRemotes
<1>8. B.remotes[u].fuid = S.remotes[u].fuid /\ B.remotes[u].keys = S.remotes[u].keys
  BY <1>2, <1>6, <1>7 DEF Remotes
<1>9. Keeps(s, B, C) /\ C.remotes[u] = [B.remotes[u] EXCEPT !.fuid = p.uid]
      /\ OnlyRemotes(B, C, C.remotes)
  <2>1. Fixed(s) => p.uid = B.remotes[u].fuid
    BY <1>8 DEF u
  <2>2. p.uid \in Uids /\ Sound(s, B) /\ u \in DOMAIN B.remotes
    BY <1>1, <1>7
  <2> QED
    BY <2>1, <2>2, FuidSet
<1> HIDE DEF C
<1>10. /\ Sound(s, C) /\ u \in DOMAIN C.remotes /\ B.remotes[u] \in Remotes
       /\ C.names = S.names
  BY <1>7, <1>9, SoundFields DEF Keeps, OnlyRemotes
<1>11. C.remotes[u].keys = S.remotes[u].keys
  BY <1>8, <1>9, <1>10 DEF Remotes
<1>12. Keeps(s, C, D) /\ OnlyRemotes(C, D, D.remotes)
  BY <1>1, <1>10, <1>11, KeysSet DEF u
<1> HIDE DEF D
<1>13. Sound(s, D) /\ u \in DOMAIN D.remotes /\ D.names = S.names
  BY <1>10, <1>12 DEF Keeps, OnlyRemotes
<1>14. Keeps(s, S, B) /\ Keeps(s, S, D)
  BY <1>2, <1>6, <1>9, <1>12, KeepsOn
<1>15. CASE NameTaken(S, u)
  <2>1. Fine(s, B, Nack(s, B, t, "reject"))
    BY <1>7, NackFine DEF Nacks
  <2> QED
    BY <1>4, <1>14, <1>15, <2>1, KeepsFine
<1>16. CASE ~NameTaken(S, u)
  <2>1. ~NameTaken(D, u)
    BY <1>13, <1>16 DEF NameTaken
  <2>2. Keeps(s, D, met)
    BY <1>13, <2>1, Renamed
  <2> HIDE DEF met
  <2>3. Keeps(s, S, met) /\ Sound(s, met) /\ u \in DOMAIN met.remotes
    BY <1>13, <1>14, <2>2, KeepsOn DEF Keeps
  <2>4. Fine(s, S, Completify(s, met, t))
    <3>1. Fine(s, met, Completify(s, met, t))
      BY <2>3, CompletifyFine DEF u
    <3> QED
      BY <2>3, <3>1, KeepsFine
  <2>5. Fine(s, S, Did(Sent(DumpRemote(met, u), t, "pend"), {Packet(s, t, "pend")}))
    <3> DEFINE E == DumpRemote(met, u)
    <3>1. Keeps(s, met, E)
      BY <2>3, Dumped
    <3> HIDE DEF E
    <3>2. Sound(s, E) /\ t.uid \in DOMAIN E.remotes
      BY <2>3, <3>1 DEF Keeps, u
    <3>3. Keeps(s, E, Sent(E, t, "pend"))
      BY <3>2, SentKeeps
    <3>4. Keeps(s, S, Sent(E, t, "pend"))
      BY <2>3, <3>1, <3>3, KeepsOn
    <3>5. PacketOK(Packet(s, t, "pend"))
      BY PacketSound DEF PacketKinds
    <3> QED
      BY <3>4, <3>5, KeptIsFine DEF E
  <2> QED
    BY <1>4, <1>16, <2>4, <2>5
<1> QED
  BY <1>15, <1>16

LEMMA AcceptFine ==
  ASSUME NEW s, Keyed(s), NEW S, Sound(s, S), NEW t \in S.trans, ~t.rmt, NEW p, PacketOK(p)
  PROVE  Fine(s, S, Accept(s, S, t, p))
<1> DEFINE u == t.uid
           name == S.remotes[u].name
           first == t.vacuous /\ ~t.renewal
           reached == IF t.vacuous THEN [S EXCEPT !.remotes[u].fuid = p.uid] ELSE S
           X == [reached EXCEPT !.remotes[u].keys = p.keys]
           W == IF first THEN Rename(X, u) ELSE reached
           w == W.remotes[u]
           same == w.name = "peer" /\ w.fuid = p.uid /\ w.keys = p.keys
<1>1. /\ u \in DOMAIN S.remotes /\ t \in Transactions /\ S.remotes[u] \in Remotes
      /\ p.keys \in KeyGens /\ p.uid \in Uids /\ (Fixed(s) => ~t.vacuous)
  BY JoinFacts, SoundFields DEF PacketOK, Packets
<1>2. Accept(s, S, t, p) =
        IF first /\ name # "peer" /\ NameTaken(S, u) THEN Nack(s, reached, t, "reject")
        ELSE IF ~same /\ s \notin Mutables THEN Nack(s, W, t, "reject")
        ELSE IF Status(s, W, p.keys) = "rejected"
        THEN IF w.keys = p.keys THEN RemoveRemote(s, W, u) ELSE Nack(s, W, t, "reject")
        ELSE Accepted(s, W, t, p)
  BY DEF Accept
<1> HIDE DEF u
<1>3. Keeps(s, S, reached) /\ reached.names = S.names /\ reached.remotes[u].name = name
  <2>1. CASE t.vacuous
    <3> DEFINE V == [S EXCEPT !.remotes[u].fuid = p.uid]
    <3>1. /\ Keeps(s, S, V) /\ V.remotes[u] = [S.remotes[u] EXCEPT !.fuid = p.uid]
          /\ OnlyRemotes(S, V, V.remotes)
      BY <1>1, <2>1, FuidSet
    <3> HIDE DEF V
    <3>2. V.remotes[u].name = name
      BY <1>1, <3>1 DEF Remotes
    <3> QED
      BY <2>1, <3>1, <3>2 DEF V, OnlyRemotes
  <2>2. CASE ~t.vacuous
    BY <2>2, KeepsItself
  <2> QED
    BY <2>1, <2>2
<1> HIDE DEF reached
<1>4. Sound(s, reached) /\ u \in DOMAIN reached.remotes
  BY <1>1, <1>3 DEF Keeps
<1>5. Fine(s, S, Nack(s, reached, t, "reject"))
  <2>1. Fine(s, reached, Nack(s, reached, t, "reject"))
    BY <1>1, <1>4, NackFine DEF Nacks
  <2> QED
    BY <1>3, <2>1, KeepsFine
<1>6. CASE ~(first /\ name # "peer" /\ NameTaken(S, u))
  <2>1. Keeps(s, S, W)
    <3>1. CASE first
      <4>1. Keeps(s, reached, X) /\ OnlyRemotes(reached, X, X.remotes)
        BY <1>1, <1>4, <3>1, KeysSet
      <4> HIDE DEF X
      <4>2. Sound(s, X) /\ u \in DOMAIN X.remotes /\ X.names = S.names
        BY <1>3, <1>4, <4>1 DEF Keeps, OnlyRemotes
      <4>3. ~NameTaken(X, u)
        BY <1>1, <1>6, <3>1, <4>2, NameNotTaken DEF NameTaken
      <4>4. Keeps(s, X, Rename(X, u))
        BY <4>2, <4>3, Renamed
      <4>5. Keeps(s, S, Rename(X, u))
        BY <1>3, <4>1, <4>4, KeepsOn
      <4> QED
        BY <3>1, <4>5
    <3>2. CASE ~first
      BY <1>3, <3>2
    <3> QED
      BY <3>1, <3>2
  <2> HIDE DEF W
  <2>2. Sound(s, W) /\ u \in DOMAIN W.remotes
    BY <1>1, <2>1 DEF Keeps
  <2>3. Fine(s, S, Nack(s, W, t, "reject"))
    <3>1. Fine(s, W, Nack(s, W, t, "reject"))
      BY <1>1, <2>2, NackFine DEF Nacks
    <3> QED
      BY <2>1, <3>1, KeepsFine
  <2>4. Fine(s, S, RemoveRemote(s, W, u))
    <3>1. Fine(s, W, RemoveRemote(s, W, u))
      BY <2>2, RemotesRemoved
    <3> QED
      BY <2>1, <3>1, KeepsFine
  <2>5. ASSUME same \/ s \in Mutables, Status(s, W, p.keys) # "rejected"
        PROVE  Fine(s, S, Accepted(s, W, t, p))
    <3>1. Fixed(s) => p.uid = W.remotes[t.uid].fuid /\ p.keys = W.remotes[t.uid].keys
      BY <2>5 DEF Fixed, u
    <3>2. t.uid \in DOMAIN W.remotes
      BY <2>2 DEF u
    <3>3. Fine(s, W, Accepted(s, W, t, p))
      BY <1>1, <2>2, <2>5, <3>1, <3>2, AcceptedFine
    <3> QED
      BY <2>1, <3>3, KeepsFine
  <2> QED
    BY <1>2, <1>6, <2>3, <2>4, <2>5
<1> QED
  BY <1>2, <1>5, <1>6

LEMMA RenewFine ==
  ASSUME NEW s, Keyed(s), NEW S, Sound(s, S), NEW t \in S.trans, S.remotes[t.uid].tid < MaxTid
  PROVE  Fine(s, S, Renew(s, S, t))
<1> DEFINE u == t.uid
           A == Remove(S, t)
           B == [A EXCEPT !.remotes[u].fuid = 0]
           C == DumpRemote(B, u)
<1>1. /\ Keeps(s, S, A) /\ A.remotes = S.remotes /\ u \in DOMAIN S.remotes /\ 0 \in Uids
      /\ S.remotes[u] \in Remotes
  BY Removed, JoinFacts, SoundFields, Ids
<1>2. Renew(s, S, t) = IF s \notin Mutables THEN Did(A, {}) ELSE StartJoin(s, C, u, TRUE)
  BY DEF Renew
<1> HIDE DEF A, u
<1>3. CASE s \notin Mutables
  BY <1>1, <1>2, <1>3, Quietly
<1>4. CASE s \in Mutables
  <2>1. Sound(s, A) /\ u \in DOMAIN A.remotes /\ ~Fixed(s)
    BY <1>1, <1>4 DEF Keeps, Fixed
  <2>2. Keeps(s, A, B) /\ B.remotes[u] = [S.remotes[u] EXCEPT !.fuid = 0]
    <3>1. /\ Keeps(s, A, B) /\ B.remotes[u] = [A.remotes[u] EXCEPT !.fuid = 0]
          /\ OnlyRemotes(A, B, B.remotes)
      <4>1. Fixed(s) => 0 = A.remotes[u].fuid
        BY <2>1
      <4>2. 0 \in Uids /\ Sound(s, A) /\ u \in DOMAIN A.remotes
        BY <1>1, <2>1
      <4> QED
        BY <4>1, <4>2, FuidSet
    <3> HIDE DEF B
    <3> QED
      BY <1>1, <3>1
  <2> HIDE DEF B
  <2>3. Sound(s, B) /\ u \in DOMAIN B.remotes /\ B.remotes[u].tid = S.remotes[u].tid
    BY <1>1, <2>1, <2>2 DEF Keeps, Remotes
  <2>4. Keeps(s, B, C) /\ C.remotes = B.remotes
    BY <2>3, Dumped
  <2> HIDE DEF C
  <2>5. Keeps(s, S, C) /\ Sound(s, C) /\ u \in DOMAIN C.remotes /\ C.remotes[u].tid < MaxTid
    BY <1>1, <2>2, <2>3, <2>4, KeepsOn DEF Keeps, u
  <2>6. Fine(s, C, StartJoin(s, C, u, TRUE))
    BY <2>5, StartJoinFine
  <2> QED
    BY <1>2, <1>4, <2>5, <2>6, KeepsFine
<1> QED
  BY <1>3, <1>4

LEMMA RejectFine ==
  ASSUME NEW s, Keyed(s), NEW S, Sound(s, S), NEW t \in S.trans
  PROVE  Fine(s, S, Reject(s, S, t))
<1> DEFINE A == Remove(S, t)
<1>1. Keeps(s, S, A) /\ t.uid \in DOMAIN S.remotes
  BY Removed, JoinFacts
<1>2. Reject(s, S, t) = RemoveRemote(s, A, t.uid)
  BY DEF Reject
<1> HIDE DEF A
<1>3. Sound(s, A) /\ t.uid \in DOMAIN A.remotes
  BY <1>1 DEF Keeps
<1>4. Fine(s, A, RemoveRemote(s, A, t.uid))
  BY <1>3, RemotesRemoved
<1> QED
  BY <1>1, <1>2, <1>4, KeepsFine

LEMMA StopFine ==
  ASSUME NEW s, NEW S, Sound(s, S), NEW t
  PROVE  Fine(s, S, Did(S, {})) /\ Fine(s, S, Did(Remove(S, t), {}))
BY KeepsItself, Removed, Quietly

LEMMA JoinerReceives ==
  ASSUME NEW s, Keyed(s), NEW S, Sound(s, S), NEW t \in S.trans, ~t.rmt, NEW p, PacketOK(p),
         p.pk = "renew" => S.remotes[t.uid].tid < MaxTid
  PROVE  Fine(s, S, JoinerReceive(s, S, t, p))
<1>1. /\ Fine(s, S, Accept(s, S, t, p)) /\ Fine(s, S, Reject(s, S, t))
      /\ Fine(s, S, Did(S, {})) /\ Fine(s, S, Did(Remove(S, t), {}))
      /\ p.pk = "renew" => Fine(s, S, Renew(s, S, t))
  BY AcceptFine, RejectFine, StopFine, RenewFine
<1> QED
  BY <1>1 DEF JoinerReceive

-----------------------------------------------------------------------------
(* Joinent.                                                                 *)

LEMMA JoinentReceives ==
  ASSUME NEW s, Keyed(s), NEW S, Sound(s, S), NEW t \in S.trans, NEW p, PacketOK(p)
  PROVE  Fine(s, S, JoinentReceive(s, S, t, p))
<1>1. t.uid \in DOMAIN S.remotes
  BY JoinFacts
<1>2. Fine(s, S, Complete(s, S, t))
  BY <1>1, Completed, Quietly DEF Complete
<1>3. /\ Fine(s, S, Reject(s, S, t)) /\ Fine(s, S, Did(S, {}))
      /\ Fine(s, S, Did(Remove(S, t), {}))
  BY RejectFine, StopFine
<1> QED
  BY <1>2, <1>3 DEF JoinentReceive

LEMMA AckAcceptFine ==
  ASSUME NEW s, Keyed(s), NEW S, Sound(s, S), NEW t \in Transactions, t.uid \in DOMAIN S.remotes,
         t.rmt, NEW pk \in {"response", "pend"}
  PROVE  Fine(s, S, Did(Sent(S, t, pk), {Packet(s, t, pk)}))
<1>1. Keeps(s, S, Sent(S, t, pk))
  BY SentKeeps
<1>2. PacketOK(Packet(s, t, pk))
  BY PacketSound DEF PacketKinds
<1> QED
  BY <1>1, <1>2, KeptIsFine

LEMMA CorrespondFine ==
  ASSUME NEW s, Keyed(s), NEW S, Sound(s, S), NEW p, PacketOK(p), NEW uid \in DOMAIN S.remotes
  PROVE  Fine(s, S, Correspond(s, S, p, uid))
<1> DEFINE v == p.de = 0
           t == [rmt |-> TRUE, uid |-> uid, le |-> p.de, re |-> p.se, ti |-> p.ti,
                 vacuous |-> v, renewal |-> FALSE, tx |-> "response"]
           A == Add(S, t)
           W == [A EXCEPT !.remotes[uid].joined = FALSE]
<1>1. p.de \in Uids /\ p.se \in Uids /\ p.ti \in Tids /\ uid \in Uids
  BY SoundFields DEF PacketOK, Packets
<1>2. t \in Transactions
  <2>1. v \in BOOLEAN /\ TRUE \in BOOLEAN /\ FALSE \in BOOLEAN
    OBVIOUS
  <2>2. "response" \in {"request", "response", "pend"}
    OBVIOUS
  <2> HIDE DEF v
  <2> QED
    BY <1>1, <2>1, <2>2, Zenon DEF Transactions
<1>3. t.uid = uid /\ t.rmt /\ t.tx = "response"
  OBVIOUS
<1>4. Correspond(s, S, p, uid) =
        IF A.raised THEN Did(A, {})
        ELSE IF W.remotes[uid].acceptance = "accepted"
        THEN Did(Sent(W, t, "response"), {Packet(s, t, "response")})
        ELSE Did(Sent(DumpRemote(W, uid), t, "pend"), {Packet(s, t, "pend")})
  BY DEF Correspond, AckAccept
<1> HIDE DEF t
<1>5. Keeps(s, S, A)
  BY <1>2, <1>3, Added
<1> HIDE DEF A
<1>6. Sound(s, A) /\ uid \in DOMAIN A.remotes
  BY <1>5 DEF Keeps
<1>7. Keeps(s, A, W)
  BY <1>6, JoinedSet
<1> HIDE DEF W
<1>8. Keeps(s, S, W) /\ Sound(s, W) /\ t.uid \in DOMAIN W.remotes
  BY <1>3, <1>5, <1>6, <1>7, KeepsOn DEF Keeps
<1>9. Fine(s, S, Did(A, {}))
  BY <1>5, Quietly
<1>10. Fine(s, S, Did(Sent(W, t, "response"), {Packet(s, t, "response")}))
  BY <1>2, <1>3, <1>8, AckAcceptFine, KeepsFine
<1>11. Fine(s, S, Did(Sent(DumpRemote(W, uid), t, "pend"), {Packet(s, t, "pend")}))
  <2> DEFINE E == DumpRemote(W, uid)
  <2>1. Keeps(s, W, E)
    BY <1>3, <1>8, Dumped
  <2> HIDE DEF E
  <2>2. Keeps(s, S, E) /\ Sound(s, E) /\ t.uid \in DOMAIN E.remotes
    BY <1>8, <2>1, KeepsOn DEF Keeps
  <2>3. Fine(s, E, Did(Sent(E, t, "pend"), {Packet(s, t, "pend")}))
    BY <1>2, <1>3, <2>2, AckAcceptFine
  <2> QED
    BY <2>2, <2>3, KeepsFine DEF E
<1> QED
  BY <1>4, <1>9, <1>10, <1>11

(* The uid of a new remote or the puid moves on; the ghost may be anything. *)
LEMMA IdsChange ==
  ASSUME NEW s, NEW S, Sound(s, S), NEW T, DOMAIN T = StackFields,
         /\ T.remotes = S.remotes /\ T.names = S.names /\ T.files = S.files /\ T.role = S.role
         /\ T.trans = S.trans /\ T.savedPuid = S.savedPuid /\ T.joinees = S.joinees
         /\ T.restarts = S.restarts /\ T.keys = S.keys /\ T.raised = S.raised,
         T.ghost \in Remotes, T.puid \in Uids
  PROVE  Keeps(s, S, T)
BY DEF Keeps, Sound, Misc, SameRemotes

LEMMA GhostSet ==
  ASSUME NEW s, NEW S, Sound(s, S), NEW r \in Remotes
  PROVE  LET T == [S EXCEPT !.ghost = r]
         IN Keeps(s, S, T) /\ T.remotes = S.remotes /\ T.names = S.names
<1> DEFINE T == [S EXCEPT !.ghost = r]
<1>1. DOMAIN S = StackFields /\ S.puid \in Uids
  BY SoundFields
<1>2. /\ DOMAIN T = StackFields
      /\ T.remotes = S.remotes /\ T.names = S.names /\ T.files = S.files /\ T.role = S.role
      /\ T.trans = S.trans /\ T.savedPuid = S.savedPuid /\ T.joinees = S.joinees
      /\ T.restarts = S.restarts /\ T.keys = S.keys /\ T.raised = S.raised
      /\ T.ghost = r /\ T.puid = S.puid
  BY <1>1 DEF StackFields
<1> HIDE DEF T
<1>3. Keeps(s, S, T)
  BY <1>1, <1>2, IdsChange
<1> QED
  BY <1>2, <1>3 DEF T

LEMMA PuidSet ==
  ASSUME NEW s, NEW S, Sound(s, S), NEW u \in Uids
  PROVE  LET T == [S EXCEPT !.puid = u]
         IN Keeps(s, S, T) /\ T.remotes = S.remotes /\ T.names = S.names
<1> DEFINE T == [S EXCEPT !.puid = u]
<1>1. DOMAIN S = StackFields /\ S.ghost \in Remotes
  BY SoundFields
<1>2. /\ DOMAIN T = StackFields
      /\ T.remotes = S.remotes /\ T.names = S.names /\ T.files = S.files /\ T.role = S.role
      /\ T.trans = S.trans /\ T.savedPuid = S.savedPuid /\ T.joinees = S.joinees
      /\ T.restarts = S.restarts /\ T.keys = S.keys /\ T.raised = S.raised
      /\ T.ghost = S.ghost /\ T.puid = u
  BY <1>1 DEF StackFields
<1> HIDE DEF T
<1>3. Keeps(s, S, T)
  BY <1>1, <1>2, IdsChange
<1> QED
  BY <1>2, <1>3 DEF T

(* A request of a remote the stack has. *)
LEMMA MeetKnown ==
  ASSUME NEW s, Keyed(s), NEW S, Sound(s, S), NEW p, PacketOK(p), NEW uid \in DOMAIN S.remotes
  PROVE  Fine(s, S, Meet(s, S, p, uid, S.remotes[uid]))
<1> DEFINE r == S.remotes[uid]
           same == r.name = "peer" /\ r.fuid = p.se /\ r.keys = p.keys
           status == Status(s, S, p.keys)
           D == StatusDump(s, S, p.keys)
           q == [r EXCEPT !.acceptance = status]
           met == Update(D, uid, q)
           X == Rename(met, uid)
           Y == [X EXCEPT !.remotes[uid].fuid = p.se]
           Z == [Y EXCEPT !.remotes[uid].keys = p.keys]
<1> SUFFICES Fine(s, S, Meet(s, S, p, uid, r))
  OBVIOUS
<1>1. Meet(s, S, p, uid, r) =
        CASE ~same /\ s \notin Mutables -> Refused(s, S, p, uid, "reject")
          [] (same \/ s \in Mutables) /\ status = "rejected" ->
               IF r.keys = p.keys THEN RemoveRemote(s, S, uid) ELSE Refused(s, D, p, uid, "reject")
          [] same /\ status # "rejected" -> Correspond(s, met, p, uid)
          [] OTHER -> IF NameTaken(S, uid) THEN Refused(s, met, p, uid, "reject")
                      ELSE Correspond(s, Z, p, uid)
  BY DEF Meet
<1>2. /\ r \in Remotes /\ S.role \in RoleRecords /\ s \in Stacks
      /\ p.keys \in KeyGens /\ p.se \in Uids /\ (Fixed(s) => r.keys = S.role.keys)
  BY SoundFields DEF Keyed, PacketOK, Packets, Core
<1>3. Fine(s, S, Refused(s, S, p, uid, "reject")) /\ Fine(s, S, RemoveRemote(s, S, uid))
  BY <1>2, RefusedFine, RemotesRemoved DEF Nacks
<1>4. ASSUME same \/ s \in Mutables
      PROVE  /\ Fine(s, S, Refused(s, D, p, uid, "reject"))
             /\ Fine(s, S, Correspond(s, met, p, uid))
             /\ Fine(s, S, Refused(s, met, p, uid, "reject"))
             /\ s \in Mutables /\ ~NameTaken(S, uid) => Fine(s, S, Correspond(s, Z, p, uid))
  <2>1. Fixed(s) => p.keys = S.role.keys
    BY <1>2, <1>4 DEF Fixed
  <2>2. Keeps(s, S, D) /\ D.remotes = S.remotes /\ D.names = S.names
    BY <1>2, <2>1, StatusDumped
  <2>3. status \in Statuses
    BY <1>2, StatusTypes
  <2> HIDE DEF D, status
  <2>4. q \in Remotes /\ q.name = r.name /\ q.fuid = r.fuid /\ q.keys = r.keys
    <3>1. q \in Remotes
      BY <1>2, <2>3, RemoteRecord
    <3> QED
      BY <1>2, <3>1 DEF Remotes
  <2>5. Sound(s, D) /\ uid \in DOMAIN D.remotes
    BY <2>2 DEF Keeps
  <2> HIDE DEF q
  <2>6. /\ Keeps(s, D, met) /\ met.remotes[uid] = q
        /\ OnlyRemotes(D, met, met.remotes)
    BY <2>2, <2>4, <2>5, Updated
  <2> HIDE DEF met
  <2>7. Keeps(s, S, met) /\ Sound(s, met) /\ uid \in DOMAIN met.remotes /\ met.names = S.names
    BY <2>2, <2>6, KeepsOn DEF Keeps, OnlyRemotes
  <2>8. Fine(s, S, Refused(s, D, p, uid, "reject"))
    BY <1>2, <2>2, <2>5, RefusedFine, KeepsFine DEF Nacks
  <2>9. Fine(s, S, Refused(s, met, p, uid, "reject"))
    BY <1>2, <2>7, RefusedFine, KeepsFine DEF Nacks
  <2>10. Fine(s, S, Correspond(s, met, p, uid))
    BY <2>7, CorrespondFine, KeepsFine
  <2>11. ASSUME s \in Mutables, ~NameTaken(S, uid) PROVE Fine(s, S, Correspond(s, Z, p, uid))
    <3>1. ~NameTaken(met, uid) /\ ~Fixed(s)
      BY <2>7, <2>11 DEF NameTaken, Fixed
    <3>2. Keeps(s, met, X)
      BY <2>7, <3>1, Renamed
    <3> HIDE DEF X
    <3>3. Sound(s, X) /\ uid \in DOMAIN X.remotes
      BY <2>7, <3>2 DEF Keeps
    <3>4. /\ Keeps(s, X, Y) /\ Y.remotes[uid] = [X.remotes[uid] EXCEPT !.fuid = p.se]
          /\ OnlyRemotes(X, Y, Y.remotes)
      BY <1>2, <3>1, <3>3, FuidSet
    <3> HIDE DEF Y
    <3>5. Sound(s, Y) /\ uid \in DOMAIN Y.remotes
      BY <3>3, <3>4 DEF Keeps
    <3>6. /\ Keeps(s, Y, Z) /\ Z.remotes[uid] = [Y.remotes[uid] EXCEPT !.keys = p.keys]
          /\ OnlyRemotes(Y, Z, Z.remotes)
      BY <1>2, <3>1, <3>5, KeysSet
    <3> HIDE DEF Z
    <3>7. Keeps(s, S, Z) /\ Sound(s, Z) /\ uid \in DOMAIN Z.remotes
      BY <2>7, <3>2, <3>4, <3>5, <3>6, KeepsOn DEF Keeps
    <3> QED
      BY <3>7, CorrespondFine, KeepsFine
  <2> QED
    BY <2>8, <2>9, <2>10, <2>11
<1> HIDE DEF D, met, Z, status, r
<1>5. CASE ~same /\ s \notin Mutables
  BY <1>1, <1>3, <1>5
<1>6. CASE same \/ s \in Mutables
  BY <1>1, <1>3, <1>4, <1>6
<1> QED
  BY <1>5, <1>6

(* A request of a remote that is new, with the record it would have. *)
LEMMA MeetNew ==
  ASSUME NEW s, Keyed(s), NEW S, Sound(s, S), NEW p, PacketOK(p), p.pk = "request",
         NEW uid \in Uids \ {0}, DOMAIN S.remotes = {}, "peer" \notin DOMAIN S.names,
         NEW r \in Remotes, r.name = "peer", r.fuid = p.se, r.keys = p.keys
  PROVE  Fine(s, S, Meet(s, S, p, uid, r))
<1> DEFINE status == Status(s, S, p.keys)
           D == StatusDump(s, S, p.keys)
           q == [r EXCEPT !.acceptance = status]
           met == Update(D, uid, q)
           A == [met EXCEPT !.names = Put(@, "peer", uid)]
<1>1. Meet(s, S, p, uid, r) = IF status = "rejected" THEN Refused(s, D, p, uid, "reject")
                                                     ELSE Correspond(s, A, p, uid)
  BY DEF Meet
<1>2. /\ S.role \in RoleRecords /\ s \in Stacks /\ p.keys \in KeyGens /\ p.se # 0 /\ p.keys # 0
  BY SoundFields DEF Keyed, PacketOK, Packets
<1>3. /\ Keeps(s, S, D) /\ D.remotes = S.remotes /\ D.names = S.names
      /\ D.role = Persisted(AutoMode[s], S.role, p.keys)
  BY <1>2, StatusDumped
<1>4. status \in Statuses /\ (status # "rejected" => D.role.keys = p.keys)
  BY <1>2, <1>3, StatusTypes
<1> HIDE DEF D, status
<1>5. Sound(s, D)
  BY <1>3 DEF Keeps
<1>6. Fine(s, S, Refused(s, D, p, uid, "reject"))
  BY <1>2, <1>3, <1>5, RefusedFine, KeepsFine DEF Nacks
<1>7. CASE status # "rejected"
  <2>1. q \in Remotes
    BY <1>4, RemoteRecord
  <2>2. q.name = "peer" /\ q.fuid = p.se /\ q.keys = p.keys
    BY DEF Remotes
  <2> HIDE DEF q
  <2> DEFINE R == Put(D.remotes, uid, q)
             N == Put(D.names, "peer", uid)
  <2>3. DOMAIN D = StackFields /\ Core(s, D.remotes, D.names, D.trans, D.files, D.role)
    BY <1>5, SoundFields
  <2>4. /\ uid \notin DOMAIN D.remotes /\ q.name \notin DOMAIN D.names
        /\ q.fuid # 0 /\ q.keys # 0 /\ q.keys = D.role.keys
    BY <1>2, <1>3, <1>4, <1>7, <2>2
  <2>5. /\ Core(s, Put(D.remotes, uid, q), Put(D.names, q.name, uid), D.trans, D.files, D.role)
        /\ SameRemotes(D.remotes, Put(D.remotes, uid, q))
    BY <2>1, <2>2, <2>3, <2>4, RemoteAdded
  <2>6. Core(s, R, N, D.trans, D.files, D.role) /\ uid \in DOMAIN R
    BY <2>2, <2>5 DEF Put
  <2>7. A = [D EXCEPT !.remotes = R, !.names = N]
    BY <2>3 DEF Update, StackFields
  <2> HIDE DEF R, N, met, A
  <2>8. /\ DOMAIN A = StackFields /\ A.remotes = R /\ A.names = N
        /\ A.trans = D.trans /\ A.files = D.files /\ A.role = D.role
        /\ A.joinees = D.joinees /\ A.puid = D.puid /\ A.savedPuid = D.savedPuid
        /\ A.ghost = D.ghost /\ A.restarts = D.restarts /\ A.keys = D.keys
        /\ A.raised = D.raised
    BY <2>3, <2>7 DEF StackFields
  <2>9. Sound(s, A) /\ A.restarts = S.restarts
    BY <1>3, <1>5, <2>6, <2>8 DEF Sound, Misc, Keeps
  <2>10. Fine(s, A, Correspond(s, A, p, uid))
    BY <2>6, <2>8, <2>9, CorrespondFine
  <2>11. Fine(s, S, Correspond(s, A, p, uid))
    BY <2>9, <2>10 DEF Fine, SameRemotes
  <2> QED
    BY <1>1, <1>7, <2>11
<1> QED
  BY <1>1, <1>6, <1>7

LEMMA VacuousFine ==
  ASSUME Mains \cap Creators = {},
         NEW s, Keyed(s), NEW S, Sound(s, S), NEW p, PacketOK(p), p.pk = "request",
         NEW uid \in Uids \ {0}, NEW r \in Remotes
  PROVE  Fine(s, S, MeetVacuous(s, S, p, uid, r))
<1> DEFINE fuid == IF r.fuid = 0 THEN p.se ELSE r.fuid
           taken == [r EXCEPT !.name = "peer", !.keys = p.keys, !.fuid = fuid]
           G == [S EXCEPT !.ghost = taken]
           W == IF uid = S.joinees THEN G ELSE S
<1>1. /\ s \in Stacks /\ p.keys \in KeyGens /\ p.se \in Uids /\ "peer" \in Names
      /\ r.fuid \in Uids
      /\ Core(s, S.remotes, S.names, S.trans, S.files, S.role)
  BY SoundFields, RemoteRecord DEF Keyed, PacketOK, Packets, Names
<1>2. Fine(s, S, Refused(s, S, p, uid, "reject"))
  BY <1>1, RefusedFine DEF Nacks
<1>3. CASE s \notin Mains
  BY <1>2, <1>3 DEF MeetVacuous
<1>4. CASE s \in Mains /\ "peer" \in DOMAIN S.names
  <2> DEFINE u == S.names["peer"]
  <2>1. MeetVacuous(s, S, p, uid, r) = Meet(s, S, p, u, S.remotes[u])
    BY <1>4 DEF MeetVacuous
  <2>2. u \in DOMAIN S.remotes
    BY <1>1, <1>4 DEF Core
  <2> HIDE DEF u
  <2> QED
    BY <2>1, <2>2, MeetKnown
<1>5. CASE s \in Mains /\ "peer" \notin DOMAIN S.names
  <2>1. DOMAIN S.remotes = {}
    BY <1>1, <1>5 DEF Core
  <2>2. MeetVacuous(s, S, p, uid, r) =
          IF taken.fuid = p.se THEN Meet(s, W, p, uid, taken) ELSE Refused(s, W, p, uid, "reject")
    <3>1. taken = [r EXCEPT !.name = "peer", !.keys = p.keys,
                            !.fuid = IF @ = 0 THEN p.se ELSE @]
      OBVIOUS
    <3> HIDE DEF taken
    <3> QED
      BY <1>5, <2>1, <3>1 DEF MeetVacuous
  <2>3. taken \in Remotes
    <3> DEFINE x == [r EXCEPT !.name = "peer"]
               y == [x EXCEPT !.keys = p.keys]
               z == [y EXCEPT !.fuid = fuid]
    <3>1. fuid \in Uids
      BY <1>1
    <3>2. taken = z
      OBVIOUS
    <3> HIDE DEF fuid, taken
    <3>3. x \in Remotes
      BY <1>1, RemoteRecord
    <3> HIDE DEF x
    <3>4. y \in Remotes
      BY <1>1, <3>3, RemoteRecord
    <3> HIDE DEF y
    <3>5. z \in Remotes
      BY <3>1, <3>4, RemoteRecord
    <3> QED
      BY <3>2, <3>5
  <2>4. taken.name = "peer" /\ taken.keys = p.keys
    BY DEF Remotes
  <2> HIDE DEF taken
  <2>5. Keeps(s, S, W) /\ W.remotes = S.remotes /\ W.names = S.names
    <3>1. Keeps(s, S, G) /\ G.remotes = S.remotes /\ G.names = S.names
      BY <2>3, GhostSet
    <3> QED
      BY <3>1, KeepsItself
  <2> HIDE DEF W
  <2>6. Sound(s, W)
    BY <2>5 DEF Keeps
  <2>7. Fine(s, S, Refused(s, W, p, uid, "reject"))
    BY <1>1, <2>5, <2>6, RefusedFine, KeepsFine DEF Nacks
  <2>8. ASSUME taken.fuid = p.se PROVE Fine(s, S, Meet(s, W, p, uid, taken))
    <3>1. DOMAIN W.remotes = {} /\ "peer" \notin DOMAIN W.names
      BY <1>5, <2>1, <2>5
    <3>2. Fine(s, W, Meet(s, W, p, uid, taken))
      BY <2>3, <2>4, <2>6, <2>8, <3>1, MeetNew
    <3> QED
      BY <2>5, <3>2, KeepsFine
  <2> QED
    BY <2>2, <2>7, <2>8
<1> QED
  BY <1>3, <1>4, <1>5

LEMMA JoinFine ==
  ASSUME Mains \cap Creators = {},
         NEW s, Keyed(s), NEW S, Sound(s, S), NEW p, PacketOK(p), p.pk = "request",
         NEW uid \in Uids \ {0}, NEW r \in Remotes,
         uid \in DOMAIN S.remotes => r = S.remotes[uid],
         p.de # 0 => uid \in DOMAIN S.remotes
  PROVE  Fine(s, S, Join(s, S, p, uid, r))
<1> DEFINE joins == Joins(S, uid)
           refused == \E t \in joins : t.rmt \/ Yields(s, p, t)
           free == IF joins = {} THEN S ELSE Remove(S, CHOOSE t \in joins : TRUE)
           done == IF p.de = 0 THEN MeetVacuous(s, free, p, uid, r) ELSE Meet(s, free, p, uid, r)
           told == {Packet(s, t, "refuse") : t \in joins}
<1>1. Join(s, S, p, uid, r) = IF refused THEN Refused(s, S, p, uid, "refuse")
                                         ELSE Did(done.st, done.out \cup told)
  BY DEF Join
<1>2. Fine(s, S, Refused(s, S, p, uid, "refuse"))
  BY RefusedFine DEF Nacks, Keyed
<1>3. \A q \in told : PacketOK(q)
  <2> SUFFICES ASSUME NEW t \in joins PROVE PacketOK(Packet(s, t, "refuse"))
    OBVIOUS
  <2>1. t \in Transactions
    BY SoundFields DEF Joins
  <2> QED
    BY <2>1, PacketSound DEF PacketKinds
<1>4. Keeps(s, S, free) /\ free.remotes = S.remotes
  BY Removed, KeepsItself
<1> HIDE DEF refused, free, told, joins
<1>5. Sound(s, free)
  BY <1>4 DEF Keeps
<1>6. Fine(s, free, done)
  <2>1. CASE p.de = 0
    BY <1>5, <2>1, VacuousFine
  <2>2. CASE p.de # 0
    <3>1. uid \in DOMAIN free.remotes /\ r = free.remotes[uid]
      BY <1>4, <2>2
    <3>2. Fine(s, free, Meet(s, free, p, uid, free.remotes[uid]))
      BY <1>5, <3>1, MeetKnown
    <3> QED
      BY <2>2, <3>1, <3>2
  <2> QED
    BY <2>1, <2>2
<1> HIDE DEF done
<1>7. Fine(s, S, done)
  BY <1>4, <1>6, KeepsFine
<1>8. Fine(s, S, Did(done.st, done.out \cup told))
  BY <1>3, <1>7 DEF Fine, Did
<1> QED
  BY <1>1, <1>2, <1>8

-----------------------------------------------------------------------------
(* processRx.                                                               *)

(* The side of the transaction is that of the packet. *)
LEMMA SameSide ==
  ASSUME NEW t, NEW p, Index(t) = RxIndex(p)
  PROVE  t.rmt = ~p.cf
<1> DEFINE x == IF t.rmt /\ t.le = 0 THEN 0 ELSE t.re
           y == IF ~p.cf /\ p.de = 0 THEN 0 ELSE p.se
<1>1. <<t.rmt, t.le, x, t.ti>> = <<~p.cf, p.de, y, p.ti>>
  BY DEF Index, RxIndex
<1> HIDE DEF x, y
<1> QED
  BY <1>1

LEMMA TransactFine ==
  ASSUME Mains \cap Creators = {},
         NEW s, Keyed(s), NEW S, Sound(s, S), NEW p, PacketOK(p), NEW uid \in Uids,
         p.pk = "renew" /\ p.cf /\ uid \in DOMAIN S.remotes => S.remotes[uid].tid < MaxTid,
         ~p.cf => uid # 0 /\ (p.de # 0 => uid \in DOMAIN S.remotes)
  PROVE  Fine(s, S, Transact(s, S, p, uid))
<1> DEFINE found == {t \in Joins(S, uid) : Index(t) = RxIndex(p)}
           t == CHOOSE x \in found : TRUE
           out == IF p.pk \notin Nacks /\ p.de \in DOMAIN S.remotes
                  THEN {Answer(s, p, "nack")} ELSE {}
<1>1. CASE found # {}
  <2>1. t \in found
    BY <1>1
  <2> HIDE DEF t
  <2>2. /\ t \in S.trans /\ t.uid = uid /\ Index(t) = RxIndex(p)
        /\ t.uid \in DOMAIN S.remotes
    BY <2>1, JoinFacts DEF Joins
  <2>3. Transact(s, S, p, uid) = IF t.rmt THEN JoinentReceive(s, S, t, p)
                                          ELSE JoinerReceive(s, S, t, p)
    BY <1>1 DEF Transact, t
  <2>4. Fine(s, S, JoinentReceive(s, S, t, p))
    BY <2>2, JoinentReceives
  <2>5. ASSUME ~t.rmt PROVE Fine(s, S, JoinerReceive(s, S, t, p))
    <3>1. p.cf
      BY <2>2, <2>5, SameSide
    <3> QED
      BY <2>2, <2>5, <3>1, JoinerReceives
  <2> QED
    BY <2>3, <2>4, <2>5
<1>2. CASE found = {} /\ p.cf
  <2>1. Transact(s, S, p, uid) = Did(S, out)
    BY <1>2 DEF Transact
  <2>2. \A q \in out : PacketOK(q)
    BY AnswerSound DEF Nacks, Keyed
  <2> HIDE DEF out
  <2>3. Fine(s, S, Did(S, out))
    BY <2>2, KeepsItself, KeptIsFine
  <2> QED
    BY <2>1, <2>3
<1>3. CASE found = {} /\ ~p.cf
  <2>1. Transact(s, S, p, uid) = IF p.pk = "request" THEN Join(s, S, p, uid, Remote(S, uid))
                                                     ELSE Did(S, {})
    BY <1>3 DEF Transact
  <2>2. /\ Remote(S, uid) \in Remotes /\ uid \in Uids \ {0}
        /\ uid \in DOMAIN S.remotes => Remote(S, uid) = S.remotes[uid]
    BY <1>3, SoundFields DEF Remote
  <2>3. p.pk = "request" => Fine(s, S, Join(s, S, p, uid, Remote(S, uid)))
    BY <1>3, <2>2, JoinFine
  <2> QED
    BY <2>1, <2>3, StopFine
<1> QED
  BY <1>1, <1>2, <1>3

(* The uid of a new remote. *)
LEMMA NewUid ==
  ASSUME NEW S, HasUid(S)
  PROVE  NextUid(S) \in Uids \ {0} /\ NextUid(S) > S.puid /\ NextUid(S) \notin DOMAIN S.remotes
<1> DEFINE Free == {u \in 1 .. MaxUid : u > S.puid /\ u \notin DOMAIN S.remotes}
<1>1. Free \in SUBSET Nat /\ Free # {} /\ MaxUid \in Nat
  BY ConstantsAssumption DEF HasUid
<1> DEFINE R == OpToRel(<, Nat)
<1>2. IsWellFoundedOn(R, Nat)
  BY NatLessThanWellFounded
<1>3. \A x, y \in Nat : x < y => <<x, y>> \in R
  BY DEF OpToRel
<1> HIDE DEF R
<1>4. PICK u \in Free : \A v \in Free : <<v, u>> \notin R
  BY <1>1, <1>2, WFMin
<1>5. u \in 1 .. MaxUid /\ u > S.puid /\ u \notin DOMAIN S.remotes
  OBVIOUS
<1>6. ASSUME NEW v \in 1 .. MaxUid, v > S.puid, v \notin DOMAIN S.remotes
      PROVE  u <= v
  <2>1. v \in Free /\ u \in Nat /\ v \in Nat
    BY <1>1, <1>6
  <2>2. ~(v < u)
    BY <1>3, <1>4, <2>1
  <2> QED
    BY <2>1, <2>2
<1> HIDE DEF Free
<1>7. NextUid(S) \in 1 .. MaxUid /\ NextUid(S) > S.puid /\ NextUid(S) \notin DOMAIN S.remotes
  BY <1>5, <1>6 DEF NextUid
<1> QED
  BY <1>1, <1>7 DEF Uids

LEMMA NewRemoteType == NewRemote \in Remotes /\ NewRemote.name = "new" /\ NewRemote.fuid = 0
<1>1. /\ "new" \in Names /\ 0 \in Uids /\ 0 \in KeyGens /\ "none" \in Statuses
      /\ FALSE \in BOOLEAN /\ 0 \in Tids
  BY Ids DEF Names, Statuses
<1>2. NewRemote \in Remotes
  BY <1>1, Zenon DEF NewRemote, Remotes
<1> QED
  BY <1>2 DEF NewRemote

LEMMA FromJoinentFine ==
  ASSUME Mains \cap Creators = {},
         NEW s, Keyed(s), NEW S, Sound(s, S), NEW p, PacketOK(p), p.cf,
         p.pk = "renew" /\ p.de \in DOMAIN S.remotes => S.remotes[p.de].tid < MaxTid
  PROVE  Fine(s, S, FromJoinent(s, S, p))
<1> DEFINE uid == IF p.se = 0 THEN S.joinees ELSE p.de
<1>1. FromJoinent(s, S, p) = IF p.se = 0 /\ S.joinees \notin {0, p.de} THEN Did(S, {})
                                                                     ELSE Transact(s, S, p, uid)
  BY DEF FromJoinent
<1>2. Fine(s, S, Did(S, {}))
  BY StopFine
<1>3. ASSUME p.se = 0 => S.joinees \in {0, p.de}
      PROVE  Fine(s, S, Transact(s, S, p, uid))
  <2>1. uid \in Uids /\ uid \in {0, p.de} /\ 0 \notin DOMAIN S.remotes
    BY <1>3, SoundFields DEF PacketOK, Packets
  <2> HIDE DEF uid
  <2>2. p.pk = "renew" /\ uid \in DOMAIN S.remotes => S.remotes[uid].tid < MaxTid
    BY <2>1
  <2> QED
    BY <2>1, <2>2, TransactFine
<1> HIDE DEF uid
<1> QED
  BY <1>1, <1>2, <1>3

LEMMA FromJoinerFine ==
  ASSUME Mains \cap Creators = {},
         NEW s, Keyed(s), NEW S, Sound(s, S), NEW p, PacketOK(p), ~p.cf,
         p.de \in DOMAIN S.remotes \/ HasUid(S),
         p.pk = "renew" /\ p.de \in DOMAIN S.remotes => S.remotes[p.de].tid < MaxTid
  PROVE  Fine(s, S, FromJoiner(s, S, p))
<1> DEFINE prior == S.joinees
           stale == prior # 0 /\ Remote(S, prior).fuid \notin {0, p.se}
           W == IF stale THEN [S EXCEPT !.joinees = 0] ELSE S
           uid == NextUid(S)
           fresh == [W EXCEPT !.puid = uid]
           moved == [S EXCEPT !.puid = uid]
           out == IF p.pk \in Nacks \ {"renew"} THEN {} ELSE {Answer(s, p, "renew")}
<1>1. FromJoiner(s, S, p) =
        CASE p.de = 0 /\ W.joinees # 0 -> Transact(s, W, p, W.joinees)
          [] p.de = 0 /\ W.joinees = 0 ->
               IF p.pk = "request" THEN Join(s, fresh, p, uid, NewRemote) ELSE Did(W, {})
          [] p.de # 0 /\ p.de \in DOMAIN S.remotes -> Transact(s, S, p, p.de)
          [] OTHER -> Did(moved, out)
  BY DEF FromJoiner
<1>2. /\ p.de \in Uids /\ 0 \notin DOMAIN S.remotes /\ s \in Stacks /\ S.joinees \in Uids
  BY SoundFields DEF PacketOK, Packets, Keyed
<1>3. Keeps(s, S, W) /\ W.remotes = S.remotes
  BY JoineesSet, KeepsItself
<1> HIDE DEF W
<1>4. Sound(s, W) /\ W.joinees \in Uids
  BY <1>3, SoundFields DEF Keeps
<1>5. CASE p.de = 0 /\ W.joinees # 0
  <2>1. Fine(s, W, Transact(s, W, p, W.joinees))
    BY <1>4, <1>5, TransactFine
  <2> QED
    BY <1>1, <1>3, <1>5, <2>1, KeepsFine
<1>6. CASE p.de = 0 /\ W.joinees = 0
  <2>1. HasUid(S)
    BY <1>2, <1>6
  <2>2. uid \in Uids \ {0} /\ uid \notin DOMAIN S.remotes
    BY <2>1, NewUid
  <2> HIDE DEF uid
  <2>3. Keeps(s, W, fresh) /\ fresh.remotes = W.remotes
    BY <1>4, <2>2, PuidSet
  <2> HIDE DEF fresh
  <2>4. Keeps(s, S, fresh) /\ Sound(s, fresh) /\ uid \notin DOMAIN fresh.remotes
    BY <1>3, <2>2, <2>3, KeepsOn DEF Keeps
  <2>5. NewRemote \in Remotes
    BY NewRemoteType
  <2>6. p.pk = "request" => Fine(s, S, Join(s, fresh, p, uid, NewRemote))
    BY <1>6, <2>2, <2>4, <2>5, JoinFine, KeepsFine
  <2>7. Fine(s, S, Did(W, {}))
    BY <1>3, Quietly
  <2> QED
    BY <1>1, <1>6, <2>6, <2>7
<1>7. CASE p.de # 0 /\ p.de \in DOMAIN S.remotes
  <2>1. Fine(s, S, Transact(s, S, p, p.de))
    BY <1>2, <1>7, TransactFine
  <2> QED
    BY <1>1, <1>7, <2>1
<1>8. CASE p.de # 0 /\ p.de \notin DOMAIN S.remotes
  <2>1. uid \in Uids
    BY <1>8, NewUid
  <2> HIDE DEF uid
  <2>2. Keeps(s, S, moved)
    BY <2>1, PuidSet
  <2>3. \A q \in out : PacketOK(q)
    BY <1>2, AnswerSound DEF Nacks
  <2> HIDE DEF moved, out
  <2>4. Fine(s, S, Did(moved, out))
    BY <2>2, <2>3, KeptIsFine
  <2> QED
    BY <1>1, <1>8, <2>4
<1> QED
  BY <1>5, <1>6, <1>7, <1>8

-----------------------------------------------------------------------------
(* The actions.                                                             *)

LEMMA ProcessFine ==
  ASSUME Mains \cap Creators = {},
         NEW s, Keyed(s), NEW S, Sound(s, S), NEW p, PacketOK(p),
         p.cf \/ p.de \in DOMAIN S.remotes \/ HasUid(S),
         p.pk = "renew" /\ p.de \in DOMAIN S.remotes => S.remotes[p.de].tid < MaxTid
  PROVE  Fine(s, S, ProcessRx(s, S, p))
BY FromJoinentFine, FromJoinerFine DEF ProcessRx

LEMMA CreateFine ==
  ASSUME NEW s \in Creators, NEW S, Sound(s, S), NEW uid \in Uids \ {0}, DOMAIN S.remotes = {}
  PROVE  Fine(s, S, Did([Update(S, uid, NewRemote) EXCEPT
                           !.puid = uid, !.names = Put(@, "new", uid)], {}))
<1> DEFINE R == Put(S.remotes, uid, NewRemote)
           N == Put(S.names, "new", uid)
           T == [Update(S, uid, NewRemote) EXCEPT !.puid = uid, !.names = Put(@, "new", uid)]
<1>1. DOMAIN S = StackFields /\ Core(s, S.remotes, S.names, S.trans, S.files, S.role)
  BY SoundFields
<1>2. "new" \notin DOMAIN S.names /\ ~Fixed(s)
  BY <1>1 DEF Core, Fixed
<1>3. Core(s, R, N, S.trans, S.files, S.role)
  <2>1. /\ Core(s, Put(S.remotes, uid, NewRemote), Put(S.names, NewRemote.name, uid),
                S.trans, S.files, S.role)
        /\ SameRemotes(S.remotes, Put(S.remotes, uid, NewRemote))
    BY <1>1, <1>2, NewRemoteType, RemoteAdded
  <2> QED
    BY <2>1, NewRemoteType
<1>4. T = [S EXCEPT !.remotes = R, !.puid = uid, !.names = N]
  BY <1>1 DEF Update, StackFields
<1> HIDE DEF R, N, T
<1>5. /\ DOMAIN T = StackFields /\ T.remotes = R /\ T.names = N
      /\ T.trans = S.trans /\ T.files = S.files /\ T.role = S.role
      /\ T.joinees = S.joinees /\ T.puid = uid /\ T.savedPuid = S.savedPuid
      /\ T.ghost = S.ghost /\ T.restarts = S.restarts /\ T.keys = S.keys
      /\ T.raised = S.raised
  BY <1>1, <1>4 DEF StackFields
<1>6. Misc(T)
  BY <1>5 DEF Sound, Misc
<1>7. Sound(s, T) /\ T.restarts = S.restarts
  BY <1>3, <1>5, <1>6 DEF Sound
<1>8. Fine(s, S, Did(T, {}))
  BY <1>2, <1>7 DEF Fine, Did
<1> QED
  BY <1>8 DEF T

LEMMA TimeoutFine ==
  ASSUME NEW s, Keyed(s), NEW S, Sound(s, S), NEW t \in S.trans
  PROVE  Fine(s, S, IF t.rmt THEN Nack(s, S, t, "nack") ELSE Did(Remove(S, t), {}))
<1>1. Fine(s, S, Nack(s, S, t, "nack"))
  BY JoinFacts, NackFine DEF Nacks
<1> QED
  BY <1>1, StopFine

LEMMA RedoFine ==
  ASSUME NEW s, Keyed(s), NEW S, Sound(s, S), NEW t \in S.trans,
         NEW status, NEW D, status = Status(s, S, S.remotes[t.uid].keys),
         D = [StatusDump(s, S, S.remotes[t.uid].keys) EXCEPT
                !.remotes[t.uid].acceptance = status]
  PROVE  Fine(s, S, CASE t.tx # "pend" -> Did(S, {Packet(s, t, t.tx)})
                      [] t.tx = "pend" /\ status = "accepted" ->
                           IF t.rmt THEN AckAccept(s, D, t) ELSE Completify(s, D, t)
                      [] t.tx = "pend" /\ status = "rejected" -> RemoveRemote(s, D, t.uid)
                      [] OTHER -> Did(D, {}))
<1> DEFINE u == t.uid
           keys == S.remotes[u].keys
           A == StatusDump(s, S, keys)
<1>1. /\ t \in Transactions /\ u \in DOMAIN S.remotes /\ t.tx \in PacketKinds
      /\ (t.tx = "request" => t.le # 0) /\ s \in Stacks /\ keys \in KeyGens
      /\ S.role \in RoleRecords /\ (Fixed(s) => keys = S.role.keys)
  BY JoinFacts, SoundFields, RemoteRecord DEF Keyed, Core
<1>2. Fine(s, S, Did(S, {Packet(s, t, t.tx)}))
  <2>1. PacketOK(Packet(s, t, t.tx))
    BY <1>1, PacketSound
  <2> QED
    BY <2>1, KeepsItself, KeptIsFine
<1>3. D = [A EXCEPT !.remotes[u].acceptance = status]
  OBVIOUS
<1>4. status \in Statuses
  BY <1>1, StatusTypes
<1> HIDE DEF keys
<1>5. Keeps(s, S, A) /\ A.remotes = S.remotes
  BY <1>1, StatusDumped
<1> HIDE DEF A, u
<1>6. Sound(s, A) /\ u \in DOMAIN A.remotes
  BY <1>1, <1>5 DEF Keeps
<1>7. /\ Keeps(s, A, D) /\ D.remotes[u] = [A.remotes[u] EXCEPT !.acceptance = status]
      /\ OnlyRemotes(A, D, D.remotes)
  <2> DEFINE B == [A EXCEPT !.remotes[u].acceptance = status]
  <2>1. /\ Keeps(s, A, B) /\ B.remotes[u] = [A.remotes[u] EXCEPT !.acceptance = status]
        /\ OnlyRemotes(A, B, B.remotes)
    BY <1>4, <1>6, AcceptanceSet
  <2> HIDE DEF B
  <2>2. D = B
    BY <1>3 DEF B
  <2> QED
    BY <2>1, <2>2
<1>8. Keeps(s, S, D) /\ Sound(s, D) /\ u \in DOMAIN D.remotes
  BY <1>5, <1>6, <1>7, KeepsOn DEF Keeps
<1>9. t.rmt => Fine(s, S, AckAccept(s, D, t))
  <2>1. "response" \in {"response", "pend"}
    OBVIOUS
  <2>2. t.rmt => Fine(s, D, Did(Sent(D, t, "response"), {Packet(s, t, "response")}))
    BY <1>1, <1>8, <2>1, AckAcceptFine DEF u
  <2> QED
    BY <1>8, <2>2, KeepsFine DEF AckAccept
<1>10. Fine(s, S, Completify(s, D, t))
  BY <1>1, <1>8, CompletifyFine, KeepsFine DEF u
<1>11. Fine(s, S, RemoveRemote(s, D, u))
  BY <1>8, RemotesRemoved, KeepsFine
<1>12. Fine(s, S, Did(D, {}))
  BY <1>8, Quietly
<1> QED
  BY <1>2, <1>9, <1>10, <1>11, <1>12 DEF u

LEMMA SetAcceptanceFine ==
  ASSUME NEW s, NEW S, Sound(s, S), NEW uid \in DOMAIN S.remotes, NEW status \in Statuses
  PROVE  Fine(s, S, Did([S EXCEPT !.remotes[uid].acceptance = status,
                                  !.role = RoleData(status, S.remotes[uid].keys)], {}))
<1> DEFINE A == [S EXCEPT !.remotes[uid].acceptance = status]
           K == RoleData(status, S.remotes[uid].keys)
           T == [A EXCEPT !.role = K]
<1>1. /\ S.remotes[uid].keys \in KeyGens
      /\ Fixed(s) => S.remotes[uid].keys = S.role.keys
  BY SoundFields, RemoteRecord DEF Core
<1>2. K \in RoleRecords /\ (Fixed(s) => K.keys = S.role.keys)
  BY <1>1 DEF RoleData, RoleRecords
<1>3. T = [S EXCEPT !.remotes[uid].acceptance = status, !.role = K]
  OBVIOUS
<1> HIDE DEF K
<1>4. /\ Keeps(s, S, A) /\ A.remotes[uid] = [S.remotes[uid] EXCEPT !.acceptance = status]
      /\ OnlyRemotes(S, A, A.remotes)
  BY AcceptanceSet
<1> HIDE DEF A
<1>5. /\ Sound(s, A) /\ DOMAIN A = StackFields /\ A.role = S.role
      /\ Core(s, A.remotes, A.names, A.trans, A.files, A.role)
  BY <1>4, SoundFields DEF Keeps, OnlyRemotes
<1>6. Core(s, A.remotes, A.names, A.trans, A.files, K)
  BY <1>2, <1>5, OtherRole
<1>7. /\ DOMAIN T = StackFields
      /\ T.remotes = A.remotes /\ T.names = A.names /\ T.trans = A.trans
      /\ T.joinees = A.joinees /\ T.puid = A.puid /\ T.ghost = A.ghost
      /\ T.restarts = A.restarts /\ T.keys = A.keys /\ T.raised = A.raised
      /\ T.savedPuid = A.savedPuid /\ T.files = A.files /\ T.role = K
  BY <1>5 DEF StackFields
<1> HIDE DEF T
<1>8. Keeps(s, A, T)
  BY <1>5, <1>6, <1>7, DiskChanges
<1>9. Keeps(s, S, T)
  BY <1>4, <1>8, KeepsOn
<1>10. Fine(s, S, Did(T, {}))
  BY <1>9, Quietly
<1> QED
  BY <1>3, <1>10 DEF K

-----------------------------------------------------------------------------
(* The steps.                                                               *)

(* On a fixed road no remote that stays has other credentials. *)
FixedRoads ==
  \A s \in Stacks : Fixed(s) => SameRemotes(stack[s].remotes, stack'[s].remotes)

(* The count of restarts does not fall. *)
NoneUndone == \A s \in Stacks : stack[s].restarts <= stack'[s].restarts

LEMMA AllKeyed ==
  ASSUME IInv, NEW s \in Stacks
  PROVE  Keyed(s) /\ Sound(s, stack[s])
<1>1. /\ Sound(s, stack[s]) /\ stack[s].restarts \in 0 .. MaxRestart
      /\ stack[s].keys \in 1 .. stack[s].restarts + 1 /\ MaxRestart \in Nat
  BY ConstantsAssumption DEF IInv, Sound, Misc
<1>2. stack[s].keys \in KeyGens \ {0}
  BY <1>1 DEF KeyGens
<1> QED
  BY <1>1, <1>2 DEF Keyed

(* A stack does what is fine. *)
LEMMA StackSteps ==
  ASSUME IInv, NEW s \in Stacks, NEW d, NEW path \in SUBSET net, Happens(s, d, path),
         Sound(s, d.st), \A p \in d.out : PacketOK(p),
         d.st.restarts + stack[Other(s)].restarts <= MaxRestart,
         stack[s].restarts <= d.st.restarts,
         Fixed(s) => SameRemotes(stack[s].remotes, d.st.remotes)
  PROVE  IInv' /\ FixedRoads /\ NoneUndone
<1>1. /\ DOMAIN stack = Stacks /\ stack' = [stack EXCEPT ![s] = d.st]
      /\ net' = path \cup d.out
  BY DEF IInv, Happens
<1>2. /\ DOMAIN stack' = Stacks /\ stack'[s] = d.st
      /\ \A x \in Stacks : x # s => stack'[x] = stack[x]
  BY <1>1
<1>3. \A x \in Stacks : Sound(x, stack'[x])
  BY <1>2 DEF IInv
<1>4. stack'["a"].restarts + stack'["b"].restarts <= MaxRestart
  <2>1. \A x \in Stacks : stack[x].restarts \in Int
    BY ConstantsAssumption DEF IInv, Sound, Misc
  <2>2. d.st.restarts \in Int
    BY ConstantsAssumption DEF Sound, Misc
  <2>3. CASE s = "a"
    BY <1>2, <2>3 DEF Other, Stacks
  <2>4. CASE s = "b"
    <3>1. stack'["b"].restarts = d.st.restarts /\ stack'["a"].restarts = stack["a"].restarts
      BY <1>2, <2>4 DEF Stacks
    <3>2. d.st.restarts + stack["a"].restarts <= MaxRestart
      BY <2>4 DEF Other
    <3> QED
      BY <2>1, <2>2, <3>1, <3>2 DEF Stacks
  <2> QED
    BY <2>3, <2>4 DEF Stacks
<1>5. \A p \in net' : PacketOK(p)
  BY <1>1 DEF IInv
<1>6. IInv'
  BY <1>2, <1>3, <1>4, <1>5 DEF IInv
<1>7. FixedRoads
  BY <1>2 DEF FixedRoads, SameRemotes
<1>8. NoneUndone
  <2>1. \A x \in Stacks : stack[x].restarts \in Int
    BY ConstantsAssumption DEF IInv, Sound, Misc
  <2> QED
    BY <1>2, <2>1 DEF NoneUndone
<1> QED
  BY <1>6, <1>7, <1>8

LEMMA FineSteps ==
  ASSUME IInv, NEW s \in Stacks, NEW d, NEW path \in SUBSET net, Happens(s, d, path),
         Fine(s, stack[s], d)
  PROVE  IInv' /\ FixedRoads /\ NoneUndone
<1>1. \A x \in Stacks : stack[x].restarts \in Int
  BY ConstantsAssumption DEF IInv, Sound, Misc
<1>2. d.st.restarts + stack[Other(s)].restarts <= MaxRestart
  BY <1>1 DEF Fine, Other, Stacks, IInv
<1>3. stack[s].restarts <= d.st.restarts
  BY <1>1 DEF Fine
<1> QED
  BY <1>2, <1>3, StackSteps DEF Fine

LEMMA NewStackSound ==
  ASSUME NEW s, NEW n \in 0 .. MaxRestart, NEW keys \in 1 .. n + 1
  PROVE  Sound(s, NewStack(keys, n)) /\ NewStack(keys, n).restarts = n
<1> DEFINE T == NewStack(keys, n)
           none == <<>>
           K == RoleData("none", 0)
<1>1. /\ DOMAIN T = StackFields /\ T.remotes = none /\ T.names = none /\ T.trans = {}
      /\ T.files = {} /\ T.role = K /\ T.joinees = 0 /\ T.puid = LocalUid
      /\ T.savedPuid = LocalUid /\ T.ghost = NewRemote /\ T.restarts = n /\ T.keys = keys
      /\ T.raised = FALSE
  BY DEF NewStack, StackFields
<1>2. DOMAIN none = {}
  OBVIOUS
<1>3. K \in RoleRecords
  BY Ids DEF RoleData, RoleRecords, Statuses
<1> HIDE DEF none, K, T
<1>4. Misc(T)
  BY <1>1, Ids, NewRemoteType DEF Misc
<1>5. Core(s, none, none, {}, {}, K)
  BY <1>2, <1>3 DEF Core
<1>6. Sound(s, T)
  BY <1>1, <1>4, <1>5 DEF Sound
<1> QED
  BY <1>1, <1>6 DEF T

(* The remotes and names a restart finds in the files. *)
RestoredRemotes(F, K) ==
  [u \in {f.uid : f \in F} |->
     [name |-> (CHOOSE f \in F : f.uid = u).name, fuid |-> (CHOOSE f \in F : f.uid = u).fuid,
      joined |-> (CHOOSE f \in F : f.uid = u).joined,
      keys |-> K.keys, acceptance |-> K.acceptance, tid |-> 0]]
RestoredNames(F) == [n \in {f.name : f \in F} |-> (CHOOSE f \in F : f.name = n).uid]

LEMMA Restored ==
  ASSUME NEW s, NEW R, NEW N, NEW T, NEW F, NEW K, Core(s, R, N, T, F, K)
  PROVE  /\ Core(s, RestoredRemotes(F, K), RestoredNames(F), {}, F, K)
         /\ Fixed(s) => SameRemotes(R, RestoredRemotes(F, K))
<1> DEFINE Q == RestoredRemotes(F, K)
           M == RestoredNames(F)
<1>1. /\ F \subseteq Files /\ (\A f \in F : f.uid \in DOMAIN R /\ R[f.uid].name = f.name)
      /\ \A f, g \in F : f.name = g.name => f = g
      /\ DOMAIN R \subseteq Uids \ {0}
      /\ K \in RoleRecords
  BY DEF Core
<1>2. \A f, g \in F : f.uid = g.uid => f = g
  BY <1>1
<1>3. DOMAIN Q = {f.uid : f \in F} /\ DOMAIN M = {f.name : f \in F}
  BY DEF RestoredRemotes, RestoredNames
<1>4. ASSUME NEW f \in F
      PROVE  /\ Q[f.uid] = [name |-> f.name, fuid |-> f.fuid, joined |-> f.joined,
                            keys |-> K.keys, acceptance |-> K.acceptance, tid |-> 0]
             /\ M[f.name] = f.uid
  <2>1. (CHOOSE g \in F : g.uid = f.uid) = f
    BY <1>2
  <2>2. (CHOOSE g \in F : g.name = f.name) = f
    BY <1>1
  <2>3. f.uid \in {g.uid : g \in F} /\ f.name \in {g.name : g \in F}
    OBVIOUS
  <2>4. Q[f.uid] = [name |-> f.name, fuid |-> f.fuid, joined |-> f.joined,
                    keys |-> K.keys, acceptance |-> K.acceptance, tid |-> 0]
    BY <2>1, <2>3 DEF RestoredRemotes
  <2>5. M[f.name] = f.uid
    BY <2>2, <2>3 DEF RestoredNames
  <2> QED
    BY <2>4, <2>5
<1> HIDE DEF Q, M
<1>5. ASSUME NEW f \in F
      PROVE  /\ f.uid \in DOMAIN Q /\ Q[f.uid] \in Remotes /\ Q[f.uid].name = f.name
             /\ Q[f.uid].fuid = f.fuid /\ Q[f.uid].keys = K.keys
             /\ f.name \in DOMAIN M /\ M[f.name] = f.uid /\ f.name \in Names
  <2>1. f \in Files /\ K.keys \in KeyGens /\ K.acceptance \in Statuses /\ 0 \in Tids
    BY <1>1, Ids DEF RoleRecords
  <2>2. f.name \in Names /\ f.fuid \in Uids
    BY <2>1 DEF Files
  <2>3. f.joined \in BOOLEAN
    BY <2>1 DEF Files
  <2> DEFINE q == [name |-> f.name, fuid |-> f.fuid, joined |-> f.joined,
                    keys |-> K.keys, acceptance |-> K.acceptance, tid |-> 0]
  <2>4. Q[f.uid] = q
    BY <1>4
  <2>5. q \in Remotes
    BY <2>1, <2>2, <2>3, Zenon DEF Remotes
  <2>6. q.name = f.name /\ q.fuid = f.fuid /\ q.keys = K.keys
    OBVIOUS
  <2> HIDE DEF q
  <2> QED
    BY <1>3, <1>4, <2>2, <2>4, <2>5, <2>6
<1>6. \A u \in DOMAIN Q : \E f \in F : f.uid = u
  BY <1>3
<1>7. \A n \in DOMAIN M : \E f \in F : f.name = n
  BY <1>3
<1>8. /\ DOMAIN Q \subseteq Uids \ {0} /\ \A u \in DOMAIN Q : Q[u] \in Remotes
      /\ DOMAIN M \subseteq Names /\ \A n \in DOMAIN M : M[n] \in DOMAIN Q /\ Q[M[n]].name = n
      /\ \A u \in DOMAIN Q : Q[u].name \in DOMAIN M /\ M[Q[u].name] = u
  BY <1>1, <1>5, <1>6, <1>7
<1>9. /\ \A f \in F : f.uid \in DOMAIN Q /\ Q[f.uid].name = f.name
      /\ s \notin Creators => \A u \in DOMAIN Q : Q[u].name = "peer"
  <2>1. s \notin Creators => \A f \in F : f.name = "peer"
    BY <1>1 DEF Core
  <2> QED
    BY <1>5, <1>6, <2>1
<1>10. ASSUME Fixed(s)
       PROVE  /\ \A u \in DOMAIN Q : Q[u].fuid # 0 /\ Q[u].keys # 0 /\ Q[u].keys = K.keys
              /\ \A f \in F : f.fuid = Q[f.uid].fuid
              /\ SameRemotes(R, Q)
  <2>1. \A f \in F : f.fuid = R[f.uid].fuid /\ f.fuid # 0 /\ R[f.uid].keys = K.keys /\ K.keys # 0
    BY <1>1, <1>10 DEF Core
  <2>2. \A u \in DOMAIN Q : Q[u].name = R[u].name /\ Q[u].fuid = R[u].fuid /\ Q[u].keys = R[u].keys
    BY <1>1, <1>5, <1>6, <2>1
  <2> QED
    BY <1>5, <1>6, <2>1, <2>2 DEF SameRemotes
<1>11. Core(s, Q, M, {}, F, K)
  BY <1>1, <1>8, <1>9, <1>10 DEF Core
<1> QED
  BY <1>10, <1>11 DEF Q, M

LEMMA RestartSteps ==
  ASSUME IInv, NEW s \in Stacks, NEW clean \in BOOLEAN, Restart(s, clean)
  PROVE  IInv' /\ FixedRoads /\ NoneUndone
<1> DEFINE S == stack[s]
           k == IF clean THEN S.keys + 1 ELSE S.keys
           n == S.restarts + 1
           N == NewStack(k, n)
           Q == RestoredRemotes(S.files, S.role)
           M == RestoredNames(S.files)
           T == [N EXCEPT !.remotes = Q, !.names = M, !.files = S.files, !.role = S.role,
                          !.puid = S.savedPuid, !.savedPuid = S.savedPuid]
           st == IF clean THEN N ELSE T
<1>1. /\ Happens(s, Did(st, {}), net)
      /\ stack["a"].restarts + stack["b"].restarts < MaxRestart
  BY DEF Restart, RestoredRemotes, RestoredNames
<1>2. Sound(s, S)
  BY AllKeyed
<1>3. /\ \A x \in Stacks : stack[x].restarts \in Nat
      /\ S.keys \in 1 .. S.restarts + 1 /\ MaxRestart \in Nat
  BY ConstantsAssumption DEF IInv, Sound, Misc
<1>4. n + stack[Other(s)].restarts <= MaxRestart
  BY <1>1, <1>3 DEF Other, Stacks
<1>5. n \in 0 .. MaxRestart /\ k \in 1 .. n + 1
  <2>1. stack[Other(s)].restarts \in Nat
    BY <1>3, Ids
  <2> QED
    BY <1>3, <1>4, <2>1
<1> HIDE DEF S, k, n
<1>6. Sound(s, N) /\ N.restarts = n
  BY <1>5, NewStackSound
<1>7. N.remotes = <<>>
  BY DEF NewStack
<1>8. SameRemotes(S.remotes, N.remotes)
  BY <1>7 DEF SameRemotes
<1>9. N.trans = {}
  BY DEF NewStack
<1> HIDE DEF N
<1>10. /\ Core(s, Q, M, {}, S.files, S.role)
       /\ Fixed(s) => SameRemotes(S.remotes, Q)
  BY <1>2, SoundFields, Restored
<1>11. Sound(s, T) /\ T.restarts = n /\ T.remotes = Q
  <2>1. DOMAIN N = StackFields /\ S.savedPuid \in Uids
    BY <1>2, <1>6 DEF Sound, Misc
  <2> HIDE DEF Q, M
  <2>2. /\ DOMAIN T = StackFields /\ T.remotes = Q /\ T.names = M
        /\ T.trans = {} /\ T.files = S.files /\ T.role = S.role
        /\ T.joinees = N.joinees /\ T.puid = S.savedPuid /\ T.savedPuid = S.savedPuid
        /\ T.ghost = N.ghost /\ T.restarts = N.restarts /\ T.keys = N.keys
        /\ T.raised = N.raised
    BY <1>9, <2>1 DEF StackFields
  <2> HIDE DEF T
  <2>3. Misc(T)
    BY <1>6, <2>1, <2>2 DEF Sound, Misc
  <2> QED
    BY <1>6, <1>10, <2>2, <2>3 DEF Sound
<1> HIDE DEF T, Q, M
<1>12. Sound(s, st) /\ st.restarts = n /\ (Fixed(s) => SameRemotes(S.remotes, st.remotes))
  BY <1>6, <1>8, <1>10, <1>11
<1> HIDE DEF st
<1> DEFINE d == Did(st, {})
<1>13. /\ Sound(s, d.st) /\ (\A p \in d.out : PacketOK(p))
       /\ d.st.restarts + stack[Other(s)].restarts <= MaxRestart
       /\ stack[s].restarts <= d.st.restarts
       /\ Fixed(s) => SameRemotes(stack[s].remotes, d.st.remotes)
  BY <1>3, <1>4, <1>12 DEF Did, S, n
<1>14. Happens(s, d, net) /\ net \in SUBSET net
  BY <1>1
<1> HIDE DEF d
<1> QED
  BY <1>13, <1>14, StackSteps

LEMMA ReceiveSteps ==
  ASSUME Mains \cap Creators = {}, IInv, NEW p \in net, Receive(p)
  PROVE  IInv' /\ FixedRoads /\ NoneUndone
<1> DEFINE s == p.to
           d == ProcessRx(s, stack[s], p)
           path == net \ {p}
<1>1. PacketOK(p) /\ s \in Stacks /\ path \in SUBSET net
  BY DEF IInv, PacketOK, Packets
<1>2. /\ p.cf \/ p.de \in DOMAIN stack[s].remotes \/ HasUid(stack[s])
      /\ p.pk = "renew" /\ p.de \in DOMAIN stack[s].remotes
           => stack[s].remotes[p.de].tid < MaxTid
      /\ Happens(s, d, path)
  BY DEF Receive
<1> HIDE DEF s
<1>3. Fine(s, stack[s], d)
  BY <1>1, <1>2, AllKeyed, ProcessFine
<1> HIDE DEF d, path
<1> QED
  BY <1>1, <1>2, <1>3, FineSteps

LEMMA LoseSteps ==
  ASSUME IInv, NEW p \in net, Lose(p)
  PROVE  IInv' /\ FixedRoads /\ NoneUndone
<1>1. \A s \in Stacks : stack[s].restarts \in Int
  BY ConstantsAssumption DEF IInv, Sound, Misc
<1> QED
  BY <1>1 DEF Lose, IInv, FixedRoads, SameRemotes, NoneUndone

LEMMA CreateSteps ==
  ASSUME IInv, NEW s \in Stacks, CreateRemote(s)
  PROVE  IInv' /\ FixedRoads /\ NoneUndone
<1> DEFINE S == stack[s]
           uid == NextUid(S)
           d == Did([Update(S, uid, NewRemote) EXCEPT
                       !.puid = uid, !.names = Put(@, "new", uid)], {})
<1>1. s \in Creators /\ DOMAIN S.remotes = {} /\ HasUid(S) /\ Happens(s, d, net)
  BY DEF CreateRemote
<1>2. Sound(s, S) /\ net \in SUBSET net
  BY AllKeyed
<1> HIDE DEF S
<1>3. uid \in Uids \ {0}
  BY <1>1, NewUid
<1> HIDE DEF uid
<1>4. Fine(s, S, d)
  BY <1>1, <1>2, <1>3, CreateFine
<1> HIDE DEF d
<1> QED
  BY <1>1, <1>2, <1>4, FineSteps DEF S

LEMMA JoinSteps ==
  ASSUME IInv, NEW s \in Stacks, NEW uid \in DOMAIN stack[s].remotes, JoinRemote(s, uid)
  PROVE  IInv' /\ FixedRoads /\ NoneUndone
<1> DEFINE d == StartJoin(s, stack[s], uid, FALSE)
<1>1. stack[s].remotes[uid].tid < MaxTid /\ Happens(s, d, net) /\ net \in SUBSET net
  BY DEF JoinRemote
<1>2. Fine(s, stack[s], d)
  BY <1>1, AllKeyed, StartJoinFine
<1> HIDE DEF d
<1> QED
  BY <1>1, <1>2, FineSteps

LEMMA TimeoutSteps ==
  ASSUME IInv, NEW s \in Stacks, NEW t \in stack[s].trans, Timeout(s, t)
  PROVE  IInv' /\ FixedRoads /\ NoneUndone
<1> DEFINE d == IF t.rmt THEN Nack(s, stack[s], t, "nack") ELSE Did(Remove(stack[s], t), {})
<1>1. Happens(s, d, net) /\ net \in SUBSET net
  BY DEF Timeout
<1>2. Fine(s, stack[s], d)
  BY AllKeyed, TimeoutFine
<1> HIDE DEF d
<1> QED
  BY <1>1, <1>2, FineSteps

LEMMA RedoSteps ==
  ASSUME IInv, NEW s \in Stacks, NEW t \in stack[s].trans, Redo(s, t)
  PROVE  IInv' /\ FixedRoads /\ NoneUndone
<1> DEFINE S == stack[s]
           status == Status(s, S, S.remotes[t.uid].keys)
           D == [StatusDump(s, S, S.remotes[t.uid].keys) EXCEPT
                   !.remotes[t.uid].acceptance = status]
           d == CASE t.tx # "pend" -> Did(S, {Packet(s, t, t.tx)})
                  [] t.tx = "pend" /\ status = "accepted" ->
                       IF t.rmt THEN AckAccept(s, D, t) ELSE Completify(s, D, t)
                  [] t.tx = "pend" /\ status = "rejected" -> RemoveRemote(s, D, t.uid)
                  [] OTHER -> Did(D, {})
<1>1. Happens(s, d, net) /\ net \in SUBSET net
  BY DEF Redo
<1>2. Fine(s, S, d)
  BY AllKeyed, RedoFine
<1> HIDE DEF d
<1> QED
  BY <1>1, <1>2, FineSteps

LEMMA AcceptanceSteps ==
  ASSUME IInv, NEW s \in Stacks, NEW uid \in DOMAIN stack[s].remotes,
         NEW status \in {"accepted", "rejected"}, SetAcceptance(s, uid, status)
  PROVE  IInv' /\ FixedRoads /\ NoneUndone
<1> DEFINE S == stack[s]
           d == Did([S EXCEPT !.remotes[uid].acceptance = status,
                              !.role = RoleData(status, S.remotes[uid].keys)], {})
<1>1. Happens(s, d, net) /\ net \in SUBSET net /\ status \in Statuses
  BY DEF SetAcceptance, Statuses
<1>2. Fine(s, S, d)
  BY <1>1, AllKeyed, SetAcceptanceFine
<1> HIDE DEF d
<1> QED
  BY <1>1, <1>2, FineSteps

LEMMA Initially ==
  ASSUME Init
  PROVE  IInv
<1>1. DOMAIN stack = Stacks /\ (\A s \in Stacks : stack[s] = NewStack(1, 0)) /\ net = {}
  BY DEF Init
<1>2. 0 \in 0 .. MaxRestart /\ 1 \in 1 .. 0 + 1 /\ MaxRestart \in Nat
  BY ConstantsAssumption
<1>3. \A s \in Stacks : Sound(s, stack[s]) /\ stack[s].restarts = 0
  BY <1>1, <1>2, NewStackSound
<1> QED
  BY <1>1, <1>2, <1>3 DEF IInv, Stacks

LEMMA Steps ==
  ASSUME Mains \cap Creators = {}, IInv, [Next]_vars
  PROVE  IInv' /\ FixedRoads /\ NoneUndone
<1>1. CASE UNCHANGED vars
  <2>1. \A s \in Stacks : stack[s].restarts \in Int
    BY ConstantsAssumption DEF IInv, Sound, Misc
  <2> QED
    BY <1>1, <2>1 DEF vars, IInv, FixedRoads, SameRemotes, NoneUndone
<1>2. CASE \E p \in net : Receive(p) \/ Lose(p)
  BY <1>2, ReceiveSteps, LoseSteps
<1>3. ASSUME NEW s \in Stacks,
             \/ CreateRemote(s)
             \/ \E uid \in DOMAIN stack[s].remotes :
                  JoinRemote(s, uid) \/ SetAcceptance(s, uid, "accepted")
                    \/ SetAcceptance(s, uid, "rejected")
             \/ \E t \in stack[s].trans : Timeout(s, t) \/ Redo(s, t)
             \/ \E clean \in Wipes : Restart(s, clean)
      PROVE  IInv' /\ FixedRoads /\ NoneUndone
  <2>1. CASE CreateRemote(s)
    BY <2>1, CreateSteps
  <2>2. ASSUME NEW uid \in DOMAIN stack[s].remotes,
               JoinRemote(s, uid) \/ SetAcceptance(s, uid, "accepted")
                 \/ SetAcceptance(s, uid, "rejected")
        PROVE  IInv' /\ FixedRoads /\ NoneUndone
    BY <2>2, JoinSteps, AcceptanceSteps
  <2>3. ASSUME NEW t \in stack[s].trans, Timeout(s, t) \/ Redo(s, t)
        PROVE  IInv' /\ FixedRoads /\ NoneUndone
    BY <2>3, TimeoutSteps, RedoSteps
  <2>4. ASSUME NEW clean \in Wipes, Restart(s, clean)
        PROVE  IInv' /\ FixedRoads /\ NoneUndone
    <3>1. clean \in BOOLEAN
      BY ConstantsAssumption
    <3> QED
      BY <2>4, <3>1, RestartSteps
  <2> QED
    BY <1>3, <2>1, <2>2, <2>3, <2>4
<1> QED
  BY <1>1, <1>2, <1>3 DEF Next

-----------------------------------------------------------------------------
(* The theorems.                                                            *)

LEMMA Invariantly ==
  ASSUME Mains \cap Creators = {}
  PROVE  Spec => []IInv
<1>1. Init => IInv
  BY Initially
<1>2. IInv /\ [Next]_vars => IInv'
  BY Steps
<1> QED
  BY <1>1, <1>2, PTL DEF Spec

(* Where no main stack asks for joins of its own, every step of Joiner,
   Joinent, processRx and a restart leaves every part of a stack well formed,
   and every packet. *)
THEOREM Types ==
  ASSUME Mains \cap Creators = {}
  PROVE  Spec => []TypeOK
<1>1. IInv => TypeOK
  <2> SUFFICES ASSUME IInv PROVE TypeOK
    OBVIOUS
  <2>1. ASSUME NEW s \in Stacks, NEW S, S = stack[s]
        PROVE  /\ DOMAIN S.remotes \subseteq Uids \ {0}
               /\ \A u \in DOMAIN S.remotes : S.remotes[u] \in Remotes
               /\ DOMAIN S.names \subseteq Names /\ \A n \in DOMAIN S.names : S.names[n] \in Uids
               /\ S.trans \subseteq Transactions /\ S.files \subseteq Files
               /\ S.role \in [acceptance: Statuses, keys: KeyGens]
               /\ {S.joinees, S.puid, S.savedPuid} \subseteq Uids /\ S.keys \in KeyGens
               /\ S.ghost \in Remotes /\ S.restarts \in 0 .. MaxRestart /\ S.raised \in BOOLEAN
    <3>1. Sound(s, S) /\ S.keys \in KeyGens
      BY <2>1, AllKeyed DEF Keyed
    <3> QED
      BY <3>1 DEF Sound, Misc, Core, RoleRecords
  <2>2. net \subseteq Packets
    BY DEF IInv, PacketOK
  <2> QED
    BY <2>1, <2>2 DEF TypeOK
<1> QED
  BY <1>1, Invariantly, PTL

(* Where no main stack asks, the index of remotes by uid and the index by name
   agree in every state: renameRemote, removeRemote, the name that join gives a
   remote and a restart from the files keep them together. *)
THEOREM Indexes ==
  ASSUME Mains \cap Creators = {}
  PROVE  Spec => []IndexesAgree
<1>1. IInv => IndexesAgree
  BY DEF IInv, Sound, Core, IndexesAgree
<1> QED
  BY <1>1, Invariantly, PTL

(* Where no main stack asks and every stack that asks has a mutable road, no
   packet, timer, outside entity or restart changes name, uid or keys of a
   remote on a road that is not mutable. *)
THEOREM Credentials ==
  ASSUME Mains \cap Creators = {}, Creators \subseteq Mutables
  PROVE  Spec => CredentialsKept
<1> DEFINE Lasting == \A s \in Stacks \ Mutables :
             \A u \in DOMAIN stack[s].remotes \cap DOMAIN stack'[s].remotes :
               LET r == stack[s].remotes[u]
                   q == stack'[s].remotes[u]
               IN r.fuid # 0 /\ r.keys # 0
                    => <<q.name, q.fuid, q.keys>> = <<r.name, r.fuid, r.keys>>
<1>1. IInv /\ [Next]_vars => [Lasting]_vars
  <2> SUFFICES ASSUME IInv, [Next]_vars PROVE Lasting
    OBVIOUS
  <2>1. FixedRoads
    BY Steps
  <2>2. \A s \in Stacks \ Mutables : Fixed(s)
    BY DEF Fixed
  <2> QED
    BY <2>1, <2>2 DEF FixedRoads, SameRemotes
<1>2. CredentialsKept <=> [][Lasting]_vars
  BY DEF CredentialsKept
<1> HIDE DEF Lasting
<1> QED
  BY <1>1, <1>2, Invariantly, PTL DEF Spec

(* The uids that meet: the argument for UidsAgree. *)

(* A stack m on a fixed road, which does not ask, and the other, which does
   (M and X are their states).  Each direction is an invariant of the pair. *)

(* M has the remote w for the remote u of the other stack. *)
Met(M, u, w) == w \in DOMAIN M.remotes /\ M.remotes[w].fuid = u

(* X handed out u, and its remote u, if it is still there, knows its fuid. *)
Known(X, u) == u <= X.puid /\ (u \in DOMAIN X.remotes => X.remotes[u].fuid # 0)

(* m rejected the role for good: no remote is made again. *)
Closed(m, M) == DOMAIN M.remotes = {} /\ M.role.acceptance = "rejected" /\ AutoMode[m] # "always"

Lone(S) == \A u, v \in DOMAIN S.remotes : u = v

AskerRemotes(X, M) ==
  /\ Lone(X)
  /\ \A u \in DOMAIN X.remotes :
       /\ u <= X.puid
       /\ X.remotes[u].fuid # 0 => Met(M, u, X.remotes[u].fuid) /\ X.remotes[u].keys = 1
       /\ X.remotes[u].fuid = 0 => X.remotes[u].keys = 0

(* A join of the asking stack. *)
AskerJoin(X, M, t) ==
  /\ t.uid \in DOMAIN X.remotes
  /\ t.rmt => X.remotes[t.uid].fuid # 0 /\ t.tx # "request"
  /\ ~t.rmt =>
       /\ t.tx # "response" /\ t.le = t.uid /\ ~t.renewal /\ (t.vacuous <=> t.re = 0)
       /\ t.re # 0 => Met(M, t.uid, t.re)
       /\ t.re # 0 \/ t.tx = "pend" => X.remotes[t.uid].fuid # 0

AskerRole(X, M) ==
  X.role.acceptance # "none" => \E w \in DOMAIN M.remotes : Known(X, M.remotes[w].fuid)

Asker(X, M) ==
  /\ AskerRemotes(X, M) /\ AskerRole(X, M)
  /\ \A t \in X.trans : AskerJoin(X, M, t)

(* A join of the stack that is asked. *)
AskedJoin(M, X, t) ==
  /\ t.uid \in DOMAIN M.remotes /\ t.re = M.remotes[t.uid].fuid
  /\ t.rmt => t.tx # "request"
  /\ ~t.rmt => t.le = t.uid /\ (t.tx = "pend" => Known(X, t.re))

Asked(M, X) ==
  /\ \A w \in DOMAIN M.remotes :
       /\ M.remotes[w].fuid <= X.puid
       /\ M.remotes[w].joined => Known(X, M.remotes[w].fuid)
  /\ \A t \in M.trans : AskedJoin(M, X, t)

ToAsker(p, M) ==
  /\ p.pk = "response" => Met(M, p.de, p.uid) /\ p.keys = 1
  /\ p.pk = "request" => Met(M, p.de, p.se) /\ p.keys = 1
  /\ p.pk # "renew"

ToAsked(p, M, X) ==
  /\ p.pk = "request" => p.se <= X.puid /\ p.keys = 1
  /\ ~p.cf /\ p.pk \notin Nacks /\ p.de # 0 => Met(M, p.se, p.de)
  /\ p.pk = "ack" => Known(X, p.se) /\ \E w \in DOMAIN M.remotes : Met(M, p.se, w)
  /\ p.pk = "response" => Known(X, p.uid)
  /\ p.pk # "reject" /\ (p.pk = "renew" => p.cf)

(* What holds of the pair until one of them is started again. *)
Linked(m) == Unbroken =>
  \/ Closed(m, stack[m])
  \/ /\ Asker(stack[Other(m)], stack[m]) /\ Asked(stack[m], stack[Other(m)])
     /\ \A p \in net : IF p.to = m THEN ToAsked(p, stack[m], stack[Other(m)])
                                   ELSE ToAsker(p, stack[m])

-----------------------------------------------------------------------------
(* What the operations leave alone: T has the remotes of S with their uids and *)
(* keys, none of them newly joined, and the joins of S.                        *)

Shape(S) ==
  /\ DOMAIN S = StackFields /\ Lone(S)
  /\ \A u \in DOMAIN S.remotes :
       S.remotes[u] \in Remotes /\ S.remotes[u].name \in DOMAIN S.names
  /\ \A n \in DOMAIN S.names : S.names[n] \in DOMAIN S.remotes

Like(S, T) ==
  /\ Shape(T) /\ T.puid = S.puid /\ T.trans = S.trans
  /\ DOMAIN T.remotes = DOMAIN S.remotes
  /\ \A u \in DOMAIN S.remotes :
       /\ T.remotes[u].fuid = S.remotes[u].fuid /\ T.remotes[u].keys = S.remotes[u].keys
       /\ T.remotes[u].joined => S.remotes[u].joined

LEMMA LikeItself ==
  ASSUME NEW S, Shape(S)
  PROVE  Like(S, S)
BY DEF Like

LEMMA LikeOn ==
  ASSUME NEW S, NEW T, NEW U, Like(S, T), Like(T, U)
  PROVE  Like(S, U)
BY DEF Like

LEMMA SoundShape ==
  ASSUME NEW s, NEW S, Sound(s, S)
  PROVE  /\ Lone(S) => Shape(S)
         /\ s \notin Creators => Lone(S)
BY SoundFields DEF Shape, Lone, Core

LEMMA LikeStatus ==
  ASSUME NEW S, Shape(S), NEW s, NEW keys
  PROVE  /\ Like(S, StatusDump(s, S, keys)) /\ StatusDump(s, S, keys).remotes = S.remotes
         /\ StatusDump(s, S, keys).role = Persisted(AutoMode[s], S.role, keys)
<1> DEFINE K == Persisted(AutoMode[s], S.role, keys)
           T == [S EXCEPT !.role = K]
<1>1. StatusDump(s, S, keys) = T
  BY DEF StatusDump
<1> HIDE DEF K
<1>2. Like(S, T) /\ T.remotes = S.remotes /\ T.role = K
  BY DEF Like, Shape, Lone, StackFields
<1> QED
  BY <1>1, <1>2 DEF K

LEMMA LikeDumps ==
  ASSUME NEW S, Shape(S), NEW u \in DOMAIN S.remotes, NEW s, NEW keys
  PROVE  /\ Like(S, DumpRemote(S, u)) /\ DumpRemote(S, u).remotes = S.remotes
         /\ Like(S, DumpLocal(S)) /\ DumpLocal(S).remotes = S.remotes
         /\ Like(S, StatusDump(s, S, keys)) /\ StatusDump(s, S, keys).remotes = S.remotes
         /\ StatusDump(s, S, keys).role = Persisted(AutoMode[s], S.role, keys)
         /\ DumpLocal(S).role = S.role
<1>1. Like(S, DumpRemote(S, u)) /\ DumpRemote(S, u).remotes = S.remotes
  <2> DEFINE r == S.remotes[u]
             G == {f \in S.files : f.name # r.name} \cup {FileOf(S.remotes, u)}
             K == IF r.keys = 0 THEN S.role ELSE RoleData(r.acceptance, r.keys)
             T == [S EXCEPT !.files = G, !.role = K]
  <2>1. DumpRemote(S, u) = T
    BY DEF DumpRemote, FileOf
  <2> HIDE DEF G, K
  <2>2. Like(S, T) /\ T.remotes = S.remotes
    BY DEF Like, Shape, Lone, StackFields
  <2> QED
    BY <2>1, <2>2
<1>2. /\ Like(S, StatusDump(s, S, keys)) /\ StatusDump(s, S, keys).remotes = S.remotes
      /\ StatusDump(s, S, keys).role = Persisted(AutoMode[s], S.role, keys)
  BY LikeStatus
<1>3. Like(S, DumpLocal(S)) /\ DumpLocal(S).remotes = S.remotes /\ DumpLocal(S).role = S.role
  BY DEF DumpLocal, Like, Shape, Lone, StackFields
<1> QED
  BY <1>1, <1>2, <1>3

LEMMA LikeOthers ==
  ASSUME NEW S, Shape(S), NEW v
  PROVE  /\ Like(S, [S EXCEPT !.joinees = v]) /\ [S EXCEPT !.joinees = v].role = S.role
         /\ [S EXCEPT !.joinees = v].remotes = S.remotes
         /\ Like(S, [S EXCEPT !.raised = v]) /\ [S EXCEPT !.raised = v].role = S.role
         /\ [S EXCEPT !.raised = v].remotes = S.remotes
         /\ Like(S, [S EXCEPT !.role = v]) /\ [S EXCEPT !.role = v].role = v
         /\ [S EXCEPT !.role = v].remotes = S.remotes
BY DEF Like, Shape, Lone, StackFields

(* One remote has another record. *)
Given(S, T, u, r) ==
  /\ Shape(T) /\ T.puid = S.puid /\ T.trans = S.trans /\ T.role = S.role
  /\ DOMAIN T.remotes = DOMAIN S.remotes /\ T.remotes[u] = r
  /\ \A v \in DOMAIN S.remotes : v # u => T.remotes[v] = S.remotes[v]

LEMMA RemoteGiven ==
  ASSUME NEW S, Shape(S), NEW u \in DOMAIN S.remotes, NEW r \in Remotes, NEW T,
         r.name = S.remotes[u].name, T = [S EXCEPT !.remotes = [S.remotes EXCEPT ![u] = r]]
  PROVE  Given(S, T, u, r)
<1>1. Changed(S.remotes, u, r, T.remotes) /\ OnlyRemotes(S, T, T.remotes)
  BY SetField DEF Shape
<1> QED
  BY <1>1 DEF Given, Shape, Lone, OnlyRemotes, Changed

LEMMA FieldsGiven ==
  ASSUME NEW S, Shape(S), NEW u \in DOMAIN S.remotes
  PROVE  /\ \A b \in BOOLEAN : Given(S, [S EXCEPT !.remotes[u].joined = b], u,
                                     [S.remotes[u] EXCEPT !.joined = b])
         /\ \A b \in Statuses : Given(S, [S EXCEPT !.remotes[u].acceptance = b], u,
                                      [S.remotes[u] EXCEPT !.acceptance = b])
         /\ \A b \in Uids : Given(S, [S EXCEPT !.remotes[u].fuid = b], u,
                                  [S.remotes[u] EXCEPT !.fuid = b])
         /\ \A b \in KeyGens : Given(S, [S EXCEPT !.remotes[u].keys = b], u,
                                     [S.remotes[u] EXCEPT !.keys = b])
<1> DEFINE r == S.remotes[u]
<1>1. r \in Remotes
  BY DEF Shape
<1>2. ASSUME NEW b \in BOOLEAN
      PROVE  Given(S, [S EXCEPT !.remotes[u].joined = b], u, [r EXCEPT !.joined = b])
  <2>1. [r EXCEPT !.joined = b] \in Remotes /\ [r EXCEPT !.joined = b].name = r.name
    BY <1>1, RemoteRecord DEF Remotes
  <2> QED
    BY <2>1, RemoteGiven
<1>3. ASSUME NEW b \in Statuses
      PROVE  Given(S, [S EXCEPT !.remotes[u].acceptance = b], u, [r EXCEPT !.acceptance = b])
  <2>1. [r EXCEPT !.acceptance = b] \in Remotes /\ [r EXCEPT !.acceptance = b].name = r.name
    BY <1>1, RemoteRecord DEF Remotes
  <2> QED
    BY <2>1, RemoteGiven
<1>4. ASSUME NEW b \in Uids
      PROVE  Given(S, [S EXCEPT !.remotes[u].fuid = b], u, [r EXCEPT !.fuid = b])
  <2>1. [r EXCEPT !.fuid = b] \in Remotes /\ [r EXCEPT !.fuid = b].name = r.name
    BY <1>1, RemoteRecord DEF Remotes
  <2> QED
    BY <2>1, RemoteGiven
<1>5. ASSUME NEW b \in KeyGens
      PROVE  Given(S, [S EXCEPT !.remotes[u].keys = b], u, [r EXCEPT !.keys = b])
  <2>1. [r EXCEPT !.keys = b] \in Remotes /\ [r EXCEPT !.keys = b].name = r.name
    BY <1>1, RemoteRecord DEF Remotes
  <2> QED
    BY <2>1, RemoteGiven
<1> QED
  BY <1>2, <1>3, <1>4, <1>5

(* The acceptance, and joined once it is cleared, are no uids and no keys. *)
LEMMA LikeAcceptance ==
  ASSUME NEW S, Shape(S), NEW u \in DOMAIN S.remotes, NEW b \in Statuses
  PROVE  /\ Like(S, [S EXCEPT !.remotes[u].acceptance = b])
         /\ [S EXCEPT !.remotes[u].acceptance = b].role = S.role
<1> DEFINE T == [S EXCEPT !.remotes[u].acceptance = b]
           r == [S.remotes[u] EXCEPT !.acceptance = b]
<1>1. S.remotes[u] \in Remotes /\ Given(S, T, u, r)
  BY FieldsGiven DEF Shape
<1>2. r.fuid = S.remotes[u].fuid /\ r.keys = S.remotes[u].keys
  BY <1>1 DEF Remotes
<1>3. r.joined = S.remotes[u].joined
  BY <1>1 DEF Remotes
<1> HIDE DEF T, r
<1> QED
  BY <1>1, <1>2, <1>3 DEF Given, Like, T

LEMMA JoinedGiven ==
  ASSUME NEW S, Shape(S), NEW u \in DOMAIN S.remotes, NEW b \in BOOLEAN,
         NEW T, T = [S EXCEPT !.remotes[u].joined = b]
  PROVE  /\ Shape(T) /\ T.puid = S.puid /\ T.trans = S.trans /\ T.role = S.role
         /\ DOMAIN T.remotes = DOMAIN S.remotes
         /\ \A v \in DOMAIN S.remotes :
              /\ T.remotes[v].fuid = S.remotes[v].fuid /\ T.remotes[v].keys = S.remotes[v].keys
              /\ v # u => T.remotes[v].joined = S.remotes[v].joined
         /\ T.remotes[u].joined = b
         /\ T.remotes[u].acceptance = S.remotes[u].acceptance
         /\ ~b => Like(S, T)
<1> DEFINE r == [S.remotes[u] EXCEPT !.joined = b]
<1>1. S.remotes[u] \in Remotes /\ Given(S, T, u, r)
  BY FieldsGiven DEF Shape
<1>2. /\ r.fuid = S.remotes[u].fuid /\ r.keys = S.remotes[u].keys
      /\ r.acceptance = S.remotes[u].acceptance
  BY <1>1 DEF Remotes
<1>3. r.joined = b
  BY <1>1 DEF Remotes
<1> HIDE DEF r
<1> QED
  BY <1>1, <1>2, <1>3 DEF Given, Like

LEMMA LikeRenamed ==
  ASSUME NEW S, Shape(S), NEW u \in DOMAIN S.remotes
  PROVE  Like(S, Rename(S, u)) /\ Rename(S, u).role = S.role
<1> DEFINE old == S.remotes[u].name
           r == [S.remotes[u] EXCEPT !.name = "peer"]
           R == [S.remotes EXCEPT ![u] = r]
           N == Put(Drop(S.names, old), "peer", u)
           G == {f \in S.files : f.name # old}
           T == [[S EXCEPT !.files = G] EXCEPT !.names = N, !.remotes = R]
<1>1. CASE old = "peer"
  BY <1>1, LikeItself DEF Rename
<1>2. CASE old # "peer"
  <2>1. Rename(S, u) = T
    BY <1>2 DEF Rename, ClearFile
  <2>2. S.remotes[u] \in Remotes /\ "peer" \in Names
    BY DEF Shape, Names
  <2>3. r \in Remotes
    BY <2>2, RemoteRecord
  <2>4. r.fuid = S.remotes[u].fuid /\ r.keys = S.remotes[u].keys /\ r.name = "peer"
    BY <2>2 DEF Remotes
  <2>5. r.joined = S.remotes[u].joined
    BY <2>2 DEF Remotes
  <2> HIDE DEF r
  <2>6. DOMAIN R = DOMAIN S.remotes /\ R[u] = r /\ \A v \in DOMAIN S.remotes : v # u => R[v] = S.remotes[v]
    OBVIOUS
  <2>10. "peer" \in DOMAIN N /\ \A n \in DOMAIN N : N[n] \in DOMAIN S.remotes
    BY DEF Put, Drop, Shape
  <2> HIDE DEF R, N, G
  <2>7. DOMAIN T = StackFields /\ T.remotes = R /\ T.names = N /\ T.trans = S.trans /\ T.puid = S.puid /\ T.role = S.role
    BY DEF Shape, StackFields
  <2> HIDE DEF T
  <2>8. Shape(T)
    BY <2>3, <2>4, <2>6, <2>7, <2>10 DEF Shape, Lone
  <2>9. Like(S, T)
    BY <2>4, <2>5, <2>6, <2>7, <2>8 DEF Like
  <2> QED
    BY <2>1, <2>7, <2>9
<1> QED
  BY <1>1, <1>2

(* A remote alone has no name that another has taken. *)
LEMMA NoneTaken ==
  ASSUME NEW S, Shape(S), NEW u \in DOMAIN S.remotes
  PROVE  ~NameTaken(S, u)
BY DEF Shape, Lone, NameTaken

LEMMA LikeUpdated ==
  ASSUME NEW S, Shape(S), NEW u \in DOMAIN S.remotes, NEW r \in Remotes,
         r.name = S.remotes[u].name, r.fuid = S.remotes[u].fuid, r.keys = S.remotes[u].keys,
         r.joined => S.remotes[u].joined
  PROVE  /\ Like(S, Update(S, u, r)) /\ Update(S, u, r).role = S.role
         /\ Update(S, u, r).remotes[u] = r
<1> DEFINE R == Put(S.remotes, u, r)
           T == [S EXCEPT !.remotes = R]
<1>1. DOMAIN R = DOMAIN S.remotes /\ R[u] = r /\ \A v \in DOMAIN S.remotes : v # u => R[v] = S.remotes[v]
  BY DEF Put
<1> HIDE DEF R
<1>2. /\ DOMAIN T = StackFields /\ T.remotes = R /\ T.names = S.names /\ T.trans = S.trans
      /\ T.puid = S.puid /\ T.role = S.role
  BY DEF Shape, StackFields
<1>3. Update(S, u, r) = T
  BY DEF Update, R
<1> HIDE DEF T
<1>4. Shape(T)
  BY <1>1, <1>2 DEF Shape, Lone
<1> QED
  BY <1>1, <1>2, <1>3, <1>4 DEF Like

(* Joins come and go. *)
Joined(S, T) ==
  /\ Shape(T) /\ T.puid = S.puid /\ T.remotes = S.remotes /\ T.role = S.role

LEMMA JoinsGone ==
  ASSUME NEW S, Shape(S), NEW t
  PROVE  Joined(S, Remove(S, t)) /\ Remove(S, t).trans = S.trans \ {t}
BY DEF Joined, Shape, Lone, Remove, StackFields

LEMMA JoinsSent ==
  ASSUME NEW S, Shape(S), NEW t, NEW pk
  PROVE  /\ Joined(S, Sent(S, t, pk))
         /\ Sent(S, t, pk).trans = (S.trans \ {t}) \cup {[t EXCEPT !.tx = pk]}
BY DEF Joined, Shape, Lone, Sent, StackFields

LEMMA JoinsAdded ==
  ASSUME NEW S, Shape(S), NEW t
  PROVE  /\ Joined(S, Add(S, t))
         /\ Add(S, t).trans \subseteq S.trans \cup {t}
         /\ Add(S, t).raised => S.raised \/ S.trans # {}
<1>1. CASE \E x \in Joins(S, t.uid) : Index(x) = Index(t)
  BY <1>1 DEF Joined, Shape, Lone, Add, StackFields, Joins
<1>2. CASE ~ \E x \in Joins(S, t.uid) : Index(x) = Index(t)
  BY <1>2 DEF Joined, Shape, Lone, Add, StackFields, Joins
<1> QED
  BY <1>1, <1>2

(* completify, and complete of the other side: one remote is joined now, and the
   join is over. *)
LEMMA CompletedLike ==
  ASSUME NEW S, Shape(S), NEW t, t.uid \in DOMAIN S.remotes, NEW T,
         T = Remove(DumpLocal(DumpRemote([S EXCEPT !.remotes[t.uid].joined = TRUE], t.uid)), t)
  PROVE  /\ Shape(T) /\ T.puid = S.puid /\ T.trans = S.trans \ {t}
         /\ DOMAIN T.remotes = DOMAIN S.remotes
         /\ \A v \in DOMAIN S.remotes :
              T.remotes[v].fuid = S.remotes[v].fuid /\ T.remotes[v].keys = S.remotes[v].keys
<1> DEFINE A == [S EXCEPT !.remotes[t.uid].joined = TRUE]
           B == DumpRemote(A, t.uid)
           C == DumpLocal(B)
<1>1. /\ Shape(A) /\ A.puid = S.puid /\ A.trans = S.trans
      /\ DOMAIN A.remotes = DOMAIN S.remotes
      /\ \A v \in DOMAIN S.remotes :
           A.remotes[v].fuid = S.remotes[v].fuid /\ A.remotes[v].keys = S.remotes[v].keys
  <2>1. A = [S EXCEPT !.remotes[t.uid].joined = TRUE] /\ TRUE \in BOOLEAN
    OBVIOUS
  <2> HIDE DEF A
  <2>2. ASSUME NEW b \in BOOLEAN, A = [S EXCEPT !.remotes[t.uid].joined = b]
        PROVE  /\ Shape(A) /\ A.puid = S.puid /\ A.trans = S.trans
               /\ DOMAIN A.remotes = DOMAIN S.remotes
               /\ \A v \in DOMAIN S.remotes :
                    A.remotes[v].fuid = S.remotes[v].fuid /\ A.remotes[v].keys = S.remotes[v].keys
    BY <2>2, JoinedGiven
  <2> QED
    BY <2>1, <2>2
<1> HIDE DEF A
<1>2. Like(A, B)
  BY <1>1, LikeDumps
<1> HIDE DEF B
<1>3. Like(A, C)
  <2>1. Shape(B) /\ DOMAIN B.remotes = DOMAIN A.remotes
    BY <1>2 DEF Like
  <2>2. Like(B, C)
    BY <1>1, <2>1, LikeDumps
  <2> QED
    BY <1>2, <2>2, LikeOn
<1>4. T = Remove(C, t)
  BY DEF A, B, C
<1> HIDE DEF C
<1>5. Joined(C, T) /\ T.trans = C.trans \ {t}
  BY <1>3, <1>4, JoinsGone DEF Like
<1> QED
  BY <1>1, <1>3, <1>5 DEF Like, Joined

LEMMA SentFields ==
  ASSUME NEW t \in Transactions, NEW pk
  PROVE  LET x == [t EXCEPT !.tx = pk] IN
         /\ x.rmt = t.rmt /\ x.uid = t.uid /\ x.le = t.le /\ x.re = t.re
         /\ x.vacuous = t.vacuous /\ x.renewal = t.renewal /\ x.tx = pk
<1> DEFINE x == [t EXCEPT !.tx = pk]
<1>1. x.uid = t.uid /\ x.le = t.le /\ x.re = t.re /\ x.tx = pk
  BY DEF Transactions
<1>2. x.rmt = t.rmt /\ x.vacuous = t.vacuous /\ x.renewal = t.renewal
  BY Zenon DEF Transactions
<1> QED
  BY <1>1, <1>2

(* The end of join, for a remote at uid: a Joinent that answers, if the index
   is not in use. *)
JoinentOf(t, p, uid) ==
  /\ t \in Transactions /\ t.rmt /\ t.uid = uid /\ t.le = p.de /\ t.re = p.se
  /\ t.tx = "response"

Follows(S, T, t) ==
  /\ Shape(T) /\ T.puid = S.puid /\ DOMAIN T.remotes = DOMAIN S.remotes
  /\ T.trans \subseteq S.trans \cup {t}
  /\ \A u \in DOMAIN S.remotes :
       /\ T.remotes[u].fuid = S.remotes[u].fuid /\ T.remotes[u].keys = S.remotes[u].keys
       /\ T.remotes[u].joined => S.remotes[u].joined

Corresponding(s, S, p, uid, t, T) ==
  /\ JoinentOf(t, p, uid) /\ Follows(S, T, t)
  /\ \/ Correspond(s, S, p, uid) = Did(T, {}) /\ T.role = S.role /\ (S.raised \/ S.trans # {})
     \/ /\ ~T.remotes[uid].joined
        /\ \E pk \in {"pend", "response"} :
             Correspond(s, S, p, uid) = Did(Sent(T, t, pk), {Packet(s, t, pk)})

LEMMA Corresponds ==
  ASSUME NEW s, NEW S, Shape(S), NEW p, PacketOK(p), NEW uid \in DOMAIN S.remotes, uid \in Uids
  PROVE  \E t, T : Corresponding(s, S, p, uid, t, T)
<1> DEFINE v == p.de = 0
           t == [rmt |-> TRUE, uid |-> uid, le |-> p.de, re |-> p.se, ti |-> p.ti,
                 vacuous |-> v, renewal |-> FALSE, tx |-> "response"]
           A == Add(S, t)
           W == [A EXCEPT !.remotes[uid].joined = FALSE]
           E == DumpRemote(W, uid)
<1>1. p.de \in Uids /\ p.se \in Uids /\ p.ti \in Tids
  BY DEF PacketOK, Packets
<1>2. t \in Transactions
  <2>1. v \in BOOLEAN /\ TRUE \in BOOLEAN /\ FALSE \in BOOLEAN
    OBVIOUS
  <2>2. "response" \in {"request", "response", "pend"}
    OBVIOUS
  <2> HIDE DEF v
  <2> QED
    BY <1>1, <2>1, <2>2, Zenon DEF Transactions
<1>3. JoinentOf(t, p, uid)
  BY <1>2 DEF JoinentOf
<1>4. Correspond(s, S, p, uid) =
        IF A.raised THEN Did(A, {})
        ELSE IF W.remotes[uid].acceptance = "accepted"
        THEN Did(Sent(W, t, "response"), {Packet(s, t, "response")})
        ELSE Did(Sent(E, t, "pend"), {Packet(s, t, "pend")})
  BY DEF Correspond, AckAccept
<1> HIDE DEF t
<1>5. /\ Joined(S, A) /\ A.trans \subseteq S.trans \cup {t}
      /\ A.raised => S.raised \/ S.trans # {}
  BY JoinsAdded
<1> HIDE DEF A
<1>6. Shape(A) /\ A.puid = S.puid /\ A.remotes = S.remotes /\ A.role = S.role
  BY <1>5 DEF Joined
<1>7. Like(A, W) /\ ~W.remotes[uid].joined
  <2>1. ASSUME NEW b \in BOOLEAN, ~b, NEW T, T = [A EXCEPT !.remotes[uid].joined = b]
        PROVE  Like(A, T) /\ ~T.remotes[uid].joined
    BY <1>6, <2>1, JoinedGiven
  <2> QED
    BY <2>1
<1> HIDE DEF W
<1>8. Like(A, E) /\ ~E.remotes[uid].joined
  <2>1. Shape(W) /\ uid \in DOMAIN W.remotes
    BY <1>6, <1>7 DEF Like
  <2>2. Like(W, E) /\ E.remotes = W.remotes
    BY <2>1, LikeDumps
  <2> QED
    BY <1>7, <2>2, LikeOn
<1> HIDE DEF E
<1>9. Follows(S, A, t) /\ Follows(S, W, t) /\ Follows(S, E, t)
  BY <1>5, <1>6, <1>7, <1>8 DEF Follows, Like
<1>10. CASE A.raised
  <2>1. Corresponding(s, S, p, uid, t, A)
    BY <1>3, <1>4, <1>5, <1>6, <1>9, <1>10 DEF Corresponding
  <2> QED
    BY <2>1
<1>11. CASE ~A.raised /\ W.remotes[uid].acceptance = "accepted"
  <2>1. Corresponding(s, S, p, uid, t, W)
    BY <1>3, <1>4, <1>7, <1>9, <1>11 DEF Corresponding
  <2> QED
    BY <2>1
<1>12. CASE ~A.raised /\ W.remotes[uid].acceptance # "accepted"
  <2>1. Corresponding(s, S, p, uid, t, E)
    BY <1>3, <1>4, <1>8, <1>9, <1>12 DEF Corresponding
  <2> QED
    BY <2>1
<1> QED
  BY <1>10, <1>11, <1>12

(* The asking stack. *)

(* What X hands out and what it knows only grows. *)
Onward(S, T) ==
  T.puid \in Nat /\ S.puid <= T.puid /\ \A u \in Uids : Known(S, u) => Known(T, u)

(* The other stack M has no more than one remote, with a uid. *)
Partner(M) ==
  /\ Lone(M)
  /\ \A w \in DOMAIN M.remotes : w \in Uids \ {0} /\ M.remotes[w].fuid \in Uids \ {0}

(* What a handler of the asking stack x may make of S and send. *)
AskerFine(x, S, M, d) ==
  /\ Asker(d.st, M) /\ Onward(S, d.st)
  /\ \A p \in d.out : p.to = Other(x) /\ ToAsked(p, M, d.st)

LEMMA OnwardOn ==
  ASSUME NEW S, NEW T, NEW U, Onward(S, T), Onward(T, U), S.puid \in Nat
  PROVE  Onward(S, U)
BY DEF Onward

(* The same uids and keys. *)
Same(S, T) ==
  /\ T.puid = S.puid /\ DOMAIN T.remotes = DOMAIN S.remotes
  /\ \A u \in DOMAIN S.remotes :
       T.remotes[u].fuid = S.remotes[u].fuid /\ T.remotes[u].keys = S.remotes[u].keys

LEMMA SameOnward ==
  ASSUME NEW S, NEW T, Same(S, T), S.puid \in Nat
  PROVE  Onward(S, T) /\ Onward(T, S)
BY DEF Same, Onward, Known

LEMMA AskerStays ==
  ASSUME NEW S, NEW T, NEW M, Asker(S, M), Same(S, T), S.puid \in Nat, Partner(M),
         \A t \in T.trans : AskerJoin(S, M, t),
         \/ T.role.acceptance = "none" \/ T.role = S.role
         \/ \E u \in DOMAIN S.remotes : S.remotes[u].fuid # 0
  PROVE  Asker(T, M) /\ Onward(S, T)
<1>1. Onward(S, T)
  BY SameOnward
<1>2. AskerRemotes(T, M)
  BY DEF Asker, AskerRemotes, Same, Lone
<1>3. \A t \in T.trans : AskerJoin(T, M, t)
  BY DEF AskerJoin, Same
<1>4. AskerRole(T, M)
  <2>1. CASE T.role.acceptance = "none"
    BY <2>1 DEF AskerRole
  <2>2. CASE T.role = S.role
    BY <1>1, <2>2 DEF Asker, AskerRole, Onward, Partner
  <2>3. ASSUME NEW u \in DOMAIN S.remotes, S.remotes[u].fuid # 0
        PROVE  AskerRole(T, M)
    <3>1. Met(M, u, S.remotes[u].fuid) /\ Known(S, u)
      BY <2>3 DEF Asker, AskerRemotes, Known
    <3> QED
      BY <1>1, <3>1 DEF AskerRole, Onward, Met, Partner
  <2> QED
    BY <2>1, <2>2, <2>3
<1> QED
  BY <1>1, <1>2, <1>3, <1>4 DEF Asker

(* The remote is told the uid it has at the other stack, and the keys. *)
LEMMA AskerTold ==
  ASSUME NEW S, NEW T, NEW M, Asker(S, M), S.puid \in Nat, Partner(M),
         NEW u \in DOMAIN S.remotes, NEW w, Met(M, u, w),
         T.puid = S.puid, DOMAIN T.remotes = DOMAIN S.remotes,
         T.remotes[u].fuid = w, T.remotes[u].keys = 1,
         \A t \in T.trans : AskerJoin(S, M, t)
  PROVE  Asker(T, M) /\ Onward(S, T)
<1>1. w # 0 /\ (\A v \in DOMAIN S.remotes : v = u) /\ M.remotes[w].fuid = u /\ w \in DOMAIN M.remotes
  BY DEF Asker, AskerRemotes, Lone, Partner, Met
<1>2. Onward(S, T)
  BY <1>1 DEF Onward, Known
<1>3. AskerRemotes(T, M)
  BY <1>1 DEF Asker, AskerRemotes, Lone
<1>4. \A t \in T.trans : AskerJoin(T, M, t)
  BY <1>1 DEF AskerJoin
<1>5. Known(T, u)
  BY <1>1 DEF Known, Asker, AskerRemotes
<1>6. AskerRole(T, M)
  BY <1>1, <1>5 DEF AskerRole
<1> QED
  BY <1>2, <1>3, <1>4, <1>6 DEF Asker

LEMMA SameLike ==
  ASSUME NEW S, NEW T
  PROVE  /\ Like(S, T) => Same(S, T) /\ Shape(T) /\ T.trans = S.trans
         /\ Joined(S, T) => Same(S, T) /\ Shape(T)
BY DEF Like, Joined, Same

LEMMA SameOn ==
  ASSUME NEW S, NEW T, NEW U, Same(S, T), Same(T, U)
  PROVE  Same(S, U)
BY DEF Same

(* What of a stack the lemmas about x assume. *)
AskerReady(x, S, M) ==
  /\ x \in Mutables /\ x \notin Mains /\ x \in Stacks
  /\ Shape(S) /\ S.role \in RoleRecords /\ S.trans \subseteq Transactions /\ S.puid \in Nat
  /\ Asker(S, M) /\ Partner(M) /\ stack[x].keys = 1

LEMMA AskerFineOn ==
  ASSUME NEW x, NEW S, NEW T, NEW M, NEW d, S.puid \in Nat, Onward(S, T), AskerFine(x, T, M, d)
  PROVE  AskerFine(x, S, M, d)
BY OnwardOn DEF AskerFine

LEMMA PacketFields ==
  ASSUME NEW s, NEW t, NEW pk
  PROVE  /\ Packet(s, t, pk).to = Other(s) /\ Packet(s, t, pk).pk = pk
         /\ Packet(s, t, pk).cf = t.rmt /\ Packet(s, t, pk).se = t.le
         /\ Packet(s, t, pk).de = t.re
         /\ Packet(s, t, pk).keys = (IF pk \in {"request", "response"} THEN stack[s].keys ELSE 0)
         /\ Packet(s, t, pk).uid = (IF pk = "response" THEN t.uid ELSE 0)
BY DEF Packet

LEMMA AnswerFields ==
  ASSUME NEW s, NEW p, NEW pk
  PROVE  /\ Answer(s, p, pk).to = Other(s) /\ Answer(s, p, pk).pk = pk
         /\ Answer(s, p, pk).cf = ~p.cf /\ Answer(s, p, pk).se = p.de
         /\ Answer(s, p, pk).de = p.se
BY DEF Answer

(* A refusal and a renewal say nothing about uids. *)
LEMMA RefusalsToAsked ==
  ASSUME NEW M, NEW X, NEW q,
         q.pk \in {"nack", "refuse"} \/ (q.pk = "renew" /\ q.cf)
  PROVE  ToAsked(q, M, X)
BY DEF ToAsked, Nacks

(* Removed joins, of a handler that refuses or only ends a join. *)
LEMMA AskerRemoved ==
  ASSUME NEW x, NEW S, NEW M, AskerReady(x, S, M), NEW t
  PROVE  /\ AskerReady(x, Remove(S, t), M) /\ Onward(S, Remove(S, t))
         /\ Remove(S, t).trans = S.trans \ {t} /\ Remove(S, t).remotes = S.remotes
         /\ Remove(S, t).puid = S.puid
<1> DEFINE T == Remove(S, t)
<1>1. Joined(S, T) /\ T.trans = S.trans \ {t}
  BY JoinsGone DEF AskerReady
<1> HIDE DEF T
<1>2. Same(S, T) /\ T.role = S.role /\ T.remotes = S.remotes /\ Shape(T) /\ T.puid = S.puid
  BY <1>1, SameLike DEF Joined
<1>3. Asker(T, M) /\ Onward(S, T)
  BY <1>1, <1>2, AskerStays DEF AskerReady, Asker
<1> QED
  BY <1>1, <1>2, <1>3 DEF AskerReady, T

LEMMA AskerStops ==
  ASSUME NEW x, NEW S, NEW M, AskerReady(x, S, M), NEW t,
         NEW out, \A q \in out : q.to = Other(x) /\ ToAsked(q, M, Remove(S, t))
  PROVE  AskerFine(x, S, M, Did(Remove(S, t), out))
BY AskerRemoved DEF AskerReady, AskerFine, Did

LEMMA AskerNacks ==
  ASSUME NEW x, NEW S, NEW M, AskerReady(x, S, M), NEW t, NEW pk \in {"nack", "refuse"}
  PROVE  AskerFine(x, S, M, Nack(x, S, t, pk))
<1>1. Packet(x, t, pk).to = Other(x) /\ ToAsked(Packet(x, t, pk), M, Remove(S, t))
  BY PacketFields, RefusalsToAsked
<1> QED
  BY <1>1, AskerStops DEF Nack

(* No join and no packet more. *)
LEMMA AskerQuiet ==
  ASSUME NEW x, NEW S, NEW M, AskerReady(x, S, M),
         NEW out, \A q \in out : q.to = Other(x) /\ ToAsked(q, M, S)
  PROVE  AskerFine(x, S, M, Did(S, out))
BY DEF AskerFine, Did, AskerReady, Onward

(* joinees is nothing to the uids. *)
LEMMA AskerJoinees ==
  ASSUME NEW x, NEW S, NEW M, AskerReady(x, S, M)
  PROVE  /\ AskerReady(x, [S EXCEPT !.joinees = 0], M) /\ Onward(S, [S EXCEPT !.joinees = 0])
         /\ [S EXCEPT !.joinees = 0].remotes = S.remotes
         /\ [S EXCEPT !.joinees = 0].trans = S.trans
         /\ [S EXCEPT !.joinees = 0].puid = S.puid
<1> DEFINE T == [S EXCEPT !.joinees = 0]
<1>1. Like(S, T) /\ T.role = S.role /\ T.remotes = S.remotes
  BY LikeOthers DEF AskerReady
<1> HIDE DEF T
<1>2. Same(S, T) /\ Shape(T) /\ T.trans = S.trans /\ T.puid = S.puid
  BY <1>1, SameLike DEF Like
<1>3. Asker(T, M) /\ Onward(S, T)
  BY <1>1, <1>2, AskerStays DEF AskerReady, Asker
<1> QED
  BY <1>1, <1>2, <1>3 DEF AskerReady, T

(* removeRemote: what is known then is known for good. *)
LEMMA AskerRemoves ==
  ASSUME NEW x, NEW S, NEW M, AskerReady(x, S, M), NEW u \in DOMAIN S.remotes
  PROVE  /\ AskerFine(x, S, M, RemoveRemote(x, S, u))
         /\ RemoveRemote(x, S, u).st.puid = S.puid
<1> DEFINE name == S.remotes[u].name
           joins == Joins(S, u)
           R == Drop(S.remotes, u)
           N == Drop(S.names, name)
           V == S.trans \ joins
           G == {f \in S.files : f.name # name}
           vacuous == \E t \in joins : t.vacuous
           j == IF vacuous THEN 0 ELSE S.joinees
           g == IF ~vacuous /\ S.joinees = u THEN S.remotes[u] ELSE S.ghost
           T == [[S EXCEPT !.files = G] EXCEPT
                   !.remotes = R, !.names = N, !.trans = V, !.joinees = j, !.ghost = g]
           out == {Packet(x, t, "nack") : t \in {y \in joins : y.rmt}}
<1>1. name \in DOMAIN S.names /\ DOMAIN S = StackFields /\ Lone(S)
  BY DEF AskerReady, Shape
<1>2. RemoveRemote(x, S, u) = Did(T, out)
  BY <1>1 DEF RemoveRemote, ClearFile
<1>3. DOMAIN R = {}
  BY <1>1 DEF Lone, Drop
<1>4. V = {}
  BY <1>1 DEF Lone, AskerReady, Asker, AskerJoin, Joins
<1>5. \A q \in out : q.to = Other(x) /\ \A X : ToAsked(q, M, X)
  BY PacketFields, RefusalsToAsked
<1> HIDE DEF R, N, V, G, j, g, out
<1>6. T.remotes = R /\ T.trans = V /\ T.puid = S.puid /\ T.role = S.role
  BY <1>1 DEF StackFields
<1> HIDE DEF T
<1>7. Onward(S, T)
  BY <1>3, <1>6 DEF Onward, Known, AskerReady
<1>8. AskerRole(T, M)
  BY <1>6, <1>7 DEF AskerReady, Asker, AskerRole, Onward, Partner
<1>9. Asker(T, M)
  BY <1>3, <1>4, <1>6, <1>8 DEF Asker, AskerRemotes, Lone
<1> QED
  BY <1>2, <1>5, <1>6, <1>7, <1>9 DEF AskerFine, Did

(* Joiner and Joinent of the asking stack. *)

LEMMA AskerAsks ==
  ASSUME NEW x, NEW S, NEW M, AskerReady(x, S, M), NEW u \in DOMAIN S.remotes,
         S.remotes[u].tid < MaxTid
  PROVE  AskerFine(x, S, M, StartJoin(x, S, u, FALSE))
<1> DEFINE r == S.remotes[u]
           t == [rmt |-> FALSE, uid |-> u, le |-> u, re |-> r.fuid, ti |-> r.tid + 1,
                 vacuous |-> r.fuid = 0, renewal |-> FALSE, tx |-> "request"]
           q == [r EXCEPT !.tid = @ + 1]
           g == [r EXCEPT !.tid = @ + 1, !.joined = FALSE]
           tried == Update(S, u, q)
           B == Update(tried, u, g)
           A == Add(B, t)
<1>1. r \in Remotes /\ r.tid + 1 \in Tids /\ r.tid \in Tids
  <2>1. r \in Remotes /\ r.tid \in Tids /\ MaxTid \in Nat
    BY Ids DEF AskerReady, Shape, Remotes
  <2> QED
    BY <2>1 DEF Tids
<1>2. q \in Remotes
  BY <1>1, RemoteRecord
<1>3. g = [q EXCEPT !.joined = FALSE]
  BY <1>1 DEF Remotes
<1>4. g \in Remotes
  BY <1>2, <1>3, RemoteRecord
<1>5. /\ q.name = r.name /\ q.fuid = r.fuid /\ q.keys = r.keys
      /\ g.name = r.name /\ g.fuid = r.fuid /\ g.keys = r.keys
  BY <1>1 DEF Remotes
<1>6. q.joined = r.joined
  BY <1>1 DEF Remotes
<1>7. g.joined = FALSE
  BY <1>1 DEF Remotes
<1>8. StartJoin(x, S, u, FALSE) =
        IF Joins(S, u) # {} THEN Did(tried, {}) ELSE Did(A, {Packet(x, t, "request")})
  BY DEF StartJoin
<1> HIDE DEF q, g
<1>9. Like(S, tried) /\ tried.role = S.role /\ tried.remotes[u] = q
  BY <1>2, <1>5, <1>6, LikeUpdated DEF AskerReady
<1> HIDE DEF tried
<1>10. Like(tried, B) /\ B.role = tried.role
  <2>1. Shape(tried) /\ u \in DOMAIN tried.remotes
    BY <1>9 DEF Like
  <2> QED
    BY <1>4, <1>5, <1>7, <1>9, <2>1, LikeUpdated
<1> HIDE DEF B
<1>11. AskerFine(x, S, M, Did(tried, {}))
  <2>1. Same(S, tried) /\ tried.trans = S.trans
    BY <1>9, SameLike
  <2>2. Asker(tried, M) /\ Onward(S, tried)
    BY <1>9, <2>1, AskerStays DEF AskerReady, Asker
  <2> QED
    BY <2>2 DEF AskerFine, Did
<1>12. AskerFine(x, S, M, Did(A, {Packet(x, t, "request")}))
  <2>1. Same(S, B) /\ B.trans = S.trans /\ Shape(B) /\ B.role = S.role
    BY <1>9, <1>10, SameLike, SameOn
  <2>2. /\ t.uid = u /\ t.le = u /\ t.re = r.fuid /\ t.vacuous = (r.fuid = 0)
        /\ t.renewal = FALSE /\ t.tx = "request" /\ t.rmt = FALSE
    OBVIOUS
  <2> HIDE DEF t, r
  <2>3. Joined(B, A) /\ A.trans \subseteq B.trans \cup {t}
    BY <2>1, JoinsAdded
  <2> HIDE DEF A
  <2>4. Same(S, A) /\ A.role = S.role
    BY <2>1, <2>3, SameLike, SameOn DEF Joined
  <2>5. /\ u <= S.puid
        /\ r.fuid # 0 => Met(M, u, r.fuid)
    BY DEF r, AskerReady, Asker, AskerRemotes
  <2>6. AskerJoin(S, M, t)
    BY <2>2, <2>5 DEF AskerJoin, r
  <2>7. \A v \in A.trans : AskerJoin(S, M, v)
    BY <2>1, <2>3, <2>6 DEF AskerReady, Asker
  <2>8. Asker(A, M) /\ Onward(S, A)
    BY <2>4, <2>7, AskerStays DEF AskerReady
  <2> DEFINE p == Packet(x, t, "request")
  <2>9. p.to = Other(x) /\ p.pk = "request" /\ p.se = u /\ p.de = r.fuid /\ p.keys = 1
    BY <2>2, PacketFields DEF AskerReady
  <2> HIDE DEF p
  <2>10. ToAsked(p, M, A)
    BY <2>4, <2>5, <2>9 DEF ToAsked, Same
  <2> QED
    BY <2>8, <2>9, <2>10 DEF AskerFine, Did, p
<1> QED
  BY <1>8, <1>11, <1>12

(* What a Joiner says of its own uid and the other's. *)
LEMMA JoinerSays ==
  ASSUME NEW x, NEW S, NEW M, NEW X, NEW t, AskerJoin(S, M, t), NEW pk \in {"pend", "ack"},
         pk = "ack" => ~t.rmt /\ Known(X, t.uid) /\ \E w \in DOMAIN M.remotes : Met(M, t.uid, w)
  PROVE  Packet(x, t, pk).to = Other(x) /\ ToAsked(Packet(x, t, pk), M, X)
<1> DEFINE p == Packet(x, t, pk)
<1>1. p.to = Other(x) /\ p.pk = pk /\ p.cf = t.rmt /\ p.se = t.le /\ p.de = t.re
  BY PacketFields
<1> HIDE DEF p
<1>2. ToAsked(p, M, X)
  BY <1>1 DEF ToAsked, AskerJoin, Nacks
<1> QED
  BY <1>1, <1>2 DEF p

LEMMA AskerCompletes ==
  ASSUME NEW x, NEW S, NEW M, AskerReady(x, S, M), NEW t, AskerJoin(S, M, t),
         S.remotes[t.uid].fuid # 0,
         NEW T, T = Remove(DumpLocal(DumpRemote([S EXCEPT !.remotes[t.uid].joined = TRUE], t.uid)), t)
  PROVE  /\ AskerFine(x, S, M, Did(T, {}))
         /\ ~t.rmt => AskerFine(x, S, M, Did(T, {Packet(x, t, "ack")}))
<1>1. /\ Same(S, T) /\ T.trans \subseteq S.trans /\ t.uid \in DOMAIN S.remotes
  <2>1. Shape(S) /\ t.uid \in DOMAIN S.remotes
    BY DEF AskerReady, AskerJoin
  <2>2. /\ T.puid = S.puid /\ T.trans = S.trans \ {t} /\ DOMAIN T.remotes = DOMAIN S.remotes
        /\ \A v \in DOMAIN S.remotes :
             T.remotes[v].fuid = S.remotes[v].fuid /\ T.remotes[v].keys = S.remotes[v].keys
    BY <2>1, CompletedLike
  <2> QED
    BY <2>1, <2>2 DEF Same
<1>2. Asker(T, M) /\ Onward(S, T)
  BY <1>1, AskerStays DEF AskerReady, Asker
<1>3. Met(M, t.uid, S.remotes[t.uid].fuid) /\ t.uid <= S.puid
  BY <1>1 DEF AskerReady, Asker, AskerRemotes
<1>4. Known(T, t.uid) /\ \E w \in DOMAIN M.remotes : Met(M, t.uid, w)
  BY <1>1, <1>3 DEF Known, Same, Met
<1>5. ~t.rmt => Packet(x, t, "ack").to = Other(x) /\ ToAsked(Packet(x, t, "ack"), M, T)
  BY <1>4, JoinerSays
<1> QED
  BY <1>2, <1>5 DEF AskerFine, Did

(* A join goes on with another packet sent. *)
LEMMA AskerSends ==
  ASSUME NEW x, NEW S, NEW M, AskerReady(x, S, M), NEW T, Same(S, T), Shape(T),
         NEW t \in Transactions, T.trans \subseteq S.trans \cup {t}, AskerJoin(S, M, t), S.remotes[t.uid].fuid # 0,
         NEW pk \in {"pend", "response"}, pk = "response" => t.rmt
  PROVE  AskerFine(x, S, M, Did(Sent(T, t, pk), {Packet(x, t, pk)}))
<1> DEFINE U == Sent(T, t, pk)
           y == [t EXCEPT !.tx = pk]
<1>1. Joined(T, U) /\ U.trans = (T.trans \ {t}) \cup {y}
  BY JoinsSent
<1>2. /\ y.rmt = t.rmt /\ y.uid = t.uid /\ y.le = t.le /\ y.re = t.re
      /\ y.vacuous = t.vacuous /\ y.renewal = t.renewal /\ y.tx = pk
  BY SentFields
<1> HIDE DEF U, y
<1>3. Same(S, U)
  BY <1>1, SameLike, SameOn
<1>4. AskerJoin(S, M, y)
  BY <1>2 DEF AskerJoin
<1>5. \A v \in U.trans : AskerJoin(S, M, v)
  BY <1>1, <1>4 DEF AskerReady, Asker
<1>6. t.uid \in DOMAIN S.remotes
  BY DEF AskerJoin
<1>7. Asker(U, M) /\ Onward(S, U)
  BY <1>3, <1>5, <1>6, AskerStays DEF AskerReady
<1>8. Known(U, t.uid)
  BY <1>3, <1>6 DEF Known, Same, AskerReady, Asker, AskerRemotes
<1>9. Packet(x, t, pk).to = Other(x) /\ ToAsked(Packet(x, t, pk), M, U)
  <2>1. CASE pk = "pend"
    BY <2>1, JoinerSays
  <2>2. CASE pk = "response"
    <3> DEFINE p == Packet(x, t, pk)
    <3>1. p.to = Other(x) /\ p.pk = "response" /\ p.cf = t.rmt /\ p.uid = t.uid
      BY <2>2, PacketFields
    <3> HIDE DEF p
    <3>2. ToAsked(p, M, U)
      BY <1>8, <2>2, <3>1 DEF ToAsked, Nacks
    <3> QED
      BY <3>1, <3>2 DEF p
  <2> QED
    BY <2>1, <2>2
<1> QED
  BY <1>7, <1>9 DEF AskerFine, Did, U

(* accept of the asking stack: the response has its uid at the other. *)
LEMMA AskerAccepted ==
  ASSUME NEW x, NEW S, NEW M, AskerReady(x, S, M), NEW t \in Transactions, AskerJoin(S, M, t),
         ~t.rmt, NEW p, PacketOK(p), p.keys = 1,
         S.remotes[t.uid].fuid = p.uid, p.uid # 0, S.remotes[t.uid].keys = 1
  PROVE  AskerFine(x, S, M, Accepted(x, S, t, p))
<1> DEFINE u == t.uid
           status == Status(x, S, p.keys)
           A == StatusDump(x, S, p.keys)
           B == [A EXCEPT !.remotes[u].acceptance = status]
           C == [B EXCEPT !.remotes[u].fuid = p.uid]
           D == [C EXCEPT !.remotes[u].keys = p.keys]
           met == Rename(D, u)
<1>1. /\ u \in DOMAIN S.remotes /\ p.keys \in KeyGens /\ p.uid \in Uids /\ x \in Stacks
      /\ S.role \in RoleRecords /\ Shape(S)
  BY DEF PacketOK, Packets, AskerReady, AskerJoin
<1>2. Like(S, A) /\ A.role = Persisted(AutoMode[x], S.role, p.keys)
  BY <1>1, LikeDumps
<1>3. status \in Statuses /\ A.role \in RoleRecords
  BY <1>1, <1>2, StatusTypes
<1>4. Accepted(x, S, t, p) =
        IF NameTaken(S, u) THEN Nack(x, B, t, "reject")
        ELSE IF status = "accepted" THEN Completify(x, met, t)
        ELSE Did(Sent(DumpRemote(met, u), t, "pend"), {Packet(x, t, "pend")})
  <2>1. D = [B EXCEPT !.remotes[u].fuid = p.uid, !.remotes[u].keys = p.keys]
    OBVIOUS
  <2> QED
    BY <2>1 DEF Accepted
<1>5. ~NameTaken(S, u)
  BY <1>1, NoneTaken
<1> HIDE DEF A, status, u
<1>6. Like(A, B) /\ B.role = A.role
  <2>1. Shape(A) /\ u \in DOMAIN A.remotes
    BY <1>1, <1>2 DEF Like
  <2>2. status \in Statuses
    BY <1>3
  <2> QED
    BY <2>1, <2>2, LikeAcceptance
<1> HIDE DEF B
<1>7. /\ Shape(B) /\ B.puid = S.puid /\ B.trans = S.trans /\ DOMAIN B.remotes = DOMAIN S.remotes
      /\ B.role = A.role /\ B.remotes[u] \in Remotes
  BY <1>1, <1>2, <1>6 DEF Like, Shape
<1>8. Given(B, C, u, [B.remotes[u] EXCEPT !.fuid = p.uid])
  BY <1>1, <1>7, FieldsGiven
<1> HIDE DEF C
<1>9. /\ Shape(C) /\ C.puid = S.puid /\ C.trans = S.trans /\ DOMAIN C.remotes = DOMAIN S.remotes
      /\ C.role = A.role /\ C.remotes[u] \in Remotes /\ C.remotes[u].fuid = p.uid
  BY <1>1, <1>7, <1>8 DEF Given, Shape, Remotes
<1>10. Given(C, D, u, [C.remotes[u] EXCEPT !.keys = p.keys])
  BY <1>1, <1>9, FieldsGiven
<1> HIDE DEF D
<1>11. /\ Shape(D) /\ D.puid = S.puid /\ D.trans = S.trans /\ DOMAIN D.remotes = DOMAIN S.remotes
       /\ D.role = A.role /\ D.remotes[u].fuid = p.uid /\ D.remotes[u].keys = 1
  BY <1>1, <1>9, <1>10 DEF Given, Shape, Remotes
<1>12. Like(D, met) /\ met.role = D.role
  BY <1>1, <1>11, LikeRenamed
<1> HIDE DEF met
<1>13. Same(S, met) /\ Shape(met) /\ met.trans = S.trans /\ met.role \in RoleRecords
  <2>1. \A v \in DOMAIN S.remotes : v = u
    BY <1>1 DEF Shape, Lone
  <2> QED
    BY <1>1, <1>3, <1>11, <1>12, <2>1 DEF Same, Like, u
<1>14. AskerFine(x, S, M, Completify(x, met, t))
  <2>1. Asker(met, M) /\ Onward(S, met)
    BY <1>1, <1>13, AskerStays DEF AskerReady, Asker, u
  <2>2. AskerReady(x, met, M)
    BY <1>13, <2>1 DEF AskerReady, Same
  <2>3. AskerJoin(met, M, t) /\ met.remotes[t.uid].fuid # 0
    BY <1>1, <1>13 DEF AskerJoin, Same, u
  <2> DEFINE T == Remove(DumpLocal(DumpRemote([met EXCEPT !.remotes[t.uid].joined = TRUE], t.uid)), t)
  <2>4. Completify(x, met, t) = Did(T, {Packet(x, t, "ack")})
    BY DEF Completify
  <2>5. AskerFine(x, met, M, Did(T, {Packet(x, t, "ack")}))
    <3>1. \A V : V = T => AskerFine(x, met, M, Did(V, {Packet(x, t, "ack")}))
      BY <2>2, <2>3, AskerCompletes
    <3> QED
      BY <3>1
  <2> HIDE DEF T
  <2> QED
    BY <2>1, <2>4, <2>5, AskerFineOn DEF AskerReady
<1>15. AskerFine(x, S, M, Did(Sent(DumpRemote(met, u), t, "pend"), {Packet(x, t, "pend")}))
  <2> DEFINE E == DumpRemote(met, u)
  <2>1. Like(met, E)
    BY <1>1, <1>13, LikeDumps DEF Same
  <2> HIDE DEF E
  <2>2. Same(S, E) /\ Shape(E) /\ E.trans = S.trans
    BY <1>13, <2>1, SameLike, SameOn
  <2>3. AskerFine(x, S, M, Did(Sent(E, t, "pend"), {Packet(x, t, "pend")}))
    BY <2>2, AskerSends
  <2> QED
    BY <2>3 DEF E
<1> QED
  BY <1>4, <1>5, <1>14, <1>15

LEMMA AskerAccepts ==
  ASSUME NEW x, NEW S, NEW M, AskerReady(x, S, M), NEW t \in S.trans, ~t.rmt,
         NEW p, PacketOK(p), p.keys = 1, Met(M, t.uid, p.uid)
  PROVE  AskerFine(x, S, M, Accept(x, S, t, p))
<1> DEFINE u == t.uid
           name == S.remotes[u].name
           first == t.vacuous /\ ~t.renewal
           reached == IF t.vacuous THEN [S EXCEPT !.remotes[u].fuid = p.uid] ELSE S
           X == [reached EXCEPT !.remotes[u].keys = p.keys]
           W == IF first THEN Rename(X, u) ELSE reached
           w == W.remotes[u]
           same == w.name = "peer" /\ w.fuid = p.uid /\ w.keys = p.keys
<1>1. /\ u \in DOMAIN S.remotes /\ t \in Transactions /\ S.remotes[u] \in Remotes
      /\ p.keys \in KeyGens /\ p.uid \in Uids /\ AskerJoin(S, M, t) /\ ~t.renewal
      /\ Shape(S) /\ S.puid \in Nat /\ Partner(M) /\ Asker(S, M) /\ x \in Mutables
  BY DEF PacketOK, Packets, AskerReady, Asker, AskerJoin, Shape
<1>2. Accept(x, S, t, p) =
        IF first /\ name # "peer" /\ NameTaken(S, u) THEN Nack(x, reached, t, "reject")
        ELSE IF ~same /\ x \notin Mutables THEN Nack(x, W, t, "reject")
        ELSE IF Status(x, W, p.keys) = "rejected"
        THEN IF w.keys = p.keys THEN RemoveRemote(x, W, u) ELSE Nack(x, W, t, "reject")
        ELSE Accepted(x, W, t, p)
  BY DEF Accept
<1>3. ~NameTaken(S, u)
  BY <1>1, NoneTaken
<1> HIDE DEF u
<1>4. p.uid # 0
  BY DEF Met, Partner, AskerReady
<1>5. /\ Shape(W) /\ W.puid = S.puid /\ W.trans = S.trans /\ DOMAIN W.remotes = DOMAIN S.remotes
      /\ W.role = S.role /\ w.fuid = p.uid /\ w.keys = 1
  <2>1. CASE t.vacuous
    <3>1. reached = [S EXCEPT !.remotes[u].fuid = p.uid] /\ W = Rename(X, u)
      BY <1>1, <2>1
    <3> HIDE DEF W
    <3>2. Given(S, reached, u, [S.remotes[u] EXCEPT !.fuid = p.uid])
      <4> HIDE DEF reached
      <4> QED
        BY <1>1, <3>1, FieldsGiven
    <3> HIDE DEF reached
    <3>3. /\ Shape(reached) /\ reached.puid = S.puid /\ reached.trans = S.trans
          /\ DOMAIN reached.remotes = DOMAIN S.remotes /\ reached.role = S.role
          /\ reached.remotes[u] \in Remotes /\ reached.remotes[u].fuid = p.uid
      BY <1>1, <3>2 DEF Given, Shape, Remotes
    <3>4. Given(reached, X, u, [reached.remotes[u] EXCEPT !.keys = p.keys])
      BY <1>1, <3>3, FieldsGiven
    <3> HIDE DEF X
    <3>5. /\ Shape(X) /\ X.puid = S.puid /\ X.trans = S.trans
          /\ DOMAIN X.remotes = DOMAIN S.remotes /\ X.role = S.role
          /\ X.remotes[u].fuid = p.uid /\ X.remotes[u].keys = 1
      BY <1>1, <3>3, <3>4 DEF Given, Shape, Remotes
    <3>6. Like(X, Rename(X, u)) /\ Rename(X, u).role = X.role
      BY <1>1, <3>5, LikeRenamed
    <3> QED
      BY <1>1, <3>1, <3>5, <3>6 DEF Like
  <2>2. CASE ~t.vacuous
    <3>1. W = S
      BY <2>2
    <3>2. t.re # 0 /\ Met(M, u, t.re) /\ S.remotes[u].fuid # 0
      BY <1>1, <2>2 DEF AskerJoin, u
    <3>3. Met(M, u, S.remotes[u].fuid) /\ S.remotes[u].keys = 1
      BY <1>1, <3>2 DEF Asker, AskerRemotes
    <3>4. S.remotes[u].fuid = p.uid
      BY <1>1, <3>3 DEF Met, Partner, Lone
    <3> QED
      BY <1>1, <3>1, <3>3, <3>4
  <2> QED
    BY <2>1, <2>2
<1> HIDE DEF reached, W
<1>6. Asker(W, M) /\ Onward(S, W)
  <2>1. Met(M, u, p.uid) /\ \A v \in W.trans : AskerJoin(S, M, v)
    BY <1>1, <1>5 DEF Asker, u
  <2> QED
    BY <1>1, <1>5, <2>1, AskerTold
<1>7. AskerReady(x, W, M)
  BY <1>5, <1>6 DEF AskerReady
<1>8. AskerJoin(W, M, t)
  BY <1>5, <1>6 DEF Asker
<1>9. AskerFine(x, S, M, RemoveRemote(x, W, u))
  BY <1>1, <1>5, <1>6, <1>7, AskerRemoves, AskerFineOn
<1>10. AskerFine(x, S, M, Accepted(x, W, t, p))
  <2>1. AskerFine(x, W, M, Accepted(x, W, t, p))
    BY <1>1, <1>4, <1>5, <1>7, <1>8, AskerAccepted DEF u
  <2> QED
    BY <1>1, <1>6, <2>1, AskerFineOn
<1> QED
  BY <1>1, <1>2, <1>3, <1>5, <1>9, <1>10

LEMMA AskerRejected ==
  ASSUME NEW x, NEW S, NEW M, AskerReady(x, S, M), NEW t \in S.trans
  PROVE  AskerFine(x, S, M, Reject(x, S, t))
<1> DEFINE T == Remove(S, t)
<1>1. AskerReady(x, T, M) /\ Onward(S, T) /\ T.remotes = S.remotes
  BY AskerRemoved
<1> HIDE DEF T
<1>2. t.uid \in DOMAIN T.remotes /\ S.puid \in Nat
  BY <1>1 DEF AskerReady, Asker, AskerJoin
<1>3. AskerFine(x, T, M, RemoveRemote(x, T, t.uid))
  BY <1>1, <1>2, AskerRemoves
<1>4. AskerFine(x, S, M, RemoveRemote(x, T, t.uid))
  BY <1>1, <1>2, <1>3, AskerFineOn
<1> QED
  BY <1>4 DEF Reject, T

LEMMA AskerJoinerReceives ==
  ASSUME NEW x, NEW S, NEW M, AskerReady(x, S, M), NEW t \in S.trans, ~t.rmt,
         NEW p, PacketOK(p), ToAsker(p, M), p.de = t.le
  PROVE  AskerFine(x, S, M, JoinerReceive(x, S, t, p))
<1>1. t.le = t.uid
  BY DEF AskerReady, Asker, AskerJoin
<1>2. CASE p.pk = "response"
  <2>1. Met(M, t.uid, p.uid) /\ p.keys = 1
    BY <1>1, <1>2 DEF ToAsker
  <2>2. AskerFine(x, S, M, Accept(x, S, t, p))
    BY <2>1, AskerAccepts
  <2> QED
    BY <1>2, <2>2 DEF JoinerReceive
<1>3. CASE p.pk \in {"nack", "refuse"}
  <2>1. AskerFine(x, S, M, Did(Remove(S, t), {}))
    BY AskerStops
  <2>2. JoinerReceive(x, S, t, p) = Did(Remove(S, t), {})
    BY <1>3 DEF JoinerReceive
  <2> QED
    BY <2>1, <2>2
<1>4. CASE p.pk = "reject"
  <2>1. JoinerReceive(x, S, t, p) = Reject(x, S, t)
    BY <1>4 DEF JoinerReceive
  <2> QED
    BY <2>1, AskerRejected
<1>5. CASE p.pk \notin {"response", "nack", "refuse", "reject"}
  <2>1. p.pk # "renew"
    BY DEF ToAsker
  <2>2. JoinerReceive(x, S, t, p) = Did(S, {})
    BY <1>5, <2>1 DEF JoinerReceive
  <2> QED
    BY <2>2, AskerQuiet
<1> QED
  BY <1>2, <1>3, <1>4, <1>5

LEMMA AskerJoinentReceives ==
  ASSUME NEW x, NEW S, NEW M, AskerReady(x, S, M), NEW t \in S.trans, t.rmt, NEW p
  PROVE  AskerFine(x, S, M, JoinentReceive(x, S, t, p))
<1>1. AskerJoin(S, M, t) /\ S.remotes[t.uid].fuid # 0
  BY DEF AskerReady, Asker, AskerJoin
<1>2. CASE p.pk = "ack"
  <2> DEFINE T == Remove(DumpLocal(DumpRemote([S EXCEPT !.remotes[t.uid].joined = TRUE], t.uid)), t)
  <2>1. JoinentReceive(x, S, t, p) = Did(T, {})
    BY <1>2 DEF JoinentReceive, Complete
  <2>2. \A V : V = T => AskerFine(x, S, M, Did(V, {}))
    BY <1>1, AskerCompletes
  <2> HIDE DEF T
  <2> QED
    BY <2>1, <2>2
<1>3. CASE p.pk \in {"nack", "refuse"}
  <2>1. AskerFine(x, S, M, Did(Remove(S, t), {}))
    BY AskerStops
  <2>2. JoinentReceive(x, S, t, p) = Did(Remove(S, t), {})
    BY <1>3 DEF JoinentReceive
  <2> QED
    BY <2>1, <2>2
<1>4. CASE p.pk = "reject"
  <2>1. JoinentReceive(x, S, t, p) = Reject(x, S, t)
    BY <1>4 DEF JoinentReceive
  <2> QED
    BY <2>1, AskerRejected
<1>5. CASE p.pk \notin {"ack", "nack", "refuse", "reject"}
  <2>1. JoinentReceive(x, S, t, p) = Did(S, {})
    BY <1>5 DEF JoinentReceive
  <2> QED
    BY <2>1, AskerQuiet
<1> QED
  BY <1>2, <1>3, <1>4, <1>5

(* The asking stack is asked. *)
LEMMA AskerCorresponds ==
  ASSUME NEW x, NEW S, NEW M, AskerReady(x, S, M), NEW p, PacketOK(p),
         NEW uid \in DOMAIN S.remotes, uid \in Uids, S.remotes[uid].fuid # 0
  PROVE  AskerFine(x, S, M, Correspond(x, S, p, uid))
<1>1. Shape(S)
  BY DEF AskerReady
<1>6. PICK t, T : Corresponding(x, S, p, uid, t, T)
  BY <1>1, Corresponds
<1>2. AskerJoin(S, M, t) /\ t \in Transactions /\ t.rmt /\ t.uid = uid
  BY <1>6 DEF Corresponding, JoinentOf, AskerJoin
<1>3. Same(S, T) /\ Shape(T) /\ T.trans \subseteq S.trans \cup {t}
  BY <1>6 DEF Corresponding, Follows, Same
<1>4. CASE Correspond(x, S, p, uid) = Did(T, {})
  <2>1. Asker(T, M) /\ Onward(S, T)
    BY <1>2, <1>3, AskerStays DEF AskerReady, Asker
  <2> QED
    BY <1>4, <2>1 DEF AskerFine, Did
<1>5. ASSUME NEW pk \in {"pend", "response"},
             Correspond(x, S, p, uid) = Did(Sent(T, t, pk), {Packet(x, t, pk)})
      PROVE  AskerFine(x, S, M, Correspond(x, S, p, uid))
  <2>1. AskerFine(x, S, M, Did(Sent(T, t, pk), {Packet(x, t, pk)}))
    BY <1>2, <1>3, AskerSends
  <2> QED
    BY <1>5, <2>1
<1> QED
  BY <1>4, <1>5, <1>6 DEF Corresponding

LEMMA AskerMeets ==
  ASSUME NEW x, NEW S, NEW M, AskerReady(x, S, M), NEW p, PacketOK(p), p.keys = 1,
         NEW uid \in DOMAIN S.remotes, uid \in Uids, Met(M, uid, p.se)
  PROVE  AskerFine(x, S, M, Meet(x, S, p, uid, S.remotes[uid]))
<1> DEFINE r == S.remotes[uid]
           same == r.name = "peer" /\ r.fuid = p.se /\ r.keys = p.keys
           status == Status(x, S, p.keys)
           D == StatusDump(x, S, p.keys)
           q == [r EXCEPT !.acceptance = status]
           met == Update(D, uid, q)
           V == Rename(met, uid)
           C == [V EXCEPT !.remotes[uid].fuid = p.se]
           E == [C EXCEPT !.remotes[uid].keys = p.keys]
<1>1. /\ r \in Remotes /\ p.keys \in KeyGens /\ p.se \in Uids /\ x \in Stacks
      /\ S.role \in RoleRecords /\ Shape(S) /\ S.puid \in Nat /\ p.se # 0
      /\ x \in Mutables /\ Asker(S, M) /\ Partner(M)
  BY DEF PacketOK, Packets, AskerReady, Shape, Partner, Met
<1>2. Meet(x, S, p, uid, r) =
        CASE ~same /\ x \notin Mutables -> Refused(x, S, p, uid, "reject")
          [] (same \/ x \in Mutables) /\ status = "rejected" ->
               IF r.keys = p.keys THEN RemoveRemote(x, S, uid)
                                  ELSE Refused(x, D, p, uid, "reject")
          [] same /\ status # "rejected" -> Correspond(x, met, p, uid)
          [] OTHER -> IF NameTaken(S, uid) THEN Refused(x, met, p, uid, "reject")
                                           ELSE Correspond(x, E, p, uid)
  <2>1. E = [V EXCEPT !.remotes[uid].fuid = p.se, !.remotes[uid].keys = p.keys]
    OBVIOUS
  <2> QED
    BY <2>1 DEF Meet
<1>3. ~NameTaken(S, uid)
  BY <1>1, NoneTaken
<1>4. Like(S, D) /\ D.role = Persisted(AutoMode[x], S.role, p.keys) /\ D.remotes = S.remotes
  BY <1>1, LikeDumps
<1>5. status \in Statuses /\ D.role \in RoleRecords
  BY <1>1, <1>4, StatusTypes
<1>6. status = "rejected" => S.role.acceptance # "none"
  BY <1>1, ConstantsAssumption DEF Status, StatusRole, FirstStatus, RoleRecords
<1>7. status = "rejected" => r.keys = p.keys
  <2>1. SUFFICES ASSUME status = "rejected", r.fuid = 0 PROVE FALSE
    BY <1>1 DEF Asker, AskerRemotes
  <2>2. PICK w \in DOMAIN M.remotes : Known(S, M.remotes[w].fuid)
    BY <1>1, <1>6, <2>1 DEF Asker, AskerRole
  <2>3. M.remotes[w].fuid = uid
    BY <1>1, <2>2 DEF Partner, Lone, Met
  <2> QED
    BY <2>1, <2>2, <2>3 DEF Known
<1> HIDE DEF D, status
<1>8. q \in Remotes
  BY <1>1, <1>5, RemoteRecord
<1>9. q.name = r.name /\ q.fuid = r.fuid /\ q.keys = r.keys
  BY <1>1 DEF Remotes
<1>10. q.joined = r.joined
  BY <1>1 DEF Remotes
<1> HIDE DEF q
<1>11. Like(D, met) /\ met.role = D.role
  <2>1. Shape(D) /\ uid \in DOMAIN D.remotes /\ D.remotes[uid] = r
    BY <1>4 DEF Like
  <2> QED
    BY <1>8, <1>9, <1>10, <2>1, LikeUpdated
<1> HIDE DEF met
<1>12. Same(S, met) /\ Shape(met) /\ met.trans = S.trans /\ met.role \in RoleRecords
  BY <1>4, <1>5, <1>11, SameLike, SameOn
<1>13. AskerFine(x, S, M, RemoveRemote(x, S, uid))
  BY AskerRemoves
<1>14. ASSUME same PROVE AskerFine(x, S, M, Correspond(x, met, p, uid))
  <2>1. Asker(met, M) /\ Onward(S, met)
    BY <1>1, <1>12, <1>14, AskerStays DEF Asker
  <2>2. AskerReady(x, met, M) /\ uid \in DOMAIN met.remotes /\ met.remotes[uid].fuid # 0
    BY <1>1, <1>12, <1>14, <2>1 DEF AskerReady, Same
  <2>3. AskerFine(x, met, M, Correspond(x, met, p, uid))
    BY <2>2, AskerCorresponds
  <2> QED
    BY <1>1, <2>1, <2>3, AskerFineOn
<1>15. AskerFine(x, S, M, Correspond(x, E, p, uid))
  <2>1. Like(met, V) /\ V.role = met.role
    BY <1>12, LikeRenamed DEF Same
  <2> HIDE DEF V
  <2>2. /\ Shape(V) /\ V.puid = S.puid /\ V.trans = S.trans /\ DOMAIN V.remotes = DOMAIN S.remotes
        /\ V.role \in RoleRecords /\ V.remotes[uid] \in Remotes
    BY <1>12, <2>1 DEF Like, Same, Shape
  <2>3. Given(V, C, uid, [V.remotes[uid] EXCEPT !.fuid = p.se])
    BY <1>1, <2>2, FieldsGiven
  <2> HIDE DEF C
  <2>4. /\ Shape(C) /\ C.puid = S.puid /\ C.trans = S.trans /\ DOMAIN C.remotes = DOMAIN S.remotes
        /\ C.role \in RoleRecords /\ C.remotes[uid] \in Remotes /\ C.remotes[uid].fuid = p.se
    BY <1>1, <2>2, <2>3 DEF Given, Shape, Remotes
  <2>5. Given(C, E, uid, [C.remotes[uid] EXCEPT !.keys = p.keys])
    BY <1>1, <2>4, FieldsGiven
  <2> HIDE DEF E
  <2>6. /\ Shape(E) /\ E.puid = S.puid /\ E.trans = S.trans /\ DOMAIN E.remotes = DOMAIN S.remotes
        /\ E.role \in RoleRecords /\ E.remotes[uid].fuid = p.se /\ E.remotes[uid].keys = 1
    BY <1>1, <2>4, <2>5 DEF Given, Shape, Remotes
  <2>7. Asker(E, M) /\ Onward(S, E)
    BY <1>1, <2>6, AskerTold DEF Asker
  <2>8. AskerReady(x, E, M)
    BY <2>6, <2>7 DEF AskerReady
  <2>9. AskerFine(x, E, M, Correspond(x, E, p, uid))
    BY <1>1, <2>6, <2>8, AskerCorresponds
  <2> QED
    BY <1>1, <2>7, <2>9, AskerFineOn
<1> HIDE DEF E, r
<1>16. CASE status = "rejected"
  BY <1>1, <1>2, <1>7, <1>13, <1>16 DEF r
<1>17. CASE status # "rejected"
  BY <1>1, <1>2, <1>3, <1>14, <1>15, <1>17 DEF r
<1> QED
  BY <1>16, <1>17

(* What a side sends besides, while it refuses a join for another. *)
LEMMA AskerJoins ==
  ASSUME NEW x, NEW S, NEW M, AskerReady(x, S, M), NEW p, PacketOK(p), p.keys = 1,
         NEW uid \in DOMAIN S.remotes, uid \in Uids \ {0}, p.de = uid, Met(M, uid, p.se)
  PROVE  AskerFine(x, S, M, Join(x, S, p, uid, S.remotes[uid]))
<1> DEFINE joins == Joins(S, uid)
           refused == \E t \in joins : t.rmt \/ Yields(x, p, t)
           free == IF joins = {} THEN S ELSE Remove(S, CHOOSE t \in joins : TRUE)
           done == Meet(x, free, p, uid, S.remotes[uid])
           told == {Packet(x, t, "refuse") : t \in joins}
<1>1. Join(x, S, p, uid, S.remotes[uid]) =
        IF refused THEN Refused(x, S, p, uid, "refuse") ELSE Did(done.st, done.out \cup told)
  BY DEF Join
<1>2. AskerFine(x, S, M, Refused(x, S, p, uid, "refuse"))
  <2>1. Refused(x, S, p, uid, "refuse") = Did(S, {Answer(x, p, "refuse")})
    BY DEF Refused
  <2>2. Answer(x, p, "refuse").to = Other(x) /\ ToAsked(Answer(x, p, "refuse"), M, S)
    BY AnswerFields, RefusalsToAsked
  <2> QED
    BY <2>1, <2>2, AskerQuiet
<1>3. \A q \in told : q.to = Other(x) /\ \A X : ToAsked(q, M, X)
  BY PacketFields, RefusalsToAsked
<1>4. AskerReady(x, free, M) /\ Onward(S, free) /\ free.remotes = S.remotes
  <2>1. CASE joins = {}
    BY <2>1 DEF Onward, AskerReady
  <2>2. CASE joins # {}
    BY <2>2, AskerRemoved
  <2> QED
    BY <2>1, <2>2
<1> HIDE DEF refused, free, told, joins
<1>5. AskerFine(x, free, M, done)
  <2>1. AskerFine(x, free, M, Meet(x, free, p, uid, free.remotes[uid]))
    BY <1>4, AskerMeets
  <2> QED
    BY <1>4, <2>1
<1> HIDE DEF done
<1>6. AskerFine(x, S, M, done)
  BY <1>4, <1>5, AskerFineOn DEF AskerReady
<1>7. AskerFine(x, S, M, Did(done.st, done.out \cup told))
  BY <1>3, <1>6 DEF AskerFine, Did
<1> QED
  BY <1>1, <1>2, <1>7

(* The join that meets a packet has its uids. *)
LEMMA SameUids ==
  ASSUME NEW t, NEW p, Index(t) = RxIndex(p)
  PROVE  t.rmt = ~p.cf /\ t.le = p.de
<1> DEFINE y == IF t.rmt /\ t.le = 0 THEN 0 ELSE t.re
           z == IF ~p.cf /\ p.de = 0 THEN 0 ELSE p.se
<1>1. <<t.rmt, t.le, y, t.ti>> = <<~p.cf, p.de, z, p.ti>>
  BY DEF Index, RxIndex
<1> HIDE DEF y, z
<1> QED
  BY <1>1

LEMMA AskerTransacts ==
  ASSUME NEW x, NEW S, NEW M, AskerReady(x, S, M), NEW p, PacketOK(p), ToAsker(p, M), NEW uid,
         p.pk = "request" /\ ~p.cf => uid = p.de /\ uid \in DOMAIN S.remotes /\ uid # 0
  PROVE  AskerFine(x, S, M, Transact(x, S, p, uid))
<1> DEFINE found == {t \in Joins(S, uid) : Index(t) = RxIndex(p)}
           t == CHOOSE y \in found : TRUE
           out == IF p.pk \notin Nacks /\ p.de \in DOMAIN S.remotes
                  THEN {Answer(x, p, "nack")} ELSE {}
<1>1. CASE found # {}
  <2>1. t \in found
    BY <1>1
  <2> HIDE DEF t
  <2>2. t \in S.trans /\ Index(t) = RxIndex(p)
    BY <2>1 DEF Joins
  <2>3. Transact(x, S, p, uid) = IF t.rmt THEN JoinentReceive(x, S, t, p)
                                          ELSE JoinerReceive(x, S, t, p)
    BY <1>1 DEF Transact, t
  <2>4. p.de = t.le
    BY <2>2, SameUids
  <2> QED
    BY <2>2, <2>3, <2>4, AskerJoinentReceives, AskerJoinerReceives
<1>2. CASE found = {} /\ p.cf
  <2>1. Transact(x, S, p, uid) = Did(S, out)
    BY <1>2 DEF Transact
  <2>2. \A q \in out : q.to = Other(x) /\ ToAsked(q, M, S)
    <3>1. Answer(x, p, "nack").to = Other(x) /\ ToAsked(Answer(x, p, "nack"), M, S)
      BY AnswerFields, RefusalsToAsked
    <3> QED
      BY <3>1
  <2> HIDE DEF out
  <2> QED
    BY <2>1, <2>2, AskerQuiet
<1>3. CASE found = {} /\ ~p.cf
  <2>1. Transact(x, S, p, uid) = IF p.pk = "request" THEN Join(x, S, p, uid, Remote(S, uid))
                                                     ELSE Did(S, {})
    BY <1>3 DEF Transact
  <2>2. CASE p.pk = "request"
    <3>1. /\ uid = p.de /\ uid \in DOMAIN S.remotes /\ uid \in Uids \ {0}
          /\ Met(M, uid, p.se) /\ p.keys = 1 /\ Remote(S, uid) = S.remotes[uid]
      BY <1>3, <2>2 DEF ToAsker, PacketOK, Packets, Remote
    <3> QED
      BY <2>1, <2>2, <3>1, AskerJoins
  <2>3. CASE p.pk # "request"
    BY <2>1, <2>3, AskerQuiet
  <2> QED
    BY <2>2, <2>3
<1> QED
  BY <1>1, <1>2, <1>3

LEMMA AskerFromJoinent ==
  ASSUME NEW x, NEW S, NEW M, AskerReady(x, S, M), NEW p, PacketOK(p), ToAsker(p, M), p.cf
  PROVE  AskerFine(x, S, M, FromJoinent(x, S, p))
<1>1. AskerFine(x, S, M, Did(S, {}))
  BY AskerQuiet
<1>2. \A uid : AskerFine(x, S, M, Transact(x, S, p, uid))
  BY AskerTransacts
<1> QED
  BY <1>1, <1>2 DEF FromJoinent

(* puid moves on. *)
LEMMA AskerGrows ==
  ASSUME NEW S, NEW M, Asker(S, M), Partner(M), S.puid \in Nat, DOMAIN S.remotes \subseteq Nat,
         NEW v \in Nat, S.puid < v,
         NEW T, T.puid = v, T.trans = S.trans, T.role = S.role,
         \/ T.remotes = S.remotes
         \/ /\ DOMAIN S.remotes = {} /\ DOMAIN T.remotes = {v}
            /\ T.remotes[v].fuid = 0 /\ T.remotes[v].keys = 0
  PROVE  Asker(T, M) /\ Onward(S, T)
<1>1. \A u \in Uids : u \in Nat
  BY Ids
<1>2. Onward(S, T)
  BY <1>1 DEF Onward, Known
<1>3. AskerRole(T, M)
  BY <1>2 DEF Asker, AskerRole, Onward, Partner
<1>4. CASE T.remotes = S.remotes
  <2>1. AskerRemotes(T, M)
    <3>1. ASSUME NEW u \in DOMAIN S.remotes PROVE u <= T.puid
      <4>1. u <= S.puid
        BY <3>1 DEF Asker, AskerRemotes
      <4> QED
        BY <4>1
    <3> QED
      BY <1>4, <3>1 DEF Asker, AskerRemotes, Lone
  <2>2. \A t \in T.trans : AskerJoin(T, M, t)
    BY <1>4 DEF Asker, AskerJoin
  <2> QED
    BY <1>2, <1>3, <2>1, <2>2 DEF Asker
<1>5. CASE DOMAIN S.remotes = {} /\ DOMAIN T.remotes = {v}
           /\ T.remotes[v].fuid = 0 /\ T.remotes[v].keys = 0
  <2>1. AskerRemotes(T, M)
    BY <1>5 DEF AskerRemotes, Lone
  <2>2. T.trans = {}
    BY <1>5 DEF Asker, AskerJoin
  <2> QED
    BY <1>2, <1>3, <2>1, <2>2 DEF Asker
<1> QED
  BY <1>4, <1>5

LEMMA AskerFromJoiner ==
  ASSUME NEW x, NEW S, NEW M, AskerReady(x, S, M), NEW p, PacketOK(p), ToAsker(p, M), ~p.cf,
         p.de \in DOMAIN S.remotes \/ HasUid(S), DOMAIN S.remotes \subseteq Uids \ {0}
  PROVE  AskerFine(x, S, M, FromJoiner(x, S, p))
<1> DEFINE prior == S.joinees
           stale == prior # 0 /\ Remote(S, prior).fuid \notin {0, p.se}
           W == IF stale THEN [S EXCEPT !.joinees = 0] ELSE S
           uid == NextUid(S)
           fresh == [W EXCEPT !.puid = uid]
           moved == [S EXCEPT !.puid = uid]
           out == IF p.pk \in Nacks \ {"renew"} THEN {} ELSE {Answer(x, p, "renew")}
<1>1. FromJoiner(x, S, p) =
        CASE p.de = 0 /\ W.joinees # 0 -> Transact(x, W, p, W.joinees)
          [] p.de = 0 /\ W.joinees = 0 ->
               IF p.pk = "request" THEN Join(x, fresh, p, uid, NewRemote) ELSE Did(W, {})
          [] p.de # 0 /\ p.de \in DOMAIN S.remotes -> Transact(x, S, p, p.de)
          [] OTHER -> Did(moved, out)
  BY DEF FromJoiner
<1>2. p.pk = "request" => p.de # 0
  BY DEF ToAsker, Met, Partner, AskerReady
<1>3. AskerReady(x, W, M) /\ Onward(S, W)
  <2>1. CASE stale
    BY <2>1, AskerJoinees
  <2>2. CASE ~stale
    BY <2>2 DEF Onward, AskerReady
  <2> QED
    BY <2>1, <2>2
<1> HIDE DEF W, fresh
<1>4. CASE p.de = 0 /\ W.joinees # 0
  <2>1. AskerFine(x, W, M, Transact(x, W, p, W.joinees))
    BY <1>2, <1>3, <1>4, AskerTransacts
  <2>2. AskerFine(x, S, M, Transact(x, W, p, W.joinees))
    BY <1>3, <2>1, AskerFineOn DEF AskerReady
  <2> QED
    BY <1>1, <1>4, <2>2
<1>5. CASE p.de = 0 /\ W.joinees = 0
  <2>1. AskerFine(x, W, M, Did(W, {}))
    BY <1>3, AskerQuiet
  <2>2. AskerFine(x, S, M, Did(W, {}))
    BY <1>3, <2>1, AskerFineOn DEF AskerReady
  <2> QED
    BY <1>1, <1>2, <1>5, <2>2
<1>6. CASE p.de # 0 /\ p.de \in DOMAIN S.remotes
  <2>1. AskerFine(x, S, M, Transact(x, S, p, p.de))
    BY <1>6, AskerTransacts
  <2> QED
    BY <1>1, <1>6, <2>1
<1>7. CASE p.de # 0 /\ p.de \notin DOMAIN S.remotes
  <2>1. uid \in Uids \ {0} /\ uid > S.puid
    BY <1>7, NewUid
  <2> HIDE DEF uid
  <2>2. /\ moved.puid = uid /\ moved.trans = S.trans /\ moved.role = S.role
        /\ moved.remotes = S.remotes
    BY DEF AskerReady, Shape, StackFields
  <2> HIDE DEF moved
  <2>3. uid \in Nat /\ S.puid < uid /\ DOMAIN S.remotes \subseteq Nat
    BY <2>1, Ids DEF AskerReady
  <2>4. Asker(moved, M) /\ Onward(S, moved)
    BY <2>2, <2>3, AskerGrows DEF AskerReady
  <2>5. \A q \in out : q.to = Other(x) /\ ToAsked(q, M, moved)
    <3> DEFINE q == Answer(x, p, "renew")
    <3>1. q.to = Other(x) /\ q.pk = "renew"
      BY AnswerFields
    <3>2. q.cf
      BY AnswerFields
    <3> HIDE DEF q
    <3>3. ToAsked(q, M, moved)
      BY <3>1, <3>2, RefusalsToAsked
    <3> QED
      BY <3>1, <3>3 DEF q
  <2> HIDE DEF out
  <2>6. AskerFine(x, S, M, Did(moved, out))
    BY <2>4, <2>5 DEF AskerFine, Did
  <2> QED
    BY <1>1, <1>7, <2>6
<1> QED
  BY <1>4, <1>5, <1>6, <1>7

LEMMA AskerCreates ==
  ASSUME NEW x, NEW S, NEW M, AskerReady(x, S, M), HasUid(S), DOMAIN S.remotes = {},
         NEW uid, uid = NextUid(S)
  PROVE  AskerFine(x, S, M, Did([Update(S, uid, NewRemote) EXCEPT
                                   !.puid = uid, !.names = Put(@, "new", uid)], {}))
<1> DEFINE R == Put(S.remotes, uid, NewRemote)
           N == Put(S.names, "new", uid)
           T == [Update(S, uid, NewRemote) EXCEPT !.puid = uid, !.names = Put(@, "new", uid)]
<1>1. DOMAIN S = StackFields /\ S.puid \in Nat
  BY DEF AskerReady, Shape
<1>2. uid \in Nat /\ S.puid < uid
  BY <1>1, NewUid, Ids
<1>3. DOMAIN R = {uid} /\ R[uid].fuid = 0 /\ R[uid].keys = 0
  BY DEF Put, NewRemote
<1>4. T = [S EXCEPT !.remotes = R, !.puid = uid, !.names = N]
  BY <1>1 DEF Update, StackFields
<1> HIDE DEF R, N, T
<1>5. T.remotes = R /\ T.trans = S.trans /\ T.role = S.role /\ T.puid = uid
  BY <1>1, <1>4 DEF StackFields
<1>6. Asker(T, M) /\ Onward(S, T)
  BY <1>1, <1>2, <1>3, <1>5, AskerGrows DEF AskerReady
<1>7. AskerFine(x, S, M, Did(T, {}))
  BY <1>6 DEF AskerFine, Did
<1> QED
  BY <1>7 DEF T

LEMMA AskerTimesOut ==
  ASSUME NEW x, NEW S, NEW M, AskerReady(x, S, M), NEW t \in S.trans
  PROVE  AskerFine(x, S, M, IF t.rmt THEN Nack(x, S, t, "nack") ELSE Did(Remove(S, t), {}))
BY AskerNacks, AskerStops

LEMMA AskerResends ==
  ASSUME NEW x, NEW S, NEW M, AskerReady(x, S, M), NEW t \in S.trans, t.tx # "pend"
  PROVE  AskerFine(x, S, M, Did(S, {Packet(x, t, t.tx)}))
<1> DEFINE p == Packet(x, t, t.tx)
<1>1. /\ AskerJoin(S, M, t) /\ t.tx \in {"request", "response"}
      /\ (t.tx = "request" => ~t.rmt) /\ (t.tx = "response" => t.rmt)
  BY DEF AskerReady, Asker, AskerJoin, Transactions
<1>2. /\ p.to = Other(x) /\ p.pk = t.tx /\ p.cf = t.rmt /\ p.se = t.le /\ p.de = t.re
      /\ t.tx = "request" => p.keys = 1
      /\ t.tx = "response" => p.uid = t.uid
  BY PacketFields DEF AskerReady
<1> HIDE DEF p
<1>3. t.uid <= S.puid
  BY <1>1 DEF AskerJoin, AskerReady, Asker, AskerRemotes
<1>4. CASE t.tx = "request"
  <2>1. ToAsked(p, M, S)
    BY <1>1, <1>2, <1>3, <1>4 DEF ToAsked, AskerJoin
  <2> QED
    BY <1>2, <2>1, AskerQuiet DEF p
<1>5. CASE t.tx = "response"
  <2>1. Known(S, t.uid)
    BY <1>1, <1>3, <1>5 DEF AskerJoin, Known
  <2>2. ToAsked(p, M, S)
    BY <1>1, <1>2, <1>5, <2>1 DEF ToAsked
  <2> QED
    BY <1>2, <2>2, AskerQuiet DEF p
<1> QED
  BY <1>1, <1>4, <1>5

(* process of the asking stack, and what an outside entity does to it. *)
LEMMA AskerRedoes ==
  ASSUME NEW x, NEW S, NEW M, AskerReady(x, S, M), NEW t \in S.trans, t.tx = "pend",
         NEW status, NEW D, status = Status(x, S, S.remotes[t.uid].keys),
         D = [StatusDump(x, S, S.remotes[t.uid].keys) EXCEPT !.remotes[t.uid].acceptance = status]
  PROVE  /\ t.rmt => AskerFine(x, S, M, AckAccept(x, D, t))
         /\ ~t.rmt => AskerFine(x, S, M, Completify(x, D, t))
         /\ AskerFine(x, S, M, RemoveRemote(x, D, t.uid))
         /\ AskerFine(x, S, M, Did(D, {}))
<1> DEFINE u == t.uid
           keys == S.remotes[u].keys
           A == StatusDump(x, S, keys)
           B == [A EXCEPT !.remotes[u].acceptance = status]
<1>1. /\ u \in DOMAIN S.remotes /\ AskerJoin(S, M, t) /\ S.remotes[u].fuid # 0
      /\ t \in Transactions /\ S.remotes[u] \in Remotes /\ keys \in KeyGens /\ S.puid \in Nat
      /\ Shape(S) /\ x \in Stacks /\ S.role \in RoleRecords /\ Partner(M) /\ Asker(S, M)
  <2>1. /\ AskerJoin(S, M, t) /\ t \in Transactions /\ S.puid \in Nat
        /\ Shape(S) /\ x \in Stacks /\ S.role \in RoleRecords /\ Partner(M) /\ Asker(S, M)
    BY DEF AskerReady, Asker
  <2>2. u \in DOMAIN S.remotes /\ S.remotes[u].fuid # 0
    BY <2>1 DEF AskerJoin
  <2>3. S.remotes[u] \in Remotes
    BY <2>1, <2>2 DEF Shape
  <2> QED
    BY <2>1, <2>2, <2>3, RemoteRecord
<1>2. Like(S, A) /\ A.role = Persisted(AutoMode[x], S.role, keys)
  BY <1>1, LikeDumps
<1>3. status \in Statuses /\ A.role \in RoleRecords
  BY <1>1, <1>2, StatusTypes
<1>4. D = B /\ status = Status(x, S, keys)
  OBVIOUS
<1> HIDE DEF A, keys, u
<1>5. Like(A, B) /\ B.role = A.role
  <2>1. Shape(A) /\ u \in DOMAIN A.remotes
    BY <1>1, <1>2 DEF Like
  <2>2. status \in Statuses
    BY <1>3
  <2> QED
    BY <2>1, <2>2, LikeAcceptance
<1> HIDE DEF B
<1>6. Same(S, D) /\ Shape(D) /\ D.trans = S.trans /\ D.role \in RoleRecords
  <2>1. Same(S, A) /\ A.trans = S.trans /\ Same(A, B) /\ B.trans = A.trans /\ Shape(B)
    BY <1>2, <1>5, SameLike
  <2>2. Same(S, B) /\ B.role \in RoleRecords
    BY <1>3, <1>5, <2>1, SameOn
  <2> QED
    BY <1>4, <2>1, <2>2
<1>7. Asker(D, M) /\ Onward(S, D)
  BY <1>1, <1>6, AskerStays DEF Asker
<1>8. AskerReady(x, D, M) /\ t \in D.trans /\ u \in DOMAIN D.remotes
  BY <1>1, <1>6, <1>7 DEF AskerReady, Same
<1>9. t.rmt => AskerFine(x, S, M, AckAccept(x, D, t))
  <2>1. D.trans \subseteq S.trans \cup {t} /\ "response" \in {"pend", "response"}
    BY <1>6
  <2>2. t.rmt => AskerFine(x, S, M, Did(Sent(D, t, "response"), {Packet(x, t, "response")}))
    BY <1>1, <1>6, <2>1, AskerSends DEF u
  <2> QED
    BY <2>2 DEF AckAccept
<1>10. ~t.rmt => AskerFine(x, S, M, Completify(x, D, t))
  <2> DEFINE T == Remove(DumpLocal(DumpRemote([D EXCEPT !.remotes[t.uid].joined = TRUE], t.uid)), t)
  <2>1. Completify(x, D, t) = Did(T, {Packet(x, t, "ack")})
    BY DEF Completify
  <2>2. AskerJoin(D, M, t) /\ D.remotes[t.uid].fuid # 0
    BY <1>1, <1>6, <1>8 DEF AskerReady, Asker, Same, u
  <2>3. ~t.rmt => AskerFine(x, D, M, Did(T, {Packet(x, t, "ack")}))
    <3>1. \A V : V = T /\ ~t.rmt => AskerFine(x, D, M, Did(V, {Packet(x, t, "ack")}))
      BY <1>8, <2>2, AskerCompletes
    <3> QED
      BY <3>1
  <2> HIDE DEF T
  <2> QED
    BY <1>1, <1>7, <2>1, <2>3, AskerFineOn
<1>11. AskerFine(x, S, M, RemoveRemote(x, D, u))
  BY <1>1, <1>7, <1>8, AskerRemoves, AskerFineOn
<1>12. AskerFine(x, S, M, Did(D, {}))
  BY <1>7 DEF AskerFine, Did
<1> QED
  BY <1>9, <1>10, <1>11, <1>12 DEF u

LEMMA AskerJudged ==
  ASSUME NEW x, NEW S, NEW M, AskerReady(x, S, M), NEW u \in DOMAIN S.remotes,
         S.remotes[u].keys # 0, NEW status \in Statuses
  PROVE  AskerFine(x, S, M, Did([S EXCEPT !.remotes[u].acceptance = status,
                                          !.role = RoleData(status, S.remotes[u].keys)], {}))
<1> DEFINE A == [S EXCEPT !.remotes[u].acceptance = status]
           K == RoleData(status, S.remotes[u].keys)
           T == [A EXCEPT !.role = K]
<1>1. Shape(S) /\ S.puid \in Nat /\ Partner(M) /\ Asker(S, M) /\ S.remotes[u].fuid # 0
  BY DEF AskerReady, Asker, AskerRemotes
<1>2. T = [S EXCEPT !.remotes[u].acceptance = status, !.role = K]
  OBVIOUS
<1> HIDE DEF K
<1>3. Like(S, A)
  BY <1>1, LikeAcceptance
<1> HIDE DEF A
<1>4. Like(A, T)
  <2>1. Shape(A)
    BY <1>3 DEF Like
  <2> QED
    BY <2>1, LikeOthers
<1> HIDE DEF T
<1>5. Same(S, T) /\ T.trans = S.trans
  BY <1>3, <1>4, SameLike, SameOn
<1>6. Asker(T, M) /\ Onward(S, T)
  BY <1>1, <1>5, AskerStays DEF Asker
<1>7. AskerFine(x, S, M, Did(T, {}))
  BY <1>6 DEF AskerFine, Did
<1> QED
  BY <1>2, <1>7 DEF K

(* The stack that is asked. *)

(* Its remotes stay, with their uids. *)
Kept(S, T) ==
  \A w \in DOMAIN S.remotes : w \in DOMAIN T.remotes /\ T.remotes[w].fuid = S.remotes[w].fuid

(* What a handler of the asked stack m may make of S and send. *)
AskedFine(m, S, X, d) ==
  \/ Closed(m, d.st)
  \/ /\ Asked(d.st, X) /\ Kept(S, d.st)
     /\ \A p \in d.out : p.to = Other(m) /\ ToAsker(p, d.st)

(* What of it the lemmas assume. *)
AskedReady(m, S, X) ==
  /\ m \in Stacks /\ m \notin Mutables /\ m \notin Creators
  /\ stack[m].keys = 1 /\ Sound(m, S) /\ Asked(S, X) /\ X.puid \in Nat /\ ~S.raised

LEMMA AskedFacts ==
  ASSUME NEW m, NEW S, NEW X, AskedReady(m, S, X)
  PROVE  /\ Shape(S) /\ S.role \in RoleRecords /\ S.trans \subseteq Transactions
         /\ DOMAIN S.remotes \subseteq Uids \ {0} /\ Fixed(m)
         /\ \A w \in DOMAIN S.remotes :
              /\ S.remotes[w] \in Remotes /\ S.remotes[w].name = "peer"
              /\ S.remotes[w].keys = S.role.keys
         /\ \A n \in DOMAIN S.names : n = "peer" /\ S.names[n] \in DOMAIN S.remotes
         /\ \A t \in S.trans : AskedJoin(S, X, t) /\ (t.rmt \/ ~t.vacuous)
<1>1. Fixed(m) /\ Shape(S) /\ Sound(m, S)
  BY SoundShape DEF AskedReady, Fixed
<1>2. Core(m, S.remotes, S.names, S.trans, S.files, S.role)
  BY <1>1 DEF Sound
<1>3. /\ \A w \in DOMAIN S.remotes :
              /\ S.remotes[w] \in Remotes /\ S.remotes[w].name = "peer"
              /\ S.remotes[w].keys = S.role.keys
      /\ \A n \in DOMAIN S.names : n = "peer" /\ S.names[n] \in DOMAIN S.remotes
      /\ \A t \in S.trans : t.rmt \/ ~t.vacuous
  BY <1>1, <1>2 DEF Core, AskedReady
<1>4. \A t \in S.trans : AskedJoin(S, X, t)
  BY DEF AskedReady, Asked
<1> QED
  BY <1>1, <1>3, <1>4, SoundFields

LEMMA AskedFineOn ==
  ASSUME NEW m, NEW S, NEW T, NEW X, NEW d, Kept(S, T), AskedFine(m, T, X, d)
  PROVE  AskedFine(m, S, X, d)
BY DEF AskedFine, Kept

LEMMA AskedStays ==
  ASSUME NEW S, NEW T, NEW X, Asked(S, X),
         DOMAIN T.remotes = DOMAIN S.remotes,
         \A w \in DOMAIN S.remotes :
           /\ T.remotes[w].fuid = S.remotes[w].fuid
           /\ T.remotes[w].joined => S.remotes[w].joined \/ Known(X, S.remotes[w].fuid),
         \A t \in T.trans : AskedJoin(S, X, t)
  PROVE  Asked(T, X) /\ Kept(S, T)
BY DEF Asked, AskedJoin, Kept

LEMMA AskedLike ==
  ASSUME NEW S, NEW T, NEW X, Asked(S, X), Like(S, T)
  PROVE  Asked(T, X) /\ Kept(S, T) /\ Shape(T)
BY AskedStays DEF Like, Asked

(* Nacks say nothing to the asking stack. *)
LEMMA RefusalsToAsker ==
  ASSUME NEW M, NEW q, q.pk \in {"nack", "refuse", "reject", "pend", "ack"}
  PROVE  ToAsker(q, M)
BY DEF ToAsker

LEMMA AskedQuiet ==
  ASSUME NEW m, NEW S, NEW X, Asked(S, X),
         NEW out, \A q \in out : q.to = Other(m) /\ ToAsker(q, S)
  PROVE  AskedFine(m, S, X, Did(S, out))
BY DEF AskedFine, Did, Kept

LEMMA AskedRemoved ==
  ASSUME NEW m, NEW S, NEW X, AskedReady(m, S, X), NEW t
  PROVE  /\ AskedReady(m, Remove(S, t), X) /\ Kept(S, Remove(S, t))
         /\ Remove(S, t).remotes = S.remotes
<1> DEFINE T == Remove(S, t)
<1>1. Sound(m, T) /\ T.remotes = S.remotes /\ T.trans = S.trans \ {t}
  BY Removed DEF AskedReady, Keeps
<1>3. T.raised = S.raised
  BY SoundFields DEF AskedReady, Remove, StackFields
<1> HIDE DEF T
<1>2. Asked(T, X) /\ Kept(S, T)
  BY <1>1, AskedStays DEF AskedReady, Asked
<1> QED
  BY <1>1, <1>2, <1>3 DEF AskedReady, T

LEMMA AskedStops ==
  ASSUME NEW m, NEW S, NEW X, AskedReady(m, S, X), NEW t,
         NEW out, \A q \in out : q.to = Other(m) /\ ToAsker(q, Remove(S, t))
  PROVE  AskedFine(m, S, X, Did(Remove(S, t), out))
BY AskedRemoved DEF AskedReady, AskedFine, Did

LEMMA AskedNacks ==
  ASSUME NEW m, NEW S, NEW X, AskedReady(m, S, X), NEW t, NEW pk \in {"nack", "refuse", "reject"}
  PROVE  AskedFine(m, S, X, Nack(m, S, t, pk))
<1>1. Packet(m, t, pk).to = Other(m) /\ ToAsker(Packet(m, t, pk), Remove(S, t))
  BY PacketFields, RefusalsToAsker
<1> QED
  BY <1>1, AskedStops DEF Nack

(* removeRemote, for a role that is rejected: no remote is left. *)
LEMMA AskedRemoves ==
  ASSUME NEW m, NEW S, NEW X, Shape(S), NEW u \in DOMAIN S.remotes, NEW Z,
         S.role.acceptance = "rejected", AutoMode[m] # "always"
  PROVE  AskedFine(m, Z, X, RemoveRemote(m, S, u))
<1> DEFINE name == S.remotes[u].name
           joins == Joins(S, u)
           R == Drop(S.remotes, u)
           N == Drop(S.names, name)
           V == S.trans \ joins
           G == {f \in S.files : f.name # name}
           vacuous == \E t \in joins : t.vacuous
           j == IF vacuous THEN 0 ELSE S.joinees
           g == IF ~vacuous /\ S.joinees = u THEN S.remotes[u] ELSE S.ghost
           T == [[S EXCEPT !.files = G] EXCEPT
                   !.remotes = R, !.names = N, !.trans = V, !.joinees = j, !.ghost = g]
           out == {Packet(m, t, "nack") : t \in {y \in joins : y.rmt}}
<1>1. name \in DOMAIN S.names /\ DOMAIN S = StackFields /\ Lone(S)
  BY DEF Shape
<1>2. RemoveRemote(m, S, u) = Did(T, out)
  BY <1>1 DEF RemoveRemote, ClearFile
<1>3. DOMAIN R = {}
  BY <1>1 DEF Lone, Drop
<1> HIDE DEF R, N, V, G, j, g, out
<1>4. T.remotes = R /\ T.role = S.role
  BY <1>1 DEF StackFields
<1> HIDE DEF T
<1> QED
  BY <1>2, <1>3, <1>4 DEF AskedFine, Closed, Did

(* When a remote's own keys are rejected, the role is. *)
LEMMA RejectedRole ==
  ASSUME NEW m \in Stacks, NEW S, S.role \in RoleRecords, Status(m, S, S.role.keys) = "rejected"
  PROVE  S.role.acceptance = "rejected" /\ AutoMode[m] # "always"
BY ConstantsAssumption DEF Status, StatusRole, FirstStatus, RoleRecords

(* A join of the asked stack asks with the uids the other has. *)
LEMMA AskedAsks ==
  ASSUME NEW m, NEW S, NEW X, AskedReady(m, S, X), NEW u \in DOMAIN S.remotes,
         S.remotes[u].tid < MaxTid
  PROVE  AskedFine(m, S, X, StartJoin(m, S, u, FALSE))
<1> DEFINE r == S.remotes[u]
           t == [rmt |-> FALSE, uid |-> u, le |-> u, re |-> r.fuid, ti |-> r.tid + 1,
                 vacuous |-> r.fuid = 0, renewal |-> FALSE, tx |-> "request"]
           q == [r EXCEPT !.tid = @ + 1]
           g == [r EXCEPT !.tid = @ + 1, !.joined = FALSE]
           tried == Update(S, u, q)
           B == Update(tried, u, g)
           A == Add(B, t)
<1>1. r \in Remotes /\ r.tid + 1 \in Tids /\ r.tid \in Tids /\ Shape(S) /\ Asked(S, X)
  <2>1. r \in Remotes /\ MaxTid \in Nat /\ Shape(S) /\ Asked(S, X)
    BY Ids, AskedFacts DEF AskedReady
  <2>2. r.tid \in Tids
    BY <2>1 DEF Remotes
  <2> QED
    BY <2>1, <2>2 DEF Tids
<1>2. q \in Remotes
  BY <1>1, RemoteRecord
<1>3. g = [q EXCEPT !.joined = FALSE]
  BY <1>1 DEF Remotes
<1>4. g \in Remotes
  BY <1>2, <1>3, RemoteRecord
<1>5. /\ q.name = r.name /\ q.fuid = r.fuid /\ q.keys = r.keys
      /\ g.name = r.name /\ g.fuid = r.fuid /\ g.keys = r.keys
  BY <1>1 DEF Remotes
<1>6. q.joined = r.joined
  BY <1>1 DEF Remotes
<1>7. g.joined = FALSE
  BY <1>1 DEF Remotes
<1>8. StartJoin(m, S, u, FALSE) =
        IF Joins(S, u) # {} THEN Did(tried, {}) ELSE Did(A, {Packet(m, t, "request")})
  BY DEF StartJoin
<1> HIDE DEF q, g
<1>9. Like(S, tried) /\ tried.remotes[u] = q
  BY <1>1, <1>2, <1>5, <1>6, LikeUpdated
<1> HIDE DEF tried
<1>10. Like(tried, B)
  <2>1. Shape(tried) /\ u \in DOMAIN tried.remotes
    BY <1>9 DEF Like
  <2> QED
    BY <1>4, <1>5, <1>7, <1>9, <2>1, LikeUpdated
<1> HIDE DEF B
<1>11. AskedFine(m, S, X, Did(tried, {}))
  <2>1. Asked(tried, X) /\ Kept(S, tried)
    BY <1>1, <1>9, AskedLike
  <2> QED
    BY <2>1 DEF AskedFine, Did
<1>12. AskedFine(m, S, X, Did(A, {Packet(m, t, "request")}))
  <2>1. Like(S, B)
    BY <1>9, <1>10, LikeOn
  <2>2. t.uid = u /\ t.le = u /\ t.re = r.fuid /\ t.tx = "request" /\ t.rmt = FALSE
    OBVIOUS
  <2> HIDE DEF t, r
  <2>3. Joined(B, A) /\ A.trans \subseteq B.trans \cup {t}
    BY <2>1, JoinsAdded DEF Like
  <2> HIDE DEF A
  <2>4. AskedJoin(S, X, t)
    BY <2>2 DEF AskedJoin, r
  <2>5. /\ DOMAIN A.remotes = DOMAIN S.remotes
        /\ \A w \in DOMAIN S.remotes :
             /\ A.remotes[w].fuid = S.remotes[w].fuid
             /\ A.remotes[w].joined => S.remotes[w].joined
        /\ \A v \in A.trans : AskedJoin(S, X, v)
    BY <1>1, <2>1, <2>3, <2>4 DEF Like, Joined, Asked
  <2>6. Asked(A, X) /\ Kept(S, A)
    BY <1>1, <2>5, AskedStays
  <2> DEFINE p == Packet(m, t, "request")
  <2>7. p.to = Other(m) /\ p.pk = "request" /\ p.se = u /\ p.de = r.fuid /\ p.keys = 1
    BY <2>2, PacketFields DEF AskedReady
  <2> HIDE DEF p
  <2>8. ToAsker(p, A)
    BY <2>5, <2>7 DEF ToAsker, Met, r
  <2> QED
    BY <2>6, <2>7, <2>8 DEF AskedFine, Did, p
<1> QED
  BY <1>8, <1>11, <1>12

(* The only remote is joined now; the other stack knows its uid. *)
LEMMA AskedCompletes ==
  ASSUME NEW m, NEW S, NEW X, Shape(S), Asked(S, X), NEW t, t.uid \in DOMAIN S.remotes,
         Known(X, S.remotes[t.uid].fuid),
         NEW out, \A q \in out : q.to = Other(m) /\ q.pk = "ack",
         NEW T, T = Remove(DumpLocal(DumpRemote([S EXCEPT !.remotes[t.uid].joined = TRUE], t.uid)), t)
  PROVE  AskedFine(m, S, X, Did(T, out))
<1>1. /\ T.trans = S.trans \ {t} /\ DOMAIN T.remotes = DOMAIN S.remotes
      /\ \A v \in DOMAIN S.remotes : T.remotes[v].fuid = S.remotes[v].fuid
  BY CompletedLike
<1>2. \A v \in DOMAIN S.remotes : v = t.uid
  BY DEF Shape, Lone
<1>3. Asked(T, X) /\ Kept(S, T)
  <2>1. \A v \in T.trans : AskedJoin(S, X, v)
    BY <1>1 DEF Asked
  <2>2. \A w \in DOMAIN S.remotes :
          /\ T.remotes[w].fuid = S.remotes[w].fuid
          /\ T.remotes[w].joined => S.remotes[w].joined \/ Known(X, S.remotes[w].fuid)
    BY <1>1, <1>2
  <2> QED
    BY <1>1, <2>1, <2>2, AskedStays
<1>4. \A q \in out : ToAsker(q, T)
  BY RefusalsToAsker
<1> QED
  BY <1>3, <1>4 DEF AskedFine, Did

(* A join goes on with another packet sent. *)
LEMMA AskedSends ==
  ASSUME NEW m, NEW S, NEW X, Asked(S, X), NEW T, Shape(T), stack[m].keys = 1,
         DOMAIN T.remotes = DOMAIN S.remotes,
         \A w \in DOMAIN S.remotes :
           /\ T.remotes[w].fuid = S.remotes[w].fuid
           /\ T.remotes[w].joined => S.remotes[w].joined,
         NEW t \in Transactions, T.trans \subseteq S.trans \cup {t}, AskedJoin(S, X, t),
         NEW pk \in {"pend", "response"}, pk = "pend" => t.rmt \/ Known(X, t.re)
  PROVE  AskedFine(m, S, X, Did(Sent(T, t, pk), {Packet(m, t, pk)}))
<1> DEFINE U == Sent(T, t, pk)
           y == [t EXCEPT !.tx = pk]
           p == Packet(m, t, pk)
<1>1. Joined(T, U) /\ U.trans = (T.trans \ {t}) \cup {y}
  BY JoinsSent
<1>2. y.rmt = t.rmt /\ y.uid = t.uid /\ y.le = t.le /\ y.re = t.re /\ y.tx = pk
  BY SentFields
<1> HIDE DEF U, y
<1>3. AskedJoin(S, X, y)
  BY <1>2 DEF AskedJoin
<1>4. \A v \in U.trans : AskedJoin(S, X, v)
  BY <1>1, <1>3 DEF Asked
<1>5. /\ DOMAIN U.remotes = DOMAIN S.remotes
      /\ \A w \in DOMAIN S.remotes :
           /\ U.remotes[w].fuid = S.remotes[w].fuid
           /\ U.remotes[w].joined => S.remotes[w].joined
  BY <1>1 DEF Joined
<1>6. Asked(U, X) /\ Kept(S, U)
  BY <1>4, <1>5, AskedStays
<1>7. /\ p.to = Other(m) /\ p.pk = pk /\ p.de = t.re
      /\ pk = "response" => p.uid = t.uid /\ p.keys = 1
  BY PacketFields
<1> HIDE DEF p
<1>8. ToAsker(p, U)
  <2>1. Met(U, t.re, t.uid)
    BY <1>5 DEF Met, AskedJoin
  <2> QED
    BY <1>7, <2>1 DEF ToAsker
<1> QED
  BY <1>6, <1>7, <1>8 DEF AskedFine, Did, U, p

(* accept of the asked stack: on its road the response is what it knows. *)
LEMMA AskedAccepted ==
  ASSUME NEW m, NEW S, NEW X, AskedReady(m, S, X), NEW t \in S.trans, ~t.rmt,
         NEW p, PacketOK(p), Known(X, p.uid),
         S.remotes[t.uid].fuid = p.uid, S.remotes[t.uid].keys = p.keys
  PROVE  AskedFine(m, S, X, Accepted(m, S, t, p))
<1> DEFINE u == t.uid
           status == Status(m, S, p.keys)
           A == StatusDump(m, S, p.keys)
           B == [A EXCEPT !.remotes[u].acceptance = status]
           C == [B EXCEPT !.remotes[u].fuid = p.uid]
           D == [C EXCEPT !.remotes[u].keys = p.keys]
           met == Rename(D, u)
<1>1. /\ Shape(S) /\ S.role \in RoleRecords /\ Asked(S, X) /\ AskedJoin(S, X, t)
      /\ t \in Transactions /\ m \in Stacks /\ stack[m].keys = 1
  BY AskedFacts DEF AskedReady
<1>2. u \in DOMAIN S.remotes /\ p.keys \in KeyGens /\ p.uid \in Uids /\ t.re = p.uid
  BY <1>1 DEF PacketOK, Packets, AskedJoin
<1>3. Like(S, A)
  BY <1>1, <1>2, LikeDumps
<1>4. status \in Statuses
  BY <1>1, <1>2, StatusTypes
<1>5. Accepted(m, S, t, p) =
        IF NameTaken(S, u) THEN Nack(m, B, t, "reject")
        ELSE IF status = "accepted" THEN Completify(m, met, t)
        ELSE Did(Sent(DumpRemote(met, u), t, "pend"), {Packet(m, t, "pend")})
  <2>1. D = [B EXCEPT !.remotes[u].fuid = p.uid, !.remotes[u].keys = p.keys]
    OBVIOUS
  <2> QED
    BY <2>1 DEF Accepted
<1>6. ~NameTaken(S, u)
  BY <1>1, <1>2, NoneTaken
<1> HIDE DEF A, status, u
<1>7. Like(A, B)
  <2>1. Shape(A) /\ u \in DOMAIN A.remotes
    BY <1>2, <1>3 DEF Like
  <2> QED
    BY <1>4, <2>1, LikeAcceptance
<1> HIDE DEF B
<1>8. Like(S, B) /\ Shape(B) /\ u \in DOMAIN B.remotes /\ B.remotes[u] \in Remotes
  <2>1. Like(S, B)
    BY <1>3, <1>7, LikeOn
  <2> QED
    BY <1>2, <2>1 DEF Like, Shape
<1>9. Given(B, C, u, [B.remotes[u] EXCEPT !.fuid = p.uid])
  BY <1>2, <1>8, FieldsGiven
<1> HIDE DEF C
<1>10. /\ Shape(C) /\ C.puid = B.puid /\ C.trans = B.trans /\ DOMAIN C.remotes = DOMAIN B.remotes
       /\ C.remotes[u] \in Remotes /\ C.remotes[u].fuid = p.uid
       /\ C.remotes[u].keys = B.remotes[u].keys
  BY <1>2, <1>8, <1>9 DEF Given, Shape, Remotes
<1>11. C.remotes[u].joined = B.remotes[u].joined
  BY <1>2, <1>8, <1>9 DEF Given, Remotes
<1>12. Given(C, D, u, [C.remotes[u] EXCEPT !.keys = p.keys])
  BY <1>2, <1>8, <1>10, FieldsGiven
<1> HIDE DEF D
<1>13. /\ Shape(D) /\ D.puid = B.puid /\ D.trans = B.trans /\ DOMAIN D.remotes = DOMAIN B.remotes
       /\ D.remotes[u].fuid = p.uid /\ D.remotes[u].keys = p.keys
  BY <1>2, <1>8, <1>10, <1>12 DEF Given, Remotes
<1>14. D.remotes[u].joined = B.remotes[u].joined
  BY <1>2, <1>8, <1>10, <1>11, <1>12 DEF Given, Remotes
<1>15. Like(S, D)
  <2>1. \A v \in DOMAIN S.remotes : v = u
    BY <1>1, <1>2 DEF Shape, Lone
  <2>2. S.remotes[u].fuid = p.uid /\ S.remotes[u].keys = p.keys
    BY DEF u
  <2> QED
    BY <1>8, <1>13, <1>14, <2>1, <2>2 DEF Like
<1>16. Like(D, met)
  BY <1>8, <1>13, LikeRenamed
<1> HIDE DEF met
<1>17. Like(S, met) /\ Shape(met) /\ Asked(met, X) /\ Kept(S, met)
       /\ u \in DOMAIN met.remotes /\ met.remotes[u].fuid = p.uid
  <2>1. Like(S, met)
    BY <1>15, <1>16, LikeOn
  <2>2. S.remotes[u].fuid = p.uid
    BY DEF u
  <2>3. Asked(met, X) /\ Kept(S, met) /\ Shape(met)
    BY <1>1, <2>1, AskedLike
  <2> QED
    BY <1>2, <2>1, <2>2, <2>3 DEF Like
<1>18. AskedFine(m, S, X, Completify(m, met, t))
  <2> DEFINE T == Remove(DumpLocal(DumpRemote([met EXCEPT !.remotes[t.uid].joined = TRUE], t.uid)), t)
             out == {Packet(m, t, "ack")}
  <2>1. Completify(m, met, t) = Did(T, out)
    BY DEF Completify
  <2>2. \A q \in out : q.to = Other(m) /\ q.pk = "ack"
    BY PacketFields
  <2>3. t.uid \in DOMAIN met.remotes /\ Known(X, met.remotes[t.uid].fuid)
    BY <1>17 DEF u
  <2> HIDE DEF out
  <2>4. AskedFine(m, met, X, Did(T, out))
    <3>1. \A V : V = T => AskedFine(m, met, X, Did(V, out))
      BY <1>17, <2>2, <2>3, AskedCompletes
    <3> QED
      BY <3>1
  <2> HIDE DEF T
  <2> QED
    BY <1>17, <2>1, <2>4, AskedFineOn
<1>19. AskedFine(m, S, X, Did(Sent(DumpRemote(met, u), t, "pend"), {Packet(m, t, "pend")}))
  <2> DEFINE E == DumpRemote(met, u)
  <2>1. Like(met, E)
    BY <1>17, LikeDumps
  <2> HIDE DEF E
  <2>2. Like(S, E)
    BY <1>17, <2>1, LikeOn
  <2>3. /\ Shape(E) /\ DOMAIN E.remotes = DOMAIN S.remotes /\ E.trans \subseteq S.trans \cup {t}
        /\ \A w \in DOMAIN S.remotes :
             /\ E.remotes[w].fuid = S.remotes[w].fuid
             /\ E.remotes[w].joined => S.remotes[w].joined
    BY <2>2 DEF Like
  <2>4. Known(X, t.re) /\ "pend" \in {"pend", "response"}
    BY <1>2
  <2> HIDE DEF AskedFine
  <2>5. AskedFine(m, S, X, Did(Sent(E, t, "pend"), {Packet(m, t, "pend")}))
    BY <1>1, <2>3, <2>4, AskedSends
  <2> QED
    BY <2>5 DEF E
<1> QED
  BY <1>5, <1>6, <1>18, <1>19

LEMMA AskedAccepts ==
  ASSUME NEW m, NEW S, NEW X, AskedReady(m, S, X), NEW t \in S.trans, ~t.rmt,
         NEW p, PacketOK(p), Known(X, p.uid)
  PROVE  AskedFine(m, S, X, Accept(m, S, t, p))
<1> DEFINE w == S.remotes[t.uid]
           same == w.name = "peer" /\ w.fuid = p.uid /\ w.keys = p.keys
<1>1. /\ ~t.vacuous /\ t.uid \in DOMAIN S.remotes /\ Shape(S) /\ S.role \in RoleRecords
      /\ w.keys = S.role.keys /\ m \in Stacks /\ m \notin Mutables
  BY AskedFacts DEF AskedReady, AskedJoin
<1>2. Accept(m, S, t, p) =
        IF ~same /\ m \notin Mutables THEN Nack(m, S, t, "reject")
        ELSE IF Status(m, S, p.keys) = "rejected"
        THEN IF w.keys = p.keys THEN RemoveRemote(m, S, t.uid) ELSE Nack(m, S, t, "reject")
        ELSE Accepted(m, S, t, p)
  BY <1>1 DEF Accept
<1>3. AskedFine(m, S, X, Nack(m, S, t, "reject"))
  BY AskedNacks
<1>4. ASSUME same, Status(m, S, p.keys) = "rejected"
      PROVE  AskedFine(m, S, X, RemoveRemote(m, S, t.uid))
  <2>1. S.role.acceptance = "rejected" /\ AutoMode[m] # "always"
    BY <1>1, <1>4, RejectedRole
  <2> QED
    BY <1>1, <2>1, AskedRemoves
<1>5. ASSUME same PROVE AskedFine(m, S, X, Accepted(m, S, t, p))
  BY <1>5, AskedAccepted
<1> QED
  BY <1>1, <1>2, <1>3, <1>4, <1>5

LEMMA AskedJoinerReceives ==
  ASSUME NEW m, NEW S, NEW X, AskedReady(m, S, X), NEW t \in S.trans, ~t.rmt,
         NEW p, PacketOK(p), ToAsked(p, S, X)
  PROVE  AskedFine(m, S, X, JoinerReceive(m, S, t, p))
<1>1. Asked(S, X) /\ m \notin Mutables
  BY DEF AskedReady
<1>2. AskedFine(m, S, X, Did(Remove(S, t), {}))
  BY AskedStops
<1>3. CASE p.pk = "response"
  <2>1. Known(X, p.uid)
    BY <1>3 DEF ToAsked
  <2>2. JoinerReceive(m, S, t, p) = Accept(m, S, t, p)
    BY <1>3 DEF JoinerReceive
  <2> QED
    BY <2>1, <2>2, AskedAccepts
<1>4. CASE p.pk \in {"nack", "refuse"}
  <2>1. JoinerReceive(m, S, t, p) = Did(Remove(S, t), {})
    BY <1>4 DEF JoinerReceive
  <2> QED
    BY <1>2, <2>1
<1>5. CASE p.pk = "renew"
  <2>1. JoinerReceive(m, S, t, p) = Did(Remove(S, t), {})
    BY <1>1, <1>5 DEF JoinerReceive, Renew
  <2> QED
    BY <1>2, <2>1
<1>6. CASE p.pk \notin {"response", "nack", "refuse", "renew"}
  <2>1. p.pk # "reject"
    BY DEF ToAsked
  <2>2. JoinerReceive(m, S, t, p) = Did(S, {})
    BY <1>6, <2>1 DEF JoinerReceive
  <2> QED
    BY <1>1, <2>2, AskedQuiet
<1> QED
  BY <1>3, <1>4, <1>5, <1>6

LEMMA AskedJoinentReceives ==
  ASSUME NEW m, NEW S, NEW X, AskedReady(m, S, X), NEW t \in S.trans,
         NEW p, ToAsked(p, S, X)
  PROVE  AskedFine(m, S, X, JoinentReceive(m, S, t, p))
<1>1. Asked(S, X) /\ Shape(S) /\ t.uid \in DOMAIN S.remotes
  BY AskedFacts DEF AskedReady, AskedJoin
<1>2. CASE p.pk = "ack"
  <2> DEFINE T == Remove(DumpLocal(DumpRemote([S EXCEPT !.remotes[t.uid].joined = TRUE], t.uid)), t)
  <2>1. JoinentReceive(m, S, t, p) = Did(T, {})
    BY <1>2 DEF JoinentReceive, Complete
  <2>2. Known(X, S.remotes[t.uid].fuid)
    BY <1>1, <1>2 DEF ToAsked, Met, Shape, Lone
  <2>3. \A V : V = T => AskedFine(m, S, X, Did(V, {}))
    BY <1>1, <2>2, AskedCompletes
  <2> HIDE DEF T
  <2> QED
    BY <2>1, <2>3
<1>3. CASE p.pk \in {"nack", "refuse"}
  <2>1. JoinentReceive(m, S, t, p) = Did(Remove(S, t), {})
    BY <1>3 DEF JoinentReceive
  <2> QED
    BY <2>1, AskedStops
<1>4. CASE p.pk \notin {"ack", "nack", "refuse"}
  <2>1. p.pk # "reject"
    BY DEF ToAsked
  <2>2. JoinentReceive(m, S, t, p) = Did(S, {})
    BY <1>4, <2>1 DEF JoinentReceive
  <2> QED
    BY <1>1, <2>2, AskedQuiet
<1> QED
  BY <1>2, <1>3, <1>4

LEMMA AskedRefuses ==
  ASSUME NEW m, NEW S, NEW X, Shape(S), Asked(S, X), NEW p, NEW uid, NEW pk \in {"refuse", "reject"}
  PROVE  AskedFine(m, S, X, Refused(m, S, p, uid, pk))
<1> DEFINE Z == [S EXCEPT !.joinees = 0]
           q == Answer(m, p, pk)
<1>1. Refused(m, S, p, uid, pk) = Did(S, {q}) \/ Refused(m, S, p, uid, pk) = Did(Z, {q})
  BY DEF Refused
<1>2. q.to = Other(m) /\ q.pk = pk
  BY AnswerFields
<1> HIDE DEF q
<1>3. \A M : ToAsker(q, M)
  BY <1>2, RefusalsToAsker
<1>4. Like(S, Z)
  BY LikeOthers
<1> HIDE DEF Z
<1>5. Asked(Z, X) /\ Kept(S, Z)
  BY <1>4, AskedLike
<1>6. AskedFine(m, S, X, Did(Z, {q})) /\ AskedFine(m, S, X, Did(S, {q}))
  BY <1>2, <1>3, <1>5 DEF AskedFine, Did, Kept
<1> QED
  BY <1>1, <1>6

LEMMA AskedCorresponds ==
  ASSUME NEW m, NEW S, NEW X, Shape(S), stack[m].keys = 1, NEW p, PacketOK(p),
         NEW uid \in DOMAIN S.remotes, uid \in Uids, S.remotes[uid].fuid = p.se, p.se <= X.puid,
         Asked(S, X) \/ (S.trans = {} /\ ~S.raised)
  PROVE  AskedFine(m, S, X, Correspond(m, S, p, uid))
<1>1. PICK t, T : Corresponding(m, S, p, uid, t, T)
  BY Corresponds
<1>2. /\ t \in Transactions /\ t.rmt /\ t.uid = uid /\ t.re = p.se /\ t.tx = "response"
      /\ Shape(T) /\ DOMAIN T.remotes = DOMAIN S.remotes /\ T.trans \subseteq S.trans \cup {t}
      /\ \A u \in DOMAIN S.remotes :
           /\ T.remotes[u].fuid = S.remotes[u].fuid
           /\ T.remotes[u].joined => S.remotes[u].joined
  BY <1>1 DEF Corresponding, JoinentOf, Follows
<1>3. AskedJoin(S, X, t) /\ AskedJoin(T, X, t)
  BY <1>2 DEF AskedJoin
<1>4. Kept(S, T)
  BY <1>2 DEF Kept
<1>5. \A v \in T.trans : AskedJoin(S, X, v)
  BY <1>2, <1>3 DEF Asked
<1>6. CASE Asked(S, X)
  <2>1. Asked(T, X)
    BY <1>2, <1>5, <1>6, AskedStays
  <2>2. AskedFine(m, S, X, Did(T, {}))
    BY <1>4, <2>1 DEF AskedFine, Did
  <2>3. \A pk \in {"pend", "response"} : AskedFine(m, S, X, Did(Sent(T, t, pk), {Packet(m, t, pk)}))
    BY <1>2, <1>3, <1>6, AskedSends
  <2> QED
    BY <1>1, <2>2, <2>3 DEF Corresponding
<1>7. CASE S.trans = {} /\ ~S.raised
  <2>1. /\ ~T.remotes[uid].joined
        /\ \E pk \in {"pend", "response"} :
             Correspond(m, S, p, uid) = Did(Sent(T, t, pk), {Packet(m, t, pk)})
    BY <1>1, <1>7 DEF Corresponding
  <2>2. \A w \in DOMAIN T.remotes : w = uid
    BY <1>2 DEF Shape, Lone
  <2>3. \A v \in T.trans : AskedJoin(T, X, v)
    BY <1>2, <1>3, <1>7
  <2>4. Asked(T, X)
    BY <1>2, <2>1, <2>2, <2>3 DEF Asked
  <2>5. \A pk \in {"pend", "response"} : AskedFine(m, T, X, Did(Sent(T, t, pk), {Packet(m, t, pk)}))
    BY <1>2, <1>3, <2>4, AskedSends
  <2>6. \A pk \in {"pend", "response"} : AskedFine(m, S, X, Did(Sent(T, t, pk), {Packet(m, t, pk)}))
    BY <1>4, <2>5, AskedFineOn
  <2> QED
    BY <2>1, <2>6
<1> QED
  BY <1>6, <1>7

LEMMA AskedMeets ==
  ASSUME NEW m, NEW S, NEW X, AskedReady(m, S, X), NEW p, PacketOK(p), p.se <= X.puid,
         NEW uid \in DOMAIN S.remotes
  PROVE  AskedFine(m, S, X, Meet(m, S, p, uid, S.remotes[uid]))
<1> DEFINE r == S.remotes[uid]
           same == r.name = "peer" /\ r.fuid = p.se /\ r.keys = p.keys
           status == Status(m, S, p.keys)
           D == StatusDump(m, S, p.keys)
           q == [r EXCEPT !.acceptance = status]
           met == Update(D, uid, q)
<1>1. /\ r \in Remotes /\ p.keys \in KeyGens /\ uid \in Uids /\ m \in Stacks /\ Shape(S)
      /\ S.role \in RoleRecords /\ m \notin Mutables /\ Asked(S, X) /\ r.keys = S.role.keys
      /\ stack[m].keys = 1
  BY AskedFacts DEF PacketOK, Packets, AskedReady
<1>2. Meet(m, S, p, uid, r) =
        IF ~same THEN Refused(m, S, p, uid, "reject")
        ELSE IF status = "rejected" THEN RemoveRemote(m, S, uid)
        ELSE Correspond(m, met, p, uid)
  BY <1>1 DEF Meet
<1>3. AskedFine(m, S, X, Refused(m, S, p, uid, "reject"))
  BY <1>1, AskedRefuses
<1>4. ASSUME same, status = "rejected"
      PROVE  AskedFine(m, S, X, RemoveRemote(m, S, uid))
  <2>1. S.role.acceptance = "rejected" /\ AutoMode[m] # "always"
    BY <1>1, <1>4, RejectedRole
  <2> QED
    BY <1>1, <2>1, AskedRemoves
<1>5. ASSUME same
      PROVE  AskedFine(m, S, X, Correspond(m, met, p, uid))
  <2>1. Like(S, D) /\ D.remotes = S.remotes /\ status \in Statuses
    BY <1>1, LikeDumps, StatusTypes
  <2> HIDE DEF D, status
  <2>2. q \in Remotes
    BY <1>1, <2>1, RemoteRecord
  <2>3. q.name = r.name /\ q.fuid = r.fuid /\ q.keys = r.keys
    BY <1>1 DEF Remotes
  <2>4. q.joined = r.joined
    BY <1>1 DEF Remotes
  <2> HIDE DEF q
  <2>5. Like(D, met)
    <3>1. Shape(D) /\ uid \in DOMAIN D.remotes /\ D.remotes[uid] = r
      BY <2>1 DEF Like
    <3> QED
      BY <2>2, <2>3, <2>4, <3>1, LikeUpdated
  <2> HIDE DEF met
  <2>6. Like(S, met)
    BY <2>1, <2>5, LikeOn
  <2>7. Asked(met, X) /\ Kept(S, met) /\ Shape(met)
    BY <1>1, <2>6, AskedLike
  <2>8. uid \in DOMAIN met.remotes /\ met.remotes[uid].fuid = p.se
    BY <1>5, <2>6 DEF Like
  <2>9. AskedFine(m, met, X, Correspond(m, met, p, uid))
    BY <1>1, <2>7, <2>8, AskedCorresponds
  <2> QED
    BY <2>7, <2>9, AskedFineOn
<1> QED
  BY <1>2, <1>3, <1>4, <1>5

(* The remote is made, with what the request says. *)
LEMMA AskedMeetsNew ==
  ASSUME NEW m, NEW S, NEW X, AskedReady(m, S, X), NEW p, PacketOK(p), p.se <= X.puid,
         NEW uid \in Uids, DOMAIN S.remotes = {},
         NEW r \in Remotes, r.name = "peer", r.fuid = p.se, r.keys = p.keys
  PROVE  AskedFine(m, S, X, Meet(m, S, p, uid, r))
<1> DEFINE status == Status(m, S, p.keys)
           D == StatusDump(m, S, p.keys)
           q == [r EXCEPT !.acceptance = status]
           R == Put(S.remotes, uid, q)
           met == Update(D, uid, q)
           N == Put(S.names, "peer", uid)
           K == Persisted(AutoMode[m], S.role, p.keys)
           A == [met EXCEPT !.names = Put(@, "peer", uid)]
           B == [S EXCEPT !.role = K, !.remotes = R, !.names = N]
<1>1. /\ p.keys \in KeyGens /\ m \in Stacks /\ Shape(S) /\ S.role \in RoleRecords
      /\ Asked(S, X) /\ stack[m].keys = 1 /\ ~S.raised
  BY AskedFacts DEF PacketOK, Packets, AskedReady
<1>2. Meet(m, S, p, uid, r) = IF status = "rejected" THEN Refused(m, D, p, uid, "reject")
                                                     ELSE Correspond(m, A, p, uid)
  BY DEF Meet
<1>3. Like(S, D) /\ status \in Statuses
  BY <1>1, LikeStatus, StatusTypes
<1>4. AskedFine(m, S, X, Refused(m, D, p, uid, "reject"))
  <2> HIDE DEF D
  <2>1. Asked(D, X) /\ Kept(S, D) /\ Shape(D)
    BY <1>1, <1>3, AskedLike
  <2> QED
    BY <2>1, AskedRefuses, AskedFineOn
<1>5. q \in Remotes
  <2> HIDE DEF status
  <2> QED
    BY <1>3, RemoteRecord
<1>6. q.name = r.name /\ q.fuid = r.fuid /\ q.keys = r.keys
  BY DEF Remotes
<1> HIDE DEF q
<1>7. DOMAIN S = StackFields /\ DOMAIN S.names = {}
  BY <1>1 DEF Shape
<1>8. A = B
  BY <1>7 DEF StatusDump, Update, StackFields
<1>9. DOMAIN R = {uid} /\ R[uid] = q /\ "peer" \in DOMAIN N /\ \A n \in DOMAIN N : N[n] = uid
  BY <1>7 DEF Put
<1>10. S.trans = {}
  BY <1>1 DEF Asked, AskedJoin
<1> HIDE DEF R, N, K, A, D, status
<1>11. /\ DOMAIN B = StackFields /\ B.remotes = R /\ B.names = N /\ B.trans = {}
       /\ B.raised = S.raised
  BY <1>7, <1>10 DEF StackFields
<1> HIDE DEF B
<1>12. Shape(B)
  BY <1>5, <1>6, <1>9, <1>11 DEF Shape, Lone
<1>13. AskedFine(m, B, X, Correspond(m, B, p, uid))
  <2>1. uid \in DOMAIN B.remotes /\ B.remotes[uid].fuid = p.se /\ B.trans = {} /\ ~B.raised
    BY <1>1, <1>6, <1>9, <1>11
  <2> QED
    BY <1>1, <1>12, <2>1, AskedCorresponds
<1>14. AskedFine(m, S, X, Correspond(m, B, p, uid))
  <2>1. Kept(S, B)
    BY DEF Kept
  <2> QED
    BY <1>13, <2>1, AskedFineOn
<1> QED
  BY <1>2, <1>4, <1>8, <1>14

LEMMA AskedMeetsVacuous ==
  ASSUME NEW m, NEW S, NEW X, AskedReady(m, S, X), NEW p, PacketOK(p), p.se <= X.puid,
         NEW uid \in Uids, NEW r \in Remotes
  PROVE  AskedFine(m, S, X, MeetVacuous(m, S, p, uid, r))
<1> DEFINE fuid == IF r.fuid = 0 THEN p.se ELSE r.fuid
           taken == [r EXCEPT !.name = "peer", !.keys = p.keys, !.fuid = fuid]
           G == [S EXCEPT !.ghost = taken]
           W == IF uid = S.joinees THEN G ELSE S
           named == S.remotes[S.names["peer"]]
<1>1. /\ Shape(S) /\ Asked(S, X) /\ p.keys \in KeyGens /\ p.se \in Uids
      /\ \A w \in DOMAIN S.remotes : S.remotes[w].name = "peer"
      /\ \A n \in DOMAIN S.names : S.names[n] \in DOMAIN S.remotes
  BY AskedFacts DEF PacketOK, Packets, AskedReady
<1>2. CASE m \notin Mains
  <2>1. MeetVacuous(m, S, p, uid, r) = Refused(m, S, p, uid, "reject")
    BY <1>2 DEF MeetVacuous
  <2> QED
    BY <1>1, <2>1, AskedRefuses
<1>3. CASE m \in Mains /\ "peer" \in DOMAIN S.names
  <2>1. MeetVacuous(m, S, p, uid, r) = Meet(m, S, p, S.names["peer"], named)
    BY <1>3 DEF MeetVacuous
  <2>2. S.names["peer"] \in DOMAIN S.remotes
    BY <1>1, <1>3
  <2> QED
    BY <2>1, <2>2, AskedMeets
<1>4. CASE m \in Mains /\ "peer" \notin DOMAIN S.names
  <2>1. DOMAIN S.remotes = {}
    BY <1>1, <1>4 DEF Shape
  <2>2. MeetVacuous(m, S, p, uid, r) =
          IF taken.fuid = p.se THEN Meet(m, W, p, uid, taken) ELSE Refused(m, W, p, uid, "reject")
    <3> DEFINE v == [r EXCEPT !.name = "peer", !.keys = p.keys,
                              !.fuid = IF @ = 0 THEN p.se ELSE @]
    <3>1. v = taken
      BY DEF Remotes
    <3> HIDE DEF taken
    <3>2. MeetVacuous(m, S, p, uid, r) =
            IF v.fuid = p.se
            THEN Meet(m, CASE uid \in DOMAIN S.remotes -> Update(S, uid, v)
                           [] uid = S.joinees -> [S EXCEPT !.ghost = v]
                           [] OTHER -> S, p, uid, v)
            ELSE Refused(m, CASE uid \in DOMAIN S.remotes -> Update(S, uid, v)
                              [] uid = S.joinees -> [S EXCEPT !.ghost = v]
                              [] OTHER -> S, p, uid, "reject")
      BY <1>4 DEF MeetVacuous
    <3> HIDE DEF v
    <3>3. (CASE uid \in DOMAIN S.remotes -> Update(S, uid, v)
             [] uid = S.joinees -> [S EXCEPT !.ghost = v]
             [] OTHER -> S) = W
      BY <2>1, <3>1
    <3> QED
      BY <3>1, <3>2, <3>3
  <2>3. /\ taken \in Remotes /\ taken.name = "peer" /\ taken.keys = p.keys
    <3>1. fuid \in Uids /\ "peer" \in Names
      BY <1>1, RemoteRecord DEF Names
    <3> HIDE DEF fuid
    <3> DEFINE a == [r EXCEPT !.name = "peer"]
               b == [a EXCEPT !.keys = p.keys]
               c == [b EXCEPT !.fuid = fuid]
    <3>2. taken = c
      BY DEF Remotes
    <3>3. a \in Remotes
      BY <3>1, RemoteRecord
    <3>4. a.name = "peer"
      BY DEF Remotes
    <3> HIDE DEF a
    <3>5. b \in Remotes
      BY <1>1, <3>3, RemoteRecord
    <3>6. b.name = "peer" /\ b.keys = p.keys
      BY <3>3, <3>4 DEF Remotes
    <3> HIDE DEF b
    <3>7. c \in Remotes
      BY <3>1, <3>5, RemoteRecord
    <3>8. c.name = "peer" /\ c.keys = p.keys
      BY <3>5, <3>6 DEF Remotes
    <3> QED
      BY <3>2, <3>7, <3>8
  <2> HIDE DEF taken, fuid
  <2>4. AskedReady(m, G, X) /\ G.remotes = S.remotes
    <3>1. Sound(m, S) /\ DOMAIN S = StackFields
      BY SoundFields DEF AskedReady
    <3>2. /\ G.remotes = S.remotes /\ G.trans = S.trans /\ G.raised = S.raised
      BY <3>1 DEF StackFields
    <3>3. Sound(m, G)
      BY <2>3, <3>1, GhostSet DEF Keeps
    <3> HIDE DEF G
    <3>4. Asked(G, X)
      BY <1>1, <3>2 DEF Asked, AskedJoin
    <3> QED
      BY <3>2, <3>3, <3>4 DEF AskedReady
  <2>5. AskedReady(m, W, X) /\ W.remotes = S.remotes
    BY <2>4
  <2> HIDE DEF W, G
  <2>6. Kept(S, W)
    BY <2>5 DEF Kept
  <2>7. taken.fuid = p.se => AskedFine(m, W, X, Meet(m, W, p, uid, taken))
    BY <2>1, <2>3, <2>5, AskedMeetsNew
  <2>8. AskedFine(m, W, X, Refused(m, W, p, uid, "reject"))
    <3>1. Shape(W) /\ Asked(W, X)
      BY <2>5, AskedFacts DEF AskedReady
    <3> QED
      BY <3>1, AskedRefuses
  <2> QED
    BY <2>2, <2>6, <2>7, <2>8, AskedFineOn
<1> QED
  BY <1>2, <1>3, <1>4

LEMMA AskedJoins ==
  ASSUME NEW m, NEW S, NEW X, AskedReady(m, S, X), NEW p, PacketOK(p), p.se <= X.puid,
         NEW uid \in Uids, NEW r \in Remotes,
         p.de # 0 => uid \in DOMAIN S.remotes /\ r = S.remotes[uid]
  PROVE  AskedFine(m, S, X, Join(m, S, p, uid, r))
<1> DEFINE joins == Joins(S, uid)
           refused == \E t \in joins : t.rmt \/ Yields(m, p, t)
           free == IF joins = {} THEN S ELSE Remove(S, CHOOSE t \in joins : TRUE)
           done == IF p.de = 0 THEN MeetVacuous(m, free, p, uid, r) ELSE Meet(m, free, p, uid, r)
           told == {Packet(m, t, "refuse") : t \in joins}
<1>1. Join(m, S, p, uid, r) =
        IF refused THEN Refused(m, S, p, uid, "refuse") ELSE Did(done.st, done.out \cup told)
  BY DEF Join
<1>2. AskedFine(m, S, X, Refused(m, S, p, uid, "refuse"))
  <2>1. Shape(S) /\ Asked(S, X)
    BY AskedFacts DEF AskedReady
  <2> QED
    BY <2>1, AskedRefuses
<1>3. \A q \in told : q.to = Other(m) /\ \A M : ToAsker(q, M)
  BY PacketFields, RefusalsToAsker
<1>4. AskedReady(m, free, X) /\ Kept(S, free) /\ free.remotes = S.remotes
  <2>1. CASE joins = {}
    BY <2>1 DEF Kept
  <2>2. CASE joins # {}
    BY <2>2, AskedRemoved
  <2> QED
    BY <2>1, <2>2
<1> HIDE DEF refused, free, told, joins
<1>5. AskedFine(m, free, X, done)
  <2>1. AskedFine(m, free, X, MeetVacuous(m, free, p, uid, r))
    BY <1>4, AskedMeetsVacuous
  <2>2. p.de # 0 => AskedFine(m, free, X, Meet(m, free, p, uid, r))
    BY <1>4, AskedMeets
  <2> QED
    BY <2>1, <2>2
<1> HIDE DEF done
<1>6. AskedFine(m, S, X, done)
  BY <1>4, <1>5, AskedFineOn
<1>7. AskedFine(m, S, X, Did(done.st, done.out \cup told))
  BY <1>3, <1>6 DEF AskedFine, Did
<1> QED
  BY <1>1, <1>2, <1>7

LEMMA AskedTransacts ==
  ASSUME NEW m, NEW S, NEW X, AskedReady(m, S, X), NEW p, PacketOK(p), ToAsked(p, S, X),
         NEW uid \in Uids, ~p.cf /\ p.de # 0 => uid \in DOMAIN S.remotes
  PROVE  AskedFine(m, S, X, Transact(m, S, p, uid))
<1> DEFINE found == {t \in Joins(S, uid) : Index(t) = RxIndex(p)}
           t == CHOOSE y \in found : TRUE
           out == IF p.pk \notin Nacks /\ p.de \in DOMAIN S.remotes
                  THEN {Answer(m, p, "nack")} ELSE {}
<1>5. Asked(S, X) /\ Shape(S) /\ Sound(m, S)
  BY AskedFacts DEF AskedReady
<1>1. CASE found # {}
  <2>1. t \in found
    BY <1>1
  <2> HIDE DEF t
  <2>2. t \in S.trans
    BY <2>1 DEF Joins
  <2>3. Transact(m, S, p, uid) = IF t.rmt THEN JoinentReceive(m, S, t, p)
                                          ELSE JoinerReceive(m, S, t, p)
    BY <1>1 DEF Transact, t
  <2> QED
    BY <2>2, <2>3, AskedJoinentReceives, AskedJoinerReceives
<1>2. CASE found = {} /\ p.cf
  <2>1. Transact(m, S, p, uid) = Did(S, out)
    BY <1>2 DEF Transact
  <2>2. \A q \in out : q.to = Other(m) /\ ToAsker(q, S)
    <3>1. Answer(m, p, "nack").to = Other(m) /\ ToAsker(Answer(m, p, "nack"), S)
      BY AnswerFields, RefusalsToAsker
    <3> QED
      BY <3>1
  <2> HIDE DEF out
  <2> QED
    BY <1>5, <2>1, <2>2, AskedQuiet
<1>3. CASE found = {} /\ ~p.cf
  <2>1. Transact(m, S, p, uid) = IF p.pk = "request" THEN Join(m, S, p, uid, Remote(S, uid))
                                                     ELSE Did(S, {})
    BY <1>3 DEF Transact
  <2>2. CASE p.pk = "request"
    <3>1. p.se <= X.puid
      BY <2>2 DEF ToAsked
    <3>2. Remote(S, uid) \in Remotes
      BY <1>5, SoundFields DEF Remote
    <3>3. p.de # 0 => uid \in DOMAIN S.remotes /\ Remote(S, uid) = S.remotes[uid]
      BY <1>3 DEF Remote
    <3> HIDE DEF AskedFine
    <3>4. AskedFine(m, S, X, Join(m, S, p, uid, Remote(S, uid)))
      BY <3>1, <3>2, <3>3, AskedJoins
    <3> QED
      BY <2>1, <2>2, <3>4
  <2>3. CASE p.pk # "request"
    BY <1>5, <2>1, <2>3, AskedQuiet
  <2> QED
    BY <2>2, <2>3
<1> QED
  BY <1>1, <1>2, <1>3

LEMMA AskedFromJoinent ==
  ASSUME NEW m, NEW S, NEW X, AskedReady(m, S, X), NEW p, PacketOK(p), ToAsked(p, S, X), p.cf
  PROVE  AskedFine(m, S, X, FromJoinent(m, S, p))
<1>1. AskedFine(m, S, X, Did(S, {}))
  BY AskedQuiet DEF AskedReady
<1>2. \A uid \in Uids : AskedFine(m, S, X, Transact(m, S, p, uid))
  BY AskedTransacts
<1>3. S.joinees \in Uids /\ p.de \in Uids
  BY SoundFields DEF AskedReady, PacketOK, Packets
<1> QED
  BY <1>1, <1>2, <1>3 DEF FromJoinent

LEMMA AskedFromJoiner ==
  ASSUME NEW m, NEW S, NEW X, AskedReady(m, S, X), NEW p, PacketOK(p), ToAsked(p, S, X), ~p.cf,
         p.de \in DOMAIN S.remotes \/ HasUid(S)
  PROVE  AskedFine(m, S, X, FromJoiner(m, S, p))
<1> DEFINE prior == S.joinees
           stale == prior # 0 /\ Remote(S, prior).fuid \notin {0, p.se}
           W == IF stale THEN [S EXCEPT !.joinees = 0] ELSE S
           uid == NextUid(S)
           fresh == [W EXCEPT !.puid = uid]
           moved == [S EXCEPT !.puid = uid]
           out == IF p.pk \in Nacks \ {"renew"} THEN {} ELSE {Answer(m, p, "renew")}
<1>1. FromJoiner(m, S, p) =
        CASE p.de = 0 /\ W.joinees # 0 -> Transact(m, W, p, W.joinees)
          [] p.de = 0 /\ W.joinees = 0 ->
               IF p.pk = "request" THEN Join(m, fresh, p, uid, NewRemote) ELSE Did(W, {})
          [] p.de # 0 /\ p.de \in DOMAIN S.remotes -> Transact(m, S, p, p.de)
          [] OTHER -> Did(moved, out)
  BY DEF FromJoiner
<1>2. Sound(m, S) /\ DOMAIN S = StackFields /\ Asked(S, X) /\ p.de \in Uids
      /\ DOMAIN S.remotes \subseteq Uids \ {0}
  BY SoundFields DEF AskedReady, PacketOK, Packets
<1>3. AskedReady(m, W, X) /\ W.remotes = S.remotes /\ W.joinees \in Uids
  <2> DEFINE Z == [S EXCEPT !.joinees = 0]
  <2>1. /\ Z.remotes = S.remotes /\ Z.names = S.names /\ Z.files = S.files /\ Z.role = S.role
        /\ Z.trans = S.trans /\ Z.raised = S.raised /\ Z.joinees = 0 /\ DOMAIN Z = StackFields
        /\ Z.puid = S.puid /\ Z.savedPuid = S.savedPuid /\ Z.ghost = S.ghost
        /\ Z.restarts = S.restarts /\ Z.keys = S.keys
    BY <1>2 DEF StackFields
  <2> HIDE DEF Z
  <2>2. Sound(m, Z)
    <3>1. Misc(Z)
      BY <1>2, <2>1, Ids DEF Sound, Misc
    <3> QED
      BY <1>2, <2>1, <3>1 DEF Sound
  <2>3. Asked(Z, X)
    BY <1>2, <2>1 DEF Asked, AskedJoin
  <2>4. AskedReady(m, Z, X) /\ Z.joinees \in Uids
    BY <2>1, <2>2, <2>3, Ids DEF AskedReady
  <2>5. S.joinees \in Uids
    BY <1>2, SoundFields
  <2> QED
    BY <2>1, <2>4, <2>5 DEF Z
<1> HIDE DEF W
<1>8. Kept(S, W) /\ ToAsked(p, W, X)
  BY <1>3 DEF Kept, ToAsked, Met
<1>4. CASE p.de = 0 /\ W.joinees # 0
  <2>1. AskedFine(m, W, X, Transact(m, W, p, W.joinees))
    BY <1>3, <1>4, <1>8, AskedTransacts
  <2> QED
    BY <1>1, <1>4, <1>8, <2>1, AskedFineOn
<1>5. CASE p.de = 0 /\ W.joinees = 0
  <2>1. AskedFine(m, S, X, Did(W, {}))
    BY <1>3, <1>8 DEF AskedFine, Did, AskedReady
  <2>2. uid \in Uids \ {0}
    BY <1>2, <1>5, NewUid
  <2> HIDE DEF uid
  <2>3. AskedReady(m, fresh, X) /\ fresh.remotes = S.remotes
    <3>1. Sound(m, W) /\ DOMAIN W = StackFields
      BY <1>3, SoundFields DEF AskedReady
    <3>2. fresh.remotes = W.remotes /\ fresh.trans = W.trans /\ fresh.raised = W.raised
      BY <3>1 DEF StackFields
    <3>3. Sound(m, fresh)
      BY <2>2, <3>1, PuidSet DEF Keeps
    <3> HIDE DEF fresh
    <3>4. Asked(fresh, X)
      BY <1>3, <3>2 DEF AskedReady, Asked, AskedJoin
    <3> QED
      BY <1>3, <3>2, <3>3, <3>4 DEF AskedReady
  <2> HIDE DEF fresh
  <2>4. p.pk = "request" => AskedFine(m, S, X, Join(m, fresh, p, uid, NewRemote))
    <3>1. p.pk = "request" => p.se <= X.puid
      BY DEF ToAsked
    <3>2. p.pk = "request" => AskedFine(m, fresh, X, Join(m, fresh, p, uid, NewRemote))
      BY <1>5, <2>2, <2>3, <3>1, NewRemoteType, AskedJoins
    <3>3. Kept(S, fresh)
      BY <2>3 DEF Kept
    <3> QED
      BY <3>2, <3>3, AskedFineOn
  <2> QED
    BY <1>1, <1>5, <2>1, <2>4
<1>6. CASE p.de # 0 /\ p.de \in DOMAIN S.remotes
  <2>1. AskedFine(m, S, X, Transact(m, S, p, p.de))
    BY <1>2, <1>6, AskedTransacts
  <2> QED
    BY <1>1, <1>6, <2>1
<1>7. CASE p.de # 0 /\ p.de \notin DOMAIN S.remotes
  <2>1. p.pk \in Nacks \ {"renew"}
    BY <1>7 DEF ToAsked, Met
  <2>2. out = {}
    BY <2>1
  <2>3. moved.remotes = S.remotes /\ moved.trans = S.trans
    BY <1>2 DEF StackFields
  <2> HIDE DEF moved, out
  <2>4. Asked(moved, X) /\ Kept(S, moved)
    BY <1>2, <2>3 DEF Asked, AskedJoin, Kept
  <2>5. AskedFine(m, S, X, Did(moved, {}))
    BY <2>4 DEF AskedFine, Did
  <2> QED
    BY <1>1, <1>7, <2>2, <2>5
<1> QED
  BY <1>4, <1>5, <1>6, <1>7

LEMMA AskedTimesOut ==
  ASSUME NEW m, NEW S, NEW X, AskedReady(m, S, X), NEW t \in S.trans
  PROVE  AskedFine(m, S, X, IF t.rmt THEN Nack(m, S, t, "nack") ELSE Did(Remove(S, t), {}))
<1>1. AskedFine(m, S, X, Nack(m, S, t, "nack"))
  BY AskedNacks
<1>2. AskedFine(m, S, X, Did(Remove(S, t), {}))
  BY AskedStops
<1> QED
  BY <1>1, <1>2

LEMMA AskedResends ==
  ASSUME NEW m, NEW S, NEW X, AskedReady(m, S, X), NEW t \in S.trans, t.tx # "pend"
  PROVE  AskedFine(m, S, X, Did(S, {Packet(m, t, t.tx)}))
<1> DEFINE p == Packet(m, t, t.tx)
<1>1. /\ AskedJoin(S, X, t) /\ t.tx \in {"request", "response"} /\ Asked(S, X)
      /\ stack[m].keys = 1
  BY AskedFacts DEF AskedReady, Transactions
<1>2. /\ p.to = Other(m) /\ p.pk = t.tx /\ p.se = t.le /\ p.de = t.re /\ p.keys = 1
      /\ t.tx = "response" => p.uid = t.uid
  BY <1>1, PacketFields
<1> HIDE DEF p
<1>3. t.tx = "request" => t.le = t.uid
  BY <1>1 DEF AskedJoin
<1>4. ToAsker(p, S)
  BY <1>1, <1>2, <1>3 DEF ToAsker, Met, AskedJoin
<1> QED
  BY <1>1, <1>2, <1>4, AskedQuiet DEF p

LEMMA AskedRedoes ==
  ASSUME NEW m, NEW S, NEW X, AskedReady(m, S, X), NEW t \in S.trans, t.tx = "pend",
         NEW status, NEW D, status = Status(m, S, S.remotes[t.uid].keys),
         D = [StatusDump(m, S, S.remotes[t.uid].keys) EXCEPT !.remotes[t.uid].acceptance = status]
  PROVE  /\ t.rmt => AskedFine(m, S, X, AckAccept(m, D, t))
         /\ ~t.rmt => AskedFine(m, S, X, Completify(m, D, t))
         /\ status = "rejected" => AskedFine(m, S, X, RemoveRemote(m, D, t.uid))
         /\ AskedFine(m, S, X, Did(D, {}))
<1> DEFINE u == t.uid
           keys == S.remotes[u].keys
           A == StatusDump(m, S, keys)
           B == [A EXCEPT !.remotes[u].acceptance = status]
<1>1. /\ u \in DOMAIN S.remotes /\ AskedJoin(S, X, t) /\ t.re = S.remotes[u].fuid
      /\ t \in Transactions /\ S.remotes[u] \in Remotes /\ keys \in KeyGens /\ keys = S.role.keys
      /\ Shape(S) /\ m \in Stacks /\ S.role \in RoleRecords /\ Asked(S, X) /\ stack[m].keys = 1
  <2>1. /\ AskedJoin(S, X, t) /\ t \in Transactions /\ Shape(S) /\ m \in Stacks
        /\ S.role \in RoleRecords /\ Asked(S, X) /\ stack[m].keys = 1
    BY AskedFacts DEF AskedReady
  <2>2. u \in DOMAIN S.remotes /\ t.re = S.remotes[u].fuid
    BY <2>1 DEF AskedJoin
  <2>3. S.remotes[u] \in Remotes /\ keys = S.role.keys
    BY <2>2, AskedFacts
  <2> QED
    BY <2>1, <2>2, <2>3, RemoteRecord
<1>2. Like(S, A) /\ A.role = Persisted(AutoMode[m], S.role, keys)
  BY <1>1, LikeStatus
<1>3. /\ status \in Statuses
      /\ status = "rejected" => A.role = S.role
      /\ status = "rejected" => S.role.acceptance = "rejected" /\ AutoMode[m] # "always"
  <2>1. status = Status(m, S, keys)
    OBVIOUS
  <2> QED
    BY <1>1, <1>2, <2>1, StatusTypes, RejectedRole
<1>4. D = B
  OBVIOUS
<1> HIDE DEF A, keys, u
<1>5. Like(A, B) /\ B.role = A.role
  <2>1. Shape(A) /\ u \in DOMAIN A.remotes
    BY <1>1, <1>2 DEF Like
  <2>2. status \in Statuses
    BY <1>3
  <2> QED
    BY <2>1, <2>2, LikeAcceptance
<1> HIDE DEF B
<1>6. Like(S, D) /\ D.role = A.role
  BY <1>2, <1>4, <1>5, LikeOn
<1>7. /\ Asked(D, X) /\ Kept(S, D) /\ Shape(D)
      /\ u \in DOMAIN D.remotes /\ D.remotes[u].fuid = S.remotes[u].fuid
  <2>1. Asked(D, X) /\ Kept(S, D) /\ Shape(D)
    BY <1>1, <1>6, AskedLike
  <2> QED
    BY <1>1, <1>6, <2>1 DEF Like
<1>8. t.rmt => AskedFine(m, S, X, AckAccept(m, D, t))
  <2>1. /\ Shape(D) /\ DOMAIN D.remotes = DOMAIN S.remotes /\ D.trans \subseteq S.trans \cup {t}
        /\ \A w \in DOMAIN S.remotes :
             /\ D.remotes[w].fuid = S.remotes[w].fuid
             /\ D.remotes[w].joined => S.remotes[w].joined
    BY <1>6 DEF Like
  <2>2. "response" \in {"pend", "response"} /\ "response" # "pend"
    OBVIOUS
  <2>3. AskedFine(m, S, X, Did(Sent(D, t, "response"), {Packet(m, t, "response")}))
    BY <1>1, <2>1, <2>2, AskedSends
  <2> QED
    BY <2>3 DEF AckAccept
<1>9. ~t.rmt => AskedFine(m, S, X, Completify(m, D, t))
  <2> DEFINE T == Remove(DumpLocal(DumpRemote([D EXCEPT !.remotes[t.uid].joined = TRUE], t.uid)), t)
             out == {Packet(m, t, "ack")}
  <2>1. Completify(m, D, t) = Did(T, out)
    BY DEF Completify
  <2>2. \A q \in out : q.to = Other(m) /\ q.pk = "ack"
    BY PacketFields
  <2>3. t.uid \in DOMAIN D.remotes /\ (~t.rmt => Known(X, D.remotes[t.uid].fuid))
    BY <1>1, <1>7 DEF u, AskedJoin
  <2> HIDE DEF out
  <2>4. ~t.rmt => AskedFine(m, D, X, Did(T, out))
    <3>1. \A V : V = T /\ ~t.rmt => AskedFine(m, D, X, Did(V, out))
      BY <1>7, <2>2, <2>3, AskedCompletes
    <3> QED
      BY <3>1
  <2> HIDE DEF T
  <2> QED
    BY <1>7, <2>1, <2>4, AskedFineOn
<1>10. status = "rejected" => AskedFine(m, S, X, RemoveRemote(m, D, u))
  BY <1>3, <1>6, <1>7, AskedRemoves
<1>11. AskedFine(m, S, X, Did(D, {}))
  BY <1>7 DEF AskedFine, Did
<1> QED
  BY <1>8, <1>9, <1>10, <1>11 DEF u

LEMMA AskedJudged ==
  ASSUME NEW m, NEW S, NEW X, AskedReady(m, S, X), NEW u \in DOMAIN S.remotes,
         NEW status \in Statuses
  PROVE  AskedFine(m, S, X, Did([S EXCEPT !.remotes[u].acceptance = status,
                                          !.role = RoleData(status, S.remotes[u].keys)], {}))
<1> DEFINE A == [S EXCEPT !.remotes[u].acceptance = status]
           K == RoleData(status, S.remotes[u].keys)
           T == [A EXCEPT !.role = K]
<1>1. Shape(S) /\ Asked(S, X)
  BY AskedFacts DEF AskedReady
<1>2. T = [S EXCEPT !.remotes[u].acceptance = status, !.role = K]
  OBVIOUS
<1> HIDE DEF K
<1>3. Like(S, A)
  BY <1>1, LikeAcceptance
<1> HIDE DEF A
<1>4. Like(A, T)
  <2>1. Shape(A)
    BY <1>3 DEF Like
  <2> QED
    BY <2>1, LikeOthers
<1> HIDE DEF T
<1>5. Asked(T, X) /\ Kept(S, T)
  BY <1>1, <1>3, <1>4, LikeOn, AskedLike
<1>6. AskedFine(m, S, X, Did(T, {}))
  BY <1>5 DEF AskedFine, Did
<1> QED
  BY <1>2, <1>6 DEF K

-----------------------------------------------------------------------------
(* A stack that rejected the role takes no request any more. *)

Shut(m, S) ==
  /\ DOMAIN S = StackFields /\ Closed(m, S) /\ S.trans = {} /\ DOMAIN S.names = {}

LEMMA SoundShut ==
  ASSUME NEW m, NEW S, Sound(m, S), Closed(m, S)
  PROVE  Shut(m, S)
<1>1. DOMAIN S = StackFields /\ Core(m, S.remotes, S.names, S.trans, S.files, S.role)
  BY SoundFields
<1> QED
  BY <1>1 DEF Core, Closed, Shut

LEMMA ShutStays ==
  ASSUME NEW m, NEW S, Shut(m, S), NEW v
  PROVE  /\ Shut(m, [S EXCEPT !.joinees = v]) /\ Shut(m, [S EXCEPT !.puid = v])
         /\ Shut(m, [S EXCEPT !.ghost = v])
BY DEF Shut, Closed, StackFields

LEMMA ShutRefuses ==
  ASSUME NEW m, NEW S, Shut(m, S), NEW p, NEW uid, NEW pk
  PROVE  Closed(m, Refused(m, S, p, uid, pk).st)
<1> DEFINE Z == [S EXCEPT !.joinees = 0]
<1>1. Refused(m, S, p, uid, pk).st = S \/ Refused(m, S, p, uid, pk).st = Z
  BY DEF Refused, Did
<1>2. Shut(m, Z)
  BY ShutStays
<1> QED
  BY <1>1, <1>2 DEF Shut

LEMMA ShutMeets ==
  ASSUME NEW m, NEW S, Shut(m, S), NEW p, NEW uid, NEW r
  PROVE  Closed(m, Meet(m, S, p, uid, r).st)
<1> DEFINE same == r.name = "peer" /\ r.fuid = p.se /\ r.keys = p.keys
           D == StatusDump(m, S, p.keys)
<1>1. uid \notin DOMAIN S.remotes /\ Status(m, S, p.keys) = "rejected"
  BY DEF Shut, Closed, Status, StatusRole
<1>2. Persisted(AutoMode[m], S.role, p.keys) = S.role
  BY <1>1 DEF Status, Persisted
<1>3. D = [S EXCEPT !.role = S.role]
  BY <1>2 DEF StatusDump
<1>4. Meet(m, S, p, uid, r) =
        IF ~same /\ m \notin Mutables THEN Refused(m, S, p, uid, "reject")
                                      ELSE Refused(m, D, p, uid, "reject")
  BY <1>1 DEF Meet
<1>5. Shut(m, D)
  BY <1>3 DEF Shut, Closed, StackFields
<1> HIDE DEF D
<1> QED
  BY <1>4, <1>5, ShutRefuses

LEMMA ShutMeetsVacuous ==
  ASSUME NEW m, NEW S, Shut(m, S), NEW p, NEW uid, NEW r
  PROVE  Closed(m, MeetVacuous(m, S, p, uid, r).st)
<1> DEFINE v == [r EXCEPT !.name = "peer", !.keys = p.keys, !.fuid = IF @ = 0 THEN p.se ELSE @]
           G == [S EXCEPT !.ghost = v]
           W == IF uid = S.joinees THEN G ELSE S
<1>1. DOMAIN S.remotes = {} /\ DOMAIN S.names = {}
  BY DEF Shut, Closed
<1>2. (CASE uid \in DOMAIN S.remotes -> Update(S, uid, v)
         [] uid = S.joinees -> [S EXCEPT !.ghost = v]
         [] OTHER -> S) = W
  BY <1>1
<1>3. MeetVacuous(m, S, p, uid, r) =
        IF m \notin Mains THEN Refused(m, S, p, uid, "reject")
        ELSE IF v.fuid = p.se
        THEN Meet(m, CASE uid \in DOMAIN S.remotes -> Update(S, uid, v)
                       [] uid = S.joinees -> [S EXCEPT !.ghost = v]
                       [] OTHER -> S, p, uid, v)
        ELSE Refused(m, CASE uid \in DOMAIN S.remotes -> Update(S, uid, v)
                          [] uid = S.joinees -> [S EXCEPT !.ghost = v]
                          [] OTHER -> S, p, uid, "reject")
  BY <1>1 DEF MeetVacuous
<1> HIDE DEF v
<1>4. Shut(m, G)
  BY ShutStays
<1>5. Shut(m, W)
  BY <1>4
<1> HIDE DEF G, W
<1>6. MeetVacuous(m, S, p, uid, r) =
        IF m \notin Mains THEN Refused(m, S, p, uid, "reject")
        ELSE IF v.fuid = p.se THEN Meet(m, W, p, uid, v) ELSE Refused(m, W, p, uid, "reject")
  BY <1>2, <1>3
<1> QED
  BY <1>5, <1>6, ShutRefuses, ShutMeets

LEMMA ShutJoins ==
  ASSUME NEW m, NEW S, Shut(m, S), NEW p, NEW uid, NEW r
  PROVE  Closed(m, Join(m, S, p, uid, r).st)
<1> DEFINE done == IF p.de = 0 THEN MeetVacuous(m, S, p, uid, r) ELSE Meet(m, S, p, uid, r)
<1>1. Joins(S, uid) = {}
  BY DEF Shut, Joins
<1>2. Join(m, S, p, uid, r).st = done.st
  BY <1>1 DEF Join, Did
<1> QED
  BY <1>2, ShutMeets, ShutMeetsVacuous

LEMMA ShutTransacts ==
  ASSUME NEW m, NEW S, Shut(m, S), NEW p, NEW uid
  PROVE  Closed(m, Transact(m, S, p, uid).st)
<1> DEFINE found == {t \in Joins(S, uid) : Index(t) = RxIndex(p)}
           J == Join(m, S, p, uid, Remote(S, uid))
<1>1. found = {}
  BY DEF Shut, Joins
<1>2. Transact(m, S, p, uid).st = S \/ Transact(m, S, p, uid).st = J.st
  BY <1>1 DEF Transact, Did
<1>3. Closed(m, S) /\ Closed(m, J.st)
  BY ShutJoins DEF Shut
<1> QED
  BY <1>2, <1>3

LEMMA ShutReceives ==
  ASSUME NEW m, NEW S, Shut(m, S), NEW p
  PROVE  Closed(m, ProcessRx(m, S, p).st)
<1>1. Closed(m, FromJoinent(m, S, p).st)
  <2>1. FromJoinent(m, S, p).st = S \/ \E uid : FromJoinent(m, S, p) = Transact(m, S, p, uid)
    BY DEF FromJoinent, Did
  <2>2. \A uid : Closed(m, Transact(m, S, p, uid).st)
    BY ShutTransacts
  <2> QED
    BY <2>1, <2>2 DEF Shut
<1>2. Closed(m, FromJoiner(m, S, p).st)
  <2> DEFINE prior == S.joinees
             stale == prior # 0 /\ Remote(S, prior).fuid \notin {0, p.se}
             Z == [S EXCEPT !.joinees = 0]
             W == IF stale THEN Z ELSE S
             uid == NextUid(S)
             fresh == [W EXCEPT !.puid = uid]
             moved == [S EXCEPT !.puid = uid]
             F == FromJoiner(m, S, p)
             J == Join(m, fresh, p, uid, NewRemote)
  <2>1. \/ F = Transact(m, W, p, W.joinees) \/ F = J \/ F.st = W
        \/ F = Transact(m, S, p, p.de) \/ F.st = moved
    BY DEF FromJoiner, Did
  <2>2. Shut(m, W) /\ Shut(m, moved)
    BY ShutStays
  <2> HIDE DEF W, F, uid, moved
  <2>3. Shut(m, fresh)
    BY <2>2, ShutStays
  <2> HIDE DEF fresh
  <2>4. Closed(m, Transact(m, W, p, W.joinees).st) /\ Closed(m, Transact(m, S, p, p.de).st)
    BY <2>2, ShutTransacts
  <2>5. Closed(m, J.st)
    BY <2>3, ShutJoins
  <2>6. Closed(m, W) /\ Closed(m, moved)
    BY <2>2 DEF Shut
  <2> HIDE DEF J
  <2> QED
    BY <2>1, <2>4, <2>5, <2>6 DEF F
<1> QED
  BY <1>1, <1>2 DEF ProcessRx

-----------------------------------------------------------------------------
(* The steps of the pair.                                                   *)

(* A main stack on a fixed road, which does not ask; the other stack's road is
   mutable and it takes no vacuous joins. *)
Pair(m) ==
  /\ m \in Stacks /\ m \notin Mutables /\ m \notin Creators
  /\ Other(m) \notin Mains /\ Other(m) \in Mutables

Open(m) == Unbroken /\ ~Closed(m, stack[m])

LEMMA PairOf ==
  ASSUME NEW m, Pair(m)
  PROVE  /\ Other(m) \in Stacks /\ Other(m) # m /\ Other(Other(m)) = m
         /\ \A s \in Stacks : s = m \/ s = Other(m)
BY DEF Pair, Stacks, Other

LEMMA PairReady ==
  ASSUME IInv, NEW m, Pair(m), Linked(m), Open(m)
  PROVE  /\ AskerReady(Other(m), stack[Other(m)], stack[m])
         /\ ~stack[m].raised => AskedReady(m, stack[m], stack[Other(m)])
         /\ \A p \in net : IF p.to = m THEN ToAsked(p, stack[m], stack[Other(m)])
                                       ELSE ToAsker(p, stack[m])
<1> DEFINE x == Other(m)
           X == stack[x]
           M == stack[m]
<1>1. m \in Stacks /\ x \in Stacks /\ Sound(m, M) /\ Sound(x, X)
  BY PairOf, AllKeyed DEF Pair
<1>2. /\ Asker(X, M) /\ Asked(M, X)
      /\ \A p \in net : IF p.to = m THEN ToAsked(p, M, X) ELSE ToAsker(p, M)
  BY DEF Linked, Open
<1>3. M.keys = 1 /\ X.keys = 1
  <2>1. /\ M.restarts = 0 /\ X.restarts = 0
        /\ M.keys \in 1 .. M.restarts + 1 /\ X.keys \in 1 .. X.restarts + 1
    BY <1>1 DEF Open, Unbroken, Sound, Misc
  <2> QED
    BY <2>1
<1>4. Partner(M)
  <2>1. Core(m, M.remotes, M.names, M.trans, M.files, M.role)
    BY <1>1 DEF Sound
  <2>2. \A w \in DOMAIN M.remotes : w \in Uids \ {0} /\ M.remotes[w] \in Remotes /\ M.remotes[w].fuid # 0
    BY <2>1 DEF Core, Pair, Fixed
  <2>3. \A w \in DOMAIN M.remotes : M.remotes[w].fuid \in Uids
    BY <2>2 DEF Remotes
  <2>4. Lone(M)
    BY <1>1, SoundShape DEF Pair
  <2> QED
    BY <2>2, <2>3, <2>4 DEF Partner
<1>5. Shape(X) /\ X.role \in RoleRecords /\ X.trans \subseteq Transactions /\ X.puid \in Nat
  <2>1. Lone(X)
    BY <1>2 DEF Asker, AskerRemotes
  <2>2. X.puid \in Uids /\ Uids \subseteq Nat
    BY <1>1, SoundFields, Ids
  <2> QED
    BY <1>1, <2>1, <2>2, SoundShape, SoundFields
<1>6. AskerReady(x, X, M)
  BY <1>1, <1>2, <1>3, <1>4, <1>5 DEF AskerReady, Pair
<1>7. ~M.raised => AskedReady(m, M, X)
  BY <1>1, <1>2, <1>3, <1>5 DEF AskedReady, Pair
<1> QED
  BY <1>2, <1>6, <1>7

(* The packets and joins of the other are well as remotes are kept. *)
LEMMA AskerWhenKept ==
  ASSUME NEW X, NEW S, NEW T, Asker(X, S), Kept(S, T)
  PROVE  Asker(X, T)
<1>1. \A u, w : Met(S, u, w) => Met(T, u, w)
  BY DEF Met, Kept
<1>2. AskerRemotes(X, T)
  BY <1>1 DEF Asker, AskerRemotes
<1>3. AskerRole(X, T)
  BY DEF Asker, AskerRole, Kept
<1>4. \A t \in X.trans : AskerJoin(X, T, t)
  BY <1>1 DEF Asker, AskerJoin
<1> QED
  BY <1>2, <1>3, <1>4 DEF Asker

LEMMA PacketsWhenKept ==
  ASSUME NEW X, NEW S, NEW T, Kept(S, T), NEW p
  PROVE  /\ ToAsked(p, S, X) => ToAsked(p, T, X)
         /\ ToAsker(p, S) => ToAsker(p, T)
<1>1. \A u, w : Met(S, u, w) => Met(T, u, w)
  BY DEF Met, Kept
<1>2. \A u : (\E w \in DOMAIN S.remotes : Met(S, u, w)) => \E w \in DOMAIN T.remotes : Met(T, u, w)
  BY <1>1 DEF Kept
<1> QED
  BY <1>1, <1>2 DEF ToAsked, ToAsker

LEMMA AskedWhenOnward ==
  ASSUME NEW M, NEW S, NEW T, Asked(M, S), Onward(S, T), S.puid \in Nat,
         \A w \in DOMAIN M.remotes : M.remotes[w].fuid \in Uids
  PROVE  Asked(M, T)
<1>1. \A u \in Uids : u \in Nat
  BY Ids
<1>2. \A w \in DOMAIN M.remotes :
        /\ M.remotes[w].fuid <= T.puid
        /\ M.remotes[w].joined => Known(T, M.remotes[w].fuid)
  <2>1. \A w \in DOMAIN M.remotes : M.remotes[w].fuid <= S.puid
    BY DEF Asked
  <2>2. \A w \in DOMAIN M.remotes : M.remotes[w].fuid <= T.puid
    BY <1>1, <2>1 DEF Onward
  <2> QED
    BY <2>2 DEF Asked, Onward
<1>3. \A t \in M.trans : AskedJoin(M, T, t)
  BY DEF Asked, AskedJoin, Onward
<1> QED
  BY <1>2, <1>3 DEF Asked

LEMMA PacketsWhenOnward ==
  ASSUME NEW M, NEW S, NEW T, Onward(S, T), S.puid \in Nat, NEW p, PacketOK(p), ToAsked(p, M, S)
  PROVE  ToAsked(p, M, T)
<1>1. p.se \in Uids /\ p.uid \in Uids /\ p.se \in Nat
  BY Ids DEF PacketOK, Packets
<1>2. p.pk = "request" => p.se <= T.puid
  BY <1>1 DEF ToAsked, Onward
<1> QED
  BY <1>1, <1>2 DEF ToAsked, Onward

LEMMA LinkedTurns ==
  ASSUME IInv, NEW m, Pair(m), Linked(m), Unbroken,
         NEW s \in Stacks, NEW d, NEW path \in SUBSET net, Happens(s, d, path),
         s = m /\ Closed(m, stack[m]) => Closed(m, d.st),
         s = m /\ Open(m) => AskedFine(m, stack[m], stack[Other(m)], d),
         s = Other(m) /\ Open(m) => AskerFine(s, stack[s], stack[m], d)
  PROVE  Linked(m)'
<1> DEFINE x == Other(m)
<1>1. /\ DOMAIN stack = Stacks /\ stack' = [stack EXCEPT ![s] = d.st]
      /\ net' = path \cup d.out /\ path \subseteq net
  BY DEF IInv, Happens
<1>2. m \in Stacks /\ x \in Stacks /\ x # m /\ Other(x) = m /\ (s = m \/ s = x)
  BY PairOf DEF Pair
<1>3. CASE Closed(m, stack[m])
  <2>1. Closed(m, stack'[m])
    BY <1>1, <1>2, <1>3
  <2> QED
    BY <2>1 DEF Linked, Closed
<1>4. CASE Open(m)
  <2>1. /\ AskerReady(x, stack[x], stack[m])
        /\ \A p \in net : IF p.to = m THEN ToAsked(p, stack[m], stack[x])
                                      ELSE ToAsker(p, stack[m])
    BY <1>4, PairReady
  <2>2. /\ Asker(stack[x], stack[m]) /\ Asked(stack[m], stack[x]) /\ stack[x].puid \in Nat
        /\ \A w \in DOMAIN stack[m].remotes : stack[m].remotes[w].fuid \in Uids
    <3>1. Partner(stack[m]) /\ Asker(stack[x], stack[m]) /\ stack[x].puid \in Nat
      BY <2>1 DEF AskerReady
    <3>2. Asked(stack[m], stack[x])
      BY <1>4 DEF Linked, Open
    <3> QED
      BY <3>1, <3>2 DEF Partner
  <2>3. \A p \in net : PacketOK(p)
    BY DEF IInv
  <2>4. \/ Closed(m, stack'[m])
        \/ /\ Asker(stack'[x], stack'[m]) /\ Asked(stack'[m], stack'[x])
           /\ \A p \in net' : IF p.to = m THEN ToAsked(p, stack'[m], stack'[x])
                                          ELSE ToAsker(p, stack'[m])
    <3>1. CASE s = m
      <4>1. stack'[m] = d.st /\ stack'[x] = stack[x]
        BY <1>1, <1>2, <3>1
      <4>2. CASE Closed(m, d.st)
        BY <4>1, <4>2
      <4>3. CASE /\ Asked(d.st, stack[x]) /\ Kept(stack[m], d.st)
                 /\ \A p \in d.out : p.to = Other(m) /\ ToAsker(p, d.st)
        <5>1. Asker(stack[x], d.st)
          BY <2>2, <4>3, AskerWhenKept
        <5>2. \A p \in net : IF p.to = m THEN ToAsked(p, d.st, stack[x]) ELSE ToAsker(p, d.st)
          BY <2>1, <4>3, PacketsWhenKept
        <5>3. \A p \in net' : IF p.to = m THEN ToAsked(p, d.st, stack[x]) ELSE ToAsker(p, d.st)
          BY <1>1, <1>2, <4>3, <5>2
        <5> QED
          BY <4>1, <4>3, <5>1, <5>3
      <4> QED
        BY <1>4, <3>1, <4>2, <4>3 DEF AskedFine
    <3>2. CASE s = x
      <4>1. stack'[x] = d.st /\ stack'[m] = stack[m]
        BY <1>1, <1>2, <3>2
      <4>2. /\ Asker(d.st, stack[m]) /\ Onward(stack[x], d.st)
            /\ \A p \in d.out : p.to = m /\ ToAsked(p, stack[m], d.st)
        BY <1>2, <1>4, <3>2 DEF AskerFine
      <4>3. Asked(stack[m], d.st)
        BY <2>2, <4>2, AskedWhenOnward
      <4>4. \A p \in net : IF p.to = m THEN ToAsked(p, stack[m], d.st) ELSE ToAsker(p, stack[m])
        BY <2>1, <2>2, <2>3, <4>2, PacketsWhenOnward
      <4>5. \A p \in net' : IF p.to = m THEN ToAsked(p, stack[m], d.st) ELSE ToAsker(p, stack[m])
        BY <1>1, <4>2, <4>4
      <4> QED
        BY <4>1, <4>2, <4>3, <4>5
    <3> QED
      BY <1>2, <3>1, <3>2
  <2> QED
    BY <2>4 DEF Linked, Closed
<1> QED
  BY <1>3, <1>4 DEF Open

-----------------------------------------------------------------------------
(* Every step of Next but a restart.                                        *)

(* Either side of the pair, while m has not closed. *)
LEMMA PairSides ==
  ASSUME IInv, NEW m, Pair(m), Linked(m), Unbroken, NEW s \in Stacks, Up(s)
  PROVE  /\ s = m \/ s = Other(m)
         /\ s = m /\ Closed(m, stack[m]) => Shut(m, stack[m])
         /\ s = m /\ Open(m) => AskedReady(m, stack[m], stack[Other(m)])
         /\ s = Other(m) /\ Open(m) => AskerReady(s, stack[s], stack[m])
         /\ Sound(s, stack[s])
<1>1. s = m \/ s = Other(m)
  BY PairOf
<1>2. Sound(s, stack[s])
  BY AllKeyed
<1> QED
  BY <1>1, <1>2, PairReady, SoundShut DEF Up

(* What a packet makes of either side. *)
LEMMA ReceivePaired ==
  ASSUME IInv, NEW m, Pair(m), Linked(m), Unbroken, NEW p \in net, Receive(p)
  PROVE  LET d == ProcessRx(p.to, stack[p.to], p)
         IN /\ p.to = m /\ Open(m) => AskedFine(m, stack[m], stack[Other(m)], d)
            /\ p.to = Other(m) /\ Open(m) => AskerFine(p.to, stack[p.to], stack[m], d)
<1> DEFINE s == p.to
           x == Other(m)
           d == ProcessRx(s, stack[s], p)
<1>1. PacketOK(p) /\ s \in Stacks
  BY DEF IInv, PacketOK, Packets
<1>2. Up(s) /\ (p.cf \/ p.de \in DOMAIN stack[s].remotes \/ HasUid(stack[s]))
  BY DEF Receive
<1>3. /\ s = m /\ Open(m) => AskedReady(m, stack[m], stack[x])
      /\ s = x /\ Open(m) => AskerReady(s, stack[s], stack[m])
      /\ Sound(s, stack[s])
  BY <1>1, <1>2, PairSides
<1>5. ASSUME s = m, Open(m)
      PROVE  AskedFine(m, stack[m], stack[x], d)
  <2>1. AskedReady(m, stack[m], stack[x]) /\ ToAsked(p, stack[m], stack[x])
    BY <1>3, <1>5, PairReady
  <2>2. CASE p.cf
    <3>1. AskedFine(m, stack[m], stack[x], FromJoinent(m, stack[m], p))
      BY <1>1, <2>1, <2>2, AskedFromJoinent
    <3> QED
      BY <1>5, <2>2, <3>1 DEF ProcessRx
  <2>3. CASE ~p.cf
    <3>1. AskedFine(m, stack[m], stack[x], FromJoiner(m, stack[m], p))
      BY <1>1, <1>2, <1>5, <2>1, <2>3, AskedFromJoiner
    <3> QED
      BY <1>5, <2>3, <3>1 DEF ProcessRx
  <2> QED
    BY <2>2, <2>3
<1>6. ASSUME s = x, Open(m)
      PROVE  AskerFine(s, stack[s], stack[m], d)
  <2>1. AskerReady(s, stack[s], stack[m]) /\ ToAsker(p, stack[m])
    <3>1. s # m
      BY <1>6, PairOf
    <3> QED
      BY <1>3, <1>6, <3>1, PairReady
  <2>2. CASE p.cf
    <3>1. AskerFine(s, stack[s], stack[m], FromJoinent(s, stack[s], p))
      BY <1>1, <2>1, <2>2, AskerFromJoinent
    <3> QED
      BY <2>2, <3>1 DEF ProcessRx
  <2>3. CASE ~p.cf
    <3>1. DOMAIN stack[s].remotes \subseteq Uids \ {0}
      BY <1>3, SoundFields
    <3>2. AskerFine(s, stack[s], stack[m], FromJoiner(s, stack[s], p))
      BY <1>1, <1>2, <2>1, <2>3, <3>1, AskerFromJoiner
    <3> QED
      BY <2>3, <3>2 DEF ProcessRx
  <2> QED
    BY <2>2, <2>3
<1> HIDE DEF d
<1> QED
  BY <1>5, <1>6 DEF d

LEMMA ReceiveLinked ==
  ASSUME IInv, NEW m, Pair(m), Linked(m), Unbroken, NEW p \in net, Receive(p)
  PROVE  Linked(m)'
<1> DEFINE s == p.to
           d == ProcessRx(s, stack[s], p)
           path == net \ {p}
<1>1. PacketOK(p) /\ s \in Stacks /\ path \in SUBSET net
  BY DEF IInv, PacketOK, Packets
<1>2. Up(s) /\ Happens(s, d, path)
  BY DEF Receive
<1>3. s = m /\ Closed(m, stack[m]) => Closed(m, d.st)
  BY <1>1, <1>2, PairSides, ShutReceives
<1>4. /\ s = m /\ Open(m) => AskedFine(m, stack[m], stack[Other(m)], d)
      /\ s = Other(m) /\ Open(m) => AskerFine(s, stack[s], stack[m], d)
  BY ReceivePaired
<1> HIDE DEF s, d, path
<1> QED
  BY <1>1, <1>2, <1>3, <1>4, LinkedTurns

LEMMA LoseLinked ==
  ASSUME NEW m, Linked(m), NEW p \in net, Lose(p)
  PROVE  Linked(m)'
BY DEF Lose, Linked, Unbroken, Closed

LEMMA CreateLinked ==
  ASSUME IInv, NEW m, Pair(m), Linked(m), Unbroken, NEW s \in Stacks, CreateRemote(s)
  PROVE  Linked(m)'
<1> DEFINE uid == NextUid(stack[s])
           d == Did([Update(stack[s], uid, NewRemote) EXCEPT
                       !.puid = uid, !.names = Put(@, "new", uid)], {})
<1>1. /\ Up(s) /\ s \in Creators /\ DOMAIN stack[s].remotes = {} /\ HasUid(stack[s])
      /\ Happens(s, d, net) /\ net \in SUBSET net
  BY DEF CreateRemote
<1>2. s # m
  BY <1>1 DEF Pair
<1>3. ASSUME s = Other(m), Open(m)
      PROVE  AskerFine(s, stack[s], stack[m], d)
  <2>1. AskerReady(s, stack[s], stack[m])
    BY <1>1, <1>3, PairSides
  <2> QED
    BY <1>1, <2>1, AskerCreates
<1> HIDE DEF d
<1> QED
  BY <1>1, <1>2, <1>3, LinkedTurns

LEMMA JoinLinked ==
  ASSUME IInv, NEW m, Pair(m), Linked(m), Unbroken,
         NEW s \in Stacks, NEW uid \in DOMAIN stack[s].remotes, JoinRemote(s, uid)
  PROVE  Linked(m)'
<1> DEFINE d == StartJoin(s, stack[s], uid, FALSE)
<1>1. /\ Up(s) /\ stack[s].remotes[uid].tid < MaxTid
      /\ Happens(s, d, net) /\ net \in SUBSET net
  BY DEF JoinRemote
<1>2. ~(s = m /\ Closed(m, stack[m]))
  BY DEF Closed
<1>3. s = m /\ Open(m) => AskedFine(m, stack[m], stack[Other(m)], d)
  BY <1>1, PairSides, AskedAsks
<1>4. s = Other(m) /\ Open(m) => AskerFine(s, stack[s], stack[m], d)
  BY <1>1, PairSides, AskerAsks
<1> HIDE DEF d
<1> QED
  BY <1>1, <1>2, <1>3, <1>4, LinkedTurns

LEMMA TimeoutLinked ==
  ASSUME IInv, NEW m, Pair(m), Linked(m), Unbroken,
         NEW s \in Stacks, NEW t \in stack[s].trans, Timeout(s, t)
  PROVE  Linked(m)'
<1> DEFINE d == IF t.rmt THEN Nack(s, stack[s], t, "nack") ELSE Did(Remove(stack[s], t), {})
<1>1. Up(s) /\ Happens(s, d, net) /\ net \in SUBSET net
  BY DEF Timeout
<1>2. ~(s = m /\ Closed(m, stack[m]))
  BY <1>1, PairSides DEF Shut
<1>3. s = m /\ Open(m) => AskedFine(m, stack[m], stack[Other(m)], d)
  BY <1>1, PairSides, AskedTimesOut
<1>4. s = Other(m) /\ Open(m) => AskerFine(s, stack[s], stack[m], d)
  BY <1>1, PairSides, AskerTimesOut
<1> HIDE DEF d
<1> QED
  BY <1>1, <1>2, <1>3, <1>4, LinkedTurns

(* What another attempt of a join makes of S. *)
Redone(s, S, t) ==
  LET status == Status(s, S, S.remotes[t.uid].keys)
      D == [StatusDump(s, S, S.remotes[t.uid].keys) EXCEPT !.remotes[t.uid].acceptance = status]
  IN CASE t.tx # "pend" -> Did(S, {Packet(s, t, t.tx)})
       [] t.tx = "pend" /\ status = "accepted" ->
            IF t.rmt THEN AckAccept(s, D, t) ELSE Completify(s, D, t)
       [] t.tx = "pend" /\ status = "rejected" -> RemoveRemote(s, D, t.uid)
       [] OTHER -> Did(D, {})

LEMMA RedoPaired ==
  ASSUME IInv, NEW m, Pair(m), Linked(m), Unbroken,
         NEW s \in Stacks, Up(s), NEW t \in stack[s].trans
  PROVE  LET d == Redone(s, stack[s], t)
         IN /\ s = m /\ Open(m) => AskedFine(m, stack[m], stack[Other(m)], d)
            /\ s = Other(m) /\ Open(m) => AskerFine(s, stack[s], stack[m], d)
<1> DEFINE S == stack[s]
           d == Redone(s, S, t)
<1>1. ASSUME NEW status, NEW D, status = Status(s, S, S.remotes[t.uid].keys),
             D = [StatusDump(s, S, S.remotes[t.uid].keys) EXCEPT
                    !.remotes[t.uid].acceptance = status]
      PROVE  /\ s = m /\ Open(m) => AskedFine(m, S, stack[Other(m)], d)
             /\ s = Other(m) /\ Open(m) => AskerFine(s, S, stack[m], d)
  <2>1. d = CASE t.tx # "pend" -> Did(S, {Packet(s, t, t.tx)})
              [] t.tx = "pend" /\ status = "accepted" ->
                   IF t.rmt THEN AckAccept(s, D, t) ELSE Completify(s, D, t)
              [] t.tx = "pend" /\ status = "rejected" -> RemoveRemote(s, D, t.uid)
              [] OTHER -> Did(D, {})
    BY <1>1 DEF Redone
  <2> HIDE DEF d
  <2>2. ASSUME s = m, Open(m)
        PROVE  AskedFine(s, S, stack[Other(m)], d)
    <3>1. AskedReady(s, S, stack[Other(m)])
      BY <2>2, PairSides
    <3>2. t.tx # "pend" => AskedFine(s, S, stack[Other(m)], Did(S, {Packet(s, t, t.tx)}))
      BY <3>1, AskedResends
    <3>3. t.tx = "pend"
          => /\ t.rmt => AskedFine(s, S, stack[Other(m)], AckAccept(s, D, t))
             /\ ~t.rmt => AskedFine(s, S, stack[Other(m)], Completify(s, D, t))
             /\ status = "rejected" => AskedFine(s, S, stack[Other(m)], RemoveRemote(s, D, t.uid))
             /\ AskedFine(s, S, stack[Other(m)], Did(D, {}))
      BY <1>1, <3>1, AskedRedoes
    <3> QED
      BY <2>1, <3>2, <3>3
  <2>3. ASSUME s = Other(m), Open(m)
        PROVE  AskerFine(s, S, stack[m], d)
    <3>1. AskerReady(s, S, stack[m])
      BY <2>3, PairSides
    <3>2. t.tx # "pend" => AskerFine(s, S, stack[m], Did(S, {Packet(s, t, t.tx)}))
      BY <3>1, AskerResends
    <3>3. t.tx = "pend"
          => /\ t.rmt => AskerFine(s, S, stack[m], AckAccept(s, D, t))
             /\ ~t.rmt => AskerFine(s, S, stack[m], Completify(s, D, t))
             /\ AskerFine(s, S, stack[m], RemoveRemote(s, D, t.uid))
             /\ AskerFine(s, S, stack[m], Did(D, {}))
      BY <1>1, <3>1, AskerRedoes
    <3> QED
      BY <2>1, <3>2, <3>3
  <2> QED
    BY <2>2, <2>3
<1> HIDE DEF d
<1>2. /\ s = m /\ Open(m) => AskedFine(m, S, stack[Other(m)], d)
      /\ s = Other(m) /\ Open(m) => AskerFine(s, S, stack[m], d)
  BY <1>1
<1> QED
  BY <1>2 DEF d

LEMMA RedoneToo ==
  ASSUME NEW s, NEW t, Redo(s, t)
  PROVE  Up(s) /\ Happens(s, Redone(s, stack[s], t), net) /\ net \in SUBSET net
BY DEF Redo, Redone

LEMMA RedoLinked ==
  ASSUME IInv, NEW m, Pair(m), Linked(m), Unbroken,
         NEW s \in Stacks, NEW t \in stack[s].trans, Redo(s, t)
  PROVE  Linked(m)'
<1> DEFINE d == Redone(s, stack[s], t)
<1>1. Up(s) /\ Happens(s, d, net) /\ net \in SUBSET net
  BY RedoneToo
<1>2. ~(s = m /\ Closed(m, stack[m]))
  BY <1>1, PairSides DEF Shut
<1>3. /\ s = m /\ Open(m) => AskedFine(m, stack[m], stack[Other(m)], d)
      /\ s = Other(m) /\ Open(m) => AskerFine(s, stack[s], stack[m], d)
  BY <1>1, RedoPaired
<1> HIDE DEF d
<1> QED
  BY <1>1, <1>2, <1>3, LinkedTurns

LEMMA AcceptanceLinked ==
  ASSUME IInv, NEW m, Pair(m), Linked(m), Unbroken,
         NEW s \in Stacks, NEW uid \in DOMAIN stack[s].remotes,
         NEW status \in {"accepted", "rejected"}, SetAcceptance(s, uid, status)
  PROVE  Linked(m)'
<1> DEFINE d == Did([stack[s] EXCEPT !.remotes[uid].acceptance = status,
                                     !.role = RoleData(status, stack[s].remotes[uid].keys)], {})
<1>1. /\ Up(s) /\ stack[s].remotes[uid].keys # 0 /\ status \in Statuses
      /\ Happens(s, d, net) /\ net \in SUBSET net
  BY DEF SetAcceptance, Statuses
<1>2. ~(s = m /\ Closed(m, stack[m]))
  BY DEF Closed
<1>3. s = m /\ Open(m) => AskedFine(m, stack[m], stack[Other(m)], d)
  BY <1>1, PairSides, AskedJudged
<1>4. s = Other(m) /\ Open(m) => AskerFine(s, stack[s], stack[m], d)
  BY <1>1, PairSides, AskerJudged
<1> HIDE DEF d
<1> QED
  BY <1>1, <1>2, <1>3, <1>4, LinkedTurns

(* A restart ends what is claimed. *)
LEMMA RestartBreaks ==
  ASSUME IInv, NEW s \in Stacks, NEW clean, Restart(s, clean)
  PROVE  ~Unbroken'
<1> DEFINE S == stack[s]
           k == IF clean THEN S.keys + 1 ELSE S.keys
           N == NewStack(k, S.restarts + 1)
           Q == RestoredRemotes(S.files, S.role)
           M == RestoredNames(S.files)
           T == [N EXCEPT !.remotes = Q, !.names = M, !.files = S.files, !.role = S.role,
                          !.puid = S.savedPuid, !.savedPuid = S.savedPuid]
           st == IF clean THEN N ELSE T
<1>1. Happens(s, Did(st, {}), net)
  BY DEF Restart, RestoredRemotes, RestoredNames
<1>2. N.restarts = S.restarts + 1
  BY DEF NewStack
<1> HIDE DEF Q, M
<1>3. T.restarts = S.restarts + 1
  <2>1. DOMAIN N = StackFields
    BY DEF NewStack, StackFields
  <2> HIDE DEF N
  <2> QED
    BY <1>2, <2>1 DEF StackFields
<1> HIDE DEF N, T
<1>4. st.restarts = S.restarts + 1
  BY <1>2, <1>3
<1> HIDE DEF st
<1>5. stack'[s].restarts = S.restarts + 1
  BY <1>1, <1>4 DEF Happens, Did, IInv
<1>6. S.restarts \in Nat
  BY ConstantsAssumption DEF IInv, Sound, Misc
<1> QED
  BY <1>5, <1>6 DEF Unbroken

LEMMA LinkedSteps ==
  ASSUME IInv, NEW m, Pair(m), Linked(m), [Next]_vars
  PROVE  Linked(m)'
<1>1. CASE ~Unbroken
  <2>1. Mains \cap Creators = {}
    BY PairOf, ConstantsAssumption DEF Pair
  <2>2. IInv' /\ NoneUndone
    BY <2>1, Steps
  <2>3. /\ \A s \in Stacks : stack[s].restarts \in Nat
        /\ \A s \in Stacks : stack'[s].restarts \in Nat
    BY <2>2, ConstantsAssumption DEF IInv, Sound, Misc
  <2>4. ~Unbroken'
    BY <1>1, <2>2, <2>3 DEF Unbroken, NoneUndone
  <2> QED
    BY <2>4 DEF Linked
<1>2. CASE Unbroken /\ UNCHANGED vars
  BY <1>2 DEF vars, Linked, Unbroken, Closed
<1>3. CASE Unbroken /\ Next
  <2>1. CASE \E p \in net : Receive(p) \/ Lose(p)
    BY <1>3, <2>1, ReceiveLinked, LoseLinked
  <2>2. ASSUME NEW s \in Stacks,
               \/ CreateRemote(s)
               \/ \E uid \in DOMAIN stack[s].remotes :
                    JoinRemote(s, uid) \/ SetAcceptance(s, uid, "accepted")
                      \/ SetAcceptance(s, uid, "rejected")
               \/ \E t \in stack[s].trans : Timeout(s, t) \/ Redo(s, t)
               \/ \E clean \in Wipes : Restart(s, clean)
        PROVE  Linked(m)'
    <3>1. CASE CreateRemote(s)
      BY <1>3, <3>1, CreateLinked
    <3>2. ASSUME NEW uid \in DOMAIN stack[s].remotes,
                 JoinRemote(s, uid) \/ SetAcceptance(s, uid, "accepted")
                   \/ SetAcceptance(s, uid, "rejected")
          PROVE  Linked(m)'
      BY <1>3, <3>2, JoinLinked, AcceptanceLinked
    <3>3. ASSUME NEW t \in stack[s].trans, Timeout(s, t) \/ Redo(s, t)
          PROVE  Linked(m)'
      BY <1>3, <3>3, TimeoutLinked, RedoLinked
    <3>4. ASSUME NEW clean \in Wipes, Restart(s, clean)
          PROVE  Linked(m)'
      <4>1. ~Unbroken'
        BY <3>4, RestartBreaks
      <4> QED
        BY <4>1 DEF Linked
    <3> QED
      BY <2>2, <3>1, <3>2, <3>3, <3>4
  <2> QED
    BY <1>3, <2>1, <2>2 DEF Next
<1> QED
  BY <1>1, <1>2, <1>3

LEMMA LinkedInitially ==
  ASSUME NEW m, Pair(m), Init
  PROVE  Linked(m)
<1>1. m \in Stacks /\ Other(m) \in Stacks /\ net = {}
  BY PairOf DEF Pair, Init
<1>2. ASSUME NEW s \in Stacks
      PROVE  /\ DOMAIN stack[s].remotes = {} /\ stack[s].trans = {}
             /\ stack[s].role.acceptance = "none"
  <2>1. stack[s] = NewStack(1, 0)
    BY DEF Init
  <2>2. stack[s].remotes = <<>> /\ stack[s].trans = {} /\ stack[s].role = RoleData("none", 0)
    BY <2>1 DEF NewStack
  <2>3. stack[s].role.acceptance = "none"
    BY <2>2 DEF RoleData
  <2> QED
    BY <2>2, <2>3
<1>3. Asker(stack[Other(m)], stack[m]) /\ Asked(stack[m], stack[Other(m)])
  BY <1>1, <1>2 DEF Asker, AskerRemotes, AskerRole, Asked, Lone
<1> QED
  BY <1>1, <1>3 DEF Linked

(* Where the pair is linked its uids agree. *)
LEMMA LinkedUids ==
  ASSUME IInv, NEW m, Pair(m), Linked(m)
  PROVE  UidsAgree
<1> DEFINE x == Other(m)
           M == stack[m]
           X == stack[x]
<1> SUFFICES ASSUME Unbroken, NEW s \in Stacks, NEW u \in DOMAIN stack[s].remotes,
                    stack[s].remotes[u].joined,
                    stack[s].remotes[u].fuid \in DOMAIN stack[Other(s)].remotes
             PROVE  stack[Other(s)].remotes[stack[s].remotes[u].fuid].fuid = u
  BY DEF UidsAgree
<1>1. (s = m \/ s = x) /\ Other(x) = m /\ m \in Stacks
  BY PairOf DEF Pair
<1>2. Sound(m, M)
  BY <1>1, AllKeyed
<1>3. DOMAIN M.remotes \subseteq Uids \ {0}
  BY <1>2, SoundFields
<1>4. ~Closed(m, M)
  <2>1. s = m => u \in DOMAIN M.remotes
    OBVIOUS
  <2>2. s = x => X.remotes[u].fuid \in DOMAIN M.remotes
    BY <1>1
  <2> QED
    BY <1>1, <2>1, <2>2 DEF Closed
<1>5. Asker(X, M) /\ Asked(M, X)
  BY <1>4 DEF Linked
<1>6. CASE s = x
  <2>1. X.remotes[u].fuid \in DOMAIN M.remotes /\ X.remotes[u].fuid # 0
    BY <1>1, <1>3, <1>6
  <2>2. Met(M, u, X.remotes[u].fuid)
    BY <1>5, <1>6, <2>1 DEF Asker, AskerRemotes
  <2> QED
    BY <1>1, <1>6, <2>2 DEF Met
<1>7. CASE s = m
  <2> DEFINE v == M.remotes[u].fuid
  <2>1. v \in DOMAIN X.remotes /\ u \in DOMAIN M.remotes /\ M.remotes[u].joined
    BY <1>7
  <2>2. X.remotes[v].fuid # 0
    BY <1>5, <2>1 DEF Asked, Known
  <2>3. Met(M, v, X.remotes[v].fuid)
    BY <1>5, <2>1, <2>2 DEF Asker, AskerRemotes
  <2>4. Lone(M)
    BY <1>1, <1>2, SoundShape DEF Pair
  <2>5. X.remotes[v].fuid = u
    BY <2>1, <2>3, <2>4 DEF Met, Lone
  <2> QED
    BY <1>7, <2>5
<1> QED
  BY <1>1, <1>6, <1>7

(* Between a main stack whose road is not mutable, and which does not ask, and
   a stack that asks on a mutable road, until one of them is started again: no
   loss, repetition or reordering of requests, responses, pends and acks, and no
   abandoned join, leaves a joined remote addressed by the uid of another
   remote of the other side. *)
THEOREM UidsMeet ==
  ASSUME NEW m \in Stacks, m \notin Mutables, m \notin Creators,
         Other(m) \notin Mains, Other(m) \in Mutables
  PROVE  Spec => []UidsAgree
<1>1. Pair(m)
  BY DEF Pair
<1>2. Mains \cap Creators = {}
  BY <1>1, PairOf, ConstantsAssumption DEF Pair
<1>3. Spec => []IInv
  BY <1>2, Invariantly
<1>4. Init => Linked(m)
  BY <1>1, LinkedInitially
<1>5. IInv /\ Linked(m) /\ [Next]_vars => Linked(m)'
  BY <1>1, LinkedSteps
<1>6. IInv /\ Linked(m) => UidsAgree
  BY <1>1, LinkedUids
<1> QED
  BY <1>3, <1>4, <1>5, <1>6, PTL DEF Spec

-----------------------------------------------------------------------------
(* That no exception is raised: the argument for NoRaise. *)

(* No exception is raised; the joins and joinees are the same too. *)
Calm(S, T) == DOMAIN T = StackFields /\ T.raised = S.raised

Still(S, T) == Calm(S, T) /\ T.trans = S.trans /\ T.joinees = S.joinees

LEMMA CalmOn ==
  ASSUME NEW S, NEW T, NEW U
  PROVE  /\ Calm(S, T) /\ Calm(T, U) => Calm(S, U)
         /\ Still(S, T) /\ Still(T, U) => Still(S, U)
         /\ Still(S, T) => Calm(S, T) /\ DOMAIN T = StackFields
BY DEF Calm, Still

LEMMA StillItself ==
  ASSUME NEW S, DOMAIN S = StackFields
  PROVE  Still(S, S)
BY DEF Calm, Still

LEMMA StillParts ==
  ASSUME NEW S, DOMAIN S = StackFields, NEW v
  PROVE  /\ Still(S, [S EXCEPT !.remotes = v]) /\ Still(S, [S EXCEPT !.names = v])
         /\ Calm(S, [S EXCEPT !.joinees = v]) /\ Still(S, [S EXCEPT !.ghost = v])
         /\ Still(S, [S EXCEPT !.puid = v]) /\ Still(S, [S EXCEPT !.files = v])
         /\ Still(S, [S EXCEPT !.role = v]) /\ Still(S, [S EXCEPT !.savedPuid = v])
         /\ Calm(S, [S EXCEPT !.trans = v])
BY DEF Calm, Still, StackFields

LEMMA StillRemotes ==
  ASSUME NEW S, DOMAIN S = StackFields, NEW u, NEW v
  PROVE  /\ Still(S, [S EXCEPT !.remotes[u].joined = v])
         /\ Still(S, [S EXCEPT !.remotes[u].acceptance = v])
         /\ Still(S, [S EXCEPT !.remotes[u].fuid = v])
         /\ Still(S, [S EXCEPT !.remotes[u].keys = v])
         /\ Still(S, Update(S, u, v))
BY DEF Calm, Still, StackFields, Update

LEMMA StillDumps ==
  ASSUME NEW S, DOMAIN S = StackFields, NEW s, NEW u, NEW keys
  PROVE  /\ Still(S, DumpRemote(S, u)) /\ Still(S, DumpLocal(S))
         /\ Still(S, StatusDump(s, S, keys))
<1>1. Still(S, DumpRemote(S, u))
  <2> DEFINE G == {f \in S.files : f.name # S.remotes[u].name} \cup {FileOf(S.remotes, u)}
             K == IF S.remotes[u].keys = 0 THEN S.role
                  ELSE RoleData(S.remotes[u].acceptance, S.remotes[u].keys)
  <2>1. DumpRemote(S, u) = [S EXCEPT !.files = G, !.role = K]
    BY DEF DumpRemote, FileOf
  <2> HIDE DEF G, K
  <2> QED
    BY <2>1 DEF Calm, Still, StackFields
<1> QED
  BY <1>1, StillParts DEF DumpLocal, StatusDump

LEMMA StillRenamed ==
  ASSUME NEW S, DOMAIN S = StackFields, NEW u
  PROVE  Still(S, Rename(S, u))
<1> DEFINE old == S.remotes[u].name
           r == [S.remotes[u] EXCEPT !.name = "peer"]
           R == [S.remotes EXCEPT ![u] = r]
           N == Put(Drop(S.names, old), "peer", u)
           G == {f \in S.files : f.name # old}
           T == [[S EXCEPT !.files = G] EXCEPT !.names = N, !.remotes = R]
<1>1. Rename(S, u) = IF old = "peer" THEN S ELSE T
  BY DEF Rename, ClearFile
<1> HIDE DEF R, N, G, r
<1>2. Still(S, T)
  BY DEF Calm, Still, StackFields
<1> QED
  BY <1>1, <1>2, StillItself

LEMMA CalmJoins ==
  ASSUME NEW S, DOMAIN S = StackFields, NEW t, NEW pk
  PROVE  /\ Calm(S, Remove(S, t)) /\ Remove(S, t).trans = S.trans \ {t}
         /\ Remove(S, t).remotes = S.remotes /\ Remove(S, t).names = S.names
         /\ Calm(S, Sent(S, t, pk))
<1> DEFINE j == IF t.vacuous /\ (\A x \in S.trans \ {t} : x.uid # t.uid) THEN 0 ELSE S.joinees
           T == [S EXCEPT !.trans = S.trans \ {t}, !.joinees = j]
<1>1. Remove(S, t) = T
  BY DEF Remove
<1> HIDE DEF j
<1>2. Calm(S, T) /\ T.trans = S.trans \ {t} /\ T.remotes = S.remotes /\ T.names = S.names
  BY DEF Calm, StackFields
<1> QED
  BY <1>1, <1>2, StillParts DEF Sent

(* addTransaction raises for an index in use only. *)
LEMMA CalmAdds ==
  ASSUME NEW S, DOMAIN S = StackFields, NEW t,
         \A x \in S.trans : x.uid = t.uid => Index(x) # Index(t)
  PROVE  Calm(S, Add(S, t))
<1> DEFINE j == IF t.vacuous THEN t.uid ELSE S.joinees
           V == S.trans \cup {t}
           T == [S EXCEPT !.trans = V, !.joinees = j]
<1>1. Add(S, t) = T
  BY DEF Add, Joins
<1> HIDE DEF j, V
<1>2. Calm(S, T)
  BY DEF Calm, StackFields
<1> QED
  BY <1>1, <1>2

(* removeRemote raises for a name that is gone only. *)
LEMMA CalmRemoves ==
  ASSUME NEW s, NEW S, DOMAIN S = StackFields, NEW u, S.remotes[u].name \in DOMAIN S.names
  PROVE  Calm(S, RemoveRemote(s, S, u).st)
<1> DEFINE name == S.remotes[u].name
           joins == Joins(S, u)
           R == Drop(S.remotes, u)
           N == Drop(S.names, name)
           V == S.trans \ joins
           G == {f \in S.files : f.name # name}
           vacuous == \E t \in joins : t.vacuous
           j == IF vacuous THEN 0 ELSE S.joinees
           g == IF ~vacuous /\ S.joinees = u THEN S.remotes[u] ELSE S.ghost
           T == [[S EXCEPT !.files = G] EXCEPT
                   !.remotes = R, !.names = N, !.trans = V, !.joinees = j, !.ghost = g]
<1>1. RemoveRemote(s, S, u).st = T
  BY DEF RemoveRemote, ClearFile, Did
<1> HIDE DEF R, N, V, G, j, g
<1>2. Calm(S, T)
  BY DEF Calm, StackFields
<1> QED
  BY <1>1, <1>2

LEMMA CalmRefuses ==
  ASSUME NEW s, NEW S, DOMAIN S = StackFields, NEW p, NEW uid, NEW pk, NEW t
  PROVE  Calm(S, Refused(s, S, p, uid, pk).st) /\ Calm(S, Nack(s, S, t, pk).st)
<1>1. \/ Refused(s, S, p, uid, pk).st = S \/ Refused(s, S, p, uid, pk).st = [S EXCEPT !.joinees = 0]
  BY DEF Refused, Did
<1>2. Calm(S, S) /\ Calm(S, [S EXCEPT !.joinees = 0])
  BY StillParts, StillItself, CalmOn
<1>3. Nack(s, S, t, pk).st = Remove(S, t)
  BY DEF Nack, Did
<1> QED
  BY <1>1, <1>2, <1>3, CalmJoins

LEMMA CalmAsks ==
  ASSUME NEW s, NEW S, DOMAIN S = StackFields, NEW u, NEW renewal
  PROVE  Calm(S, StartJoin(s, S, u, renewal).st)
<1> DEFINE r == S.remotes[u]
           t == [rmt |-> FALSE, uid |-> u, le |-> u, re |-> r.fuid, ti |-> r.tid + 1,
                 vacuous |-> r.fuid = 0, renewal |-> renewal, tx |-> "request"]
           tried == Update(S, u, [r EXCEPT !.tid = @ + 1])
           B == Update(tried, u, [r EXCEPT !.tid = @ + 1, !.joined = FALSE])
<1>1. StartJoin(s, S, u, renewal).st = IF Joins(S, u) # {} THEN tried ELSE Add(B, t)
  BY DEF StartJoin, Did
<1>2. Still(S, tried)
  BY StillRemotes
<1> HIDE DEF tried
<1>3. Still(S, B)
  <2>1. DOMAIN tried = StackFields
    BY <1>2, CalmOn
  <2>2. Still(tried, B)
    BY <2>1, StillRemotes
  <2> HIDE DEF B
  <2> QED
    BY <1>2, <2>2, CalmOn
<1> HIDE DEF B
<1>4. t.uid = u
  OBVIOUS
<1> HIDE DEF t
<1>5. Joins(S, u) = {} => Calm(B, Add(B, t))
  BY <1>3, <1>4, CalmAdds DEF Joins, Still, Calm
<1> QED
  BY <1>1, <1>2, <1>3, <1>5, CalmOn

(* The remote u is there, under a name of the index. *)
Named(S, u) ==
  u \in DOMAIN S.remotes /\ S.remotes[u] \in Remotes /\ S.remotes[u].name \in DOMAIN S.names

LEMMA NamedStays ==
  ASSUME NEW S, DOMAIN S = StackFields, NEW u, Named(S, u)
  PROVE  /\ \A v \in Uids : Named([S EXCEPT !.remotes[u].fuid = v], u)
         /\ \A v \in KeyGens : Named([S EXCEPT !.remotes[u].keys = v], u)
         /\ \A v \in Statuses : Named([S EXCEPT !.remotes[u].acceptance = v], u)
<1> DEFINE r == S.remotes[u]
<1>1. r \in Remotes /\ r.name \in DOMAIN S.names
  BY DEF Named
<1>2. ASSUME NEW q \in Remotes, q.name = r.name
      PROVE  Named([S EXCEPT !.remotes[u] = q], u)
  BY <1>1, <1>2 DEF Named, StackFields
<1>3. ASSUME NEW v \in Uids
      PROVE  Named([S EXCEPT !.remotes[u].fuid = v], u)
  <2>1. [r EXCEPT !.fuid = v] \in Remotes /\ [r EXCEPT !.fuid = v].name = r.name
    BY <1>1, RemoteRecord DEF Remotes
  <2> QED
    BY <1>2, <2>1
<1>4. ASSUME NEW v \in KeyGens
      PROVE  Named([S EXCEPT !.remotes[u].keys = v], u)
  <2>1. [r EXCEPT !.keys = v] \in Remotes /\ [r EXCEPT !.keys = v].name = r.name
    BY <1>1, RemoteRecord DEF Remotes
  <2> QED
    BY <1>2, <2>1
<1>5. ASSUME NEW v \in Statuses
      PROVE  Named([S EXCEPT !.remotes[u].acceptance = v], u)
  <2>1. [r EXCEPT !.acceptance = v] \in Remotes /\ [r EXCEPT !.acceptance = v].name = r.name
    BY <1>1, RemoteRecord DEF Remotes
  <2> QED
    BY <1>2, <2>1
<1> QED
  BY <1>3, <1>4, <1>5

LEMMA NamedAgain ==
  ASSUME NEW S, DOMAIN S = StackFields, NEW u, Named(S, u)
  PROVE  Named(Rename(S, u), u)
<1> DEFINE old == S.remotes[u].name
           r == [S.remotes[u] EXCEPT !.name = "peer"]
           R == [S.remotes EXCEPT ![u] = r]
           N == Put(Drop(S.names, old), "peer", u)
           G == {f \in S.files : f.name # old}
           T == [[S EXCEPT !.files = G] EXCEPT !.names = N, !.remotes = R]
<1>1. Rename(S, u) = IF old = "peer" THEN S ELSE T
  BY DEF Rename, ClearFile
<1>2. S.remotes[u] \in Remotes /\ "peer" \in Names
  BY DEF Named, Names
<1>3. r \in Remotes
  BY <1>2, RemoteRecord
<1>4. r.name = "peer" /\ u \in DOMAIN R /\ R[u] = r
  BY <1>2 DEF Remotes, Named
<1>5. "peer" \in DOMAIN N
  BY DEF Put
<1> HIDE DEF R, N, G, r
<1>6. T.remotes = R /\ T.names = N
  BY DEF StackFields
<1> QED
  BY <1>1, <1>3, <1>4, <1>5, <1>6 DEF Named

LEMMA SoundNames ==
  ASSUME NEW s, NEW S, Sound(s, S)
  PROVE  DOMAIN S = StackFields /\ \A u \in DOMAIN S.remotes : Named(S, u)
BY SoundFields DEF Core, Named

LEMMA CalmCompletes ==
  ASSUME NEW s, NEW S, DOMAIN S = StackFields, NEW t
  PROVE  /\ Calm(S, Completify(s, S, t).st) /\ Calm(S, Complete(s, S, t).st)
<1> DEFINE A == [S EXCEPT !.remotes[t.uid].joined = TRUE]
           B == DumpRemote(A, t.uid)
           C == DumpLocal(B)
<1>1. Completify(s, S, t).st = Remove(C, t) /\ Complete(s, S, t).st = Remove(C, t)
  BY DEF Completify, Complete, Did
<1>2. Still(S, A) /\ DOMAIN A = StackFields
  BY StillRemotes, CalmOn
<1> HIDE DEF A
<1>3. Still(A, B) /\ DOMAIN B = StackFields
  BY <1>2, StillDumps, CalmOn
<1> HIDE DEF B
<1>4. Still(B, C) /\ DOMAIN C = StackFields
  BY <1>3, StillDumps, CalmOn
<1> HIDE DEF C
<1>5. Calm(C, Remove(C, t))
  BY <1>4, CalmJoins
<1> QED
  BY <1>1, <1>2, <1>3, <1>4, <1>5, CalmOn

LEMMA CalmAccepted ==
  ASSUME NEW s, NEW S, DOMAIN S = StackFields, NEW t, NEW p
  PROVE  Calm(S, Accepted(s, S, t, p).st)
<1> DEFINE u == t.uid
           status == Status(s, S, p.keys)
           A == StatusDump(s, S, p.keys)
           B == [A EXCEPT !.remotes[u].acceptance = status]
           C == [B EXCEPT !.remotes[u].fuid = p.uid]
           D == [C EXCEPT !.remotes[u].keys = p.keys]
           met == Rename(D, u)
           E == DumpRemote(met, u)
<1>1. Accepted(s, S, t, p).st =
        IF NameTaken(S, u) THEN Nack(s, B, t, "reject").st
        ELSE IF status = "accepted" THEN Completify(s, met, t).st ELSE Sent(E, t, "pend")
  <2>1. D = [B EXCEPT !.remotes[u].fuid = p.uid, !.remotes[u].keys = p.keys]
    OBVIOUS
  <2> QED
    BY <2>1 DEF Accepted, Did
<1>2. Still(S, A) /\ DOMAIN A = StackFields
  BY StillDumps, CalmOn
<1> HIDE DEF A, status, u
<1>3. Still(A, B) /\ DOMAIN B = StackFields
  BY <1>2, StillRemotes, CalmOn
<1> HIDE DEF B
<1>4. Still(B, C) /\ DOMAIN C = StackFields
  BY <1>3, StillRemotes, CalmOn
<1> HIDE DEF C
<1>5. Still(C, D) /\ DOMAIN D = StackFields
  BY <1>4, StillRemotes, CalmOn
<1> HIDE DEF D
<1>6. Still(D, met) /\ DOMAIN met = StackFields
  BY <1>5, StillRenamed, CalmOn
<1> HIDE DEF met
<1>7. Still(met, E) /\ DOMAIN E = StackFields
  BY <1>6, StillDumps, CalmOn
<1> HIDE DEF E
<1>8. Still(S, B) /\ Still(S, met) /\ Still(S, E)
  <2>1. Still(S, B)
    BY <1>2, <1>3, CalmOn
  <2>2. Still(S, C)
    BY <1>4, <2>1, CalmOn
  <2>3. Still(S, D)
    BY <1>5, <2>2, CalmOn
  <2>4. Still(S, met)
    BY <1>6, <2>3, CalmOn
  <2> QED
    BY <1>7, <2>1, <2>4, CalmOn
<1>9. Calm(B, Nack(s, B, t, "reject").st)
  BY <1>3, CalmRefuses
<1>10. Calm(met, Completify(s, met, t).st)
  BY <1>6, CalmCompletes
<1>11. Calm(E, Sent(E, t, "pend"))
  BY <1>7, CalmJoins
<1>12. Calm(S, B) /\ Calm(S, met) /\ Calm(S, E)
  BY <1>8, CalmOn
<1> QED
  BY <1>1, <1>9, <1>10, <1>11, <1>12, CalmOn

LEMMA CalmAccepts ==
  ASSUME NEW s, NEW S, Sound(s, S), NEW t \in S.trans, NEW p, PacketOK(p)
  PROVE  Calm(S, Accept(s, S, t, p).st)
<1> DEFINE u == t.uid
           name == S.remotes[u].name
           first == t.vacuous /\ ~t.renewal
           Y == [S EXCEPT !.remotes[u].fuid = p.uid]
           reached == IF t.vacuous THEN Y ELSE S
           X == [reached EXCEPT !.remotes[u].keys = p.keys]
           Z == Rename(X, u)
           W == IF first THEN Z ELSE reached
           w == W.remotes[u]
           same == w.name = "peer" /\ w.fuid = p.uid /\ w.keys = p.keys
<1>1. DOMAIN S = StackFields /\ Named(S, u) /\ p.uid \in Uids /\ p.keys \in KeyGens
  BY SoundFields, SoundNames DEF PacketOK, Packets
<1>2. Accept(s, S, t, p) =
        IF first /\ name # "peer" /\ NameTaken(S, u) THEN Nack(s, reached, t, "reject")
        ELSE IF ~same /\ s \notin Mutables THEN Nack(s, W, t, "reject")
        ELSE IF Status(s, W, p.keys) = "rejected"
        THEN IF w.keys = p.keys THEN RemoveRemote(s, W, u) ELSE Nack(s, W, t, "reject")
        ELSE Accepted(s, W, t, p)
  BY DEF Accept
<1> HIDE DEF u
<1>3. Still(S, Y) /\ Named(Y, u) /\ Still(S, S)
  BY <1>1, StillRemotes, NamedStays, StillItself
<1> HIDE DEF Y
<1>4. Still(S, reached) /\ Named(reached, u) /\ DOMAIN reached = StackFields
  BY <1>1, <1>3, CalmOn
<1> HIDE DEF reached
<1>5. Still(reached, X) /\ Named(X, u) /\ DOMAIN X = StackFields
  BY <1>1, <1>4, StillRemotes, NamedStays, CalmOn
<1> HIDE DEF X
<1>6. Still(X, Z) /\ Named(Z, u)
  BY <1>5, StillRenamed, NamedAgain
<1> HIDE DEF Z
<1>7. Still(S, Z)
  BY <1>4, <1>5, <1>6, CalmOn
<1>8. Calm(S, W) /\ Named(W, u) /\ DOMAIN W = StackFields
  BY <1>4, <1>6, <1>7, CalmOn
<1> HIDE DEF W
<1>9. /\ Calm(reached, Nack(s, reached, t, "reject").st) /\ Calm(S, reached)
      /\ Calm(W, Nack(s, W, t, "reject").st)
  BY <1>4, <1>8, CalmRefuses, CalmOn
<1>10. Calm(W, RemoveRemote(s, W, u).st)
  BY <1>8, CalmRemoves DEF Named
<1>11. Calm(W, Accepted(s, W, t, p).st)
  BY <1>8, CalmAccepted
<1> QED
  BY <1>2, <1>8, <1>9, <1>10, <1>11, CalmOn

LEMMA CalmRejects ==
  ASSUME NEW s, NEW S, Sound(s, S), NEW t \in S.trans
  PROVE  Calm(S, Reject(s, S, t).st)
<1> DEFINE T == Remove(S, t)
<1>1. DOMAIN S = StackFields /\ Named(S, t.uid)
  BY SoundFields, SoundNames
<1>2. Calm(S, T) /\ T.remotes = S.remotes /\ T.names = S.names
  BY <1>1, CalmJoins
<1>3. Reject(s, S, t) = RemoveRemote(s, T, t.uid)
  BY DEF Reject
<1> HIDE DEF T
<1>4. Calm(T, RemoveRemote(s, T, t.uid).st)
  BY <1>1, <1>2, CalmRemoves DEF Named, Calm
<1> QED
  BY <1>2, <1>3, <1>4, CalmOn

LEMMA CalmRenews ==
  ASSUME NEW s, NEW S, DOMAIN S = StackFields, NEW t
  PROVE  Calm(S, Renew(s, S, t).st)
<1> DEFINE A == Remove(S, t)
           B == [A EXCEPT !.remotes[t.uid].fuid = 0]
           C == DumpRemote(B, t.uid)
<1>1. Renew(s, S, t).st = IF s \notin Mutables THEN A ELSE StartJoin(s, C, t.uid, TRUE).st
  BY DEF Renew, Did
<1>2. Calm(S, A) /\ DOMAIN A = StackFields
  BY CalmJoins DEF Calm
<1> HIDE DEF A
<1>3. Calm(A, B) /\ DOMAIN B = StackFields
  <2>1. Still(A, B)
    BY <1>2, StillRemotes
  <2> HIDE DEF B
  <2> QED
    BY <2>1, CalmOn
<1> HIDE DEF B
<1>4. Calm(B, C) /\ DOMAIN C = StackFields
  BY <1>3, StillDumps, CalmOn
<1> HIDE DEF C
<1> HIDE DEF C
<1>5. Calm(C, StartJoin(s, C, t.uid, TRUE).st)
  BY <1>4, CalmAsks
<1>6. Calm(S, C)
  BY <1>2, <1>3, <1>4, CalmOn
<1>7. Calm(S, StartJoin(s, C, t.uid, TRUE).st)
  BY <1>5, <1>6, CalmOn
<1> QED
  BY <1>1, <1>2, <1>7

LEMMA CalmReceipts ==
  ASSUME NEW s, NEW S, Sound(s, S), NEW t \in S.trans, NEW p, PacketOK(p)
  PROVE  Calm(S, JoinerReceive(s, S, t, p).st) /\ Calm(S, JoinentReceive(s, S, t, p).st)
<1> DEFINE A == Accept(s, S, t, p)
           B == Did(Remove(S, t), {})
           C == Renew(s, S, t)
           D == Reject(s, S, t)
           E == Complete(s, S, t)
           I == Did(S, {})
<1>1. DOMAIN S = StackFields
  BY SoundFields
<1>2. Calm(S, A.st) /\ Calm(S, D.st)
  BY CalmAccepts, CalmRejects
<1>3. Calm(S, C.st)
  BY <1>1, CalmRenews
<1>4. Calm(S, E.st)
  BY <1>1, CalmCompletes
<1>5. Calm(S, B.st) /\ Calm(S, I.st)
  BY <1>1, CalmJoins, StillItself, CalmOn DEF Did
<1>6. JoinerReceive(s, S, t, p) \in {A, B, C, D, I} /\ JoinentReceive(s, S, t, p) \in {B, D, E, I}
  BY DEF JoinerReceive, JoinentReceive
<1> HIDE DEF A, B, C, D, E, I
<1> QED
  BY <1>2, <1>3, <1>4, <1>5, <1>6

(* No Joinent that answers at uid has the uid p.de of the request p. *)
Fresh(S, p, uid) == \A x \in S.trans : x.uid = uid /\ x.rmt => x.le # p.de

LEMMA CalmCorresponds ==
  ASSUME NEW s, NEW S, DOMAIN S = StackFields, NEW p, NEW uid, Fresh(S, p, uid)
  PROVE  Calm(S, Correspond(s, S, p, uid).st)
<1> DEFINE t == [rmt |-> TRUE, uid |-> uid, le |-> p.de, re |-> p.se, ti |-> p.ti,
                 vacuous |-> p.de = 0, renewal |-> FALSE, tx |-> "response"]
           A == Add(S, t)
           W == [A EXCEPT !.remotes[uid].joined = FALSE]
           B == DumpRemote(W, uid)
<1>1. \/ Correspond(s, S, p, uid).st = A \/ Correspond(s, S, p, uid).st = Sent(W, t, "response")
      \/ Correspond(s, S, p, uid).st = Sent(B, t, "pend")
  BY DEF Correspond, AckAccept, Did
<1>2. t.uid = uid /\ t.rmt /\ t.le = p.de
  OBVIOUS
<1> HIDE DEF t
<1>3. \A x \in S.trans : x.uid = t.uid => Index(x) # Index(t)
  BY <1>2 DEF Fresh, Index
<1>4. Calm(S, A) /\ DOMAIN A = StackFields
  <2>1. Calm(S, A)
    BY <1>3, CalmAdds
  <2> QED
    BY <2>1 DEF Calm
<1> HIDE DEF A
<1>5. Still(A, W) /\ DOMAIN W = StackFields
  <2>1. Still(A, W)
    BY <1>4, StillRemotes
  <2> QED
    BY <2>1, CalmOn
<1> HIDE DEF W
<1>6. Still(W, B) /\ DOMAIN B = StackFields
  <2>1. Still(W, B)
    BY <1>5, StillDumps
  <2> QED
    BY <2>1, CalmOn
<1> HIDE DEF B
<1>7. Calm(W, Sent(W, t, "response")) /\ Calm(B, Sent(B, t, "pend"))
  BY <1>5, <1>6, CalmJoins
<1>8. Calm(S, W) /\ Calm(S, B)
  <2>1. Calm(A, W) /\ Calm(W, B)
    BY <1>5, <1>6, CalmOn
  <2>2. Calm(S, W)
    BY <1>4, <2>1, CalmOn
  <2> QED
    BY <2>1, <2>2, CalmOn
<1>9. Calm(S, Sent(W, t, "response")) /\ Calm(S, Sent(B, t, "pend"))
  BY <1>7, <1>8, CalmOn
<1> QED
  BY <1>1, <1>4, <1>9

(* A remote found by its uid has a name of the index. *)
Listed(S, uid) == uid \in DOMAIN S.remotes => S.remotes[uid].name \in DOMAIN S.names

LEMMA CalmMeets ==
  ASSUME NEW s, NEW S, DOMAIN S = StackFields, NEW p, NEW uid, NEW r, Fresh(S, p, uid),
         Listed(S, uid)
  PROVE  Calm(S, Meet(s, S, p, uid, r).st)
<1> DEFINE same == r.name = "peer" /\ r.fuid = p.se /\ r.keys = p.keys
           status == Status(s, S, p.keys)
           v == [r EXCEPT !.acceptance = status]
           D == StatusDump(s, S, p.keys)
           met == Update(D, uid, v)
           N == Put(met.names, "peer", uid)
           A == [met EXCEPT !.names = N]
           Y == Rename(met, uid)
           Z == [Y EXCEPT !.remotes[uid].fuid = p.se]
           B == [Z EXCEPT !.remotes[uid].keys = p.keys]
           known == uid \in DOMAIN S.remotes
<1>1. Meet(s, S, p, uid, r).st
        = CASE ~same /\ s \notin Mutables -> Refused(s, S, p, uid, "reject").st
            [] (same \/ s \in Mutables) /\ status = "rejected" ->
                 IF r.keys = p.keys /\ known THEN RemoveRemote(s, S, uid).st
                                             ELSE Refused(s, D, p, uid, "reject").st
            [] same /\ status # "rejected" -> Correspond(s, IF known THEN met ELSE A, p, uid).st
            [] OTHER -> IF NameTaken(S, uid) THEN Refused(s, met, p, uid, "reject").st
                                             ELSE Correspond(s, B, p, uid).st
  <2>1. B = [Y EXCEPT !.remotes[uid].fuid = p.se, !.remotes[uid].keys = p.keys]
    OBVIOUS
  <2>2. A = [met EXCEPT !.names = Put(@, "peer", uid)]
    OBVIOUS
  <2> HIDE DEF A, B, met, D
  <2> QED
    BY <2>1, <2>2 DEF Meet, Y, met, D
<1>2. known => S.remotes[uid].name \in DOMAIN S.names
  BY DEF Listed
<1>3. Still(S, D) /\ DOMAIN D = StackFields
  <2>1. Still(S, D)
    BY StillDumps
  <2> QED
    BY <2>1, CalmOn
<1> HIDE DEF D, v, status, same
<1>4. Still(D, met) /\ DOMAIN met = StackFields
  <2>1. Still(D, met)
    BY <1>3, StillRemotes
  <2> QED
    BY <2>1, CalmOn
<1> HIDE DEF met, N
<1>5. Still(met, A) /\ Still(met, Y) /\ DOMAIN Y = StackFields
  <2>1. Still(met, A)
    BY <1>4, StillParts
  <2>2. Still(met, Y)
    BY <1>4, StillRenamed
  <2> QED
    BY <2>1, <2>2, CalmOn
<1> HIDE DEF A, Y
<1>6. Still(Y, Z) /\ DOMAIN Z = StackFields
  <2>1. Still(Y, Z)
    BY <1>5, StillRemotes
  <2> QED
    BY <2>1, CalmOn
<1> HIDE DEF Z
<1>7. Still(Z, B)
  BY <1>6, StillRemotes
<1> HIDE DEF B
<1>8. Still(S, met) /\ Still(S, A) /\ Still(S, B)
  <2>1. Still(S, met)
    BY <1>3, <1>4, CalmOn
  <2>2. Still(S, A) /\ Still(S, Y)
    BY <1>5, <2>1, CalmOn
  <2>3. Still(S, Z)
    BY <1>6, <2>2, CalmOn
  <2> QED
    BY <1>7, <2>1, <2>2, <2>3, CalmOn
<1>9. /\ DOMAIN A = StackFields /\ DOMAIN B = StackFields
      /\ Fresh(met, p, uid) /\ Fresh(A, p, uid) /\ Fresh(B, p, uid)
  BY <1>8 DEF Still, Calm, Fresh
<1>10. /\ Calm(met, Correspond(s, met, p, uid).st) /\ Calm(A, Correspond(s, A, p, uid).st)
       /\ Calm(B, Correspond(s, B, p, uid).st)
  BY <1>4, <1>9, CalmCorresponds
<1>11. /\ Calm(S, Refused(s, S, p, uid, "reject").st)
       /\ Calm(D, Refused(s, D, p, uid, "reject").st)
       /\ Calm(met, Refused(s, met, p, uid, "reject").st)
  BY <1>3, <1>4, CalmRefuses
<1>12. Calm(S, D) /\ Calm(S, met) /\ Calm(S, A) /\ Calm(S, B)
  BY <1>3, <1>8, CalmOn
<1>13. known => Calm(S, RemoveRemote(s, S, uid).st)
  BY <1>2, CalmRemoves
<1>14. /\ Calm(S, Correspond(s, met, p, uid).st) /\ Calm(S, Correspond(s, A, p, uid).st)
       /\ Calm(S, Correspond(s, B, p, uid).st) /\ Calm(S, Refused(s, D, p, uid, "reject").st)
       /\ Calm(S, Refused(s, met, p, uid, "reject").st)
  BY <1>10, <1>11, <1>12, CalmOn
<1> QED
  BY <1>1, <1>11, <1>13, <1>14

(* No Joinent answers a vacuous request. *)
Unasked(S) == \A x \in S.trans : x.rmt => x.le # 0

LEMMA CalmMeetsVacuous ==
  ASSUME Mains \cap Creators = {}, NEW s, NEW S, Sound(s, S), s \in Mains => Unasked(S),
         NEW p, p.de = 0, NEW uid, NEW r
  PROVE  Calm(S, MeetVacuous(s, S, p, uid, r).st)
<1> DEFINE v == [r EXCEPT !.name = "peer", !.keys = p.keys, !.fuid = IF @ = 0 THEN p.se ELSE @]
           G == [S EXCEPT !.ghost = v]
           W == IF uid = S.joinees THEN G ELSE S
           u == S.names["peer"]
<1>1. DOMAIN S = StackFields /\ Core(s, S.remotes, S.names, S.trans, S.files, S.role)
  BY SoundFields
<1>2. \A w : Listed(S, w)
  BY SoundNames DEF Named, Listed
<1>3. CASE s \notin Mains
  <2>1. MeetVacuous(s, S, p, uid, r) = Refused(s, S, p, uid, "reject")
    BY <1>3 DEF MeetVacuous
  <2> QED
    BY <1>1, <2>1, CalmRefuses
<1>4. CASE s \in Mains /\ "peer" \in DOMAIN S.names
  <2>1. MeetVacuous(s, S, p, uid, r) = Meet(s, S, p, u, S.remotes[u])
    BY <1>4 DEF MeetVacuous
  <2>2. Fresh(S, p, u)
    BY <1>4 DEF Unasked, Fresh
  <2> HIDE DEF u
  <2>3. Calm(S, Meet(s, S, p, u, S.remotes[u]).st)
    BY <1>1, <1>2, <2>2, CalmMeets
  <2> QED
    BY <2>1, <2>3
<1>5. CASE s \in Mains /\ "peer" \notin DOMAIN S.names
  <2>1. DOMAIN S.remotes = {}
    BY <1>1, <1>5 DEF Core
  <2>2. MeetVacuous(s, S, p, uid, r) =
          IF v.fuid = p.se THEN Meet(s, W, p, uid, v) ELSE Refused(s, W, p, uid, "reject")
    <3>1. MeetVacuous(s, S, p, uid, r) =
            IF v.fuid = p.se
            THEN Meet(s, CASE uid \in DOMAIN S.remotes -> Update(S, uid, v)
                           [] uid = S.joinees -> [S EXCEPT !.ghost = v]
                           [] OTHER -> S, p, uid, v)
            ELSE Refused(s, CASE uid \in DOMAIN S.remotes -> Update(S, uid, v)
                              [] uid = S.joinees -> [S EXCEPT !.ghost = v]
                              [] OTHER -> S, p, uid, "reject")
      BY <1>5 DEF MeetVacuous
    <3> HIDE DEF v
    <3>2. (CASE uid \in DOMAIN S.remotes -> Update(S, uid, v)
             [] uid = S.joinees -> [S EXCEPT !.ghost = v]
             [] OTHER -> S) = W
      BY <2>1
    <3> QED
      BY <3>1, <3>2
  <2> HIDE DEF v
  <2>3. Still(S, W) /\ DOMAIN W = StackFields
    <3>1. Still(S, G) /\ Still(S, S)
      BY <1>1, StillParts, StillItself
    <3> HIDE DEF G
    <3> QED
      BY <3>1, CalmOn
  <2>4. W.remotes = S.remotes
    BY <1>1 DEF StackFields
  <2> HIDE DEF W
  <2>5. Fresh(W, p, uid) /\ Listed(W, uid)
    BY <1>5, <2>1, <2>3, <2>4 DEF Unasked, Fresh, Listed, Still
  <2>6. Calm(W, Meet(s, W, p, uid, v).st)
    BY <2>3, <2>5, CalmMeets
  <2>7. Calm(W, Refused(s, W, p, uid, "reject").st)
    BY <2>3, CalmRefuses
  <2>8. Calm(S, W)
    BY <2>3, CalmOn
  <2>9. Calm(S, Meet(s, W, p, uid, v).st) /\ Calm(S, Refused(s, W, p, uid, "reject").st)
    BY <2>6, <2>7, <2>8, CalmOn
  <2> QED
    BY <2>2, <2>9
<1> QED
  BY <1>3, <1>4, <1>5

(* Joinents that answer vacuous requests are those of the remote uid. *)
Sole(S, uid) == \A x \in S.trans : x.rmt /\ x.le = 0 => x.uid = uid

(* join of a Joinent. *)
LEMMA CalmJoinents ==
  ASSUME Mains \cap Creators = {}, NEW s, NEW S, Sound(s, S), NEW p, NEW uid, NEW r,
         s \in Mains /\ p.de = 0 => Sole(S, uid)
  PROVE  Calm(S, Join(s, S, p, uid, r).st)
<1> DEFINE joins == Joins(S, uid)
           j == CHOOSE t \in joins : TRUE
           V == Remove(S, j)
           free == IF joins = {} THEN S ELSE V
           refused == \E t \in joins : t.rmt \/ Yields(s, p, t)
           R == Refused(s, S, p, uid, "refuse")
           met == MeetVacuous(s, free, p, uid, r)
           known == Meet(s, free, p, uid, r)
<1>1. Join(s, S, p, uid, r).st = IF refused THEN R.st ELSE IF p.de = 0 THEN met.st ELSE known.st
  BY DEF Join, Did
<1>2. DOMAIN S = StackFields
  BY SoundFields
<1>3. Calm(S, R.st)
  BY <1>2, CalmRefuses
<1>4. Sound(s, free) /\ Calm(S, free) /\ free.trans \subseteq S.trans
  <2>1. CASE joins = {}
    BY <1>2, <2>1, StillItself, CalmOn
  <2>2. CASE joins # {}
    <3> HIDE DEF j
    <3>1. Sound(s, V) /\ V.trans = S.trans \ {j}
      BY Removed DEF Keeps
    <3>2. Calm(S, V)
      BY <1>2, CalmJoins
    <3> HIDE DEF V
    <3> QED
      BY <2>2, <3>1, <3>2
  <2> QED
    BY <2>1, <2>2
<1>5. ~refused => \A x \in S.trans : x.uid = uid => ~x.rmt
  BY DEF Joins
<1> HIDE DEF free, refused, R, joins
<1>6. ~refused /\ p.de = 0 => Calm(free, met.st)
  <2>1. ~refused /\ p.de = 0 /\ s \in Mains => Unasked(free)
    BY <1>4, <1>5 DEF Sole, Unasked
  <2> QED
    BY <1>4, <2>1, CalmMeetsVacuous
<1>7. ~refused => Calm(free, known.st)
  <2>1. DOMAIN free = StackFields /\ Listed(free, uid)
    BY <1>4, SoundNames DEF Named, Listed
  <2>2. ~refused => Fresh(free, p, uid)
    BY <1>4, <1>5 DEF Fresh
  <2> QED
    BY <2>1, <2>2, CalmMeets
<1> HIDE DEF met, known
<1>8. /\ ~refused /\ p.de = 0 => Calm(S, met.st)
      /\ ~refused => Calm(S, known.st)
  BY <1>4, <1>6, <1>7, CalmOn
<1> QED
  BY <1>1, <1>3, <1>8

LEMMA CalmTransacts ==
  ASSUME Mains \cap Creators = {}, NEW s, NEW S, Sound(s, S), NEW p, PacketOK(p), NEW uid,
         s \in Mains /\ ~p.cf /\ p.de = 0 => Sole(S, uid)
  PROVE  Calm(S, Transact(s, S, p, uid).st)
<1> DEFINE found == {t \in Joins(S, uid) : Index(t) = RxIndex(p)}
           t == CHOOSE y \in found : TRUE
           J == Join(s, S, p, uid, Remote(S, uid))
<1>1. Calm(S, S)
  BY SoundFields, StillItself, CalmOn
<1>2. CASE found # {}
  <2>1. t \in found
    BY <1>2
  <2>2. Transact(s, S, p, uid) = IF t.rmt THEN JoinentReceive(s, S, t, p)
                                          ELSE JoinerReceive(s, S, t, p)
    BY <1>2 DEF Transact
  <2> HIDE DEF t
  <2>3. t \in S.trans
    BY <2>1 DEF Joins
  <2>4. Calm(S, JoinentReceive(s, S, t, p).st) /\ Calm(S, JoinerReceive(s, S, t, p).st)
    BY <2>3, CalmReceipts
  <2> QED
    BY <2>2, <2>4
<1>3. CASE found = {} /\ (p.cf \/ p.pk # "request")
  <2>1. Transact(s, S, p, uid).st = S
    BY <1>3 DEF Transact, Did
  <2> QED
    BY <1>1, <2>1
<1>4. CASE found = {} /\ ~p.cf /\ p.pk = "request"
  <2>1. Transact(s, S, p, uid) = J
    BY <1>4 DEF Transact
  <2>2. Calm(S, J.st)
    BY <1>4, CalmJoinents
  <2> QED
    BY <2>1, <2>2
<1> QED
  BY <1>2, <1>3, <1>4

LEMMA CalmFromJoinent ==
  ASSUME Mains \cap Creators = {}, NEW s, NEW S, Sound(s, S), NEW p, PacketOK(p), p.cf
  PROVE  Calm(S, FromJoinent(s, S, p).st)
<1>1. Calm(S, Did(S, {}).st)
  BY SoundFields, StillItself, CalmOn DEF Did
<1>2. \A uid : Calm(S, Transact(s, S, p, uid).st)
  BY CalmTransacts
<1> QED
  BY <1>1, <1>2 DEF FromJoinent

(* While joins are in process p does not come from another than the remote that
   waits. *)
Expected(S, p) == S.trans # {} =>
  /\ S.joinees # 0 => Remote(S, S.joinees).fuid \in {0, p.se}
  /\ \A x \in S.trans : x.rmt /\ x.le = 0 => x.uid = S.joinees

LEMMA CalmFromJoiner ==
  ASSUME Mains \cap Creators = {}, NEW s, NEW S, Sound(s, S), NEW p, PacketOK(p), ~p.cf,
         p.de \in DOMAIN S.remotes \/ HasUid(S), s \in Mains => Expected(S, p)
  PROVE  Calm(S, FromJoiner(s, S, p).st)
<1> DEFINE prior == S.joinees
           stale == prior # 0 /\ Remote(S, prior).fuid \notin {0, p.se}
           Z == [S EXCEPT !.joinees = 0]
           W == IF stale THEN Z ELSE S
           uid == NextUid(S)
           fresh == [W EXCEPT !.puid = uid]
           moved == [S EXCEPT !.puid = uid]
           J == Join(s, fresh, p, uid, NewRemote)
<1>1. FromJoiner(s, S, p).st =
        CASE p.de = 0 /\ W.joinees # 0 -> Transact(s, W, p, W.joinees).st
          [] p.de = 0 /\ W.joinees = 0 -> IF p.pk = "request" THEN J.st ELSE W
          [] p.de # 0 /\ p.de \in DOMAIN S.remotes -> Transact(s, S, p, p.de).st
          [] OTHER -> moved
  BY DEF FromJoiner, Did
<1>2. DOMAIN S = StackFields /\ DOMAIN S.remotes \subseteq Uids \ {0}
      /\ \A x \in S.trans : x.uid \in DOMAIN S.remotes
  BY SoundFields
<1>3. /\ Sound(s, W) /\ Calm(S, W) /\ W.trans = S.trans
      /\ s \in Mains /\ S.trans # {} => W = S
  <2>1. Sound(s, Z)
    BY JoineesSet DEF Keeps
  <2>2. Calm(S, Z) /\ Calm(S, S)
    BY <1>2, StillParts, StillItself, CalmOn
  <2>3. s \in Mains /\ S.trans # {} => ~stale
    BY DEF Expected
  <2>4. Z.trans = S.trans
    BY <1>2 DEF StackFields
  <2> QED
    BY <2>1, <2>2, <2>3, <2>4
<1> HIDE DEF W
<1>4. p.de = 0 => Calm(S, Transact(s, W, p, W.joinees).st)
  <2>1. s \in Mains => Sole(W, W.joinees)
    BY <1>3 DEF Sole, Expected
  <2>2. Calm(W, Transact(s, W, p, W.joinees).st)
    BY <1>3, <2>1, CalmTransacts
  <2> QED
    BY <1>3, <2>2, CalmOn
<1>5. CASE p.de = 0 /\ W.joinees = 0
  <2>1. uid \in Uids
    BY <1>2, <1>5, NewUid
  <2> HIDE DEF uid
  <2>2. Sound(s, fresh)
    BY <1>3, <2>1, PuidSet DEF Keeps
  <2>3. DOMAIN W = StackFields
    BY <1>3 DEF Calm
  <2>4. Still(W, fresh)
    BY <2>3, StillParts
  <2> HIDE DEF fresh
  <2>5. s \in Mains => Sole(fresh, uid)
    BY <1>2, <1>3, <1>5, <2>4 DEF Sole, Expected, Still
  <2>6. Calm(fresh, J.st)
    BY <2>2, <2>5, CalmJoinents
  <2>7. Calm(S, fresh)
    BY <1>3, <2>4, CalmOn
  <2> HIDE DEF J
  <2>8. Calm(S, J.st)
    BY <2>6, <2>7, CalmOn
  <2> QED
    BY <1>1, <1>3, <1>5, <2>8
<1>6. p.de # 0 => Calm(S, Transact(s, S, p, p.de).st)
  BY CalmTransacts
<1>7. Calm(S, moved)
  <2> HIDE DEF uid
  <2>1. Still(S, moved)
    BY <1>2, StillParts
  <2> QED
    BY <2>1, CalmOn
<1> HIDE DEF moved, J
<1> QED
  BY <1>1, <1>4, <1>5, <1>6, <1>7

LEMMA CalmReceives ==
  ASSUME Mains \cap Creators = {}, NEW s, NEW S, Sound(s, S), NEW p, PacketOK(p),
         p.cf \/ p.de \in DOMAIN S.remotes \/ HasUid(S), s \in Mains /\ ~p.cf => Expected(S, p)
  PROVE  Calm(S, ProcessRx(s, S, p).st)
BY CalmFromJoinent, CalmFromJoiner DEF ProcessRx

LEMMA CalmCreates ==
  ASSUME NEW S, DOMAIN S = StackFields, NEW uid
  PROVE  Calm(S, [Update(S, uid, NewRemote) EXCEPT !.puid = uid, !.names = Put(@, "new", uid)])
<1> DEFINE R == Put(S.remotes, uid, NewRemote)
           N == Put(S.names, "new", uid)
           T == [S EXCEPT !.remotes = R, !.puid = uid, !.names = N]
<1>1. [Update(S, uid, NewRemote) EXCEPT !.puid = uid, !.names = Put(@, "new", uid)] = T
  BY DEF Update, StackFields
<1> HIDE DEF R, N
<1>2. Calm(S, T)
  BY DEF Calm, StackFields
<1> QED
  BY <1>1, <1>2

LEMMA CalmTimesOut ==
  ASSUME NEW s, NEW S, DOMAIN S = StackFields, NEW t
  PROVE  Calm(S, (IF t.rmt THEN Nack(s, S, t, "nack") ELSE Did(Remove(S, t), {})).st)
<1>1. Calm(S, Nack(s, S, t, "nack").st)
  BY CalmRefuses
<1>2. Calm(S, Did(Remove(S, t), {}).st)
  BY CalmJoins DEF Did
<1> QED
  BY <1>1, <1>2

LEMMA CalmRedoes ==
  ASSUME NEW s \in Stacks, NEW S, Sound(s, S), NEW t \in S.trans,
         NEW status, NEW D, status = Status(s, S, S.remotes[t.uid].keys),
         D = [StatusDump(s, S, S.remotes[t.uid].keys) EXCEPT !.remotes[t.uid].acceptance = status]
  PROVE  /\ Calm(S, AckAccept(s, D, t).st) /\ Calm(S, Completify(s, D, t).st)
         /\ Calm(S, RemoveRemote(s, D, t.uid).st) /\ Calm(S, Did(D, {}).st)
<1> DEFINE u == t.uid
           keys == S.remotes[u].keys
           A == StatusDump(s, S, keys)
           E == [A EXCEPT !.remotes[u].acceptance = status]
<1>1. DOMAIN S = StackFields /\ Named(S, u) /\ u \in DOMAIN S.remotes
  BY SoundFields, SoundNames
<1>2. keys \in KeyGens /\ S.role \in RoleRecords
  BY <1>1, SoundFields, RemoteRecord DEF Named
<1>3. status \in Statuses
  BY <1>2, StatusTypes
<1> HIDE DEF keys
<1>4. Still(S, A) /\ DOMAIN A = StackFields /\ Named(A, u)
  <2>1. Still(S, A)
    BY <1>1, StillDumps
  <2>2. A.remotes = S.remotes /\ A.names = S.names
    BY <1>1 DEF StatusDump, StackFields
  <2> HIDE DEF A
  <2> QED
    BY <1>1, <2>1, <2>2, CalmOn DEF Named
<1>5. D = E
  BY DEF keys
<1> HIDE DEF A, u
<1>6. Still(A, D) /\ DOMAIN D = StackFields /\ Named(D, u)
  <2>1. Still(A, E)
    BY <1>4, StillRemotes
  <2>2. Named(E, u)
    BY <1>3, <1>4, NamedStays
  <2> HIDE DEF A, E
  <2>3. Still(A, D)
    BY <1>5, <2>1
  <2>4. Named(D, u)
    BY <1>5, <2>2
  <2>5. DOMAIN D = StackFields
    BY <2>3, CalmOn
  <2> QED
    BY <2>3, <2>4, <2>5
<1>7. Calm(S, D)
  <2>1. Still(S, D)
    BY <1>4, <1>6, CalmOn
  <2> QED
    BY <2>1, CalmOn
<1>8. Calm(D, Completify(s, D, t).st) /\ Calm(D, Sent(D, t, "response"))
  BY <1>6, CalmCompletes, CalmJoins
<1>9. Calm(D, RemoveRemote(s, D, u).st)
  BY <1>6, CalmRemoves DEF Named
<1>10. AckAccept(s, D, t).st = Sent(D, t, "response") /\ Did(D, {}).st = D
  BY DEF AckAccept, Did
<1>11. Calm(S, Completify(s, D, t).st) /\ Calm(S, Sent(D, t, "response"))
  BY <1>7, <1>8, CalmOn
<1>12. Calm(S, RemoveRemote(s, D, u).st)
  BY <1>7, <1>9, CalmOn
<1> QED
  BY <1>7, <1>10, <1>11, <1>12 DEF u

LEMMA CalmJudged ==
  ASSUME NEW S, DOMAIN S = StackFields, NEW uid, NEW status, NEW K
  PROVE  Calm(S, [S EXCEPT !.remotes[uid].acceptance = status, !.role = K])
<1> DEFINE A == [S EXCEPT !.remotes[uid].acceptance = status]
           T == [A EXCEPT !.role = K]
<1>1. [S EXCEPT !.remotes[uid].acceptance = status, !.role = K] = T
  OBVIOUS
<1>2. Still(S, A)
  BY StillRemotes
<1> HIDE DEF A
<1>3. Still(A, T)
  BY <1>2, StillParts DEF Still, Calm
<1> HIDE DEF T
<1>4. Still(S, T)
  BY <1>2, <1>3, CalmOn
<1> QED
  BY <1>1, <1>4, CalmOn

-----------------------------------------------------------------------------
(* The asking stack rejects no keys, so that its remote stays.              *)

Trusted(r) == r \in Remotes /\ r.acceptance # "rejected" /\ r.keys \in {0, 1}

(* A join of a remote that is there; a Joiner's own uid is that of the remote. *)
JoinOf(S, t) == t \in Transactions /\ t.uid \in DOMAIN S.remotes /\ (t.rmt \/ t.le = t.uid)

Trusting(S) ==
  /\ DOMAIN S = StackFields /\ S.role \in RoleRecords
  /\ S.role.acceptance # "rejected" /\ (S.role.acceptance # "none" => S.role.keys = 1)
  /\ \A u \in DOMAIN S.remotes : Trusted(S.remotes[u])
  /\ \A t \in S.trans : JoinOf(S, t)

(* A packet of a stack has the uid of a remote that is there. *)
Sourced(q, S) ==
  /\ ~q.cf => q.se \in DOMAIN S.remotes
  /\ q.pk = "response" => q.uid \in DOMAIN S.remotes /\ q.keys = 1

Trusts(S, T) == Trusting(T) /\ DOMAIN T.remotes = DOMAIN S.remotes

TrustsFine(S, d) == Trusts(S, d.st) /\ \A q \in d.out : Sourced(q, S)

LEMMA TrustsOn ==
  ASSUME NEW S, NEW T, NEW d
  PROVE  /\ Trusting(S) => Trusts(S, S) /\ DOMAIN S = StackFields
         /\ \A U : Trusts(S, T) /\ Trusts(T, U) => Trusts(S, U)
         /\ Trusts(S, T) => Trusting(T) /\ DOMAIN T = StackFields /\ DOMAIN T.remotes = DOMAIN S.remotes
         /\ Trusts(S, T) /\ TrustsFine(T, d) => TrustsFine(S, d)
BY DEF Trusts, TrustsFine, Trusting, Sourced

LEMMA TrustsParts ==
  ASSUME NEW S, Trusting(S), NEW v
  PROVE  /\ Trusts(S, [S EXCEPT !.names = v]) /\ Trusts(S, [S EXCEPT !.joinees = v])
         /\ Trusts(S, [S EXCEPT !.puid = v]) /\ Trusts(S, [S EXCEPT !.files = v])
         /\ Trusts(S, [S EXCEPT !.savedPuid = v]) /\ Trusts(S, [S EXCEPT !.raised = v])
         /\ Trusts(S, DumpLocal(S))
<1>1. /\ Trusts(S, [S EXCEPT !.names = v]) /\ Trusts(S, [S EXCEPT !.joinees = v])
      /\ Trusts(S, [S EXCEPT !.puid = v]) /\ Trusts(S, [S EXCEPT !.files = v])
  BY DEF Trusting, Trusts, StackFields, JoinOf
<1>2. /\ \A w : Trusts(S, [S EXCEPT !.savedPuid = w])
      /\ Trusts(S, [S EXCEPT !.raised = v])
  BY DEF Trusting, Trusts, StackFields, JoinOf
<1> QED
  BY <1>1, <1>2 DEF DumpLocal

(* One remote has another record that is trusted. *)
LEMMA TrustsRecord ==
  ASSUME NEW S, Trusting(S), NEW u \in DOMAIN S.remotes, NEW r, Trusted(r)
  PROVE  Trusts(S, [S EXCEPT !.remotes = [S.remotes EXCEPT ![u] = r]])
<1> DEFINE R == [S.remotes EXCEPT ![u] = r]
           T == [S EXCEPT !.remotes = R]
<1>1. DOMAIN R = DOMAIN S.remotes /\ \A v \in DOMAIN R : Trusted(R[v])
  BY DEF Trusting
<1> HIDE DEF R
<1>2. /\ T.remotes = R /\ T.role = S.role /\ T.trans = S.trans /\ DOMAIN T = StackFields
  BY DEF Trusting, StackFields
<1> HIDE DEF T
<1>3. Trusts(S, T)
  BY <1>1, <1>2 DEF Trusts, Trusting, JoinOf
<1> QED
  BY <1>3 DEF T, R

LEMMA TrustsFields ==
  ASSUME NEW S, Trusting(S), NEW u \in DOMAIN S.remotes
  PROVE  /\ \A b \in BOOLEAN : Trusts(S, [S EXCEPT !.remotes[u].joined = b])
         /\ \A b \in Statuses \ {"rejected"} : Trusts(S, [S EXCEPT !.remotes[u].acceptance = b])
         /\ \A b \in Uids : Trusts(S, [S EXCEPT !.remotes[u].fuid = b])
         /\ \A b \in {0, 1} : Trusts(S, [S EXCEPT !.remotes[u].keys = b])
<1> DEFINE r == S.remotes[u]
<1>1. Trusted(r)
  BY DEF Trusting
<1>2. \A q : Trusted(q) => Trusts(S, [S EXCEPT !.remotes[u] = q])
  BY TrustsRecord
<1>3. {0, 1} \subseteq KeyGens
  BY Ids
<1>4. ASSUME NEW b \in BOOLEAN
      PROVE  Trusted([r EXCEPT !.joined = b])
  <2>1. [r EXCEPT !.joined = b] \in Remotes
    BY <1>1, RemoteRecord DEF Trusted
  <2>2. [r EXCEPT !.joined = b].acceptance = r.acceptance /\ [r EXCEPT !.joined = b].keys = r.keys
    BY <1>1 DEF Trusted, Remotes
  <2> QED
    BY <1>1, <2>1, <2>2 DEF Trusted
<1>5. ASSUME NEW b \in Statuses \ {"rejected"}
      PROVE  Trusted([r EXCEPT !.acceptance = b])
  <2>1. [r EXCEPT !.acceptance = b] \in Remotes
    BY <1>1, RemoteRecord DEF Trusted
  <2>2. [r EXCEPT !.acceptance = b].acceptance = b /\ [r EXCEPT !.acceptance = b].keys = r.keys
    BY <1>1 DEF Trusted, Remotes
  <2> QED
    BY <1>1, <2>1, <2>2 DEF Trusted
<1>6. ASSUME NEW b \in Uids
      PROVE  Trusted([r EXCEPT !.fuid = b])
  <2>1. [r EXCEPT !.fuid = b] \in Remotes
    BY <1>1, RemoteRecord DEF Trusted
  <2>2. [r EXCEPT !.fuid = b].acceptance = r.acceptance /\ [r EXCEPT !.fuid = b].keys = r.keys
    BY <1>1 DEF Trusted, Remotes
  <2> QED
    BY <1>1, <2>1, <2>2 DEF Trusted
<1>7. ASSUME NEW b \in {0, 1}
      PROVE  Trusted([r EXCEPT !.keys = b])
  <2>1. [r EXCEPT !.keys = b] \in Remotes
    BY <1>1, <1>3, RemoteRecord DEF Trusted
  <2>2. [r EXCEPT !.keys = b].acceptance = r.acceptance /\ [r EXCEPT !.keys = b].keys = b
    BY <1>1 DEF Trusted, Remotes
  <2> QED
    BY <1>1, <2>1, <2>2 DEF Trusted
<1> HIDE DEF Trusted
<1> QED
  BY <1>2, <1>4, <1>5, <1>6, <1>7

LEMMA TrustsUpdated ==
  ASSUME NEW S, Trusting(S), NEW u \in DOMAIN S.remotes, NEW r, Trusted(r)
  PROVE  Trusts(S, Update(S, u, r))
<1> DEFINE R == Put(S.remotes, u, r)
           T == [S EXCEPT !.remotes = R]
<1>1. DOMAIN R = DOMAIN S.remotes /\ \A v \in DOMAIN R : Trusted(R[v])
  BY DEF Trusting, Put
<1> HIDE DEF R
<1>2. /\ T.remotes = R /\ T.role = S.role /\ T.trans = S.trans /\ DOMAIN T = StackFields
  BY DEF Trusting, StackFields
<1>3. Update(S, u, r) = T
  BY DEF Update, R
<1> HIDE DEF T
<1>4. Trusts(S, T)
  BY <1>1, <1>2 DEF Trusts, Trusting, JoinOf
<1> QED
  BY <1>3, <1>4

LEMMA TrustsRenamed ==
  ASSUME NEW S, Trusting(S), NEW u \in DOMAIN S.remotes
  PROVE  Trusts(S, Rename(S, u))
<1> DEFINE old == S.remotes[u].name
           r == [S.remotes[u] EXCEPT !.name = "peer"]
           R == [S.remotes EXCEPT ![u] = r]
           N == Put(Drop(S.names, old), "peer", u)
           G == {f \in S.files : f.name # old}
           A == [S EXCEPT !.files = G]
           B == [A EXCEPT !.names = N]
           T == [B EXCEPT !.remotes = [B.remotes EXCEPT ![u] = r]]
<1>1. Rename(S, u) = IF old = "peer" THEN S
                     ELSE [[S EXCEPT !.files = G] EXCEPT !.names = N, !.remotes = R]
  BY DEF Rename, ClearFile
<1>2. Trusted(r)
  <2>1. Trusted(S.remotes[u]) /\ "peer" \in Names
    BY DEF Trusting, Names
  <2>2. r \in Remotes
    BY <2>1, RemoteRecord DEF Trusted
  <2>3. r.acceptance = S.remotes[u].acceptance /\ r.keys = S.remotes[u].keys
    BY <2>1 DEF Trusted, Remotes
  <2> QED
    BY <2>1, <2>2, <2>3 DEF Trusted
<1>3. DOMAIN S = StackFields
  BY DEF Trusting
<1>4. B.remotes = S.remotes /\ [[S EXCEPT !.files = G] EXCEPT !.names = N, !.remotes = R] = T
  <2> HIDE DEF N, G, r
  <2>1. B.remotes = S.remotes
    BY <1>3 DEF StackFields
  <2> QED
    BY <2>1
<1> HIDE DEF r, N, G
<1>5. Trusts(S, A)
  BY TrustsParts
<1> HIDE DEF A
<1>6. Trusts(A, B)
  BY <1>5, TrustsParts DEF Trusts
<1> HIDE DEF B
<1>7. Trusts(B, T)
  <2>1. Trusting(B) /\ u \in DOMAIN B.remotes
    BY <1>5, <1>6 DEF Trusts
  <2> QED
    BY <1>2, <2>1, TrustsRecord
<1> HIDE DEF T
<1>8. Trusts(S, T)
  BY <1>5, <1>6, <1>7, TrustsOn
<1> QED
  BY <1>1, <1>4, <1>8, TrustsOn

(* The role and the joins of T are well, its remotes those of S. *)
LEMMA TrustsWith ==
  ASSUME NEW S, Trusting(S), NEW T, DOMAIN T = StackFields, T.remotes = S.remotes,
         \/ T.role = S.role
         \/ /\ T.role \in RoleRecords /\ T.role.acceptance # "rejected"
            /\ T.role.acceptance # "none" => T.role.keys = 1,
         \A x \in T.trans : x \in S.trans \/ JoinOf(S, x)
  PROVE  Trusts(S, T)
BY DEF Trusts, Trusting, JoinOf

LEMMA TrustsDumped ==
  ASSUME NEW S, Trusting(S), NEW u \in DOMAIN S.remotes
  PROVE  Trusts(S, DumpRemote(S, u))
<1> DEFINE r == S.remotes[u]
           G == {f \in S.files : f.name # r.name} \cup {FileOf(S.remotes, u)}
           K == IF r.keys = 0 THEN S.role ELSE RoleData(r.acceptance, r.keys)
<1>1. DumpRemote(S, u) = [S EXCEPT !.files = G, !.role = K]
  BY DEF DumpRemote, FileOf
<1>2. r \in Remotes /\ r.acceptance # "rejected" /\ r.keys \in {0, 1}
  BY DEF Trusting, Trusted
<1>3. r.acceptance \in Statuses /\ r.keys \in KeyGens
  BY <1>2 DEF Remotes
<1>4. K \in RoleRecords /\ K.acceptance # "rejected" /\ (K.acceptance # "none" => K.keys = 1)
  BY <1>2, <1>3 DEF RoleData, RoleRecords, Trusting
<1> HIDE DEF G, K
<1> DEFINE T == [S EXCEPT !.files = G, !.role = K]
<1>5. T.remotes = S.remotes /\ T.role = K /\ T.trans = S.trans /\ DOMAIN T = StackFields
  BY DEF Trusting, StackFields
<1> HIDE DEF T
<1>6. Trusts(S, T)
  BY <1>4, <1>5, TrustsWith
<1> QED
  BY <1>1, <1>6 DEF T

LEMMA TrustsStatus ==
  ASSUME NEW S, Trusting(S), NEW s \in Stacks
  PROVE  /\ Status(s, S, 1) \in Statuses \ {"rejected"}
         /\ Trusts(S, StatusDump(s, S, 1))
<1> DEFINE K == Persisted(AutoMode[s], S.role, 1)
<1>1. S.role \in RoleRecords /\ 1 \in KeyGens
  BY Ids DEF Trusting
<1>2. Status(s, S, 1) \in Statuses
  BY <1>1, StatusTypes
<1>3. Status(s, S, 1) # "rejected"
  BY DEF Status, StatusRole, FirstStatus, Trusting
<1>4. K \in RoleRecords
  BY <1>1, StatusTypes
<1>5. K = RoleData(Status(s, S, 1), 1)
  BY <1>3 DEF Persisted, Status
<1>6. K.acceptance # "rejected" /\ K.keys = 1
  BY <1>3, <1>5 DEF RoleData
<1> DEFINE T == StatusDump(s, S, 1)
<1>7. T.remotes = S.remotes /\ T.role = K /\ T.trans = S.trans /\ DOMAIN T = StackFields
  BY DEF StatusDump, Trusting, StackFields
<1> HIDE DEF K, T
<1>8. Trusts(S, T)
  BY <1>4, <1>6, <1>7, TrustsWith
<1> QED
  BY <1>2, <1>3, <1>8 DEF T

LEMMA TrustsRemoved ==
  ASSUME NEW S, Trusting(S), NEW t
  PROVE  Trusts(S, Remove(S, t))
<1> DEFINE j == IF t.vacuous /\ (\A x \in S.trans \ {t} : x.uid # t.uid) THEN 0 ELSE S.joinees
           T == [S EXCEPT !.trans = S.trans \ {t}, !.joinees = j]
<1>1. Remove(S, t) = T
  BY DEF Remove
<1> HIDE DEF j
<1>2. T.remotes = S.remotes /\ T.role = S.role /\ T.trans = S.trans \ {t} /\ DOMAIN T = StackFields
  BY DEF Trusting, StackFields
<1> HIDE DEF T
<1> QED
  BY <1>1, <1>2, TrustsWith

LEMMA TrustsSent ==
  ASSUME NEW S, Trusting(S), NEW t, JoinOf(S, t), NEW pk \in {"request", "response", "pend"}
  PROVE  Trusts(S, Sent(S, t, pk))
<1> DEFINE y == [t EXCEPT !.tx = pk]
           V == (S.trans \ {t}) \cup {y}
           T == Sent(S, t, pk)
<1>1. T.remotes = S.remotes /\ T.role = S.role /\ T.trans = V /\ DOMAIN T = StackFields
  BY DEF Sent, Trusting, StackFields
<1>2. t \in Transactions
  BY DEF JoinOf
<1>3. y.rmt = t.rmt /\ y.uid = t.uid /\ y.le = t.le
  BY <1>2, SentFields
<1>4. y \in Transactions
  BY <1>2 DEF Transactions
<1>5. JoinOf(S, y)
  BY <1>3, <1>4 DEF JoinOf
<1>6. \A x \in V : x \in S.trans \/ JoinOf(S, x)
  BY <1>5
<1> HIDE DEF V, T
<1>7. Trusts(S, T)
  BY <1>1, <1>6, TrustsWith
<1> QED
  BY <1>7 DEF T

LEMMA TrustsAdded ==
  ASSUME NEW S, Trusting(S), NEW t, JoinOf(S, t)
  PROVE  Trusts(S, Add(S, t))
<1> DEFINE j == IF t.vacuous THEN t.uid ELSE S.joinees
           V == S.trans \cup {t}
           T == [S EXCEPT !.trans = V, !.joinees = j]
           Z == [S EXCEPT !.raised = TRUE]
<1>1. Add(S, t) = Z \/ Add(S, t) = T
  BY DEF Add
<1>2. \A x \in V : x \in S.trans \/ JoinOf(S, x)
  OBVIOUS
<1>3. Trusts(S, Z)
  BY TrustsParts
<1> HIDE DEF V, j, Z
<1>4. Trusts(S, T)
  <2>1. T.remotes = S.remotes /\ T.role = S.role /\ T.trans = V /\ DOMAIN T = StackFields
    BY DEF Trusting, StackFields
  <2> HIDE DEF T
  <2> QED
    BY <1>2, <2>1, TrustsWith
<1> QED
  BY <1>1, <1>3, <1>4

(* Packets of a join of a remote that is there. *)
LEMMA PacketSourced ==
  ASSUME NEW x, stack[x].keys = 1, NEW S, NEW t, JoinOf(S, t), NEW pk
  PROVE  Sourced(Packet(x, t, pk), S)
BY PacketFields DEF Sourced, JoinOf

LEMMA AnswerSourced ==
  ASSUME NEW x, NEW S, NEW p, ~p.cf \/ p.de \in DOMAIN S.remotes, NEW pk \in Nacks
  PROVE  Sourced(Answer(x, p, pk), S)
<1>1. Answer(x, p, pk).pk = pk /\ Answer(x, p, pk).cf = ~p.cf /\ Answer(x, p, pk).se = p.de
  BY AnswerFields
<1> QED
  BY <1>1 DEF Sourced, Nacks

(* Its keys are the first, and it takes no vacuous join. *)
Keyer(x) == x \in Stacks /\ x \notin Mains /\ stack[x].keys = 1

Trustworthy(p) ==
  /\ PacketOK(p) /\ p.pk \notin {"reject", "renew"}
  /\ p.pk \in {"request", "response"} => p.keys = 1

LEMMA TrustsStops ==
  ASSUME NEW x, Keyer(x), NEW S, Trusting(S), NEW t, JoinOf(S, t), NEW pk, NEW T, Trusts(S, T)
  PROVE  TrustsFine(S, Did(T, {})) /\ TrustsFine(S, Did(T, {Packet(x, t, pk)}))
<1>1. Sourced(Packet(x, t, pk), S)
  BY PacketSourced DEF Keyer
<1> QED
  BY <1>1 DEF TrustsFine, Did

LEMMA TrustsAsks ==
  ASSUME NEW x, Keyer(x), NEW S, Trusting(S), NEW u \in DOMAIN S.remotes, u \in Uids,
         S.remotes[u].tid < MaxTid
  PROVE  TrustsFine(S, StartJoin(x, S, u, FALSE))
<1> DEFINE r == S.remotes[u]
           q == [r EXCEPT !.tid = @ + 1]
           y == [q EXCEPT !.joined = FALSE]
           v == r.fuid = 0
           t == [rmt |-> FALSE, uid |-> u, le |-> u, re |-> r.fuid, ti |-> r.tid + 1,
                 vacuous |-> v, renewal |-> FALSE, tx |-> "request"]
           tried == Update(S, u, q)
           asked == Update(tried, u, y)
<1>1. Trusted(r) /\ r \in Remotes /\ r.fuid \in Uids /\ r.tid \in Tids
  BY RemoteRecord DEF Trusting, Trusted
<1>2. r.tid + 1 \in Tids
  BY <1>1, ConstantsAssumption DEF Tids
<1>3. Trusted(q)
  <2>1. q \in Remotes
    BY <1>1, <1>2, RemoteRecord
  <2>2. q.acceptance = r.acceptance /\ q.keys = r.keys
    BY <1>1 DEF Remotes
  <2> QED
    BY <1>1, <2>1, <2>2 DEF Trusted
<1>4. y = [r EXCEPT !.tid = @ + 1, !.joined = FALSE]
  OBVIOUS
<1>5. Trusted(y)
  <2> HIDE DEF q
  <2>1. q \in Remotes /\ FALSE \in BOOLEAN
    BY <1>3 DEF Trusted
  <2>2. y \in Remotes
    BY <2>1, RemoteRecord
  <2>3. y.acceptance = q.acceptance /\ y.keys = q.keys
    BY <2>1 DEF Remotes
  <2> QED
    BY <1>3, <2>2, <2>3 DEF Trusted
<1>6. t \in Transactions
  <2>1. v \in BOOLEAN /\ FALSE \in BOOLEAN
    OBVIOUS
  <2>2. "request" \in {"request", "response", "pend"}
    OBVIOUS
  <2> HIDE DEF v, r
  <2> QED
    BY <1>1, <1>2, <2>1, <2>2, Zenon DEF Transactions
<1>7. JoinOf(S, t)
  BY <1>6 DEF JoinOf
<1>8. StartJoin(x, S, u, FALSE) =
        IF Joins(S, u) # {} THEN Did(tried, {})
        ELSE Did(Add(asked, t), {Packet(x, t, "request")})
  BY <1>4 DEF StartJoin
<1> HIDE DEF q, y, t
<1>9. Trusts(S, tried)
  BY <1>3, TrustsUpdated
<1> HIDE DEF tried
<1>10. Trusts(tried, asked)
  BY <1>5, <1>9, TrustsUpdated DEF Trusts
<1> HIDE DEF asked
<1>11. Trusts(asked, Add(asked, t))
  BY <1>7, <1>9, <1>10, TrustsAdded DEF Trusts, JoinOf
<1>12. Trusts(S, Add(asked, t))
  BY <1>9, <1>10, <1>11, TrustsOn
<1> QED
  BY <1>7, <1>8, <1>9, <1>12, TrustsStops

LEMMA TrustsCompletes ==
  ASSUME NEW x, Keyer(x), NEW S, Trusting(S), NEW t, JoinOf(S, t)
  PROVE  TrustsFine(S, Completify(x, S, t)) /\ TrustsFine(S, Complete(x, S, t))
<1> DEFINE A == [S EXCEPT !.remotes[t.uid].joined = TRUE]
           B == DumpRemote(A, t.uid)
           C == DumpLocal(B)
           D == Remove(C, t)
<1>1. Completify(x, S, t) = Did(D, {Packet(x, t, "ack")}) /\ Complete(x, S, t) = Did(D, {})
  BY DEF Completify, Complete
<1>2. t.uid \in DOMAIN S.remotes /\ TRUE \in BOOLEAN
  BY DEF JoinOf
<1>3. Trusts(S, A)
  BY <1>2, TrustsFields
<1> HIDE DEF A
<1>4. Trusts(A, B)
  BY <1>2, <1>3, TrustsDumped DEF Trusts
<1> HIDE DEF B
<1>5. Trusts(B, C)
  BY <1>4, TrustsParts DEF Trusts
<1> HIDE DEF C
<1>6. Trusts(C, D)
  BY <1>5, TrustsRemoved DEF Trusts
<1> HIDE DEF D
<1>7. Trusts(S, D)
  <2>1. Trusts(S, B)
    BY <1>3, <1>4, TrustsOn
  <2> QED
    BY <1>5, <1>6, <2>1, TrustsOn
<1> QED
  BY <1>1, <1>7, TrustsStops

LEMMA TrustsAccepted ==
  ASSUME NEW x, Keyer(x), NEW S, Trusting(S), NEW t, JoinOf(S, t), NEW p, PacketOK(p), p.keys = 1
  PROVE  TrustsFine(S, Accepted(x, S, t, p))
<1> DEFINE u == t.uid
           status == Status(x, S, 1)
           A == StatusDump(x, S, 1)
           B == [A EXCEPT !.remotes[u].acceptance = status]
           C == [B EXCEPT !.remotes[u].fuid = p.uid]
           D == [C EXCEPT !.remotes[u].keys = 1]
           met == Rename(D, u)
           E == DumpRemote(met, u)
<1>1. Accepted(x, S, t, p) =
        IF NameTaken(S, u) THEN Nack(x, B, t, "reject")
        ELSE IF status = "accepted" THEN Completify(x, met, t)
        ELSE Did(Sent(E, t, "pend"), {Packet(x, t, "pend")})
  <2>1. D = [B EXCEPT !.remotes[u].fuid = p.uid, !.remotes[u].keys = p.keys]
    OBVIOUS
  <2> QED
    BY <2>1 DEF Accepted
<1>2. u \in DOMAIN S.remotes /\ p.uid \in Uids /\ x \in Stacks
  BY DEF JoinOf, PacketOK, Packets, Keyer
<1>3. Trusts(S, A) /\ status \in Statuses \ {"rejected"}
  BY <1>2, TrustsStatus
<1> HIDE DEF A, status, u
<1>4. Trusts(A, B)
  <2>1. Trusting(A) /\ u \in DOMAIN A.remotes
    BY <1>2, <1>3, TrustsOn
  <2> QED
    BY <1>3, <2>1, TrustsFields DEF B
<1> HIDE DEF B
<1>5. Trusts(S, B)
  BY <1>3, <1>4, TrustsOn
<1>6. Trusts(B, C)
  <2>1. Trusting(B) /\ u \in DOMAIN B.remotes
    BY <1>2, <1>5, TrustsOn
  <2> QED
    BY <1>2, <2>1, TrustsFields DEF C
<1> HIDE DEF C
<1>7. Trusts(S, C)
  BY <1>5, <1>6, TrustsOn
<1>8. Trusts(C, D)
  BY <1>2, <1>7, TrustsFields DEF Trusts
<1> HIDE DEF D
<1>9. Trusts(S, D)
  BY <1>7, <1>8, TrustsOn
<1>10. Trusts(D, met)
  BY <1>2, <1>9, TrustsRenamed DEF Trusts
<1> HIDE DEF met
<1>11. Trusts(S, met) /\ Trusting(met) /\ JoinOf(met, t)
  BY <1>9, <1>10, TrustsOn DEF Trusts, JoinOf
<1>12. Trusts(met, E)
  BY <1>2, <1>11, TrustsDumped DEF Trusts
<1> HIDE DEF E
<1>13. Trusts(S, E) /\ Trusting(E) /\ JoinOf(E, t)
  BY <1>11, <1>12, TrustsOn DEF Trusts, JoinOf
<1>14. TrustsFine(S, Nack(x, B, t, "reject"))
  <2>1. Trusts(B, Remove(B, t))
    BY <1>5, TrustsRemoved DEF Trusts
  <2>2. Trusts(S, Remove(B, t))
    BY <1>5, <2>1, TrustsOn
  <2> QED
    BY <2>2, TrustsStops DEF Nack
<1>15. TrustsFine(S, Completify(x, met, t))
  <2>1. TrustsFine(met, Completify(x, met, t))
    BY <1>11, TrustsCompletes
  <2> QED
    BY <1>11, <2>1, TrustsOn
<1>16. TrustsFine(S, Did(Sent(E, t, "pend"), {Packet(x, t, "pend")}))
  <2>1. Trusts(E, Sent(E, t, "pend"))
    BY <1>13, TrustsSent
  <2>2. Trusts(S, Sent(E, t, "pend"))
    BY <1>13, <2>1, TrustsOn
  <2> QED
    BY <2>2, TrustsStops
<1> QED
  BY <1>1, <1>14, <1>15, <1>16

LEMMA TrustsNacks ==
  ASSUME NEW x, Keyer(x), NEW S, Trusting(S), NEW t, JoinOf(S, t), NEW pk, NEW T, Trusts(S, T)
  PROVE  TrustsFine(S, Nack(x, T, t, pk)) /\ TrustsFine(S, Did(Remove(T, t), {}))
<1>1. Trusts(T, Remove(T, t))
  BY TrustsRemoved, TrustsOn
<1>2. Trusts(S, Remove(T, t))
  BY <1>1, TrustsOn
<1> QED
  BY <1>2, TrustsStops DEF Nack

LEMMA TrustsGoesOn ==
  ASSUME NEW S, NEW t, JoinOf(S, t), NEW T, Trusts(S, T)
  PROVE  /\ Trusting(T) /\ JoinOf(T, t) /\ t.uid \in DOMAIN T.remotes
         /\ \A d : TrustsFine(T, d) => TrustsFine(S, d)
BY TrustsOn DEF Trusts, JoinOf

LEMMA TrustsAccepts ==
  ASSUME NEW x, Keyer(x), NEW S, Trusting(S), NEW t, JoinOf(S, t), NEW p, PacketOK(p), p.keys = 1
  PROVE  TrustsFine(S, Accept(x, S, t, p))
<1> DEFINE u == t.uid
           first == t.vacuous /\ ~t.renewal
           Z == [S EXCEPT !.remotes[u].fuid = p.uid]
           reached == IF t.vacuous THEN Z ELSE S
           K == [reached EXCEPT !.remotes[u].keys = 1]
           taken == Rename(K, u)
           W == IF first THEN taken ELSE reached
           w == W.remotes[u]
           same == w.name = "peer" /\ w.fuid = p.uid /\ w.keys = p.keys
           named == first /\ S.remotes[u].name # "peer" /\ NameTaken(S, u)
           unlike == ~same /\ x \notin Mutables
           status == Status(x, W, 1)
           had == w.keys = p.keys
<1>1. Accept(x, S, t, p) =
        IF named THEN Nack(x, reached, t, "reject")
        ELSE IF unlike THEN Nack(x, W, t, "reject")
        ELSE IF status = "rejected"
        THEN IF had THEN RemoveRemote(x, W, u) ELSE Nack(x, W, t, "reject")
        ELSE Accepted(x, W, t, p)
  BY DEF Accept
<1> HIDE DEF named, unlike, had
<1>2. u \in DOMAIN S.remotes /\ p.uid \in Uids /\ x \in Stacks
  BY DEF JoinOf, PacketOK, Packets, Keyer
<1>3. Trusts(S, reached)
  <2>1. Trusts(S, Z)
    BY <1>2, TrustsFields
  <2> HIDE DEF Z
  <2> QED
    BY <2>1, TrustsOn
<1> HIDE DEF reached
<1>4. Trusts(reached, K)
  <2>1. Trusting(reached) /\ u \in DOMAIN reached.remotes
    BY <1>3, TrustsGoesOn
  <2> QED
    BY <2>1, TrustsFields DEF K
<1> HIDE DEF K
<1>5. Trusts(S, K)
  BY <1>3, <1>4, TrustsOn
<1>6. Trusts(K, taken)
  <2>1. Trusting(K) /\ u \in DOMAIN K.remotes
    BY <1>5, TrustsGoesOn
  <2> QED
    BY <2>1, TrustsRenamed
<1> HIDE DEF taken
<1>7. Trusts(S, taken)
  BY <1>5, <1>6, TrustsOn
<1>8. Trusts(S, W)
  BY <1>3, <1>7
<1> HIDE DEF W
<1>9. Trusting(W) /\ JoinOf(W, t)
  BY <1>8, TrustsGoesOn
<1>10. status # "rejected"
  BY <1>2, <1>9, TrustsStatus
<1>11. TrustsFine(W, Accepted(x, W, t, p))
  BY <1>9, TrustsAccepted
<1>12. TrustsFine(S, Accepted(x, W, t, p))
  BY <1>8, <1>11, TrustsGoesOn
<1>13. TrustsFine(S, Nack(x, reached, t, "reject")) /\ TrustsFine(S, Nack(x, W, t, "reject"))
  BY <1>3, <1>8, TrustsNacks
<1> HIDE DEF status
<1> QED
  BY <1>1, <1>10, <1>12, <1>13

LEMMA TrustsJoinerReceives ==
  ASSUME NEW x, Keyer(x), NEW S, Trusting(S), NEW t \in S.trans, NEW p, Trustworthy(p)
  PROVE  /\ TrustsFine(S, JoinerReceive(x, S, t, p))
         /\ TrustsFine(S, JoinentReceive(x, S, t, p))
<1>1. JoinOf(S, t) /\ PacketOK(p) /\ Trusts(S, S)
  BY TrustsOn DEF Trusting, Trustworthy
<1>2. p.pk = "response" => TrustsFine(S, Accept(x, S, t, p))
  BY <1>1, TrustsAccepts DEF Trustworthy
<1>3. TrustsFine(S, Did(Remove(S, t), {})) /\ TrustsFine(S, Did(S, {}))
  BY <1>1, TrustsNacks, TrustsStops
<1>4. TrustsFine(S, Complete(x, S, t))
  BY <1>1, TrustsCompletes
<1>5. p.pk # "reject" /\ p.pk # "renew"
  BY DEF Trustworthy
<1> QED
  BY <1>2, <1>3, <1>4, <1>5 DEF JoinerReceive, JoinentReceive

LEMMA TrustsRefuses ==
  ASSUME NEW x, NEW S, Trusting(S), NEW p, ~p.cf, NEW uid, NEW pk \in Nacks
  PROVE  TrustsFine(S, Refused(x, S, p, uid, pk))
<1> DEFINE q == Answer(x, p, pk)
           Z == [S EXCEPT !.joinees = 0]
<1>1. Sourced(q, S)
  BY AnswerSourced
<1>2. Refused(x, S, p, uid, pk) = Did(S, {q}) \/ Refused(x, S, p, uid, pk) = Did(Z, {q})
  BY DEF Refused
<1>3. Trusts(S, Z) /\ Trusts(S, S)
  BY TrustsParts, TrustsOn
<1> HIDE DEF Z, q
<1> QED
  BY <1>1, <1>2, <1>3 DEF TrustsFine, Did

LEMMA TrustsCorresponds ==
  ASSUME NEW x, Keyer(x), NEW S, Trusting(S), NEW p, PacketOK(p),
         NEW uid \in DOMAIN S.remotes, uid \in Uids
  PROVE  TrustsFine(S, Correspond(x, S, p, uid))
<1> DEFINE v == p.de = 0
           t == [rmt |-> TRUE, uid |-> uid, le |-> p.de, re |-> p.se, ti |-> p.ti,
                 vacuous |-> v, renewal |-> FALSE, tx |-> "response"]
           A == Add(S, t)
           W == [A EXCEPT !.remotes[uid].joined = FALSE]
           E == DumpRemote(W, uid)
           accepted == W.remotes[uid].acceptance = "accepted"
<1>1. p.de \in Uids /\ p.se \in Uids /\ p.ti \in Tids
  BY DEF PacketOK, Packets
<1>2. t \in Transactions
  <2>1. v \in BOOLEAN /\ TRUE \in BOOLEAN /\ FALSE \in BOOLEAN
    OBVIOUS
  <2>2. "response" \in {"request", "response", "pend"}
    OBVIOUS
  <2> HIDE DEF v
  <2> QED
    BY <1>1, <2>1, <2>2, Zenon DEF Transactions
<1>3. JoinOf(S, t) /\ t.uid = uid
  BY <1>2 DEF JoinOf
<1>4. Correspond(x, S, p, uid) =
        IF A.raised THEN Did(A, {})
        ELSE IF accepted
        THEN Did(Sent(W, t, "response"), {Packet(x, t, "response")})
        ELSE Did(Sent(E, t, "pend"), {Packet(x, t, "pend")})
  BY DEF Correspond, AckAccept
<1> HIDE DEF t, accepted
<1>5. Trusts(S, A)
  BY <1>3, TrustsAdded
<1> HIDE DEF A
<1>6. Trusts(A, W)
  <2>1. Trusting(A) /\ uid \in DOMAIN A.remotes /\ FALSE \in BOOLEAN
    BY <1>5, TrustsOn
  <2> QED
    BY <2>1, TrustsFields DEF W
<1> HIDE DEF W
<1>7. Trusts(S, W)
  BY <1>5, <1>6, TrustsOn
<1>8. Trusting(W) /\ JoinOf(W, t)
  BY <1>3, <1>7, TrustsGoesOn
<1>9. Trusts(W, E)
  BY <1>3, <1>8, TrustsDumped DEF JoinOf
<1> HIDE DEF E
<1>10. Trusts(S, E)
  BY <1>7, <1>9, TrustsOn
<1>11. Trusting(E) /\ JoinOf(E, t)
  BY <1>3, <1>10, TrustsGoesOn
<1>12. Trusts(S, Sent(W, t, "response"))
  <2>1. Trusts(W, Sent(W, t, "response"))
    BY <1>8, TrustsSent
  <2> QED
    BY <1>7, <2>1, TrustsOn
<1>13. Trusts(S, Sent(E, t, "pend"))
  <2>1. Trusts(E, Sent(E, t, "pend"))
    BY <1>11, TrustsSent
  <2> QED
    BY <1>10, <2>1, TrustsOn
<1>14. TrustsFine(S, Did(Sent(W, t, "response"), {Packet(x, t, "response")}))
  BY <1>3, <1>12, TrustsStops
<1>15. TrustsFine(S, Did(Sent(E, t, "pend"), {Packet(x, t, "pend")}))
  BY <1>3, <1>13, TrustsStops
<1>16. TrustsFine(S, Did(A, {}))
  BY <1>3, <1>5, TrustsStops
<1> QED
  BY <1>4, <1>14, <1>15, <1>16

LEMMA TrustsMeets ==
  ASSUME NEW x, Keyer(x), NEW S, Trusting(S), NEW p, PacketOK(p), ~p.cf, p.keys = 1,
         NEW uid \in DOMAIN S.remotes, uid \in Uids
  PROVE  TrustsFine(S, Meet(x, S, p, uid, S.remotes[uid]))
<1> DEFINE r == S.remotes[uid]
           same == r.name = "peer" /\ r.fuid = p.se /\ r.keys = p.keys
           status == Status(x, S, 1)
           D == StatusDump(x, S, 1)
           y == [r EXCEPT !.acceptance = status]
           met == Update(D, uid, y)
           R == Rename(met, uid)
           A == [R EXCEPT !.remotes[uid].fuid = p.se]
           B == [A EXCEPT !.remotes[uid].keys = 1]
           fixed == ~same /\ x \notin Mutables
           had == same \/ x \in Mutables
<1>1. Meet(x, S, p, uid, r) =
        CASE fixed -> Refused(x, S, p, uid, "reject")
          [] had /\ status = "rejected" ->
               IF r.keys = p.keys THEN RemoveRemote(x, S, uid)
                                  ELSE Refused(x, D, p, uid, "reject")
          [] same /\ status # "rejected" -> Correspond(x, met, p, uid)
          [] OTHER ->
               IF NameTaken(S, uid)
               THEN Refused(x, met, p, uid, "reject")
               ELSE Correspond(x, B, p, uid)
  <2>1. B = [R EXCEPT !.remotes[uid].fuid = p.se, !.remotes[uid].keys = p.keys]
    OBVIOUS
  <2> HIDE DEF B
  <2> QED
    BY <2>1 DEF Meet
<1>2. x \in Stacks /\ p.se \in Uids
  BY DEF Keyer, PacketOK, Packets
<1>3. Trusts(S, D) /\ status \in Statuses \ {"rejected"}
  BY <1>2, TrustsStatus
<1> HIDE DEF D, status
<1>4. Trusted(y)
  <2>1. r \in Remotes /\ Trusted(r)
    BY DEF Trusting, Trusted
  <2>2. y \in Remotes
    BY <1>3, <2>1, RemoteRecord
  <2>3. y.acceptance = status /\ y.keys = r.keys
    BY <2>1 DEF Remotes
  <2> QED
    BY <1>3, <2>1, <2>2, <2>3 DEF Trusted
<1> HIDE DEF y
<1>5. Trusts(D, met)
  <2>1. Trusting(D) /\ uid \in DOMAIN D.remotes
    BY <1>3, TrustsOn
  <2> QED
    BY <1>4, <2>1, TrustsUpdated
<1> HIDE DEF met
<1>6. Trusts(S, met)
  BY <1>3, <1>5, TrustsOn
<1>7. Trusting(met) /\ uid \in DOMAIN met.remotes
  BY <1>6, TrustsOn
<1>8. Trusts(met, R)
  BY <1>7, TrustsRenamed
<1> HIDE DEF R
<1>9. Trusting(R) /\ uid \in DOMAIN R.remotes
  BY <1>7, <1>8, TrustsOn
<1>10. Trusts(R, A)
  BY <1>2, <1>9, TrustsFields
<1> HIDE DEF A
<1>11. Trusting(A) /\ uid \in DOMAIN A.remotes
  BY <1>9, <1>10, TrustsOn
<1>12. Trusts(A, B)
  BY <1>11, TrustsFields
<1> HIDE DEF B
<1>13. Trusts(S, B)
  <2>1. Trusts(S, R)
    BY <1>6, <1>8, TrustsOn
  <2>2. Trusts(S, A)
    BY <1>10, <2>1, TrustsOn
  <2> QED
    BY <1>12, <2>2, TrustsOn
<1>14. Trusting(B) /\ uid \in DOMAIN B.remotes
  BY <1>13, TrustsOn
<1>15. TrustsFine(S, Correspond(x, met, p, uid))
  <2>1. TrustsFine(met, Correspond(x, met, p, uid))
    BY <1>7, TrustsCorresponds
  <2> QED
    BY <1>6, <2>1, TrustsOn
<1>16. TrustsFine(S, Correspond(x, B, p, uid))
  <2>1. TrustsFine(B, Correspond(x, B, p, uid))
    BY <1>14, TrustsCorresponds
  <2> QED
    BY <1>13, <2>1, TrustsOn
<1>17. "reject" \in Nacks
  BY DEF Nacks
<1>18. TrustsFine(S, Refused(x, S, p, uid, "reject"))
  BY <1>17, TrustsRefuses
<1>19. TrustsFine(S, Refused(x, met, p, uid, "reject"))
  <2>1. TrustsFine(met, Refused(x, met, p, uid, "reject"))
    BY <1>7, <1>17, TrustsRefuses
  <2> QED
    BY <1>6, <2>1, TrustsOn
<1> HIDE DEF r, same
<1>20. had \/ fixed
  OBVIOUS
<1>21. TrustsFine(S, Meet(x, S, p, uid, r))
  <2>1. CASE fixed
    <3>1. Meet(x, S, p, uid, r) = Refused(x, S, p, uid, "reject")
      BY <1>1, <1>3, <2>1
    <3> QED
      BY <1>18, <3>1
  <2>2. CASE ~fixed /\ same
    <3>1. Meet(x, S, p, uid, r) = Correspond(x, met, p, uid)
      BY <1>1, <1>3, <2>2
    <3> QED
      BY <1>15, <3>1
  <2>3. CASE ~fixed /\ ~same
    <3>1. \/ Meet(x, S, p, uid, r) = Refused(x, met, p, uid, "reject")
          \/ Meet(x, S, p, uid, r) = Correspond(x, B, p, uid)
      BY <1>1, <1>3, <2>3
    <3> QED
      BY <1>16, <1>19, <3>1
  <2> QED
    BY <2>1, <2>2, <2>3
<1> QED
  BY <1>21 DEF r

LEMMA TrustsJoins ==
  ASSUME NEW x, Keyer(x), NEW S, Trusting(S), NEW p, PacketOK(p), ~p.cf, p.keys = 1, p.de # 0,
         NEW uid \in DOMAIN S.remotes, uid \in Uids
  PROVE  TrustsFine(S, Join(x, S, p, uid, S.remotes[uid]))
<1> DEFINE r == S.remotes[uid]
           joins == Joins(S, uid)
           refused == \E t \in joins : t.rmt \/ Yields(x, p, t)
           free == IF joins = {} THEN S ELSE Remove(S, CHOOSE t \in joins : TRUE)
           done == Meet(x, free, p, uid, r)
           told == {Packet(x, t, "refuse") : t \in joins}
<1>1. Join(x, S, p, uid, r) =
        IF refused THEN Refused(x, S, p, uid, "refuse") ELSE Did(done.st, done.out \cup told)
  BY DEF Join
<1>2. TrustsFine(S, Refused(x, S, p, uid, "refuse"))
  BY TrustsRefuses DEF Nacks
<1>3. \A q \in told : Sourced(q, S)
  <2>1. \A t \in joins : JoinOf(S, t)
    BY DEF Joins, Trusting
  <2>2. stack[x].keys = 1
    BY DEF Keyer
  <2> HIDE DEF joins
  <2> QED
    BY <2>1, <2>2, PacketSourced
<1>4. Trusts(S, free) /\ free.remotes = S.remotes
  <2>1. \A t : Trusts(S, Remove(S, t)) /\ Remove(S, t).remotes = S.remotes
    BY TrustsRemoved DEF Remove, Trusting, StackFields
  <2> QED
    BY <2>1, TrustsOn
<1> HIDE DEF refused, free, told, joins
<1>5. TrustsFine(free, done)
  <2>1. Trusting(free) /\ uid \in DOMAIN free.remotes /\ r = free.remotes[uid]
    BY <1>4, TrustsOn
  <2>2. TrustsFine(free, Meet(x, free, p, uid, free.remotes[uid]))
    BY <2>1, TrustsMeets
  <2> QED
    BY <2>1, <2>2
<1> HIDE DEF done, r
<1>6. TrustsFine(S, done)
  BY <1>4, <1>5, TrustsOn
<1>7. TrustsFine(S, Did(done.st, done.out \cup told))
  BY <1>3, <1>6 DEF TrustsFine, Did
<1> QED
  BY <1>1, <1>2, <1>7 DEF r

LEMMA TrustsTransacts ==
  ASSUME NEW x, Keyer(x), NEW S, Trusting(S), NEW p, Trustworthy(p), NEW uid,
         p.pk = "request" /\ ~p.cf => p.de # 0 /\ uid \in DOMAIN S.remotes /\ uid \in Uids
  PROVE  TrustsFine(S, Transact(x, S, p, uid))
<1> DEFINE found == {t \in Joins(S, uid) : Index(t) = RxIndex(p)}
           t == CHOOSE y \in found : TRUE
           out == IF p.pk \notin Nacks /\ p.de \in DOMAIN S.remotes
                  THEN {Answer(x, p, "nack")} ELSE {}
<1>1. CASE found # {}
  <2>1. t \in found
    BY <1>1
  <2> HIDE DEF t
  <2>2. t \in S.trans
    BY <2>1 DEF Joins
  <2>3. Transact(x, S, p, uid) = IF t.rmt THEN JoinentReceive(x, S, t, p)
                                          ELSE JoinerReceive(x, S, t, p)
    BY <1>1 DEF Transact, t
  <2> QED
    BY <2>2, <2>3, TrustsJoinerReceives
<1>4. TrustsFine(S, Did(S, {}))
  BY TrustsOn DEF TrustsFine, Did
<1>2. CASE found = {} /\ p.cf
  <2>1. Transact(x, S, p, uid) = Did(S, out)
    BY <1>2 DEF Transact
  <2>2. \A q \in out : Sourced(q, S)
    BY AnswerSourced DEF Nacks
  <2> HIDE DEF out
  <2>3. TrustsFine(S, Did(S, out))
    BY <2>2, TrustsOn DEF TrustsFine, Did
  <2> QED
    BY <2>1, <2>3
<1>3. CASE found = {} /\ ~p.cf
  <2>1. Transact(x, S, p, uid) = IF p.pk = "request" THEN Join(x, S, p, uid, Remote(S, uid))
                                                     ELSE Did(S, {})
    BY <1>3 DEF Transact
  <2>2. CASE p.pk = "request"
    <3>1. /\ uid \in DOMAIN S.remotes /\ uid \in Uids /\ p.de # 0 /\ p.keys = 1
          /\ PacketOK(p) /\ Remote(S, uid) = S.remotes[uid]
      BY <1>3, <2>2 DEF Trustworthy, Remote
    <3>2. TrustsFine(S, Join(x, S, p, uid, S.remotes[uid]))
      BY <1>3, <3>1, TrustsJoins
    <3> QED
      BY <2>1, <2>2, <3>1, <3>2
  <2>3. CASE p.pk # "request"
    BY <1>4, <2>1, <2>3
  <2> QED
    BY <2>2, <2>3
<1> QED
  BY <1>1, <1>2, <1>3

(* processRx of the asking stack. *)
LEMMA TrustsReceives ==
  ASSUME NEW x, Keyer(x), NEW S, Trusting(S), DOMAIN S.remotes \subseteq Uids,
         NEW p, Trustworthy(p), p.pk = "request" => p.de # 0
  PROVE  TrustsFine(S, ProcessRx(x, S, p))
<1> DEFINE prior == S.joinees
           stale == prior # 0 /\ Remote(S, prior).fuid \notin {0, p.se}
           Z == [S EXCEPT !.joinees = 0]
           W == IF stale THEN Z ELSE S
           uid == NextUid(S)
           fresh == [W EXCEPT !.puid = uid]
           moved == [S EXCEPT !.puid = uid]
           out == IF p.pk \in Nacks \ {"renew"} THEN {} ELSE {Answer(x, p, "renew")}
<1>1. CASE p.cf
  <2>1. TrustsFine(S, Did(S, {}))
    BY TrustsOn DEF TrustsFine, Did
  <2>2. \A v : TrustsFine(S, Transact(x, S, p, v))
    BY <1>1, TrustsTransacts
  <2> QED
    BY <1>1, <2>1, <2>2 DEF ProcessRx, FromJoinent
<1>2. CASE ~p.cf
  <2>1. ProcessRx(x, S, p) =
          CASE p.de = 0 /\ W.joinees # 0 -> Transact(x, W, p, W.joinees)
            [] p.de = 0 /\ W.joinees = 0 ->
                 IF p.pk = "request" THEN Join(x, fresh, p, uid, NewRemote) ELSE Did(W, {})
            [] p.de # 0 /\ p.de \in DOMAIN S.remotes -> Transact(x, S, p, p.de)
            [] OTHER -> Did(moved, out)
    BY <1>2 DEF ProcessRx, FromJoiner
  <2>2. Trusts(S, W) /\ Trusts(S, moved)
    <3>1. Trusts(S, Z) /\ Trusts(S, moved)
      BY TrustsParts
    <3> HIDE DEF Z, moved
    <3> QED
      BY <3>1, TrustsOn
  <2>3. \A q \in out : Sourced(q, S)
    <3>1. Answer(x, p, "renew").pk = "renew" /\ Answer(x, p, "renew").cf = ~p.cf
      BY AnswerFields
    <3>2. Sourced(Answer(x, p, "renew"), S)
      BY <1>2, <3>1 DEF Sourced
    <3> QED
      BY <3>2
  <2> HIDE DEF W, moved, out, uid
  <2>4. CASE p.de = 0
    <3>1. TrustsFine(W, Transact(x, W, p, W.joinees))
      <4>1. Trusting(W) /\ p.pk # "request"
        BY <2>2, <2>4, TrustsOn
      <4> QED
        BY <4>1, TrustsTransacts
    <3>2. TrustsFine(S, Transact(x, W, p, W.joinees))
      BY <2>2, <3>1, TrustsOn
    <3>3. TrustsFine(S, Did(W, {}))
      BY <2>2 DEF TrustsFine, Did
    <3> HIDE DEF fresh
    <3>4. \/ ProcessRx(x, S, p) = Transact(x, W, p, W.joinees)
          \/ ProcessRx(x, S, p) = Did(W, {})
      BY <2>1, <2>4
    <3> QED
      BY <3>2, <3>3, <3>4
  <2>5. CASE p.de # 0 /\ p.de \in DOMAIN S.remotes
    <3>1. ProcessRx(x, S, p) = Transact(x, S, p, p.de)
      BY <2>1, <2>5
    <3>2. p.de \in DOMAIN S.remotes /\ p.de \in Uids
      BY <2>5
    <3>3. TrustsFine(S, Transact(x, S, p, p.de))
      BY <2>5, <3>2, TrustsTransacts
    <3> QED
      BY <3>1, <3>3
  <2>6. CASE p.de # 0 /\ p.de \notin DOMAIN S.remotes
    <3>1. ProcessRx(x, S, p) = Did(moved, out)
      BY <2>1, <2>6
    <3> QED
      BY <2>2, <2>3, <3>1 DEF TrustsFine, Did
  <2> QED
    BY <2>4, <2>5, <2>6
<1> QED
  BY <1>1, <1>2

(* What a handler of the asking stack may make of S and send. *)
TrustingFine(S, d) ==
  /\ Trusting(d.st) /\ DOMAIN S.remotes \subseteq DOMAIN d.st.remotes
  /\ \A q \in d.out : Sourced(q, d.st)

LEMMA TrustsThenFine ==
  ASSUME NEW S, NEW d, TrustsFine(S, d)
  PROVE  TrustingFine(S, d)
BY DEF TrustsFine, TrustingFine, Trusts, Sourced

LEMMA TrustsCreates ==
  ASSUME NEW S, Trusting(S), DOMAIN S.remotes = {}, NEW uid
  PROVE  TrustingFine(S, Did([Update(S, uid, NewRemote) EXCEPT
                                !.puid = uid, !.names = Put(@, "new", uid)], {}))
<1> DEFINE R == Put(S.remotes, uid, NewRemote)
           N == Put(S.names, "new", uid)
           T == [S EXCEPT !.remotes = R, !.puid = uid, !.names = N]
<1>1. [Update(S, uid, NewRemote) EXCEPT !.puid = uid, !.names = Put(@, "new", uid)] = T
  BY DEF Update, Trusting, StackFields
<1>2. DOMAIN R = {uid} /\ R[uid] = NewRemote
  BY DEF Put
<1>3. Trusted(NewRemote)
  <2>1. NewRemote \in Remotes
    BY NewRemoteType
  <2>2. NewRemote.acceptance = "none" /\ NewRemote.keys = 0
    BY DEF NewRemote
  <2> QED
    BY <2>1, <2>2 DEF Trusted
<1> HIDE DEF R, N
<1>4. T.remotes = R /\ T.role = S.role /\ T.trans = S.trans /\ DOMAIN T = StackFields
  BY DEF Trusting, StackFields
<1>5. S.trans = {}
  BY DEF Trusting, JoinOf
<1> HIDE DEF T
<1>6. Trusting(T)
  BY <1>2, <1>3, <1>4, <1>5 DEF Trusting
<1> QED
  BY <1>1, <1>6 DEF TrustingFine, Did

LEMMA TrustsTimesOut ==
  ASSUME NEW x, Keyer(x), NEW S, Trusting(S), NEW t \in S.trans
  PROVE  TrustsFine(S, IF t.rmt THEN Nack(x, S, t, "nack") ELSE Did(Remove(S, t), {}))
<1>1. JoinOf(S, t) /\ Trusts(S, S)
  BY TrustsOn DEF Trusting
<1> QED
  BY <1>1, TrustsNacks

LEMMA TrustsResends ==
  ASSUME NEW x, Keyer(x), NEW S, Trusting(S), NEW t \in S.trans, NEW pk
  PROVE  TrustsFine(S, Did(S, {Packet(x, t, pk)}))
<1>1. JoinOf(S, t) /\ Trusts(S, S)
  BY TrustsOn DEF Trusting
<1> QED
  BY <1>1, TrustsStops

LEMMA TrustsRedoes ==
  ASSUME NEW x, Keyer(x), NEW S, Trusting(S), NEW t \in S.trans, S.remotes[t.uid].keys = 1,
         NEW status, NEW D, status = Status(x, S, S.remotes[t.uid].keys),
         D = [StatusDump(x, S, S.remotes[t.uid].keys) EXCEPT !.remotes[t.uid].acceptance = status]
  PROVE  /\ status # "rejected"
         /\ TrustsFine(S, AckAccept(x, D, t)) /\ TrustsFine(S, Completify(x, D, t))
         /\ TrustsFine(S, Did(D, {}))
<1> DEFINE u == t.uid
           A == StatusDump(x, S, 1)
           E == [A EXCEPT !.remotes[u].acceptance = status]
<1>1. JoinOf(S, t) /\ x \in Stacks
  BY DEF Trusting, Keyer
<1>2. Trusts(S, A) /\ status \in Statuses \ {"rejected"}
  BY <1>1, TrustsStatus
<1>3. D = E
  OBVIOUS
<1> HIDE DEF A, u
<1>4. Trusts(A, E)
  <2>1. Trusting(A) /\ u \in DOMAIN A.remotes
    BY <1>1, <1>2, TrustsGoesOn DEF u
  <2> QED
    BY <1>2, <2>1, TrustsFields
<1> HIDE DEF E
<1>5. Trusts(S, D)
  BY <1>2, <1>3, <1>4, TrustsOn
<1>6. Trusting(D) /\ JoinOf(D, t)
  BY <1>1, <1>5, TrustsGoesOn
<1>7. TrustsFine(S, Did(D, {}))
  BY <1>1, <1>5, TrustsStops
<1>8. TrustsFine(S, Completify(x, D, t))
  <2>1. TrustsFine(D, Completify(x, D, t))
    BY <1>6, TrustsCompletes
  <2> QED
    BY <1>5, <2>1, TrustsOn
<1>9. TrustsFine(S, AckAccept(x, D, t))
  <2>1. Trusts(D, Sent(D, t, "response"))
    BY <1>6, TrustsSent
  <2>2. Trusts(S, Sent(D, t, "response"))
    BY <1>5, <2>1, TrustsOn
  <2>3. TrustsFine(S, Did(Sent(D, t, "response"), {Packet(x, t, "response")}))
    BY <1>1, <2>2, TrustsStops
  <2> QED
    BY <2>3 DEF AckAccept
<1> QED
  BY <1>2, <1>7, <1>8, <1>9

-----------------------------------------------------------------------------
(* The stack that is asked waits for its one remote and rejects no request. *)

(* All joins are of the remote w, which is in joinees while a vacuous request
   is answered. *)
Waits(w, S) ==
  /\ DOMAIN S = StackFields /\ S.joinees \in {0, w}
  /\ \A t \in S.trans : t.uid = w
  /\ S.joinees = 0 => \A t \in S.trans : t.rmt => t.le # 0

Told(w, d) ==
  /\ DOMAIN d.st.remotes = {} \/ Waits(w, d.st)
  /\ \A q \in d.out : q.pk # "reject"

LEMMA WaitsStill ==
  ASSUME NEW w, NEW S, Waits(w, S), NEW T, DOMAIN T = StackFields, T.trans = S.trans,
         T.joinees = S.joinees
  PROVE  Waits(w, T)
BY DEF Waits

LEMMA WaitsDumps ==
  ASSUME NEW w, NEW S, Waits(w, S), NEW s, NEW u, NEW v
  PROVE  /\ Waits(w, DumpRemote(S, u)) /\ Waits(w, DumpLocal(S))
         /\ Waits(w, StatusDump(s, S, v)) /\ Waits(w, Rename(S, u)) /\ Waits(w, Update(S, u, v))
         /\ Waits(w, [S EXCEPT !.remotes[u].joined = v])
         /\ Waits(w, [S EXCEPT !.remotes[u].acceptance = v])
         /\ Waits(w, [S EXCEPT !.remotes[u].fuid = v])
         /\ Waits(w, [S EXCEPT !.remotes[u].keys = v])
         /\ Waits(w, [S EXCEPT !.puid = v])
         /\ Waits(w, [S EXCEPT !.raised = v])
         /\ Waits(w, [S EXCEPT !.role = v])
<1>1. DOMAIN S = StackFields
  BY DEF Waits
<1>2. \A T : Still(S, T) => Waits(w, T)
  BY WaitsStill DEF Still, Calm
<1>3. Waits(w, [S EXCEPT !.raised = v])
  BY <1>1, WaitsStill DEF StackFields
<1> QED
  BY <1>1, <1>2, <1>3, StillDumps, StillRenamed, StillRemotes, StillParts

LEMMA WaitsRemoved ==
  ASSUME NEW w, NEW S, Waits(w, S), NEW t \in S.trans
  PROVE  Waits(w, Remove(S, t))
<1> DEFINE last == \A x \in S.trans \ {t} : x.uid # t.uid
           j == IF t.vacuous /\ last THEN 0 ELSE S.joinees
           T == [S EXCEPT !.trans = S.trans \ {t}, !.joinees = j]
<1>1. Remove(S, t) = T
  BY DEF Remove
<1>2. last => S.trans \ {t} = {}
  BY DEF Waits
<1> HIDE DEF last
<1>3. j = S.joinees \/ (j = 0 /\ S.trans \ {t} = {})
  BY <1>2
<1> HIDE DEF j
<1>4. T.trans = S.trans \ {t} /\ T.joinees = j /\ DOMAIN T = StackFields
  BY DEF Waits, StackFields
<1> HIDE DEF T
<1>5. Waits(w, T)
  BY <1>3, <1>4 DEF Waits
<1> QED
  BY <1>1, <1>5

(* A join of w that, vacuous and asked for, has w in joinees. *)
Waited(w, S, t) ==
  t \in Transactions /\ t.uid = w /\ (S.joinees = 0 /\ t.rmt => t.le # 0)

LEMMA WaitsSent ==
  ASSUME NEW w, NEW S, Waits(w, S), NEW t, Waited(w, S, t), NEW pk
  PROVE  Waits(w, Sent(S, t, pk))
<1> DEFINE y == [t EXCEPT !.tx = pk]
           V == (S.trans \ {t}) \cup {y}
           T == [S EXCEPT !.trans = V]
<1>1. Sent(S, t, pk) = T
  BY DEF Sent
<1>2. y.uid = t.uid /\ y.rmt = t.rmt /\ y.le = t.le
  BY SentFields DEF Waited
<1> HIDE DEF y
<1>3. \A x \in V : x \in S.trans \/ x = y
  OBVIOUS
<1> HIDE DEF V
<1>4. T.trans = V /\ T.joinees = S.joinees /\ DOMAIN T = StackFields
  BY DEF Waits, StackFields
<1> HIDE DEF T
<1>5. Waits(w, T)
  BY <1>2, <1>3, <1>4 DEF Waits, Waited
<1> QED
  BY <1>1, <1>5

LEMMA WaitsAdded ==
  ASSUME NEW w, NEW S, Waits(w, S), NEW t, w # 0, t.uid = w, t.rmt /\ t.le = 0 => t.vacuous
  PROVE  /\ Waits(w, Add(S, t))
         /\ ~Add(S, t).raised => (Add(S, t).joinees = 0 /\ t.rmt => t.le # 0)
<1> DEFINE used == \E x \in Joins(S, t.uid) : Index(x) = Index(t)
           j == IF t.vacuous THEN t.uid ELSE S.joinees
           V == S.trans \cup {t}
           T == [S EXCEPT !.trans = V, !.joinees = j]
           Z == [S EXCEPT !.raised = TRUE]
<1>1. Add(S, t) = IF used THEN Z ELSE T
  BY DEF Add
<1> HIDE DEF used
<1>2. Waits(w, Z) /\ Z.raised
  BY WaitsDumps DEF Waits, StackFields
<1>3. \A x \in V : x \in S.trans \/ x = t
  OBVIOUS
<1>4. j \in {S.joinees, w} /\ (t.vacuous => j = w) /\ (j # w => j = S.joinees)
  OBVIOUS
<1>5. T.trans = V /\ T.joinees = j /\ DOMAIN T = StackFields
  BY DEF Waits, StackFields
<1> HIDE DEF V, j, T, Z
<1>6. Waits(w, T) /\ (T.joinees = 0 /\ t.rmt => t.le # 0)
  <2>1. j \in {0, w}
    BY <1>4 DEF Waits
  <2> QED
    BY <1>3, <1>4, <1>5, <2>1 DEF Waits
<1> QED
  BY <1>1, <1>2, <1>6

LEMMA ToldDid ==
  ASSUME NEW w, NEW T, Waits(w, T), NEW s, NEW t, NEW pk, pk # "reject"
  PROVE  Told(w, Did(T, {})) /\ Told(w, Did(T, {Packet(s, t, pk)}))
BY PacketFields DEF Told, Did

LEMMA ToldStill ==
  ASSUME NEW w, NEW S, Waits(w, S), NEW T, Still(S, T), NEW s,
         NEW t \in S.trans, t \in Transactions, NEW pk, pk # "reject"
  PROVE  /\ Told(w, Did(T, {})) /\ Told(w, Did(T, {Packet(s, t, pk)}))
         /\ Told(w, Did(Remove(T, t), {})) /\ Told(w, Nack(s, T, t, pk))
         /\ Told(w, Did(Sent(T, t, pk), {Packet(s, t, pk)}))
<1>1. Waits(w, T) /\ t \in T.trans
  BY WaitsStill DEF Still, Calm
<1>2. Waited(w, T, t)
  BY <1>1 DEF Waits, Waited
<1>3. Waits(w, Remove(T, t)) /\ Waits(w, Sent(T, t, pk))
  BY <1>1, <1>2, WaitsRemoved, WaitsSent
<1>4. Told(w, Did(T, {})) /\ Told(w, Did(T, {Packet(s, t, pk)}))
  BY <1>1, ToldDid
<1>5. Told(w, Did(Remove(T, t), {})) /\ Told(w, Did(Remove(T, t), {Packet(s, t, pk)}))
  BY <1>3, ToldDid
<1>6. Told(w, Did(Sent(T, t, pk), {Packet(s, t, pk)}))
  BY <1>3, ToldDid
<1> QED
  BY <1>4, <1>5, <1>6 DEF Nack

LEMMA ToldCompletes ==
  ASSUME NEW w, NEW S, Waits(w, S), NEW s, NEW t \in S.trans, t \in Transactions
  PROVE  Told(w, Completify(s, S, t)) /\ Told(w, Complete(s, S, t))
<1> DEFINE A == [S EXCEPT !.remotes[t.uid].joined = TRUE]
           B == DumpRemote(A, t.uid)
           C == DumpLocal(B)
           D == Remove(C, t)
<1>1. Completify(s, S, t) = Nack(s, C, t, "ack") /\ Complete(s, S, t) = Did(D, {})
  BY DEF Completify, Complete, Nack
<1>2. Still(S, A) /\ DOMAIN A = StackFields
  BY StillRemotes, CalmOn DEF Waits
<1> HIDE DEF A
<1>3. Still(A, B) /\ DOMAIN B = StackFields
  BY <1>2, StillDumps, CalmOn
<1> HIDE DEF B
<1>4. Still(B, C)
  BY <1>3, StillDumps
<1> HIDE DEF C
<1>5. Still(S, C)
  <2>1. Still(S, B)
    BY <1>2, <1>3, CalmOn
  <2> QED
    BY <1>4, <2>1, CalmOn
<1>6. Waits(w, C) /\ t \in C.trans
  BY <1>5, WaitsStill DEF Still, Calm
<1> HIDE DEF D
<1>7. Told(w, Did(D, {})) /\ Told(w, Nack(s, C, t, "ack"))
  <2>1. Waits(w, D)
    BY <1>6, WaitsRemoved DEF D
  <2>2. "ack" # "reject"
    OBVIOUS
  <2>3. Told(w, Did(D, {})) /\ Told(w, Did(D, {Packet(s, t, "ack")}))
    BY <2>1, <2>2, ToldDid
  <2> QED
    BY <2>3 DEF Nack, D
<1> QED
  BY <1>1, <1>7

LEMMA ToldRemoves ==
  ASSUME NEW w, NEW S, DOMAIN S.remotes = {w}, DOMAIN S = StackFields, NEW s
  PROVE  Told(w, RemoveRemote(s, S, w))
<1> DEFINE name == S.remotes[w].name
           joins == Joins(S, w)
           R == Drop(S.remotes, w)
           N == Drop(S.names, name)
           V == S.trans \ joins
           G == {f \in S.files : f.name # name}
           vacuous == \E t \in joins : t.vacuous
           j == IF vacuous THEN 0 ELSE S.joinees
           g == IF ~vacuous /\ S.joinees = w THEN S.remotes[w] ELSE S.ghost
           T == [[S EXCEPT !.files = G] EXCEPT
                   !.remotes = R, !.names = N, !.trans = V, !.joinees = j, !.ghost = g]
           Z == [S EXCEPT !.remotes = R, !.raised = TRUE]
           out == {Packet(s, t, "nack") : t \in {x \in joins : x.rmt}}
<1>1. RemoveRemote(s, S, w) = IF name \notin DOMAIN S.names THEN Did(Z, {}) ELSE Did(T, out)
  BY DEF RemoveRemote, ClearFile
<1>2. DOMAIN R = {}
  BY DEF Drop
<1>3. \A q \in out : q.pk # "reject"
  BY PacketFields
<1> HIDE DEF R, N, V, G, j, g, out
<1>4. Z.remotes = R /\ T.remotes = R
  BY DEF StackFields
<1> HIDE DEF Z, T
<1> QED
  BY <1>1, <1>2, <1>3, <1>4 DEF Told, Did

LEMMA ToldAccepted ==
  ASSUME NEW w, NEW S, Waits(w, S), NEW s, NEW t \in S.trans, t \in Transactions,
         NEW p, ~NameTaken(S, t.uid)
  PROVE  Told(w, Accepted(s, S, t, p))
<1> DEFINE u == t.uid
           status == Status(s, S, p.keys)
           A == StatusDump(s, S, p.keys)
           B == [A EXCEPT !.remotes[u].acceptance = status]
           C == [B EXCEPT !.remotes[u].fuid = p.uid]
           D == [C EXCEPT !.remotes[u].keys = p.keys]
           met == Rename(D, u)
           E == DumpRemote(met, u)
<1>1. Accepted(s, S, t, p) =
        IF status = "accepted" THEN Completify(s, met, t)
        ELSE Did(Sent(E, t, "pend"), {Packet(s, t, "pend")})
  <2>1. D = [B EXCEPT !.remotes[u].fuid = p.uid, !.remotes[u].keys = p.keys]
    OBVIOUS
  <2> HIDE DEF D
  <2> QED
    BY <2>1 DEF Accepted
<1> HIDE DEF status, u
<1>2. DOMAIN S = StackFields
  BY DEF Waits
<1>3. Still(S, A) /\ DOMAIN A = StackFields
  BY <1>2, StillDumps, CalmOn
<1> HIDE DEF A
<1>4. Still(A, B) /\ DOMAIN B = StackFields
  BY <1>3, StillRemotes, CalmOn
<1> HIDE DEF B
<1>5. Still(B, C) /\ DOMAIN C = StackFields
  BY <1>4, StillRemotes, CalmOn
<1> HIDE DEF C
<1>6. Still(C, D) /\ DOMAIN D = StackFields
  BY <1>5, StillRemotes, CalmOn
<1> HIDE DEF D
<1>7. Still(D, met) /\ DOMAIN met = StackFields
  BY <1>6, StillRenamed, CalmOn
<1> HIDE DEF met
<1>8. Still(met, E)
  BY <1>7, StillDumps
<1> HIDE DEF E
<1>9. Still(S, met)
  <2>1. Still(S, C)
    BY <1>3, <1>4, <1>5, CalmOn
  <2> QED
    BY <1>6, <1>7, <2>1, CalmOn
<1>10. Still(S, E)
  BY <1>8, <1>9, CalmOn
<1>11. Told(w, Completify(s, met, t))
  <2>1. Waits(w, met) /\ t \in met.trans
    BY <1>9, WaitsStill DEF Still, Calm
  <2> QED
    BY <2>1, ToldCompletes
<1>12. "pend" # "reject"
  OBVIOUS
<1>13. Told(w, Did(Sent(E, t, "pend"), {Packet(s, t, "pend")}))
  BY <1>10, <1>12, ToldStill
<1> QED
  BY <1>1, <1>11, <1>13

(* A main stack on a fixed road with one remote w, whose uid at the other stack
   is u and whose keys are the first. *)
MainReady(m, S, w, u) ==
  /\ m \in Stacks /\ m \in Mains /\ m \notin Mutables /\ m \notin Creators
  /\ Sound(m, S) /\ Waits(w, S) /\ DOMAIN S.remotes = {w}
  /\ S.remotes[w].fuid = u /\ S.remotes[w].keys = 1

LEMMA MainFacts ==
  ASSUME NEW m, NEW S, NEW w, NEW u, MainReady(m, S, w, u)
  PROVE  /\ w \in Uids \ {0} /\ S.remotes[w].name = "peer" /\ S.remotes[w] \in Remotes
         /\ "peer" \in DOMAIN S.names /\ S.names["peer"] = w /\ ~NameTaken(S, w)
         /\ DOMAIN S = StackFields
         /\ \A t \in S.trans : t \in Transactions /\ t.uid = w /\ (t.rmt \/ ~t.vacuous)
<1>1. /\ Core(m, S.remotes, S.names, S.trans, S.files, S.role) /\ DOMAIN S = StackFields
      /\ DOMAIN S.remotes = {w}
  BY SoundFields DEF MainReady
<1>2. w \in Uids \ {0} /\ S.remotes[w] \in Remotes /\ S.remotes[w].name = "peer"
  BY <1>1 DEF Core, MainReady
<1>3. "peer" \in DOMAIN S.names /\ S.names["peer"] = w
  BY <1>1, <1>2 DEF Core
<1>4. \A t \in S.trans : t \in Transactions /\ (t.rmt \/ ~t.vacuous)
  BY <1>1 DEF Core, MainReady, Fixed
<1>5. \A t \in S.trans : t.uid = w
  BY DEF MainReady, Waits
<1> QED
  BY <1>1, <1>2, <1>3, <1>4, <1>5 DEF NameTaken

LEMMA ToldAccepts ==
  ASSUME NEW m, NEW S, NEW w, NEW u, MainReady(m, S, w, u), NEW t \in S.trans, ~t.rmt,
         NEW p, p.uid = u, p.keys = 1
  PROVE  Told(w, Accept(m, S, t, p))
<1> DEFINE rejected == Status(m, S, p.keys) = "rejected"
<1>1. /\ t \in Transactions /\ t.uid = w /\ ~t.vacuous /\ S.remotes[w].name = "peer"
      /\ DOMAIN S = StackFields /\ ~NameTaken(S, w)
  BY MainFacts
<1>2. S.remotes[w].fuid = p.uid /\ S.remotes[w].keys = p.keys
  BY DEF MainReady
<1>3. Accept(m, S, t, p) = IF rejected THEN RemoveRemote(m, S, w) ELSE Accepted(m, S, t, p)
  BY <1>1, <1>2 DEF Accept
<1>4. Told(w, RemoveRemote(m, S, w))
  BY <1>1, ToldRemoves DEF MainReady
<1>5. Told(w, Accepted(m, S, t, p))
  BY <1>1, ToldAccepted DEF MainReady
<1> QED
  BY <1>3, <1>4, <1>5

LEMMA ToldJoinerReceives ==
  ASSUME NEW m, NEW S, NEW w, NEW u, MainReady(m, S, w, u), NEW t \in S.trans,
         NEW p, p.pk = "response" => p.uid = u /\ p.keys = 1
  PROVE  /\ ~t.rmt => Told(w, JoinerReceive(m, S, t, p))
         /\ Told(w, JoinentReceive(m, S, t, p))
<1>1. t \in Transactions /\ t.uid = w /\ DOMAIN S = StackFields /\ Waits(w, S)
  BY MainFacts DEF MainReady
<1>2. Told(w, Did(Remove(S, t), {})) /\ Told(w, Did(S, {})) /\ Told(w, Complete(m, S, t))
  <2>1. Waits(w, Remove(S, t))
    BY <1>1, WaitsRemoved
  <2>2. \A T : Waits(w, T) => Told(w, Did(T, {}))
    BY DEF Told, Did
  <2>3. Told(w, Complete(m, S, t))
    BY <1>1, ToldCompletes
  <2> QED
    BY <1>1, <2>1, <2>2, <2>3
<1>3. Told(w, Renew(m, S, t))
  <2>1. Renew(m, S, t) = Did(Remove(S, t), {})
    BY DEF Renew, MainReady
  <2> QED
    BY <1>2, <2>1
<1>4. Told(w, Reject(m, S, t))
  <2>1. Remove(S, t).remotes = S.remotes /\ DOMAIN Remove(S, t) = StackFields
    BY <1>1, CalmJoins DEF Calm
  <2>2. DOMAIN S.remotes = {w}
    BY DEF MainReady
  <2>3. Told(w, RemoveRemote(m, Remove(S, t), w))
    BY <2>1, <2>2, ToldRemoves
  <2> QED
    BY <1>1, <2>3 DEF Reject
<1>5. p.pk = "response" /\ ~t.rmt => Told(w, Accept(m, S, t, p))
  BY ToldAccepts
<1> QED
  BY <1>2, <1>3, <1>4, <1>5 DEF JoinerReceive, JoinentReceive

LEMMA WaitsRefused ==
  ASSUME NEW w, NEW S, Waits(w, S), NEW m, NEW p, NEW pk, pk # "reject"
  PROVE  Told(w, Refused(m, S, p, w, pk))
<1> DEFINE Z == [S EXCEPT !.joinees = 0]
           q == Answer(m, p, pk)
           free == p.de = 0 /\ Joins(S, w) = {}
<1>1. Refused(m, S, p, w, pk) = Did(IF free THEN Z ELSE S, {q})
  BY DEF Refused
<1>2. free => Waits(w, Z)
  <2>1. Joins(S, w) = S.trans
    BY DEF Waits, Joins
  <2>2. Z.trans = S.trans /\ Z.joinees = 0 /\ DOMAIN Z = StackFields
    BY DEF Waits, StackFields
  <2> HIDE DEF Z
  <2> QED
    BY <2>1, <2>2 DEF Waits
<1>3. q.pk = pk
  BY AnswerFields
<1> HIDE DEF free, Z, q
<1> QED
  BY <1>1, <1>2, <1>3 DEF Told, Did

LEMMA ToldCorresponds ==
  ASSUME NEW w \in Uids \ {0}, NEW S, Waits(w, S), NEW m, NEW p, PacketOK(p)
  PROVE  Told(w, Correspond(m, S, p, w))
<1> DEFINE v == p.de = 0
           t == [rmt |-> TRUE, uid |-> w, le |-> p.de, re |-> p.se, ti |-> p.ti,
                 vacuous |-> v, renewal |-> FALSE, tx |-> "response"]
           A == Add(S, t)
           W == [A EXCEPT !.remotes[w].joined = FALSE]
           E == DumpRemote(W, w)
           accepted == W.remotes[w].acceptance = "accepted"
<1>1. p.de \in Uids /\ p.se \in Uids /\ p.ti \in Tids
  BY DEF PacketOK, Packets
<1>2. t \in Transactions
  <2>1. v \in BOOLEAN /\ TRUE \in BOOLEAN /\ FALSE \in BOOLEAN
    OBVIOUS
  <2>2. "response" \in {"request", "response", "pend"}
    OBVIOUS
  <2> HIDE DEF v
  <2> QED
    BY <1>1, <2>1, <2>2, Zenon DEF Transactions
<1>3. t.uid = w /\ t.le = p.de /\ (t.le = 0 => t.vacuous)
  OBVIOUS
<1>4. Correspond(m, S, p, w) =
        IF A.raised THEN Did(A, {})
        ELSE IF accepted
        THEN Did(Sent(W, t, "response"), {Packet(m, t, "response")})
        ELSE Did(Sent(E, t, "pend"), {Packet(m, t, "pend")})
  BY DEF Correspond, AckAccept
<1> HIDE DEF t, accepted
<1>5. Waits(w, A) /\ (~A.raised => (A.joinees = 0 /\ t.rmt => t.le # 0))
  BY <1>3, WaitsAdded
<1> HIDE DEF A
<1>6. Still(A, W) /\ DOMAIN W = StackFields
  BY <1>5, StillRemotes, CalmOn DEF Waits
<1> HIDE DEF W
<1>7. Still(A, E)
  <2>1. Still(W, E)
    BY <1>6, StillDumps
  <2> HIDE DEF E
  <2> QED
    BY <1>6, <2>1, CalmOn
<1> HIDE DEF E
<1>8. Told(w, Did(A, {}))
  BY <1>5 DEF Told, Did
<1>9. ASSUME ~A.raised, NEW T, Still(A, T), NEW pk, pk # "reject"
      PROVE  Told(w, Did(Sent(T, t, pk), {Packet(m, t, pk)}))
  <2>1. Waits(w, T) /\ T.joinees = A.joinees
    BY <1>5, <1>9, WaitsStill DEF Still, Calm
  <2>2. Waited(w, T, t)
    BY <1>2, <1>3, <1>5, <1>9, <2>1 DEF Waited
  <2>3. Waits(w, Sent(T, t, pk))
    BY <2>1, <2>2, WaitsSent
  <2> QED
    BY <1>9, <2>3, ToldDid
<1>10. "response" # "reject" /\ "pend" # "reject"
  OBVIOUS
<1>11. ~A.raised => /\ Told(w, Did(Sent(W, t, "response"), {Packet(m, t, "response")}))
                    /\ Told(w, Did(Sent(E, t, "pend"), {Packet(m, t, "pend")}))
  BY <1>6, <1>7, <1>9, <1>10
<1> QED
  BY <1>4, <1>8, <1>11

LEMMA ToldMeets ==
  ASSUME NEW m, NEW S, NEW w, NEW u, MainReady(m, S, w, u),
         NEW p, PacketOK(p), p.se = u, p.keys = 1
  PROVE  Told(w, Meet(m, S, p, w, S.remotes[w]))
<1> DEFINE r == S.remotes[w]
           status == Status(m, S, p.keys)
           D == StatusDump(m, S, p.keys)
           y == [r EXCEPT !.acceptance = status]
           met == Update(D, w, y)
<1>1. DOMAIN S = StackFields /\ w \in Uids \ {0} /\ r.name = "peer"
  BY MainFacts
<1>2. r.fuid = p.se /\ r.keys = p.keys /\ w \in DOMAIN S.remotes /\ Waits(w, S)
  BY DEF MainReady
<1>3. Meet(m, S, p, w, r) = IF status = "rejected" THEN RemoveRemote(m, S, w)
                                                   ELSE Correspond(m, met, p, w)
  BY <1>1, <1>2 DEF Meet
<1>4. Told(w, RemoveRemote(m, S, w))
  BY <1>1, ToldRemoves DEF MainReady
<1>5. Waits(w, D)
  BY <1>2, WaitsDumps
<1> HIDE DEF D, status, y
<1>6. Waits(w, met)
  BY <1>5, WaitsDumps
<1> HIDE DEF met
<1>7. Told(w, Correspond(m, met, p, w))
  BY <1>1, <1>6, ToldCorresponds
<1> QED
  BY <1>3, <1>4, <1>7

LEMMA ToldMeetsVacuous ==
  ASSUME NEW m, NEW S, NEW w, NEW u, MainReady(m, S, w, u),
         NEW p, PacketOK(p), p.se = u, p.keys = 1, NEW uid, NEW r
  PROVE  Told(w, MeetVacuous(m, S, p, uid, r))
<1>1. "peer" \in DOMAIN S.names /\ S.names["peer"] = w /\ m \in Mains
  BY MainFacts DEF MainReady
<1>2. MeetVacuous(m, S, p, uid, r) = Meet(m, S, p, w, S.remotes[w])
  BY <1>1 DEF MeetVacuous
<1> QED
  BY <1>2, ToldMeets

LEMMA ToldJoins ==
  ASSUME NEW m, NEW S, NEW w, NEW u, MainReady(m, S, w, u),
         NEW p, PacketOK(p), p.se = u, p.keys = 1, NEW uid, NEW r,
         p.de # 0 => uid = w /\ r = S.remotes[w]
  PROVE  Told(w, Join(m, S, p, uid, r))
<1> DEFINE joins == Joins(S, uid)
           j == CHOOSE t \in joins : TRUE
           V == Remove(S, j)
           refused == \E t \in joins : t.rmt \/ Yields(m, p, t)
           free == IF joins = {} THEN S ELSE V
           done == IF p.de = 0 THEN MeetVacuous(m, free, p, uid, r) ELSE Meet(m, free, p, uid, r)
           told == {Packet(m, t, "refuse") : t \in joins}
<1>1. Join(m, S, p, uid, r) =
        IF refused THEN Refused(m, S, p, uid, "refuse") ELSE Did(done.st, done.out \cup told)
  BY DEF Join
<1>2. refused => Told(w, Refused(m, S, p, uid, "refuse"))
  <2>1. refused => uid = w
    BY DEF Joins, MainReady, Waits
  <2>2. "refuse" # "reject" /\ Waits(w, S)
    BY DEF MainReady
  <2> HIDE DEF refused
  <2>3. Told(w, Refused(m, S, p, w, "refuse"))
    BY <2>2, WaitsRefused
  <2> QED
    BY <2>1, <2>3
<1>3. \A q \in told : q.pk # "reject"
  BY PacketFields
<1>4. MainReady(m, free, w, u) /\ free.remotes = S.remotes
  <2>1. CASE joins = {}
    BY <2>1
  <2>2. CASE joins # {}
    <3>1. j \in S.trans
      BY <2>2 DEF Joins
    <3> HIDE DEF j
    <3>2. Waits(w, V)
      BY <3>1, WaitsRemoved DEF MainReady
    <3>3. Sound(m, V) /\ V.remotes = S.remotes
      BY Removed DEF Keeps, MainReady
    <3> HIDE DEF V
    <3> QED
      BY <2>2, <3>2, <3>3 DEF MainReady
  <2> QED
    BY <2>1, <2>2
<1> HIDE DEF refused, free, told, joins
<1>5. Told(w, done)
  <2>1. Told(w, MeetVacuous(m, free, p, uid, r))
    BY <1>4, ToldMeetsVacuous
  <2>2. p.de # 0 => Told(w, Meet(m, free, p, uid, r))
    <3>1. Told(w, Meet(m, free, p, w, free.remotes[w]))
      BY <1>4, ToldMeets
    <3> QED
      BY <1>4, <3>1
  <2> QED
    BY <2>1, <2>2
<1> HIDE DEF done
<1>6. Told(w, Did(done.st, done.out \cup told))
  BY <1>3, <1>5 DEF Told, Did
<1> QED
  BY <1>1, <1>2, <1>6

(* A packet of the other stack, whose remote is u. *)
OfRemote(p, u) ==
  /\ PacketOK(p) /\ (~p.cf => p.se = u)
  /\ p.pk = "request" => p.keys = 1
  /\ p.pk = "response" => p.uid = u /\ p.keys = 1

LEMMA ToldTransacts ==
  ASSUME NEW m, NEW S, NEW w, NEW u, MainReady(m, S, w, u), NEW p, OfRemote(p, u), NEW uid,
         ~p.cf => uid = w
  PROVE  Told(w, Transact(m, S, p, uid))
<1> DEFINE found == {t \in Joins(S, uid) : Index(t) = RxIndex(p)}
           t == CHOOSE y \in found : TRUE
           out == IF p.pk \notin Nacks /\ p.de \in DOMAIN S.remotes
                  THEN {Answer(m, p, "nack")} ELSE {}
<1>1. CASE found # {}
  <2>1. t \in found
    BY <1>1
  <2> HIDE DEF t
  <2>2. t \in S.trans
    BY <2>1 DEF Joins
  <2>3. Transact(m, S, p, uid) = IF t.rmt THEN JoinentReceive(m, S, t, p)
                                          ELSE JoinerReceive(m, S, t, p)
    BY <1>1 DEF Transact, t
  <2>4. p.pk = "response" => p.uid = u /\ p.keys = 1
    BY DEF OfRemote
  <2>5. /\ ~t.rmt => Told(w, JoinerReceive(m, S, t, p))
        /\ Told(w, JoinentReceive(m, S, t, p))
    BY <2>2, <2>4, ToldJoinerReceives
  <2> QED
    BY <2>3, <2>5
<1>4. Waits(w, S)
  BY DEF MainReady
<1>2. CASE found = {} /\ p.cf
  <2>1. Transact(m, S, p, uid) = Did(S, out)
    BY <1>2 DEF Transact
  <2>2. \A q \in out : q.pk # "reject"
    BY AnswerFields
  <2> HIDE DEF out
  <2> QED
    BY <1>4, <2>1, <2>2 DEF Told, Did
<1>3. CASE found = {} /\ ~p.cf
  <2>1. Transact(m, S, p, uid) = IF p.pk = "request" THEN Join(m, S, p, uid, Remote(S, uid))
                                                     ELSE Did(S, {})
    BY <1>3 DEF Transact
  <2>2. CASE p.pk = "request"
    <3>1. uid = w /\ p.se = u /\ p.keys = 1 /\ PacketOK(p) /\ Remote(S, uid) = S.remotes[w]
      BY <1>3, <2>2 DEF OfRemote, Remote, MainReady
    <3>2. Told(w, Join(m, S, p, uid, Remote(S, uid)))
      BY <3>1, ToldJoins
    <3> QED
      BY <2>1, <2>2, <3>2
  <2>3. CASE p.pk # "request"
    BY <1>4, <2>1, <2>3 DEF Told, Did
  <2> QED
    BY <2>2, <2>3
<1> QED
  BY <1>1, <1>2, <1>3

(* processRx of the main stack. *)
LEMMA ToldReceives ==
  ASSUME NEW m, NEW S, NEW w, NEW u, MainReady(m, S, w, u), NEW p, OfRemote(p, u),
         p.cf \/ p.de \in DOMAIN S.remotes \/ HasUid(S)
  PROVE  Told(w, ProcessRx(m, S, p))
<1> DEFINE uid == NextUid(S)
           fresh == [S EXCEPT !.puid = uid]
           out == IF p.pk \in Nacks \ {"renew"} THEN {} ELSE {Answer(m, p, "renew")}
<1>1. /\ Sound(m, S) /\ Waits(w, S) /\ DOMAIN S.remotes = {w} /\ S.remotes[w].fuid = u
      /\ w \in Uids \ {0} /\ S.joinees \in {0, w}
  BY MainFacts DEF MainReady, Waits
<1>2. CASE p.cf
  <2>1. Told(w, Did(S, {}))
    BY <1>1 DEF Told, Did
  <2>2. \A v : Told(w, Transact(m, S, p, v))
    BY <1>2, ToldTransacts
  <2> QED
    BY <1>2, <2>1, <2>2 DEF ProcessRx, FromJoinent
<1>3. CASE ~p.cf
  <2>1. p.se = u
    BY <1>3 DEF OfRemote
  <2>2. ~(S.joinees # 0 /\ Remote(S, S.joinees).fuid \notin {0, p.se})
    BY <1>1, <2>1 DEF Remote
  <2>3. ProcessRx(m, S, p) =
          CASE p.de = 0 /\ S.joinees # 0 -> Transact(m, S, p, S.joinees)
            [] p.de = 0 /\ S.joinees = 0 ->
                 IF p.pk = "request" THEN Join(m, fresh, p, uid, NewRemote) ELSE Did(S, {})
            [] p.de # 0 /\ p.de \in DOMAIN S.remotes -> Transact(m, S, p, p.de)
            [] OTHER -> Did(fresh, out)
    BY <1>3, <2>2 DEF ProcessRx, FromJoiner
  <2>4. Told(w, Transact(m, S, p, w))
    BY ToldTransacts
  <2>5. CASE p.de = 0 /\ S.joinees # 0
    BY <1>1, <2>3, <2>4, <2>5
  <2>6. CASE p.de = 0 /\ S.joinees = 0
    <3>1. Told(w, Did(S, {}))
      BY <1>1 DEF Told, Did
    <3>2. uid \in Uids \ {0}
      BY <1>1, <1>3, <2>6, NewUid
    <3> HIDE DEF uid
    <3>3. MainReady(m, fresh, w, u)
      <4>1. Sound(m, fresh) /\ fresh.remotes = S.remotes
        BY <1>1, <3>2, PuidSet DEF Keeps
      <4>2. Waits(w, fresh)
        BY <1>1, WaitsDumps
      <4> HIDE DEF fresh
      <4> QED
        BY <4>1, <4>2 DEF MainReady
    <3> HIDE DEF fresh
    <3>4. p.pk = "request" => Told(w, Join(m, fresh, p, uid, NewRemote))
      <4>1. p.pk = "request" => p.keys = 1 /\ PacketOK(p)
        BY DEF OfRemote
      <4> QED
        BY <2>1, <2>6, <3>3, <4>1, ToldJoins
    <3> QED
      BY <2>3, <2>6, <3>1, <3>4
  <2>7. CASE p.de # 0 /\ p.de \in DOMAIN S.remotes
    BY <1>1, <2>3, <2>4, <2>7
  <2>8. CASE p.de # 0 /\ p.de \notin DOMAIN S.remotes
    <3>1. ProcessRx(m, S, p) = Did(fresh, out)
      BY <2>3, <2>8
    <3>2. \A q \in out : q.pk # "reject"
      BY AnswerFields
    <3>3. Waits(w, fresh)
      BY <1>1, WaitsDumps
    <3> HIDE DEF fresh, out
    <3> QED
      BY <3>1, <3>2, <3>3 DEF Told, Did
  <2> QED
    BY <2>5, <2>6, <2>7, <2>8
<1> QED
  BY <1>2, <1>3

(* The other operations of the main stack with its remote. *)
LEMMA ToldAsks ==
  ASSUME NEW m, NEW S, NEW w, NEW u, MainReady(m, S, w, u)
  PROVE  Told(w, StartJoin(m, S, w, FALSE))
<1> DEFINE r == S.remotes[w]
           t == [rmt |-> FALSE, uid |-> w, le |-> w, re |-> r.fuid, ti |-> r.tid + 1,
                 vacuous |-> r.fuid = 0, renewal |-> FALSE, tx |-> "request"]
           y == [r EXCEPT !.tid = @ + 1]
           z == [r EXCEPT !.tid = @ + 1, !.joined = FALSE]
           A == Update(S, w, y)
           B == Update(A, w, z)
           C == Add(B, t)
<1>1. Waits(w, S) /\ w # 0
  BY MainFacts DEF MainReady
<1>2. StartJoin(m, S, w, FALSE) =
        IF Joins(S, w) # {} THEN Did(A, {}) ELSE Did(C, {Packet(m, t, "request")})
  BY DEF StartJoin
<1>3. t.uid = w /\ (t.rmt /\ t.le = 0 => t.vacuous)
  OBVIOUS
<1> HIDE DEF y, z, t
<1>4. Waits(w, A)
  BY <1>1, WaitsDumps
<1> HIDE DEF A
<1>5. Waits(w, B)
  BY <1>4, WaitsDumps
<1> HIDE DEF B
<1>6. Waits(w, C)
  BY <1>1, <1>3, <1>5, WaitsAdded
<1> HIDE DEF C
<1>7. "request" # "reject"
  OBVIOUS
<1>8. Told(w, Did(A, {})) /\ Told(w, Did(C, {Packet(m, t, "request")}))
  BY <1>4, <1>6, <1>7, ToldDid
<1> QED
  BY <1>2, <1>8

LEMMA ToldTimesOut ==
  ASSUME NEW m, NEW S, NEW w, NEW u, MainReady(m, S, w, u), NEW t \in S.trans
  PROVE  Told(w, IF t.rmt THEN Nack(m, S, t, "nack") ELSE Did(Remove(S, t), {}))
<1>1. Waits(w, S) /\ t \in Transactions
  BY MainFacts DEF MainReady
<1>2. "nack" # "reject"
  OBVIOUS
<1>3. Told(w, Nack(m, S, t, "nack")) /\ Told(w, Did(Remove(S, t), {}))
  <2>1. Waits(w, Remove(S, t))
    BY <1>1, WaitsRemoved
  <2> QED
    BY <1>2, <2>1, ToldDid DEF Nack
<1>4. CASE t.rmt
  BY <1>3, <1>4
<1>5. CASE ~t.rmt
  BY <1>3, <1>5
<1> QED
  BY <1>4, <1>5

LEMMA ToldResends ==
  ASSUME NEW m, NEW S, NEW w, NEW u, MainReady(m, S, w, u), NEW t \in S.trans
  PROVE  Told(w, Did(S, {Packet(m, t, t.tx)}))
<1>1. Waits(w, S) /\ t \in Transactions
  BY MainFacts DEF MainReady
<1>2. t.tx # "reject"
  BY <1>1 DEF Transactions
<1> QED
  BY <1>1, <1>2, ToldDid

LEMMA ToldRedoes ==
  ASSUME NEW m, NEW S, NEW w, NEW u, MainReady(m, S, w, u), NEW t \in S.trans,
         NEW status, NEW D,
         D = [StatusDump(m, S, S.remotes[t.uid].keys) EXCEPT !.remotes[t.uid].acceptance = status]
  PROVE  /\ Told(w, AckAccept(m, D, t)) /\ Told(w, Completify(m, D, t))
         /\ Told(w, RemoveRemote(m, D, t.uid)) /\ Told(w, Did(D, {}))
<1> DEFINE A == StatusDump(m, S, S.remotes[t.uid].keys)
<1>1. /\ Waits(w, S) /\ t \in Transactions /\ t.uid = w /\ DOMAIN S = StackFields
      /\ DOMAIN S.remotes = {w}
  BY MainFacts DEF MainReady
<1>2. Still(S, A) /\ DOMAIN A = StackFields /\ A.remotes = S.remotes
  BY <1>1, StillDumps, CalmOn DEF StatusDump, StackFields
<1>3. D = [A EXCEPT !.remotes[w].acceptance = status]
  BY <1>1
<1> HIDE DEF A
<1>4. Still(A, D) /\ DOMAIN D = StackFields
  BY <1>2, <1>3, StillRemotes, CalmOn
<1>5. DOMAIN D.remotes = {w}
  BY <1>1, <1>2, <1>3 DEF StackFields
<1>6. Still(S, D)
  BY <1>2, <1>4, CalmOn
<1>7. Waits(w, D) /\ t \in D.trans
  BY <1>1, <1>6, WaitsStill DEF Still, Calm
<1>8. "response" # "reject"
  OBVIOUS
<1>9. Told(w, Did(Sent(D, t, "response"), {Packet(m, t, "response")})) /\ Told(w, Did(D, {}))
  BY <1>1, <1>6, <1>8, ToldStill
<1>10. Told(w, Completify(m, D, t))
  BY <1>1, <1>7, ToldCompletes
<1>11. Told(w, RemoveRemote(m, D, w))
  BY <1>4, <1>5, ToldRemoves
<1> QED
  BY <1>1, <1>9, <1>10, <1>11 DEF AckAccept

LEMMA ToldJudged ==
  ASSUME NEW m, NEW S, NEW w, NEW u, MainReady(m, S, w, u), NEW uid, NEW status, NEW K
  PROVE  Told(w, Did([S EXCEPT !.remotes[uid].acceptance = status, !.role = K], {}))
<1> DEFINE A == [S EXCEPT !.remotes[uid].acceptance = status]
           T == [A EXCEPT !.role = K]
<1>1. [S EXCEPT !.remotes[uid].acceptance = status, !.role = K] = T
  OBVIOUS
<1>2. Waits(w, A)
  BY WaitsDumps DEF MainReady
<1> HIDE DEF A
<1>3. Waits(w, T)
  BY <1>2, WaitsDumps
<1> HIDE DEF T
<1> QED
  BY <1>1, <1>3 DEF Told, Did

-----------------------------------------------------------------------------
(* The main stack before it has a remote. *)

MainVacant(m, S) ==
  /\ m \in Stacks /\ m \in Mains /\ m \notin Mutables /\ m \notin Creators
  /\ Sound(m, S) /\ DOMAIN S.remotes = {} /\ S.role.acceptance = "none" /\ S.joinees = 0

(* It may have made the remote that p is from. *)
Starts(p, d) ==
  /\ IF DOMAIN d.st.remotes = {}
     THEN d.st.role.acceptance = "none" /\ d.st.joinees = 0
     ELSE \A v \in DOMAIN d.st.remotes :
            /\ d.st.remotes[v].fuid = p.se /\ d.st.remotes[v].keys = 1
            /\ Waits(v, d.st)
  /\ \A q \in d.out : q.pk # "reject"

LEMMA VacantFacts ==
  ASSUME NEW m, NEW S, MainVacant(m, S)
  PROVE  /\ S.trans = {} /\ DOMAIN S.names = {} /\ DOMAIN S = StackFields /\ Shape(S)
         /\ S.role \in RoleRecords /\ S.role.acceptance = "none" /\ S.joinees = 0
         /\ DOMAIN S.remotes = {}
<1>1. /\ Core(m, S.remotes, S.names, S.trans, S.files, S.role) /\ DOMAIN S = StackFields
      /\ S.role \in RoleRecords /\ DOMAIN S.remotes = {}
  BY SoundFields DEF MainVacant
<1>2. S.trans = {} /\ DOMAIN S.names = {}
  BY <1>1 DEF Core
<1> QED
  BY <1>1, <1>2 DEF Shape, Lone, MainVacant

LEMMA StartsCorresponding ==
  ASSUME NEW m, NEW B, Shape(B), NEW uid \in Uids \ {0}, DOMAIN B.remotes = {uid},
         Waits(uid, B), NEW p, PacketOK(p), B.remotes[uid].fuid = p.se, B.remotes[uid].keys = 1
  PROVE  Starts(p, Correspond(m, B, p, uid))
<1> DEFINE d == Correspond(m, B, p, uid)
<1>1. Told(uid, d)
  BY ToldCorresponds
<1>2. \E t, T : Corresponding(m, B, p, uid, t, T)
  BY Corresponds
<1>3. PICK t, T : Corresponding(m, B, p, uid, t, T)
  BY <1>2
<1>4. Follows(B, T, t) /\ DOMAIN T = StackFields
  BY <1>3 DEF Corresponding, Follows, Shape
<1>5. \A pk : Sent(T, t, pk).remotes = T.remotes
  BY <1>4 DEF Sent, StackFields
<1>6. d.st.remotes = T.remotes
  <2>1. d = Did(T, {}) \/ \E pk \in {"pend", "response"} : d = Did(Sent(T, t, pk), {Packet(m, t, pk)})
    BY <1>3 DEF Corresponding
  <2> HIDE DEF d
  <2> QED
    BY <1>5, <2>1 DEF Did
<1> HIDE DEF d
<1>7. DOMAIN d.st.remotes = {uid} /\ d.st.remotes[uid].fuid = p.se /\ d.st.remotes[uid].keys = 1
  BY <1>4, <1>6 DEF Follows
<1> QED
  BY <1>1, <1>7 DEF Told, Starts, d

LEMMA StartsMeeting ==
  ASSUME NEW m, NEW S, MainVacant(m, S), NEW p, PacketOK(p), p.keys = 1,
         NEW uid \in Uids \ {0}, NEW r \in Remotes, r.name = "peer", r.fuid = p.se, r.keys = 1
  PROVE  Starts(p, Meet(m, S, p, uid, r))
<1> DEFINE status == Status(m, S, p.keys)
           D == StatusDump(m, S, p.keys)
           q == [r EXCEPT !.acceptance = status]
           met == Update(D, uid, q)
           A == [met EXCEPT !.names = Put(@, "peer", uid)]
           R == Put(S.remotes, uid, q)
           N == Put(S.names, "peer", uid)
           K == Persisted(AutoMode[m], S.role, p.keys)
           B == [S EXCEPT !.role = K, !.remotes = R, !.names = N]
<1>1. /\ S.trans = {} /\ DOMAIN S.names = {} /\ DOMAIN S = StackFields /\ Shape(S)
      /\ S.role \in RoleRecords /\ S.role.acceptance = "none" /\ S.joinees = 0
      /\ DOMAIN S.remotes = {} /\ m \in Stacks /\ 1 \in KeyGens
  BY VacantFacts, Ids DEF MainVacant
<1>2. status \in Statuses /\ status # "rejected"
  <2>1. status = FirstStatus(AutoMode[m])
    BY <1>1 DEF Status, StatusRole
  <2> QED
    BY <2>1 DEF FirstStatus, Statuses
<1>3. Meet(m, S, p, uid, r) = Correspond(m, A, p, uid)
  BY <1>1, <1>2 DEF Meet
<1>4. q \in Remotes
  <2> HIDE DEF status
  <2> QED
    BY <1>2, RemoteRecord
<1>5. q.name = "peer" /\ q.fuid = p.se /\ q.keys = 1
  BY DEF Remotes
<1> HIDE DEF q
<1>6. A = B
  BY <1>1 DEF StatusDump, Update, StackFields
<1>7. DOMAIN R = {uid} /\ R[uid] = q /\ DOMAIN N = {"peer"} /\ N["peer"] = uid
  BY <1>1 DEF Put
<1> HIDE DEF R, N, K, A, D, status
<1>8. /\ DOMAIN B = StackFields /\ B.remotes = R /\ B.names = N /\ B.trans = {} /\ B.joinees = 0
  BY <1>1 DEF StackFields
<1> HIDE DEF B
<1>9. Shape(B)
  BY <1>4, <1>5, <1>7, <1>8 DEF Shape, Lone
<1>10. Waits(uid, B)
  BY <1>8 DEF Waits
<1>11. Starts(p, Correspond(m, B, p, uid))
  BY <1>5, <1>7, <1>8, <1>9, <1>10, StartsCorresponding
<1> QED
  BY <1>3, <1>6, <1>11

LEMMA StartsJoining ==
  ASSUME NEW m, NEW S, MainVacant(m, S), NEW p, PacketOK(p), p.keys = 1, p.de = 0,
         NEW uid \in Uids \ {0}
  PROVE  Starts(p, Join(m, S, p, uid, NewRemote))
<1> DEFINE taken == [NewRemote EXCEPT !.name = "peer", !.keys = p.keys,
                                      !.fuid = IF @ = 0 THEN p.se ELSE @]
           d == MeetVacuous(m, S, p, uid, NewRemote)
           joins == Joins(S, uid)
<1>1. /\ S.trans = {} /\ DOMAIN S.names = {} /\ DOMAIN S.remotes = {} /\ S.joinees = 0
      /\ m \in Mains
  BY VacantFacts DEF MainVacant
<1>2. joins = {}
  BY <1>1 DEF Joins
<1>3. Join(m, S, p, uid, NewRemote) = Did(d.st, d.out)
  <2>1. Join(m, S, p, uid, NewRemote) =
          Did(d.st, d.out \cup {Packet(m, t, "refuse") : t \in joins})
    BY <1>2 DEF Join
  <2>2. {Packet(m, t, "refuse") : t \in joins} = {}
    BY <1>2
  <2> HIDE DEF d, joins
  <2> QED
    BY <2>1, <2>2
<1>4. d = IF taken.fuid = p.se THEN Meet(m, S, p, uid, taken)
                               ELSE Refused(m, S, p, uid, "reject")
  <2> HIDE DEF taken
  <2> QED
    BY <1>1 DEF MeetVacuous, taken
<1>5. taken \in Remotes /\ taken.name = "peer" /\ taken.fuid = p.se /\ taken.keys = 1
  <2> DEFINE a == [NewRemote EXCEPT !.name = "peer"]
             b == [a EXCEPT !.keys = p.keys]
             c == [b EXCEPT !.fuid = p.se]
  <2>1. NewRemote \in Remotes /\ NewRemote.fuid = 0
    BY NewRemoteType
  <2>2. p.se \in Uids /\ p.keys \in KeyGens /\ "peer" \in Names
    BY DEF PacketOK, Packets, Names
  <2>3. taken = c
    BY <2>1 DEF Remotes
  <2>4. a \in Remotes
    BY <2>1, <2>2, RemoteRecord
  <2>5. a.name = "peer"
    BY <2>1 DEF Remotes
  <2> HIDE DEF a
  <2>6. b \in Remotes
    BY <2>2, <2>4, RemoteRecord
  <2>7. b.name = "peer" /\ b.keys = 1
    BY <2>4, <2>5 DEF Remotes
  <2> HIDE DEF b
  <2>8. c \in Remotes
    BY <2>2, <2>6, RemoteRecord
  <2>9. c.name = "peer" /\ c.keys = 1 /\ c.fuid = p.se
    BY <2>6, <2>7 DEF Remotes
  <2> QED
    BY <2>3, <2>8, <2>9
<1> HIDE DEF taken
<1>6. Starts(p, Meet(m, S, p, uid, taken))
  BY <1>5, StartsMeeting
<1> HIDE DEF d
<1>7. Starts(p, d)
  BY <1>4, <1>5, <1>6
<1> QED
  BY <1>3, <1>7 DEF Starts, Did

(* processRx of the main stack. *)
LEMMA StartsReceiving ==
  ASSUME NEW m, NEW S, MainVacant(m, S), NEW p, PacketOK(p), p.pk = "request" => p.keys = 1,
         p.cf \/ HasUid(S)
  PROVE  /\ Starts(p, ProcessRx(m, S, p))
         /\ p.cf => DOMAIN ProcessRx(m, S, p).st.remotes = {}
<1> DEFINE uid == NextUid(S)
           fresh == [S EXCEPT !.puid = uid]
           out == IF p.pk \in Nacks \ {"renew"} THEN {} ELSE {Answer(m, p, "renew")}
<1>1. /\ S.trans = {} /\ DOMAIN S.remotes = {} /\ S.joinees = 0 /\ DOMAIN S = StackFields
      /\ S.role.acceptance = "none"
  BY VacantFacts
<1>2. Starts(p, Did(S, {}))
  BY <1>1 DEF Starts, Did
<1>3. CASE p.cf
  <2>1. \A v : Transact(m, S, p, v) = Did(S, {})
    <3> SUFFICES ASSUME NEW v PROVE Transact(m, S, p, v) = Did(S, {})
      OBVIOUS
    <3>1. Joins(S, v) = {}
      BY <1>1 DEF Joins
    <3> QED
      BY <1>1, <1>3, <3>1 DEF Transact
  <2>2. ProcessRx(m, S, p) = Did(S, {})
    BY <1>3, <2>1 DEF ProcessRx, FromJoinent
  <2> QED
    BY <1>1, <1>2, <2>2 DEF Did
<1>4. CASE ~p.cf
  <2>1. ProcessRx(m, S, p) =
          IF p.de = 0
          THEN IF p.pk = "request" THEN Join(m, fresh, p, uid, NewRemote) ELSE Did(S, {})
          ELSE Did(fresh, out)
    BY <1>1, <1>4 DEF ProcessRx, FromJoiner
  <2>2. uid \in Uids \ {0}
    BY <1>4, NewUid
  <2> HIDE DEF uid
  <2>3. MainVacant(m, fresh)
    <3>1. Sound(m, fresh) /\ fresh.remotes = S.remotes
      BY <2>2, PuidSet DEF Keeps, MainVacant
    <3>2. fresh.role = S.role /\ fresh.joinees = S.joinees
      BY <1>1 DEF StackFields
    <3> HIDE DEF fresh
    <3> QED
      BY <3>1, <3>2 DEF MainVacant
  <2> HIDE DEF fresh
  <2>4. p.pk = "request" /\ p.de = 0 => Starts(p, Join(m, fresh, p, uid, NewRemote))
    BY <2>2, <2>3, StartsJoining
  <2>5. Starts(p, Did(fresh, out))
    <3>1. \A q \in out : q.pk # "reject"
      BY AnswerFields
    <3> HIDE DEF out
    <3> QED
      BY <2>3, <3>1 DEF Starts, Did, MainVacant
  <2> HIDE DEF out
  <2> QED
    BY <1>2, <1>4, <2>1, <2>4, <2>5
<1> QED
  BY <1>3, <1>4

-----------------------------------------------------------------------------
(* The pair, where the stack that is asked takes vacuous joins and no outside *)
(* entity judges the role for the stack that asks.                            *)

Couple(m) == Pair(m) /\ m \in Mains /\ Other(m) \notin Outsiders

(* What the main stack M has of the other, X. *)
Expects(M, X) ==
  IF DOMAIN M.remotes = {}
  THEN M.role.acceptance = "none" /\ M.joinees = 0
  ELSE \A w \in DOMAIN M.remotes :
         /\ M.remotes[w].fuid \in DOMAIN X.remotes /\ M.remotes[w].keys = 1
         /\ Waits(w, M)

Settled(m, M, X) ==
  /\ Trusting(X) /\ Expects(M, X)
  /\ \A p \in net : IF p.to = m THEN Sourced(p, X) ELSE p.pk # "reject"

(* What holds of them until one is started again. *)
Steady(m) == Unbroken =>
  /\ \A s \in Stacks : ~stack[s].raised
  /\ Closed(m, stack[m]) \/ Settled(m, stack[m], stack[Other(m)])

MainFine(X, d) == Expects(d.st, X) /\ \A q \in d.out : q.pk # "reject"

LEMMA CoupleCases ==
  ASSUME IInv, NEW m, Couple(m), Steady(m), Open(m)
  PROVE  \/ MainVacant(m, stack[m])
         \/ \E w : MainReady(m, stack[m], w, stack[m].remotes[w].fuid)
<1> DEFINE M == stack[m]
<1>1. m \in Stacks /\ m \in Mains /\ m \notin Mutables /\ m \notin Creators
  BY DEF Couple, Pair
<1>2. Sound(m, M)
  BY <1>1, AllKeyed
<1>3. Expects(M, stack[Other(m)])
  BY DEF Steady, Settled, Open
<1>4. CASE DOMAIN M.remotes = {}
  <2>1. MainVacant(m, M)
    BY <1>1, <1>2, <1>3, <1>4 DEF MainVacant, Expects
  <2> QED
    BY <2>1
<1>5. ASSUME NEW w \in DOMAIN M.remotes
      PROVE  MainReady(m, M, w, M.remotes[w].fuid)
  <2>1. DOMAIN M.remotes = {w}
    <3>1. Lone(M)
      BY <1>1, <1>2, SoundShape
    <3> QED
      BY <1>5, <3>1 DEF Lone
  <2>2. M.remotes[w].keys = 1 /\ Waits(w, M)
    BY <1>3, <1>5 DEF Expects
  <2> QED
    BY <1>1, <1>2, <2>1, <2>2 DEF MainReady
<1> QED
  BY <1>4, <1>5

(* Its remote stays, and waits, unless it is removed for good. *)
LEMMA MainKeeps ==
  ASSUME IInv, IInv', FixedRoads, NEW m, Couple(m), Steady(m), Open(m),
         NEW d, NEW path, Happens(m, d, path),
         AskedFine(m, stack[m], stack[Other(m)], d),
         NEW w, MainReady(m, stack[m], w, stack[m].remotes[w].fuid), Told(w, d)
  PROVE  Closed(m, d.st) \/ MainFine(stack[Other(m)], d)
<1> DEFINE M == stack[m]
           X == stack[Other(m)]
<1>1. m \in Stacks /\ m \notin Mutables /\ m \notin Creators /\ Fixed(m)
  BY DEF Couple, Pair, Fixed
<1>2. stack'[m] = d.st
  BY <1>1 DEF Happens, IInv
<1>3. DOMAIN M.remotes = {w} /\ M.remotes[w].keys = 1
  BY DEF MainReady
<1>4. M.remotes[w].fuid \in DOMAIN X.remotes
  BY <1>3 DEF Steady, Settled, Open, Expects
<1>5. CASE Kept(M, d.st)
  <2>1. w \in DOMAIN d.st.remotes /\ d.st.remotes[w].fuid = M.remotes[w].fuid
    BY <1>3, <1>5 DEF Kept
  <2>2. DOMAIN d.st.remotes = {w}
    <3>1. Sound(m, d.st)
      BY <1>1, <1>2 DEF IInv
    <3>2. Lone(d.st)
      BY <1>1, <3>1, SoundShape
    <3> QED
      BY <2>1, <3>2 DEF Lone
  <2>3. d.st.remotes[w].keys = 1
    BY <1>1, <1>2, <1>3, <2>1 DEF FixedRoads, SameRemotes
  <2>4. Waits(w, d.st)
    BY <2>2 DEF Told
  <2>5. Expects(d.st, X)
    BY <1>4, <2>1, <2>2, <2>3, <2>4 DEF Expects
  <2> QED
    BY <2>5 DEF MainFine, Told
<1> QED
  BY <1>5 DEF AskedFine

LEMMA SteadyTurns ==
  ASSUME IInv, NEW m, Couple(m), Steady(m), Unbroken,
         NEW s \in Stacks, NEW d, NEW path \in SUBSET net, Happens(s, d, path),
         ~stack[s].raised => Calm(stack[s], d.st),
         s = m /\ Closed(m, stack[m]) => Closed(m, d.st),
         s = m /\ Open(m) => /\ AskedFine(m, stack[m], stack[Other(m)], d)
                             /\ Closed(m, d.st) \/ MainFine(stack[Other(m)], d),
         s = Other(m) /\ Open(m) => /\ AskerFine(s, stack[s], stack[m], d)
                                    /\ TrustingFine(stack[s], d)
  PROVE  Steady(m)'
<1> DEFINE x == Other(m)
           M == stack[m]
           X == stack[x]
<1>1. /\ DOMAIN stack = Stacks /\ stack' = [stack EXCEPT ![s] = d.st]
      /\ net' = path \cup d.out /\ path \subseteq net
  BY DEF IInv, Happens
<1>2. m \in Stacks /\ x \in Stacks /\ x # m /\ Other(x) = m /\ (s = m \/ s = x)
  BY PairOf DEF Couple, Pair
<1>3. \A v \in Stacks : ~stack'[v].raised
  <2>1. \A v \in Stacks : ~stack[v].raised
    BY DEF Steady
  <2>2. ~d.st.raised
    BY <2>1 DEF Calm
  <2> QED
    BY <1>1, <2>1, <2>2
<1>4. Closed(m, stack'[m]) \/ Settled(m, stack[m], stack[x])'
  <2>1. CASE Closed(m, M)
    BY <1>1, <1>2, <2>1
  <2>2. CASE Open(m)
    <3>1. /\ Trusting(X) /\ Expects(M, X)
          /\ \A p \in net : IF p.to = m THEN Sourced(p, X) ELSE p.pk # "reject"
      BY <2>2 DEF Steady, Settled, Open
    <3>2. CASE s = m
      <4>1. stack'[m] = d.st /\ stack'[x] = X
        BY <1>1, <1>2, <3>2
      <4>2. CASE Closed(m, d.st)
        BY <4>1, <4>2
      <4>3. CASE ~Closed(m, d.st)
        <5>1. Expects(d.st, X) /\ \A p \in d.out : p.to = x /\ p.pk # "reject"
          BY <2>2, <3>2, <4>3 DEF AskedFine, MainFine
        <5>2. \A p \in net' : IF p.to = m THEN Sourced(p, X) ELSE p.pk # "reject"
          BY <1>1, <1>2, <3>1, <5>1
        <5> QED
          BY <3>1, <4>1, <5>1, <5>2 DEF Settled
      <4> QED
        BY <4>2, <4>3
    <3>3. CASE s = x
      <4>1. stack'[x] = d.st /\ stack'[m] = M
        BY <1>1, <1>2, <3>3
      <4>2. /\ Trusting(d.st) /\ DOMAIN X.remotes \subseteq DOMAIN d.st.remotes
            /\ \A p \in d.out : p.to = m /\ Sourced(p, d.st)
        BY <1>2, <2>2, <3>3 DEF AskerFine, TrustingFine
      <4>3. Expects(M, d.st)
        BY <3>1, <4>2 DEF Expects
      <4>4. \A p \in net : IF p.to = m THEN Sourced(p, d.st) ELSE p.pk # "reject"
        BY <3>1, <4>2 DEF Sourced
      <4>5. \A p \in net' : IF p.to = m THEN Sourced(p, d.st) ELSE p.pk # "reject"
        BY <1>1, <4>2, <4>4
      <4> QED
        BY <4>1, <4>2, <4>3, <4>5 DEF Settled
    <3> QED
      BY <1>2, <3>2, <3>3
  <2> QED
    BY <2>1, <2>2 DEF Open
<1> QED
  BY <1>3, <1>4 DEF Steady, Closed

(* What the main stack and the other know of a packet in flight. *)
LEMMA MainHears ==
  ASSUME IInv, NEW m, Couple(m), Linked(m), Steady(m), Open(m), NEW p \in net, p.to = m,
         NEW w, NEW u, MainReady(m, stack[m], w, u)
  PROVE  OfRemote(p, u) /\ (~p.cf => Expected(stack[m], p))
<1> DEFINE M == stack[m]
           X == stack[Other(m)]
<1>1. /\ PacketOK(p) /\ ToAsked(p, M, X) /\ Asker(X, M)
      /\ Sourced(p, X) /\ Expects(M, X)
  BY PairReady DEF IInv, Couple, Steady, Settled, Open, AskerReady
<1>2. /\ DOMAIN M.remotes = {w} /\ M.remotes[w].fuid = u /\ Waits(w, M)
  BY DEF MainReady
<1>3. u \in DOMAIN X.remotes
  BY <1>1, <1>2 DEF Expects
<1>4. \A v \in DOMAIN X.remotes : v = u
  BY <1>1, <1>3 DEF Asker, AskerRemotes, Lone
<1>5. OfRemote(p, u)
  BY <1>1, <1>4 DEF OfRemote, Sourced, ToAsked
<1>6. ASSUME ~p.cf
      PROVE  Expected(M, p)
  <2>1. M.joinees # 0 => Remote(M, M.joinees).fuid \in {0, p.se}
    <3>1. M.joinees \in {0, w}
      BY <1>2 DEF Waits
    <3>2. p.se = u
      BY <1>5, <1>6 DEF OfRemote
    <3> QED
      BY <1>2, <3>1, <3>2 DEF Remote
  <2>2. \A y \in M.trans : y.rmt /\ y.le = 0 => y.uid = M.joinees
    BY <1>2 DEF Waits
  <2> QED
    BY <2>1, <2>2 DEF Expected
<1> QED
  BY <1>5, <1>6

LEMMA OtherHears ==
  ASSUME IInv, NEW m, Couple(m), Linked(m), Steady(m), Open(m)
  PROVE  /\ Keyer(Other(m)) /\ Trusting(stack[Other(m)])
         /\ DOMAIN stack[Other(m)].remotes \subseteq Uids
         /\ \A p \in net : p.to = Other(m)
              => Trustworthy(p) /\ (p.pk = "request" => p.de # 0)
<1> DEFINE M == stack[m]
           X == stack[Other(m)]
           x == Other(m)
<1>1. x \in Stacks /\ x # m /\ x \notin Mains /\ Pair(m)
  BY PairOf DEF Couple, Pair
<1>2. AskerReady(x, X, M) /\ \A p \in net : p.to = x => ToAsker(p, M)
  BY <1>1, PairReady
<1>3. Keyer(x)
  BY <1>1, <1>2 DEF Keyer, AskerReady
<1>4. Trusting(X) /\ \A p \in net : p.to = x => p.pk # "reject"
  BY <1>1 DEF Steady, Settled, Open
<1>5. DOMAIN X.remotes \subseteq Uids
  BY <1>1, AllKeyed, SoundFields
<1>6. ASSUME NEW p \in net, p.to = x
      PROVE  Trustworthy(p) /\ (p.pk = "request" => p.de # 0)
  <2>1. PacketOK(p) /\ ToAsker(p, M) /\ p.pk # "reject" /\ Partner(M)
    BY <1>2, <1>4, <1>6 DEF IInv, AskerReady
  <2>2. Trustworthy(p)
    BY <2>1 DEF Trustworthy, ToAsker
  <2> QED
    BY <2>1, <2>2 DEF ToAsker, Met, Partner
<1> QED
  BY <1>3, <1>4, <1>5, <1>6

LEMMA ReceiveSteady ==
  ASSUME IInv, IInv', FixedRoads, NEW m, Couple(m), Linked(m), Steady(m), Unbroken,
         NEW p \in net, Receive(p)
  PROVE  Steady(m)'
<1> DEFINE s == p.to
           x == Other(m)
           d == ProcessRx(s, stack[s], p)
           path == net \ {p}
<1>1. /\ PacketOK(p) /\ s \in Stacks /\ path \in SUBSET net /\ Pair(m) /\ m \in Stacks
      /\ x \in Stacks /\ x # m /\ (s = m \/ s = x)
  BY PairOf DEF IInv, PacketOK, Packets, Couple, Pair
<1>2. /\ Up(s) /\ Happens(s, d, path)
      /\ p.cf \/ p.de \in DOMAIN stack[s].remotes \/ HasUid(stack[s])
  BY DEF Receive
<1>3. /\ s = m /\ Closed(m, stack[m]) => Shut(m, stack[m])
      /\ Sound(s, stack[s])
  BY <1>1, <1>2, PairSides
<1>4. /\ s = m /\ Open(m) => AskedFine(m, stack[m], stack[x], d)
      /\ s = x /\ Open(m) => AskerFine(s, stack[s], stack[m], d)
  BY <1>1, ReceivePaired
<1>5. s = m /\ Closed(m, stack[m]) => Closed(m, d.st)
  BY <1>3, ShutReceives
<1>6. Mains \cap Creators = {}
  BY <1>1, PairOf, ConstantsAssumption DEF Pair
<1>7. s \in Mains /\ ~p.cf => Expected(stack[s], p)
  <2>1. SUFFICES ASSUME s = m, ~p.cf PROVE Expected(stack[m], p)
    BY <1>1 DEF Pair
  <2>2. CASE Closed(m, stack[m])
    BY <1>3, <2>1, <2>2 DEF Shut, Expected
  <2>3. CASE Open(m) /\ MainVacant(m, stack[m])
    BY <2>3, VacantFacts DEF Expected
  <2>4. ASSUME Open(m), NEW w, MainReady(m, stack[m], w, stack[m].remotes[w].fuid)
        PROVE  Expected(stack[m], p)
    BY <2>1, <2>4, MainHears
  <2> QED
    BY <2>2, <2>3, <2>4, CoupleCases DEF Open
<1>8. Calm(stack[s], d.st)
  BY <1>1, <1>2, <1>3, <1>6, <1>7, CalmReceives
<1>9. ASSUME s = m, Open(m)
      PROVE  Closed(m, d.st) \/ MainFine(stack[x], d)
  <2>1. CASE MainVacant(m, stack[m])
    <3>1. /\ p.pk = "request" => p.keys = 1
          /\ ~p.cf => p.se \in DOMAIN stack[x].remotes
      BY <1>1, <1>9, PairReady DEF ToAsked, Steady, Settled, Open, Sourced
    <3>2. p.cf \/ HasUid(stack[m])
      BY <1>2, <1>9, <2>1 DEF MainVacant
    <3>3. Starts(p, d) /\ (p.cf => DOMAIN d.st.remotes = {})
      BY <1>1, <1>9, <2>1, <3>1, <3>2, StartsReceiving
    <3> HIDE DEF d
    <3> QED
      BY <3>1, <3>3 DEF Starts, MainFine, Expects
  <2>2. ASSUME NEW w, MainReady(m, stack[m], w, stack[m].remotes[w].fuid)
        PROVE  Closed(m, d.st) \/ MainFine(stack[x], d)
    <3>1. OfRemote(p, stack[m].remotes[w].fuid)
      BY <1>9, <2>2, MainHears
    <3>2. Told(w, d)
      BY <1>2, <1>9, <2>2, <3>1, ToldReceives
    <3>3. Happens(m, d, path) /\ AskedFine(m, stack[m], stack[x], d)
      BY <1>2, <1>4, <1>9
    <3> HIDE DEF d, path
    <3> QED
      BY <1>9, <2>2, <3>2, <3>3, MainKeeps
  <2> QED
    BY <1>9, <2>1, <2>2, CoupleCases
<1>10. ASSUME s = x, Open(m)
       PROVE  TrustingFine(stack[s], d)
  <2>1. /\ Keyer(x) /\ Trusting(stack[x]) /\ DOMAIN stack[x].remotes \subseteq Uids
        /\ Trustworthy(p) /\ (p.pk = "request" => p.de # 0)
    BY <1>10, OtherHears
  <2>2. TrustsFine(stack[x], ProcessRx(x, stack[x], p))
    BY <2>1, TrustsReceives
  <2> QED
    BY <1>10, <2>2, TrustsThenFine
<1> HIDE DEF s, d, path
<1> QED
  BY <1>1, <1>2, <1>4, <1>5, <1>8, <1>9, <1>10, SteadyTurns

LEMMA LoseSteady ==
  ASSUME NEW m, Steady(m), NEW p \in net, Lose(p)
  PROVE  Steady(m)'
BY DEF Lose, Steady, Settled, Unbroken, Closed

LEMMA CreateSteady ==
  ASSUME IInv, NEW m, Couple(m), Linked(m), Steady(m), Unbroken,
         NEW s \in Stacks, CreateRemote(s)
  PROVE  Steady(m)'
<1> DEFINE uid == NextUid(stack[s])
           st == [Update(stack[s], uid, NewRemote) EXCEPT
                    !.puid = uid, !.names = Put(@, "new", uid)]
           d == Did(st, {})
<1>1. /\ Up(s) /\ s \in Creators /\ DOMAIN stack[s].remotes = {} /\ HasUid(stack[s])
      /\ Happens(s, d, net) /\ net \in SUBSET net
  BY DEF CreateRemote
<1>2. s # m /\ Pair(m)
  BY <1>1 DEF Couple, Pair
<1>3. ASSUME s = Other(m), Open(m)
      PROVE  AskerFine(s, stack[s], stack[m], d)
  <2>1. AskerReady(s, stack[s], stack[m])
    BY <1>1, <1>2, <1>3, PairSides
  <2> QED
    BY <1>1, <2>1, AskerCreates
<1>4. ASSUME s = Other(m), Open(m)
      PROVE  TrustingFine(stack[s], d)
  BY <1>1, <1>4, OtherHears, TrustsCreates
<1>5. Calm(stack[s], d.st)
  <2>1. DOMAIN stack[s] = StackFields
    BY AllKeyed, SoundFields
  <2>2. Calm(stack[s], st)
    BY <2>1, CalmCreates
  <2> HIDE DEF st
  <2> QED
    BY <2>2 DEF Did
<1> HIDE DEF d
<1> QED
  BY <1>1, <1>2, <1>3, <1>4, <1>5, SteadyTurns

LEMMA JoinSteady ==
  ASSUME IInv, IInv', FixedRoads, NEW m, Couple(m), Linked(m), Steady(m), Unbroken,
         NEW s \in Stacks, NEW uid \in DOMAIN stack[s].remotes, JoinRemote(s, uid)
  PROVE  Steady(m)'
<1> DEFINE x == Other(m)
           d == StartJoin(s, stack[s], uid, FALSE)
<1>1. /\ Up(s) /\ stack[s].remotes[uid].tid < MaxTid
      /\ Happens(s, d, net) /\ net \in SUBSET net /\ Pair(m)
  BY DEF JoinRemote, Couple
<1>2. ~(s = m /\ Closed(m, stack[m]))
  BY DEF Closed
<1>3. s = m /\ Open(m) => AskedFine(m, stack[m], stack[x], d)
  BY <1>1, PairSides, AskedAsks
<1>4. s = x /\ Open(m) => AskerFine(s, stack[s], stack[m], d)
  BY <1>1, PairSides, AskerAsks
<1>5. Calm(stack[s], d.st)
  BY AllKeyed, SoundFields, CalmAsks
<1>6. ASSUME s = m, Open(m)
      PROVE  Closed(m, d.st) \/ MainFine(stack[x], d)
  <2>1. ~MainVacant(m, stack[m])
    BY <1>6 DEF MainVacant
  <2>2. ASSUME NEW w, MainReady(m, stack[m], w, stack[m].remotes[w].fuid)
        PROVE  Closed(m, d.st) \/ MainFine(stack[x], d)
    <3>1. uid = w
      BY <1>6, <2>2 DEF MainReady
    <3>2. Told(w, d)
      BY <1>6, <2>2, <3>1, ToldAsks
    <3>3. Happens(m, d, net) /\ AskedFine(m, stack[m], stack[x], d)
      BY <1>1, <1>3, <1>6
    <3> HIDE DEF d
    <3> QED
      BY <1>6, <2>2, <3>2, <3>3, MainKeeps
  <2> QED
    BY <1>6, <2>1, <2>2, CoupleCases
<1>7. ASSUME s = x, Open(m)
      PROVE  TrustingFine(stack[s], d)
  <2>1. /\ Keyer(x) /\ Trusting(stack[x]) /\ DOMAIN stack[x].remotes \subseteq Uids
    BY <1>7, OtherHears
  <2>2. TrustsFine(stack[x], StartJoin(x, stack[x], uid, FALSE))
    BY <1>1, <1>7, <2>1, TrustsAsks
  <2> QED
    BY <1>7, <2>2, TrustsThenFine
<1> HIDE DEF d
<1> QED
  BY <1>1, <1>2, <1>3, <1>4, <1>5, <1>6, <1>7, SteadyTurns

LEMMA TimeoutSteady ==
  ASSUME IInv, IInv', FixedRoads, NEW m, Couple(m), Linked(m), Steady(m), Unbroken,
         NEW s \in Stacks, NEW t \in stack[s].trans, Timeout(s, t)
  PROVE  Steady(m)'
<1> DEFINE x == Other(m)
           d == IF t.rmt THEN Nack(s, stack[s], t, "nack") ELSE Did(Remove(stack[s], t), {})
<1>1. Up(s) /\ Happens(s, d, net) /\ net \in SUBSET net /\ Pair(m)
  BY DEF Timeout, Couple
<1>2. ~(s = m /\ Closed(m, stack[m]))
  BY <1>1, PairSides DEF Shut
<1>3. s = m /\ Open(m) => AskedFine(m, stack[m], stack[x], d)
  BY <1>1, PairSides, AskedTimesOut
<1>4. s = x /\ Open(m) => AskerFine(s, stack[s], stack[m], d)
  BY <1>1, PairSides, AskerTimesOut
<1>5. Calm(stack[s], d.st)
  BY AllKeyed, SoundFields, CalmTimesOut
<1>6. ASSUME s = m, Open(m)
      PROVE  Closed(m, d.st) \/ MainFine(stack[x], d)
  <2>1. ~MainVacant(m, stack[m])
    BY <1>6, VacantFacts
  <2>2. ASSUME NEW w, MainReady(m, stack[m], w, stack[m].remotes[w].fuid)
        PROVE  Closed(m, d.st) \/ MainFine(stack[x], d)
    <3>1. Told(w, d)
      BY <1>6, <2>2, ToldTimesOut
    <3>2. Happens(m, d, net) /\ AskedFine(m, stack[m], stack[x], d)
      BY <1>1, <1>3, <1>6
    <3> HIDE DEF d
    <3> QED
      BY <1>6, <2>2, <3>1, <3>2, MainKeeps
  <2> QED
    BY <1>6, <2>1, <2>2, CoupleCases
<1>7. ASSUME s = x, Open(m)
      PROVE  TrustingFine(stack[s], d)
  <2>1. Keyer(x) /\ Trusting(stack[x])
    BY <1>7, OtherHears
  <2>2. TrustsFine(stack[x], d)
    BY <1>7, <2>1, TrustsTimesOut
  <2> HIDE DEF d
  <2> QED
    BY <1>7, <2>2, TrustsThenFine
<1> HIDE DEF d
<1> QED
  BY <1>1, <1>2, <1>3, <1>4, <1>5, <1>6, <1>7, SteadyTurns

LEMMA AcceptanceSteady ==
  ASSUME IInv, IInv', FixedRoads, NEW m, Couple(m), Linked(m), Steady(m), Unbroken,
         NEW s \in Stacks, NEW uid \in DOMAIN stack[s].remotes,
         NEW status \in {"accepted", "rejected"}, SetAcceptance(s, uid, status)
  PROVE  Steady(m)'
<1> DEFINE x == Other(m)
           K == RoleData(status, stack[s].remotes[uid].keys)
           st == [stack[s] EXCEPT !.remotes[uid].acceptance = status, !.role = K]
           d == Did(st, {})
<1>1. /\ Up(s) /\ stack[s].remotes[uid].keys # 0 /\ status \in Statuses /\ s \in Outsiders
      /\ Happens(s, d, net) /\ net \in SUBSET net /\ Pair(m)
  BY DEF SetAcceptance, Statuses, Couple
<1>2. ~(s = m /\ Closed(m, stack[m])) /\ s # x
  BY <1>1 DEF Closed, Couple
<1>3. s = m /\ Open(m) => AskedFine(m, stack[m], stack[x], d)
  BY <1>1, PairSides, AskedJudged
<1>4. Calm(stack[s], d.st)
  <2>1. DOMAIN stack[s] = StackFields
    BY AllKeyed, SoundFields
  <2> HIDE DEF K
  <2>2. Calm(stack[s], st)
    BY <2>1, CalmJudged
  <2> HIDE DEF st
  <2> QED
    BY <2>2 DEF Did
<1>5. ASSUME s = m, Open(m)
      PROVE  Closed(m, d.st) \/ MainFine(stack[x], d)
  <2>1. ~MainVacant(m, stack[m])
    BY <1>5 DEF MainVacant
  <2>2. ASSUME NEW w, MainReady(m, stack[m], w, stack[m].remotes[w].fuid)
        PROVE  Closed(m, d.st) \/ MainFine(stack[x], d)
    <3>1. Told(w, d)
      <4> HIDE DEF K
      <4> QED
        BY <1>5, <2>2, ToldJudged
    <3>2. Happens(m, d, net) /\ AskedFine(m, stack[m], stack[x], d)
      BY <1>1, <1>3, <1>5
    <3> HIDE DEF d
    <3> QED
      BY <1>5, <2>2, <3>1, <3>2, MainKeeps
  <2> QED
    BY <1>5, <2>1, <2>2, CoupleCases
<1> HIDE DEF d
<1> QED
  BY <1>1, <1>2, <1>3, <1>4, <1>5, SteadyTurns

LEMMA RedoneFine ==
  ASSUME IInv, NEW m, Couple(m), Linked(m), Steady(m), Unbroken,
         NEW s \in Stacks, NEW t \in stack[s].trans
  PROVE  LET d == Redone(s, stack[s], t)
         IN /\ Calm(stack[s], d.st)
            /\ \A w : s = m /\ MainReady(m, stack[m], w, stack[m].remotes[w].fuid) => Told(w, d)
            /\ s = Other(m) /\ Open(m) => TrustingFine(stack[s], d)
<1> DEFINE S == stack[s]
           x == Other(m)
           d == Redone(s, S, t)
<1>1. ASSUME NEW status, NEW D, status = Status(s, S, S.remotes[t.uid].keys),
             D = [StatusDump(s, S, S.remotes[t.uid].keys) EXCEPT
                    !.remotes[t.uid].acceptance = status]
      PROVE  /\ Calm(S, d.st)
             /\ \A w : s = m /\ MainReady(m, S, w, S.remotes[w].fuid) => Told(w, d)
             /\ s = x /\ Open(m) => TrustingFine(S, d)
  <2>1. d = CASE t.tx # "pend" -> Did(S, {Packet(s, t, t.tx)})
              [] t.tx = "pend" /\ status = "accepted" ->
                   IF t.rmt THEN AckAccept(s, D, t) ELSE Completify(s, D, t)
              [] t.tx = "pend" /\ status = "rejected" -> RemoveRemote(s, D, t.uid)
              [] OTHER -> Did(D, {})
    BY <1>1 DEF Redone
  <2> HIDE DEF d
  <2>2. Calm(S, d.st)
    <3>1. Sound(s, S) /\ DOMAIN S = StackFields
      BY AllKeyed, SoundFields
    <3>2. Calm(S, Did(S, {Packet(s, t, t.tx)}).st)
      BY <3>1, StillItself, CalmOn DEF Did
    <3>3. /\ Calm(S, AckAccept(s, D, t).st) /\ Calm(S, Completify(s, D, t).st)
          /\ Calm(S, RemoveRemote(s, D, t.uid).st) /\ Calm(S, Did(D, {}).st)
      BY <1>1, <3>1, CalmRedoes
    <3> QED
      BY <2>1, <3>2, <3>3
  <2>3. ASSUME NEW w, s = m, MainReady(m, S, w, S.remotes[w].fuid)
        PROVE  Told(w, d)
    <3>1. Told(w, Did(S, {Packet(s, t, t.tx)}))
      BY <2>3, ToldResends
    <3>2. /\ Told(w, AckAccept(s, D, t)) /\ Told(w, Completify(s, D, t))
          /\ Told(w, RemoveRemote(s, D, t.uid)) /\ Told(w, Did(D, {}))
      BY <1>1, <2>3, ToldRedoes
    <3> QED
      BY <2>1, <3>1, <3>2
  <2>4. ASSUME s = x, Open(m)
        PROVE  TrustsFine(S, d)
    <3>1. Keyer(s) /\ Trusting(S)
      BY <2>4, OtherHears
    <3>2. TrustsFine(S, Did(S, {Packet(s, t, t.tx)}))
      BY <3>1, TrustsResends
    <3>3. t.tx = "pend" => S.remotes[t.uid].keys = 1
      <4>1. Asker(S, stack[m])
        BY <2>4, PairReady DEF Couple, AskerReady
      <4> QED
        BY <4>1 DEF Asker, AskerJoin, AskerRemotes
    <3>4. t.tx = "pend" =>
            /\ status # "rejected"
            /\ TrustsFine(S, AckAccept(s, D, t)) /\ TrustsFine(S, Completify(s, D, t))
            /\ TrustsFine(S, Did(D, {}))
      BY <1>1, <3>1, <3>3, TrustsRedoes
    <3> QED
      BY <2>1, <3>2, <3>4
  <2>5. s = x /\ Open(m) => TrustingFine(S, d)
    BY <2>4, TrustsThenFine
  <2> QED
    BY <2>2, <2>3, <2>5
<1> HIDE DEF d
<1>2. /\ Calm(S, d.st)
      /\ \A w : s = m /\ MainReady(m, S, w, S.remotes[w].fuid) => Told(w, d)
      /\ s = x /\ Open(m) => TrustingFine(S, d)
  BY <1>1
<1> QED
  BY <1>2 DEF d

LEMMA RedoSteady ==
  ASSUME IInv, IInv', FixedRoads, NEW m, Couple(m), Linked(m), Steady(m), Unbroken,
         NEW s \in Stacks, NEW t \in stack[s].trans, Redo(s, t)
  PROVE  Steady(m)'
<1> DEFINE x == Other(m)
           d == Redone(s, stack[s], t)
<1>1. Up(s) /\ Happens(s, d, net) /\ net \in SUBSET net /\ Pair(m)
  BY RedoneToo DEF Couple
<1>2. ~(s = m /\ Closed(m, stack[m]))
  BY <1>1, PairSides DEF Shut
<1>3. /\ s = m /\ Open(m) => AskedFine(m, stack[m], stack[x], d)
      /\ s = x /\ Open(m) => AskerFine(s, stack[s], stack[m], d)
  BY <1>1, RedoPaired
<1>4. /\ Calm(stack[s], d.st)
      /\ \A w : s = m /\ MainReady(m, stack[m], w, stack[m].remotes[w].fuid) => Told(w, d)
      /\ s = x /\ Open(m) => TrustingFine(stack[s], d)
  BY RedoneFine
<1> HIDE DEF d
<1>5. ASSUME s = m, Open(m)
      PROVE  Closed(m, d.st) \/ MainFine(stack[x], d)
  <2>1. ~MainVacant(m, stack[m])
    BY <1>5, VacantFacts
  <2>2. ASSUME NEW w, MainReady(m, stack[m], w, stack[m].remotes[w].fuid)
        PROVE  Closed(m, d.st) \/ MainFine(stack[x], d)
    <3>1. Told(w, d) /\ Happens(m, d, net) /\ AskedFine(m, stack[m], stack[x], d)
      BY <1>1, <1>3, <1>4, <1>5, <2>2
    <3> QED
      BY <1>5, <2>2, <3>1, MainKeeps
  <2> QED
    BY <1>5, <2>1, <2>2, CoupleCases
<1> QED
  BY <1>1, <1>2, <1>3, <1>4, <1>5, SteadyTurns

LEMMA SteadySteps ==
  ASSUME IInv, NEW m, Couple(m), Linked(m), Steady(m), [Next]_vars
  PROVE  Steady(m)'
<1>1. IInv' /\ FixedRoads /\ NoneUndone
  <2>1. Mains \cap Creators = {}
    BY PairOf, ConstantsAssumption DEF Couple, Pair
  <2> QED
    BY <2>1, Steps
<1>2. CASE ~Unbroken
  <2>1. /\ \A s \in Stacks : stack[s].restarts \in Nat
        /\ \A s \in Stacks : stack'[s].restarts \in Nat
    BY <1>1, ConstantsAssumption DEF IInv, Sound, Misc
  <2>2. ~Unbroken'
    BY <1>1, <1>2, <2>1 DEF Unbroken, NoneUndone
  <2> QED
    BY <2>2 DEF Steady
<1>3. CASE Unbroken /\ UNCHANGED vars
  BY <1>3 DEF vars, Steady, Settled, Unbroken, Closed
<1>4. CASE Unbroken /\ Next
  <2>1. CASE \E p \in net : Receive(p) \/ Lose(p)
    BY <1>1, <1>4, <2>1, ReceiveSteady, LoseSteady
  <2>2. ASSUME NEW s \in Stacks,
               \/ CreateRemote(s)
               \/ \E uid \in DOMAIN stack[s].remotes :
                    JoinRemote(s, uid) \/ SetAcceptance(s, uid, "accepted")
                      \/ SetAcceptance(s, uid, "rejected")
               \/ \E t \in stack[s].trans : Timeout(s, t) \/ Redo(s, t)
               \/ \E clean \in Wipes : Restart(s, clean)
        PROVE  Steady(m)'
    <3>1. CASE CreateRemote(s)
      BY <1>4, <3>1, CreateSteady
    <3>2. ASSUME NEW uid \in DOMAIN stack[s].remotes,
                 JoinRemote(s, uid) \/ SetAcceptance(s, uid, "accepted")
                   \/ SetAcceptance(s, uid, "rejected")
          PROVE  Steady(m)'
      BY <1>1, <1>4, <3>2, JoinSteady, AcceptanceSteady
    <3>3. ASSUME NEW t \in stack[s].trans, Timeout(s, t) \/ Redo(s, t)
          PROVE  Steady(m)'
      BY <1>1, <1>4, <3>3, TimeoutSteady, RedoSteady
    <3>4. ASSUME NEW clean \in Wipes, Restart(s, clean)
          PROVE  Steady(m)'
      <4>1. ~Unbroken'
        BY <3>4, RestartBreaks
      <4> QED
        BY <4>1 DEF Steady
    <3> QED
      BY <2>2, <3>1, <3>2, <3>3, <3>4
  <2> QED
    BY <1>4, <2>1, <2>2 DEF Next
<1> QED
  BY <1>2, <1>3, <1>4

LEMMA SteadyInitially ==
  ASSUME NEW m, Couple(m), Init
  PROVE  Steady(m)
<1>1. m \in Stacks /\ Other(m) \in Stacks /\ net = {}
  BY PairOf DEF Couple, Pair, Init
<1>2. ASSUME NEW s \in Stacks
      PROVE  /\ DOMAIN stack[s].remotes = {} /\ stack[s].trans = {} /\ stack[s].joinees = 0
             /\ stack[s].role = RoleData("none", 0) /\ ~stack[s].raised
             /\ DOMAIN stack[s] = StackFields
  BY DEF Init, NewStack, StackFields
<1>3. \A s \in Stacks : stack[s].role.acceptance = "none" /\ stack[s].role \in RoleRecords
  BY <1>2, Ids DEF RoleData, RoleRecords, Statuses
<1>4. Trusting(stack[Other(m)])
  BY <1>1, <1>2, <1>3 DEF Trusting
<1>5. Expects(stack[m], stack[Other(m)])
  BY <1>1, <1>2, <1>3 DEF Expects
<1> QED
  BY <1>1, <1>2, <1>4, <1>5 DEF Steady, Settled

(* Between a main stack whose road is not mutable, and which does not ask, and
   a stack that asks on a mutable road and judges roles itself, until one of
   them is started again: addTransaction never meets an index in use, and
   removeRemote never a name that is gone, whatever packets are lost, repeated
   or reordered. *)
THEOREM NoneRaised ==
  ASSUME NEW m \in Mains, m \notin Mutables, m \notin Creators,
         Other(m) \notin Mains, Other(m) \in Mutables, Other(m) \notin Outsiders
  PROVE  Spec => []NoRaise
<1>1. Couple(m) /\ Pair(m)
  BY ConstantsAssumption DEF Couple, Pair
<1>2. Mains \cap Creators = {}
  BY <1>1, PairOf, ConstantsAssumption DEF Pair
<1>3. Spec => []IInv
  BY <1>2, Invariantly
<1>4. Init => Linked(m) /\ Steady(m)
  BY <1>1, LinkedInitially, SteadyInitially
<1>5. IInv /\ Linked(m) /\ Steady(m) /\ [Next]_vars => Linked(m)' /\ Steady(m)'
  BY <1>1, LinkedSteps, SteadySteps
<1>6. Steady(m) => NoRaise
  BY DEF Steady, NoRaise
<1> QED
  BY <1>3, <1>4, <1>5, <1>6, PTL DEF Spec
=============================================================================
