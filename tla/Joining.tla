------------------------------ MODULE Joining ------------------------------
(***************************************************************************)
(* The join transaction of RAET (raet/road/transacting.py, Joiner and      *)
(* Joinent; raet/road/stacking.py, processRx): two stacks "a" and "b", at  *)
(* fixed addresses, learn each other's uid, name and long term keys.       *)
(*                                                                         *)
(* Each stack has remotes for the other: "peer" is the name (and role) the *)
(* other stack reports, "new" the name a remote has before.  A remote is   *)
(* identified by its uid.  Its address, kind and main flag do not change   *)
(* once it is known and are left out, as are sid and rsid, which Session   *)
(* has.  The files are written at once (Keep has them one by one).         *)
(***************************************************************************)
EXTENDS Naturals, FiniteSets, Acceptance

CONSTANTS
  Mains,       \* stacks that are main: only these take vacuous joins
  Mutables,    \* stacks whose road is mutable
  AutoMode,    \* RoadKeep.auto of each stack
  Creators,    \* stacks whose application creates a remote for the other
  Outsiders,   \* stacks whose roles an outside entity accepts or rejects
  MaxTid,      \* bound: joins started by a remote
  MaxUid,      \* bound: uids handed out by a stack
  MaxNet,      \* bound: packets in flight
  Wipes,       \* whether a restart finds the keep cleared: a set of Booleans
  MaxRestart   \* bound: restarts of the two stacks

Stacks == {"a", "b"}

ASSUME ConstantsAssumption ==
  /\ Mains \cup Mutables \cup Creators \cup Outsiders \subseteq Stacks
  /\ AutoMode \in [Stacks -> Modes] /\ Wipes \subseteq BOOLEAN
  /\ MaxTid \in Nat /\ MaxUid \in Nat \ {0} /\ MaxNet \in Nat /\ MaxRestart \in Nat

VARIABLES
  stack,   \* the state of each stack
  net      \* packets in flight

vars == <<stack, net>>

Other(s) == IF s = "a" THEN "b" ELSE "a"

(* "Lesser local name" of Joinent.join. *)
Lesser(s) == s = "a"

Names == {"peer", "new"}
LocalUid == 1
Uids == 0 .. MaxUid
Tids == 0 .. MaxTid
KeyGens == 0 .. MaxRestart + 1   \* 0 for no keys

(* A remote; it is known, with role and keys, when keys # 0. *)
Remotes ==
  [name: Names, fuid: Uids, keys: KeyGens, acceptance: Statuses, joined: BOOLEAN, tid: Tids]

(* A join in process.  le and re are the uids the requests carry, this side's
   and the other's, 0 in a vacuous join; tx is the last packet sent. *)
Transactions ==
  [rmt: BOOLEAN, uid: Uids, le: Uids, re: Uids, ti: Tids, vacuous: BOOLEAN,
   renewal: BOOLEAN, tx: {"request", "response", "pend"}]

Files == [name: Names, uid: Uids, fuid: Uids, joined: BOOLEAN]

Packets ==
  [to: Stacks, pk: {"request", "response", "pend", "ack", "nack", "refuse", "reject", "renew"},
   cf: BOOLEAN, se: Uids, de: Uids, ti: Tids, keys: KeyGens, uid: Uids]

Put(f, x, v) == [y \in DOMAIN f \cup {x} |-> IF y = x THEN v ELSE f[y]]
Drop(f, x)   == [y \in DOMAIN f \ {x} |-> f[y]]

NewRemote == [name |-> "new", fuid |-> 0, keys |-> 0, acceptance |-> "none",
              joined |-> FALSE, tid |-> 0]

(* A new stack.  The remote in joinees may have been removed from remotes:
   then ghost is what it was. *)
NewStack(keys, restarts) ==
  [remotes |-> <<>>, names |-> <<>>, joinees |-> 0, ghost |-> NewRemote,
   puid |-> LocalUid, trans |-> {},
   files |-> {}, role |-> RoleData("none", 0), savedPuid |-> LocalUid,
   keys |-> keys, restarts |-> restarts, raised |-> FALSE]

(* Every part of the state keeps its shape. *)
TypeOK ==
  /\ \A s \in Stacks : LET S == stack[s] IN
       /\ DOMAIN S.remotes \subseteq Uids \ {0}
       /\ \A u \in DOMAIN S.remotes : S.remotes[u] \in Remotes
       /\ DOMAIN S.names \subseteq Names /\ \A n \in DOMAIN S.names : S.names[n] \in Uids
       /\ S.trans \subseteq Transactions /\ S.files \subseteq Files
       /\ S.role \in [acceptance: Statuses, keys: KeyGens]
       /\ {S.joinees, S.puid, S.savedPuid} \subseteq Uids /\ S.keys \in KeyGens
       /\ S.ghost \in Remotes /\ S.restarts \in 0 .. MaxRestart /\ S.raised \in BOOLEAN
  /\ net \subseteq Packets

-----------------------------------------------------------------------------
(* Packets.                                                                 *)

(* TxPacket.index and RxPacket.index: a uid 0 stands for the address. *)
Index(t)   == <<t.rmt, t.le, IF t.rmt /\ t.le = 0 THEN 0 ELSE t.re, t.ti>>
RxIndex(p) == <<~p.cf, p.de, IF ~p.cf /\ p.de = 0 THEN 0 ELSE p.se, p.ti>>

(* A packet that answers p, from the correspondent or the initiator. *)
Answer(s, p, pk) ==
  [to |-> Other(s), pk |-> pk, cf |-> ~p.cf, se |-> p.de, de |-> p.se, ti |-> p.ti,
   keys |-> 0, uid |-> 0]

(* Joiner.prep and Joinent.prep; the body of a request or a response has the
   keys, that of a response the uid of the remote too. *)
Packet(s, t, pk) ==
  [to |-> Other(s), pk |-> pk, cf |-> t.rmt, se |-> t.le, de |-> t.re, ti |-> t.ti,
   keys |-> IF pk \in {"request", "response"} THEN stack[s].keys ELSE 0,
   uid |-> IF pk = "response" THEN t.uid ELSE 0]

Nacks == {"nack", "refuse", "reject", "renew"}

-----------------------------------------------------------------------------
(* What the handlers do to a stack S: they yield the stack and the packets  *)
(* sent.                                                                    *)

Did(S, out) == [st |-> S, out |-> out]

NextUid(S) ==
  CHOOSE u \in 1 .. MaxUid :
    /\ u > S.puid /\ u \notin DOMAIN S.remotes
    /\ \A v \in 1 .. MaxUid : v > S.puid /\ v \notin DOMAIN S.remotes => u <= v
HasUid(S) == \E u \in 1 .. MaxUid : u > S.puid /\ u \notin DOMAIN S.remotes

Joins(S, uid) == {t \in S.trans : t.uid = uid}

(* A remote of the stack, or the one in joinees that no longer is. *)
Remote(S, uid) == IF uid \in DOMAIN S.remotes THEN S.remotes[uid] ELSE S.ghost

(* Joiner.add and Joinent.add; addTransaction raises for an index in use. *)
Add(S, t) ==
  IF \E x \in Joins(S, t.uid) : Index(x) = Index(t)
  THEN [S EXCEPT !.raised = TRUE]
  ELSE [S EXCEPT !.trans = @ \cup {t}, !.joinees = IF t.vacuous THEN t.uid ELSE @]

(* Joiner.remove and Joinent.remove. *)
Remove(S, t) ==
  LET left == S.trans \ {t}
      last == \A x \in left : x.uid # t.uid
  IN [S EXCEPT !.trans = left, !.joinees = IF t.vacuous /\ last THEN 0 ELSE @]

Sent(S, t, pk) == [S EXCEPT !.trans = (@ \ {t}) \cup {[t EXCEPT !.tx = pk]}]

Update(S, uid, r) == [S EXCEPT !.remotes = Put(@, uid, r)]

(* dumpRemote writes the file of the name and the acceptance and keys. *)
DumpRemote(S, uid) ==
  LET r == S.remotes[uid]
      file == [name |-> r.name, uid |-> uid, fuid |-> r.fuid, joined |-> r.joined]
  IN [S EXCEPT !.files = {f \in @ : f.name # r.name} \cup {file},
               !.role = IF r.keys = 0 THEN @ ELSE RoleData(r.acceptance, r.keys)]

DumpLocal(S) == [S EXCEPT !.savedPuid = S.puid]

ClearFile(S, name) == [S EXCEPT !.files = {f \in @ : f.name # name}]

(* RoadStack.removeRemote(clear=True): every join of the remote is nacked, but
   the nack of a Joiner is refused by tx, since the remote is gone. *)
RemoveRemote(s, S, uid) ==
  LET name == S.remotes[uid].name
      joins == Joins(S, uid)
      vacuous == \E t \in joins : t.vacuous
  IN IF name \notin DOMAIN S.names
     THEN Did([S EXCEPT !.remotes = Drop(@, uid), !.raised = TRUE], {})
     ELSE Did([ClearFile(S, name) EXCEPT
                 !.remotes = Drop(@, uid), !.names = Drop(@, name),
                 !.trans = @ \ joins, !.joinees = IF vacuous THEN 0 ELSE @,
                 !.ghost = IF ~vacuous /\ S.joinees = uid THEN S.remotes[uid] ELSE @],
              {Packet(s, t, "nack") : t \in {x \in joins : x.rmt}})

(* Mutant: the old name stays in the index. *)
RenameKeepsOld(S, uid) ==
  IF S.remotes[uid].name = "peer" THEN S
  ELSE [ClearFile(S, S.remotes[uid].name) EXCEPT !.names = Put(@, "peer", uid),
                                                 !.remotes[uid].name = "peer"]
(* renameRemote(clear=True) to "peer". *)
Rename(S, uid) ==
  LET old == S.remotes[uid].name
  IN IF old = "peer" THEN S
     ELSE [ClearFile(S, old) EXCEPT !.names = Put(Drop(@, old), "peer", uid),
                                    !.remotes[uid].name = "peer"]

NameTaken(S, uid) == "peer" \in DOMAIN S.names /\ S.names["peer"] # uid

(* Mutant: the transaction stays. *)
NackStays(s, S, t, pk) == Did(Sent(S, t, pk), {Packet(s, t, pk)})

(* Joiner.nack and Joinent.nack with a kind. *)
Nack(s, S, t, pk) == Did(Remove(S, t), {Packet(s, t, pk)})

(* Mutant: the remote leaves joinees though a join with it is in process. *)
RefusedClears(s, S, p, uid, pk) ==
  Did(IF p.de = 0 THEN [S EXCEPT !.joinees = 0] ELSE S, {Answer(s, p, pk)})

(* Joinent.nack before it was added: its remove may clear joinees all the
   same. *)
Refused(s, S, p, uid, pk) ==
  Did(IF p.de = 0 /\ Joins(S, uid) = {} THEN [S EXCEPT !.joinees = 0] ELSE S,
      {Answer(s, p, pk)})

(* A new Joiner asks: RoadStack.join and Joiner.join, unless a join is in
   process. *)
StartJoin(s, S, uid, renewal) ==
  LET r == S.remotes[uid]
      t == [rmt |-> FALSE, uid |-> uid, le |-> uid, re |-> r.fuid, ti |-> r.tid + 1,
            vacuous |-> r.fuid = 0, renewal |-> renewal, tx |-> "request"]
      tried == Update(S, uid, [r EXCEPT !.tid = @ + 1])
  IN IF Joins(S, uid) # {} THEN Did(tried, {})
     ELSE Did(Add(Update(tried, uid, [r EXCEPT !.tid = @ + 1, !.joined = FALSE]), t),
              {Packet(s, t, "request")})

Status(s, S, keys) == StatusRole(AutoMode[s], S.role, keys)
StatusDump(s, S, keys) == [S EXCEPT !.role = Persisted(AutoMode[s], @, keys)]

-----------------------------------------------------------------------------
(* Joiner.                                                                  *)

(* completify: joined, saved, acknowledged. *)
Completify(s, S, t) ==
  LET joined == [S EXCEPT !.remotes[t.uid].joined = TRUE]
  IN Did(Remove(DumpLocal(DumpRemote(joined, t.uid)), t), {Packet(s, t, "ack")})

(* accept: the response p came, with a status of the keys of accepted or
   pending.  A vacuous joiner has taken name and keys before, any other
   changes what is not the same now. *)
Accepted(s, S, t, p) ==
  LET status == Status(s, S, p.keys)
      changed == [[StatusDump(s, S, p.keys) EXCEPT
                     !.remotes[t.uid].acceptance = status] EXCEPT
                     !.remotes[t.uid].fuid = p.uid, !.remotes[t.uid].keys = p.keys]
      met == Rename(changed, t.uid)
  IN IF NameTaken(S, t.uid)
     THEN Nack(s, [StatusDump(s, S, p.keys) EXCEPT !.remotes[t.uid].acceptance = status],
               t, "reject")
     ELSE IF status = "accepted" THEN Completify(s, met, t)
     ELSE Did(Sent(DumpRemote(met, t.uid), t, "pend"), {Packet(s, t, "pend")})

Accept(s, S, t, p) ==
  LET r == S.remotes[t.uid]
      first == t.vacuous /\ ~t.renewal
      reached == IF t.vacuous THEN [S EXCEPT !.remotes[t.uid].fuid = p.uid] ELSE S
      taken == Rename([reached EXCEPT !.remotes[t.uid].keys = p.keys], t.uid)
      W == IF first THEN taken ELSE reached
      w == W.remotes[t.uid]
      same == w.name = "peer" /\ w.fuid = p.uid /\ w.keys = p.keys
  IN IF first /\ r.name # "peer" /\ NameTaken(S, t.uid)
     THEN Nack(s, reached, t, "reject")
     ELSE IF ~same /\ s \notin Mutables
     THEN Nack(s, W, t, "reject")
     ELSE IF Status(s, W, p.keys) = "rejected"
     THEN IF w.keys = p.keys THEN RemoveRemote(s, W, t.uid) ELSE Nack(s, W, t, "reject")
     ELSE Accepted(s, W, t, p)

(* renew: the other side does not know the uid; join again, vacuously. *)
Renew(s, S, t) ==
  IF s \notin Mutables THEN Did(Remove(S, t), {})
  ELSE StartJoin(s, DumpRemote([Remove(S, t) EXCEPT !.remotes[t.uid].fuid = 0], t.uid),
                 t.uid, TRUE)

(* reject: the other side rejects the keys, or the road may not change. *)
Reject(s, S, t) == RemoveRemote(s, Remove(S, t), t.uid)

JoinerReceive(s, S, t, p) ==
  CASE p.pk = "response"           -> Accept(s, S, t, p)
    [] p.pk \in {"nack", "refuse"} -> Did(Remove(S, t), {})
    [] p.pk = "renew"              -> Renew(s, S, t)
    [] p.pk = "reject"             -> Reject(s, S, t)
    [] OTHER                       -> Did(S, {})

-----------------------------------------------------------------------------
(* Joinent.                                                                 *)

AckAccept(s, S, t) == Did(Sent(S, t, "response"), {Packet(s, t, "response")})

(* complete: the ack came. *)
Complete(s, S, t) ==
  Did(Remove(DumpLocal(DumpRemote([S EXCEPT !.remotes[t.uid].joined = TRUE], t.uid)), t), {})

JoinentReceive(s, S, t, p) ==
  CASE p.pk = "ack"                -> Complete(s, S, t)
    [] p.pk \in {"nack", "refuse"} -> Did(Remove(S, t), {})
    [] p.pk = "reject"             -> Reject(s, S, t)
    [] OTHER                       -> Did(S, {})

(* The end of join: the remote at uid has what the request says, the
   Joinent is added and answers. *)
Correspond(s, S, p, uid) ==
  LET t == [rmt |-> TRUE, uid |-> uid, le |-> p.de, re |-> p.se, ti |-> p.ti,
            vacuous |-> p.de = 0, renewal |-> FALSE, tx |-> "response"]
      A == Add(S, t)
      W == [A EXCEPT !.remotes[uid].joined = FALSE]
  IN IF A.raised THEN Did(A, {})
     ELSE IF W.remotes[uid].acceptance = "accepted"
     THEN AckAccept(s, W, t)
     ELSE Did(Sent(DumpRemote(W, uid), t, "pend"), {Packet(s, t, "pend")})

(* Mutant: also a road that is not mutable takes what the request says. *)
MeetAnyRoad(s, S, p, uid, r) ==
  IF Status(s, S, p.keys) = "rejected" THEN Refused(s, S, p, uid, "reject")
  ELSE Correspond(s, [Rename(Update(StatusDump(s, S, p.keys), uid, r), uid) EXCEPT
                        !.names = Put(@, "peer", uid),
                        !.remotes[uid].acceptance = Status(s, S, p.keys),
                        !.remotes[uid].fuid = p.se, !.remotes[uid].keys = p.keys], p, uid)

(* A remote already known or just made, with record r, is asked with p; S has
   it in remotes unless it is ephemeral. *)
Meet(s, S, p, uid, r) ==
  LET known == uid \in DOMAIN S.remotes
      same == r.name = "peer" /\ r.fuid = p.se /\ r.keys = p.keys
      status == Status(s, S, p.keys)
      D == StatusDump(s, S, p.keys)
      met == Update(D, uid, [r EXCEPT !.acceptance = status])
  IN CASE ~same /\ s \notin Mutables -> Refused(s, S, p, uid, "reject")
       [] (same \/ s \in Mutables) /\ status = "rejected" ->
            IF r.keys = p.keys /\ known THEN RemoveRemote(s, S, uid)
                                        ELSE Refused(s, D, p, uid, "reject")
       [] same /\ status # "rejected" ->
            Correspond(s, IF known THEN met ELSE [met EXCEPT !.names = Put(@, "peer", uid)],
                       p, uid)
       [] OTHER ->
            IF NameTaken(S, uid)
            THEN Refused(s, met, p, uid, "reject")
            ELSE Correspond(s, [Rename(met, uid) EXCEPT !.remotes[uid].fuid = p.se,
                                                        !.remotes[uid].keys = p.keys], p, uid)

(* A vacuous request meets the remote of its name; else the remote at hand,
   ephemeral or waiting in joinees, takes name and keys, though the index of
   names is left as it was. *)
MeetVacuous(s, S, p, uid, r) ==
  LET taken == [r EXCEPT !.name = "peer", !.keys = p.keys,
                         !.fuid = IF @ = 0 THEN p.se ELSE @]
      W == CASE uid \in DOMAIN S.remotes -> Update(S, uid, taken)
             [] uid = S.joinees            -> [S EXCEPT !.ghost = taken]
             [] OTHER                      -> S
  IN CASE s \notin Mains -> Refused(s, S, p, uid, "reject")
       [] s \in Mains /\ "peer" \in DOMAIN S.names ->
            Meet(s, S, p, S.names["peer"], S.remotes[S.names["peer"]])
       [] OTHER ->
            IF taken.fuid = p.se THEN Meet(s, W, p, uid, taken)
                                 ELSE Refused(s, W, p, uid, "reject")

(* Joinent.join: whether the request is refused for the join in process, or
   the Joiner in process is refused, or there is none. *)
Yields(s, p, t) ==
  IF (p.de = 0) # t.vacuous THEN ~t.vacuous ELSE Lesser(s)

Join(s, S, p, uid, r) ==
  LET joins == Joins(S, uid)
      refused == \E t \in joins : t.rmt \/ Yields(s, p, t)
      free == IF joins = {} THEN S ELSE Remove(S, CHOOSE t \in joins : TRUE)
      done == IF p.de = 0 THEN MeetVacuous(s, free, p, uid, r) ELSE Meet(s, free, p, uid, r)
  IN IF refused THEN Refused(s, S, p, uid, "refuse")
     ELSE Did(done.st, done.out \cup {Packet(s, t, "refuse") : t \in joins})

-----------------------------------------------------------------------------
(* RoadStack.processRx for a join packet.                                   *)

(* The transaction of the remote at uid with the index of p, or what a packet
   without one is answered. *)
Transact(s, S, p, uid) ==
  LET found == {t \in Joins(S, uid) : Index(t) = RxIndex(p)}
      t == CHOOSE x \in found : TRUE
  IN CASE found # {} /\ ~t.rmt -> JoinerReceive(s, S, t, p)
       [] found # {} /\ t.rmt  -> JoinentReceive(s, S, t, p)
       [] found = {} /\ p.cf   ->
            Did(S, IF p.pk \notin Nacks /\ p.de \in DOMAIN S.remotes
                   THEN {Answer(s, p, "nack")} ELSE {})
       [] OTHER ->
            IF p.pk = "request" THEN Join(s, S, p, uid, Remote(S, uid)) ELSE Did(S, {})

(* A packet from a joinent: vacuous if se is 0, then the remote waits in
   joinees and must have the uid. *)
FromJoinent(s, S, p) ==
  LET uid == IF p.se = 0 THEN S.joinees ELSE p.de
  IN IF p.se = 0 /\ S.joinees \notin {0, p.de} THEN Did(S, {}) ELSE Transact(s, S, p, uid)

(* A packet from a joiner. *)
FromJoiner(s, S, p) ==
  LET prior == S.joinees
      stale == prior # 0 /\ Remote(S, prior).fuid \notin {0, p.se}
      W == IF stale THEN [S EXCEPT !.joinees = 0] ELSE S
      fresh == [W EXCEPT !.puid = NextUid(S)]
  IN CASE p.de = 0 /\ W.joinees # 0 -> Transact(s, W, p, W.joinees)
       [] p.de = 0 /\ W.joinees = 0 ->
            IF p.pk = "request" THEN Join(s, fresh, p, NextUid(S), NewRemote) ELSE Did(W, {})
       [] p.de # 0 /\ p.de \in DOMAIN S.remotes -> Transact(s, S, p, p.de)
       [] OTHER ->
            Did([S EXCEPT !.puid = NextUid(S)],
                IF p.pk \in Nacks \ {"renew"} THEN {} ELSE {Answer(s, p, "renew")})

ProcessRx(s, S, p) == IF p.cf THEN FromJoinent(s, S, p) ELSE FromJoiner(s, S, p)

-----------------------------------------------------------------------------
(* Actions.                                                                 *)

Happens(s, did, path) ==
  /\ stack' = [stack EXCEPT ![s] = did.st]
  /\ net' = path \cup did.out
  /\ Cardinality(net') <= MaxNet

Up(s) == ~stack[s].raised

(* Packets are delivered in any order; the path may deliver one again. *)
Receive(p) ==
  /\ Up(p.to)
  /\ p.cf \/ p.de \in DOMAIN stack[p.to].remotes \/ HasUid(stack[p.to])
  /\ p.pk = "renew" /\ p.de \in DOMAIN stack[p.to].remotes
       => stack[p.to].remotes[p.de].tid < MaxTid
  /\ Happens(p.to, ProcessRx(p.to, stack[p.to], p), net \ {p})

Lose(p) == net' = net \ {p} /\ UNCHANGED stack

(* createRemote by the application. *)
CreateRemote(s) ==
  LET S == stack[s]
      uid == NextUid(S)
  IN /\ Up(s) /\ s \in Creators /\ DOMAIN S.remotes = {} /\ HasUid(S)
     /\ Happens(s, Did([Update(S, uid, NewRemote) EXCEPT
                          !.puid = uid, !.names = Put(@, "new", uid)], {}), net)

(* RoadStack.join by the application or by an alive that found the remote not
   joined. *)
JoinRemote(s, uid) ==
  LET S == stack[s]
  IN /\ Up(s) /\ uid \in DOMAIN S.remotes /\ S.remotes[uid].tid < MaxTid
     /\ Happens(s, StartJoin(s, S, uid, FALSE), net)

(* Joiner.process and Joinent.process: the timers. *)
Timeout(s, t) ==
  LET S == stack[s]
  IN /\ Up(s) /\ t \in S.trans
     /\ Happens(s, IF t.rmt THEN Nack(s, S, t, "nack") ELSE Did(Remove(S, t), {}), net)

Redo(s, t) ==
  LET S == stack[s]
      r == S.remotes[t.uid]
      status == Status(s, S, r.keys)
      D == [StatusDump(s, S, r.keys) EXCEPT !.remotes[t.uid].acceptance = status]
  IN /\ Up(s) /\ t \in S.trans
     /\ Happens(s, CASE t.tx # "pend" -> Did(S, {Packet(s, t, t.tx)})
                     [] t.tx = "pend" /\ status = "accepted" ->
                          IF t.rmt THEN AckAccept(s, D, t) ELSE Completify(s, D, t)
                     [] t.tx = "pend" /\ status = "rejected" -> RemoveRemote(s, D, t.uid)
                     [] OTHER -> Did(D, {}), net)

(* acceptRemote and rejectRemote by an outside entity. *)
SetAcceptance(s, uid, status) ==
  LET S == stack[s]
  IN /\ Up(s) /\ s \in Outsiders /\ uid \in DOMAIN S.remotes /\ S.remotes[uid].keys # 0
     /\ Happens(s, Did([S EXCEPT !.remotes[uid].acceptance = status,
                                 !.role = RoleData(status, S.remotes[uid].keys)], {}), net)

(* The stack is started again, from its keep or, clean, with none and other
   keys. *)
Restart(s, clean) ==
  LET S == stack[s]
      N == NewStack(IF clean THEN S.keys + 1 ELSE S.keys, S.restarts + 1)
      file(u) == CHOOSE f \in S.files : f.uid = u
      restored ==
        [u \in {f.uid : f \in S.files} |->
           [name |-> file(u).name, fuid |-> file(u).fuid, joined |-> file(u).joined,
            keys |-> S.role.keys, acceptance |-> S.role.acceptance, tid |-> 0]]
      names == [n \in {f.name : f \in S.files} |-> (CHOOSE f \in S.files : f.name = n).uid]
  IN /\ stack["a"].restarts + stack["b"].restarts < MaxRestart
     /\ Happens(s, Did(IF clean THEN N
                       ELSE [N EXCEPT !.remotes = restored, !.names = names,
                                      !.files = S.files, !.role = S.role,
                                      !.puid = S.savedPuid, !.savedPuid = S.savedPuid], {}),
                net)

Init == stack = [s \in Stacks |-> NewStack(1, 0)] /\ net = {}

Next ==
  \/ \E p \in net : Receive(p) \/ Lose(p)
  \/ \E s \in Stacks :
       \/ CreateRemote(s)
       \/ \E uid \in DOMAIN stack[s].remotes :
            JoinRemote(s, uid) \/ SetAcceptance(s, uid, "accepted")
              \/ SetAcceptance(s, uid, "rejected")
       \/ \E t \in stack[s].trans : Timeout(s, t) \/ Redo(s, t)
       \/ \E clean \in Wipes : Restart(s, clean)

Spec == Init /\ [][Next]_vars

-----------------------------------------------------------------------------
(* Properties.                                                              *)

(* Every remote is found by its uid and by its name, and by no other name:
   renameRemote, removeRemote and the name that join gives a remote keep the
   two indexes together. *)
IndexesAgree ==
  \A s \in Stacks : LET S == stack[s] IN
    /\ \A u \in DOMAIN S.remotes :
         S.remotes[u].name \in DOMAIN S.names /\ S.names[S.remotes[u].name] = u
    /\ \A n \in DOMAIN S.names :
         S.names[n] \in DOMAIN S.remotes /\ S.remotes[S.names[n]].name = n

(* No stack was started again yet. *)
Unbroken == \A s \in Stacks : stack[s].restarts = 0

(* While a main stack's road is not mutable, the uid by which a joined remote
   is addressed leads, on the other side, to the remote made for this stack
   and never to one made in an earlier or abandoned join. *)
UidsAgree == Unbroken =>
  \A s \in Stacks : \A u \in DOMAIN stack[s].remotes :
    LET r == stack[s].remotes[u]
        theirs == stack[Other(s)].remotes
    IN r.joined /\ r.fuid \in DOMAIN theirs => theirs[r.fuid].fuid = u

(* No late, repeated or reordered packet makes addTransaction raise for an
   index in use, or removeRemote for a name that is gone. *)
NoRaise == Unbroken => \A s \in Stacks : ~stack[s].raised

(* "Changing any of the credentials after this requires that the Road be
   mutable": a remote with uid and keys keeps name, uid and keys on a road that
   is not.  (Joinent.join, Joiner.accept, Joiner.renew) *)
CredentialsKept ==
  [][\A s \in Stacks \ Mutables :
       \A u \in DOMAIN stack[s].remotes \cap DOMAIN stack'[s].remotes :
         LET r == stack[s].remotes[u]
             q == stack'[s].remotes[u]
         IN r.fuid # 0 /\ r.keys # 0 => <<q.name, q.fuid, q.keys>> = <<r.name, r.fuid, r.keys>>]_vars

(* "only one join at a time is permitted": no remote has two joins in process,
   whatever requests cross or are repeated (Joinent.join). *)
OneJoin == \A s \in Stacks : \A u \in DOMAIN stack[s].remotes : Cardinality(Joins(stack[s], u)) <= 1

(* "Safely add transaction at index, If not already there": no transaction is
   ever added where one is, whatever was restarted.  (RemoteEstate.addTransaction) *)
NeverRaises == \A s \in Stacks : ~stack[s].raised
=============================================================================
