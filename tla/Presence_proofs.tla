-------------------------- MODULE Presence_proofs --------------------------
(***************************************************************************)
(* Proofs about the presence of a remote: every handler, timer and fault   *)
(* keeps the shape of the state, for any main stacks and any bounds.       *)
(***************************************************************************)
EXTENDS Presence, TLAPS

-----------------------------------------------------------------------------
(* The operations of a RemoteEstate.                                        *)

LEMMA RemoteTypes ==
  ASSUME NEW r \in Remotes, NEW s, NEW alived \in BOOLEAN
  PROVE  /\ Touched(r) \in Remotes /\ Refreshed(r, alived) \in Remotes
         /\ Unreaped(r) \in Remotes /\ Reaped(s, r) \in Remotes
         /\ Allowed(r) \in Remotes
<1>1. Touched(r) \in Remotes /\ Unreaped(r) \in Remotes
  BY DEF Remotes, Touched, Unreaped
<1>2. Refreshed(r, alived) \in Remotes
  BY DEF Remotes, Touched, Refreshed
<1>3. Reaped(s, r) \in Remotes
  BY DEF Remotes, Reaped
<1>4. Allowed(r) \in Remotes
  BY DEF Remotes, Allowed, Unreaped
<1> QED
  BY <1>1, <1>2, <1>3, <1>4

LEMMA OtherType == \A s \in Stacks : Other(s) \in Stacks
BY DEF Stacks, Other

LEMMA PhaseType == ASSUME NEW cascade PROVE Phase(cascade) \in Phases
BY DEF Phase, Phases

(* The part of TypeOK the start of a transaction may change. *)
PhasesOK ==
  /\ remote \in [Stacks -> Remotes]
  /\ joining \in [Stacks -> Phases] /\ allowing \in [Stacks -> Phases]

LEMMA StartJoinType ==
  ASSUME PhasesOK, NEW s \in Stacks, NEW r \in Remotes, NEW cascade, StartJoin(s, r, cascade)
  PROVE  PhasesOK'
<1>1. [r EXCEPT !.joined = FALSE] \in Remotes
  BY DEF Remotes
<1>2. Phase(cascade) \in Phases
  BY PhaseType
<1> QED
  BY <1>1, <1>2 DEF PhasesOK, StartJoin

LEMMA StartAllowType ==
  ASSUME PhasesOK, NEW s \in Stacks, NEW r \in Remotes, NEW cascade, StartAllow(s, r, cascade)
  PROVE  PhasesOK'
<1> DEFINE reset == [r EXCEPT !.allowed = FALSE]
<1>1. reset \in Remotes
  BY DEF Remotes
<1>2. Phase(cascade) \in Phases
  BY PhaseType
<1> HIDE DEF reset
<1>3. CASE remote' = [remote EXCEPT ![s] = r] /\ UNCHANGED <<joining, allowing>>
  BY <1>3 DEF PhasesOK
<1>4. CASE StartJoin(s, reset, cascade)
  BY <1>1, <1>4, StartJoinType
<1>5. CASE /\ allowing' = [allowing EXCEPT ![s] = Phase(cascade)]
           /\ remote' = [remote EXCEPT ![s] = reset]
           /\ UNCHANGED joining
  BY <1>1, <1>2, <1>5 DEF PhasesOK
<1> QED
  BY <1>3, <1>4, <1>5 DEF StartAllow, reset

-----------------------------------------------------------------------------
(* The handlers of alive.                                                   *)

LEMMA RequestType ==
  ASSUME NEW s \in Stacks, NEW t \in Tids
  PROVE  Request(s, t) \in Packets
BY OtherType DEF Request, Packets

LEMMA AnswerType ==
  ASSUME NEW p \in Packets, NEW pk \in {"ack", "unjoined", "unallowed", "nack"}
  PROVE  Answer(p, pk) \in Packets
<1>1. Other(p.to) \in Stacks /\ p.tid \in Tids
  BY OtherType DEF Packets
<1> QED
  BY <1>1 DEF Answer, Packets

LEMMA AliveType ==
  ASSUME TypeOK, NEW s \in Stacks, NEW r \in Remotes, NEW cascade,
         Alive(s, r, cascade), UNCHANGED <<up, faults>>
  PROVE  TypeOK'
<1>1. Reaped(s, r) \in Remotes /\ Touched(r) \in Remotes /\ Reaped(s, Touched(r)) \in Remotes
  BY RemoteTypes
<1>2. PhasesOK
  BY DEF TypeOK, PhasesOK
<1>3. CASE StartJoin(s, Reaped(s, r), cascade) /\ UNCHANGED <<alivers, net>>
  BY <1>1, <1>2, <1>3, StartJoinType DEF TypeOK, PhasesOK
<1>4. CASE StartAllow(s, Reaped(s, r), cascade) /\ UNCHANGED <<alivers, net>>
  BY <1>1, <1>2, <1>4, StartAllowType DEF TypeOK, PhasesOK
<1>5. ASSUME NEW t \in Tids,
             alivers' = [alivers EXCEPT ![s][t] = Phase(cascade)],
             net' = net \cup {Request(s, t)},
             remote' = [remote EXCEPT ![s] = Reaped(s, Touched(r))],
             UNCHANGED <<joining, allowing>>
      PROVE  TypeOK'
  BY <1>1, <1>5, RequestType, PhaseType DEF TypeOK
<1>6. CASE \E t \in Tids \ InProcess(s) :
             /\ alivers' = [alivers EXCEPT ![s][t] = Phase(cascade)]
             /\ net' = net \cup {Request(s, t)}
             /\ remote' = [remote EXCEPT ![s] = Reaped(s, Touched(r))]
             /\ UNCHANGED <<joining, allowing>>
  BY <1>5, <1>6
<1> QED
  BY <1>3, <1>4, <1>6 DEF Alive

LEMMA ReceiveType ==
  ASSUME TypeOK, NEW p \in net, Receive(p)
  PROVE  TypeOK'
<1> DEFINE s == p.to
           r == Unreaped(remote[s])
<1>1. p \in Packets /\ s \in Stacks /\ p.tid \in Tids
  BY DEF TypeOK, Packets
<1>2. remote[s] \in Remotes /\ r \in Remotes /\ PhasesOK /\ UNCHANGED <<up, faults>>
  BY <1>1, RemoteTypes DEF TypeOK, PhasesOK, Receive, AliverReceive, AliventReceive,
                           StaleReceive, Delivered
<1>3. /\ Touched(r) \in Remotes
      /\ Refreshed(r, TRUE) \in Remotes
      /\ [Touched(r) EXCEPT !.joined = FALSE] \in Remotes
      /\ [Touched(r) EXCEPT !.allowed = FALSE] \in Remotes
  <2>1. Touched(r) \in Remotes /\ Refreshed(r, TRUE) \in Remotes
    BY <1>2, RemoteTypes
  <2> QED
    BY <2>1 DEF Remotes
<1>4. net' \subseteq Packets /\ alivers' \in [Stacks -> [Tids -> Phases]]
  <2>1. Answer(p, "ack") \in Packets /\ Answer(p, "unjoined") \in Packets
        /\ Answer(p, "unallowed") \in Packets /\ Answer(p, "nack") \in Packets
    BY <1>1, AnswerType
  <2>2. net \subseteq Packets /\ alivers \in [Stacks -> [Tids -> Phases]]
        /\ "no" \in Phases
    BY DEF TypeOK, Phases
  <2>3. CASE AliverReceive(p)
    <3>1. /\ net' \in {net \ {p}, (net \ {p}) \cup {Answer(p, "nack")}}
          /\ alivers' = alivers \/ Remove(s, p.tid)
      BY <2>3 DEF AliverReceive
    <3>2. alivers' \in [Stacks -> [Tids -> Phases]]
      BY <1>1, <2>2, <3>1 DEF Remove
    <3>3. net' \subseteq Packets
      BY <2>1, <2>2, <3>1
    <3> QED
      BY <3>2, <3>3
  <2>4. CASE AliventReceive(p)
    BY <1>1, <2>1, <2>2, <2>4 DEF AliventReceive
  <2>5. CASE StaleReceive(p)
    BY <2>2, <2>5 DEF StaleReceive
  <2> QED
    BY <2>3, <2>4, <2>5 DEF Receive
<1> HIDE DEF r
<1>5. PhasesOK'
  <2>1. \/ Only(s, r) \/ Only(s, Refreshed(r, TRUE)) \/ Only(s, Touched(r))
        \/ \E cascade \in BOOLEAN : StartJoin(s, [Touched(r) EXCEPT !.joined = FALSE], cascade)
        \/ \E cascade \in BOOLEAN : StartAllow(s, [Touched(r) EXCEPT !.allowed = FALSE], cascade)
    <3>1. CASE AliverReceive(p)
      <4>1. CASE p.tid \in InProcess(s)
        <5>1. p.pk \in {"ack", "unjoined", "unallowed"}
          BY <1>1, <3>1 DEF AliverReceive, Packets
        <5> QED
          BY <3>1, <4>1, <5>1 DEF AliverReceive, r
      <4>2. CASE p.tid \notin InProcess(s)
        BY <3>1, <4>2 DEF AliverReceive, r
      <4> QED
        BY <4>1, <4>2
    <3>2. CASE AliventReceive(p)
      BY <3>2 DEF AliventReceive, r
    <3>3. CASE StaleReceive(p)
      BY <3>3 DEF StaleReceive, r
    <3> QED
      BY <3>1, <3>2, <3>3 DEF Receive
  <2>2. ASSUME NEW q \in Remotes, Only(s, q) PROVE PhasesOK'
    BY <1>1, <1>2, <2>2 DEF Only, PhasesOK
  <2> QED
    BY <1>1, <1>2, <1>3, <2>1, <2>2, StartJoinType, StartAllowType
<1> QED
  BY <1>2, <1>4, <1>5 DEF TypeOK, PhasesOK

-----------------------------------------------------------------------------
(* The ends of joins and allows.                                            *)

LEMMA PairType ==
  ASSUME NEW S, NEW s \in Stacks, NEW x \in S, NEW y \in S
  PROVE  Pair(s, x, y) \in [Stacks -> S]
BY DEF Pair

LEMMA FaultType == ASSUME TypeOK, Fault \/ UNCHANGED faults PROVE faults' \in 0 .. MaxFault
<1>1. MaxFault \in Nat /\ faults \in 0 .. MaxFault
  BY ConstantsAssumption DEF TypeOK
<1> QED
  BY <1>1 DEF Fault

LEMMA JoinEndType ==
  ASSUME TypeOK, NEW s \in Stacks, JoinEnd(s)
  PROVE  TypeOK'
<1>1. Other(s) \in Stacks /\ remote[s] \in Remotes /\ remote[Other(s)] \in Remotes
      /\ "no" \in Phases /\ "cascade" \in Phases
  BY OtherType DEF TypeOK, Phases
<1>2. ASSUME NEW both \in BOOLEAN, JoinEnds(s, both) PROVE TypeOK'
  <2> DEFINE joined == [remote[s] EXCEPT !.joined = TRUE, !.saved = TRUE]
             theirs == [remote[Other(s)] EXCEPT !.joined = both, !.saved = @ \/ both]
             goes == joining[s] = "cascade" /\ allowing[s] = "no"
             mine == IF goes THEN [joined EXCEPT !.allowed = FALSE] ELSE joined
  <2>1. mine \in Remotes /\ theirs \in Remotes
    BY <1>1 DEF Remotes
  <2>2. faults' \in 0 .. MaxFault
    BY <1>2, FaultType DEF JoinEnds
  <2>3. /\ remote' = Pair(s, mine, theirs) /\ joining' = Pair(s, "no", "no")
        /\ allowing' \in {allowing, [allowing EXCEPT ![s] = "cascade"]}
        /\ UNCHANGED <<up, alivers, net>>
    BY <1>2 DEF JoinEnds
  <2> HIDE DEF mine, theirs
  <2> QED
    BY <1>1, <2>1, <2>2, <2>3, PairType DEF TypeOK
<1>3. ASSUME NEW arrived \in BOOLEAN, JoinFails(s, arrived) PROVE TypeOK'
  <2>1. faults' \in 0 .. MaxFault
    BY <1>3, FaultType DEF JoinFails
  <2>2. [remote[Other(s)] EXCEPT !.joined = FALSE] \in Remotes
    BY <1>1 DEF Remotes
  <2>3. remote' \in {remote, [remote EXCEPT ![Other(s)] = [remote[Other(s)] EXCEPT !.joined = FALSE]]}
    BY <1>3 DEF JoinFails
  <2>4. remote' \in [Stacks -> Remotes]
    BY <1>1, <2>2, <2>3 DEF TypeOK
  <2> QED
    BY <1>1, <1>3, <2>1, <2>4 DEF TypeOK, JoinFails
<1> QED
  BY <1>2, <1>3 DEF JoinEnd

LEMMA AllowEndType ==
  ASSUME TypeOK, NEW s \in Stacks, AllowEnd(s)
  PROVE  TypeOK'
<1> DEFINE o == Other(s)
<1>1. o \in Stacks /\ remote[s] \in Remotes /\ remote[o] \in Remotes
      /\ joining[s] \in Phases /\ allowing[s] \in Phases /\ "no" \in Phases
  BY OtherType DEF TypeOK, Phases
<1>2. /\ Unreaped(remote[s]) \in Remotes /\ Unreaped(remote[o]) \in Remotes
      /\ Allowed(remote[s]) \in Remotes /\ Allowed(remote[o]) \in Remotes
      /\ Touched(Unreaped(remote[s])) \in Remotes /\ Touched(Allowed(remote[s])) \in Remotes
  BY <1>1, RemoteTypes
<1>3. /\ [Unreaped(remote[s]) EXCEPT !.joined = FALSE] \in Remotes
      /\ [Unreaped(remote[o]) EXCEPT !.allowed = FALSE] \in Remotes
  BY <1>2 DEF Remotes
<1>4. ASSUME NEW both \in BOOLEAN, AllowEnds(s, both) PROVE TypeOK'
  <2> DEFINE mine == IF both THEN Allowed(remote[s]) ELSE Unreaped(remote[s])
             goes == both /\ allowing[s] = "cascade" /\ remote[s].joined
             now == IF goes THEN Touched(mine) ELSE mine
  <2>1. now \in Remotes
    BY <1>2
  <2>2. faults' \in 0 .. MaxFault
    BY <1>4, FaultType DEF AllowEnds
  <2>3. /\ remote' = Pair(s, now, Allowed(remote[o])) /\ allowing' = Pair(s, "no", "no")
        /\ UNCHANGED <<up, joining>>
    BY <1>4 DEF AllowEnds
  <2>4. alivers' \in [Stacks -> [Tids -> Phases]] /\ net' \subseteq Packets
    <3>1. ASSUME NEW t \in Tids, alivers' = [alivers EXCEPT ![s][t] = "cascade"],
                 net' = net \cup {Request(s, t)}
          PROVE  alivers' \in [Stacks -> [Tids -> Phases]] /\ net' \subseteq Packets
      BY <3>1, RequestType DEF TypeOK, Phases
    <3>2. CASE UNCHANGED <<alivers, net>>
      BY <3>2 DEF TypeOK
    <3>3. \/ UNCHANGED <<alivers, net>>
          \/ \E t \in Tids \ InProcess(s) : /\ alivers' = [alivers EXCEPT ![s][t] = "cascade"]
                                              /\ net' = net \cup {Request(s, t)}
      BY <1>4 DEF AllowEnds
    <3> QED
      BY <3>1, <3>2, <3>3
  <2> HIDE DEF now, o
  <2> QED
    BY <1>1, <1>2, <2>1, <2>2, <2>3, <2>4, PairType DEF TypeOK
<1>5. ASSUME NEW arrived \in BOOLEAN, AllowFails(s, arrived) PROVE TypeOK'
  <2>1. faults' \in 0 .. MaxFault
    BY <1>5, FaultType DEF AllowFails
  <2>2. remote' \in {remote, [remote EXCEPT ![o] = [Unreaped(remote[o]) EXCEPT !.allowed = FALSE]]}
    BY <1>5 DEF AllowFails
  <2>3. remote' \in [Stacks -> Remotes]
    BY <1>1, <1>3, <2>2 DEF TypeOK
  <2> QED
    BY <1>1, <1>5, <2>1, <2>3 DEF TypeOK, AllowFails
<1>6. CASE AllowUnjoined(s)
  <2>1. /\ remote' = Pair(s, [Unreaped(remote[s]) EXCEPT !.joined = FALSE],
                             [Unreaped(remote[o]) EXCEPT !.allowed = FALSE])
        /\ allowing' = [allowing EXCEPT ![s] = "no"]
        /\ joining' \in {joining, [joining EXCEPT ![s] = allowing[s]]}
        /\ UNCHANGED <<up, alivers, net, faults>>
    BY <1>6 DEF AllowUnjoined, TypeOK
  <2>2. remote' \in [Stacks -> Remotes]
    BY <1>3, <2>1, PairType
  <2> QED
    BY <1>1, <2>1, <2>2 DEF TypeOK
<1> QED
  BY <1>4, <1>5, <1>6 DEF AllowEnd

-----------------------------------------------------------------------------
(* The rest.                                                                *)

LEMMA TimersType ==
  ASSUME TypeOK, NEW s \in Stacks, Expire(s) \/ ExpireReap(s) \/ Stop(s) \/ Start(s)
  PROVE  TypeOK'
<1>1. remote[s] \in Remotes /\ "no" \in Phases
  BY DEF TypeOK, Phases
<1>2. /\ [remote[s] EXCEPT !.due = TRUE] \in Remotes
      /\ [remote[s] EXCEPT !.late = TRUE] \in Remotes
      /\ NewRemote(remote[s].saved) \in Remotes
  BY <1>1 DEF Remotes, NewRemote
<1>3. CASE Expire(s)
  BY <1>2, <1>3 DEF Expire, TypeOK
<1>4. CASE ExpireReap(s)
  BY <1>2, <1>4 DEF ExpireReap, TypeOK
<1>5. CASE Stop(s)
  <2>1. faults' \in 0 .. MaxFault
    BY <1>5, FaultType DEF Stop
  <2>2. alivers' \in [Stacks -> [Tids -> Phases]]
    <3>1. NoAlivers \in [Tids -> Phases]
      BY DEF NoAlivers, Phases
    <3> QED
      BY <1>5, <3>1 DEF Stop, TypeOK
  <2> QED
    BY <1>1, <1>2, <1>5, <2>1, <2>2 DEF Stop, TypeOK
<1>6. CASE Start(s)
  BY <1>6 DEF Start, TypeOK
<1> QED
  BY <1>3, <1>4, <1>5, <1>6

LEMMA AliverType ==
  ASSUME TypeOK, NEW s \in Stacks, NEW t \in Tids, Redo(s, t) \/ Timeout(s, t)
  PROVE  TypeOK'
<1>1. Refreshed(remote[s], FALSE) \in Remotes
  BY RemoteTypes DEF TypeOK
<1>2. CASE Redo(s, t)
  BY <1>2, RequestType DEF Redo, TypeOK
<1>3. CASE Timeout(s, t)
  <2>1. faults' \in 0 .. MaxFault
    BY <1>3, FaultType DEF Timeout
  <2>2. alivers' \in [Stacks -> [Tids -> Phases]]
    BY <1>3 DEF Timeout, Remove, TypeOK, Phases
  <2> QED
    BY <1>1, <1>3, <2>1, <2>2 DEF Timeout, TypeOK
<1> QED
  BY <1>2, <1>3

LEMMA ManageType ==
  ASSUME TypeOK, NEW s \in Stacks, NEW cascade, NEW immediate, Manage(s, cascade, immediate)
  PROVE  TypeOK'
<1>1. remote[s] \in Remotes /\ Reaped(s, remote[s]) \in Remotes
  BY RemoteTypes DEF TypeOK
<1>2. CASE Alive(s, remote[s], cascade) /\ UNCHANGED <<up, faults>>
  BY <1>1, <1>2, AliveType
<1>3. CASE /\ remote' = [remote EXCEPT ![s] = Reaped(s, remote[s])]
           /\ UNCHANGED <<alivers, net, joining, allowing, up, faults>>
  BY <1>1, <1>3 DEF TypeOK
<1> QED
  BY <1>2, <1>3 DEF Manage

LEMMA LoseType == ASSUME TypeOK, NEW p \in net, Lose(p) PROVE TypeOK'
<1>1. faults' \in 0 .. MaxFault
  BY FaultType DEF Lose
<1> QED
  BY <1>1 DEF Lose, TypeOK

(* Every handler, timer and fault keeps the shape of a stack's presence: what
   presence runs with, and what its fairness quantifies over. *)
THEOREM PresenceTypes == Spec => []TypeOK
<1>1. Init => TypeOK
  BY ConstantsAssumption
  DEF Init, TypeOK, NewRemote, NoAlivers, Remotes, Phases
<1>2. TypeOK /\ [Next]_vars => TypeOK'
  <2> SUFFICES ASSUME TypeOK, [Next]_vars PROVE TypeOK'
    OBVIOUS
  <2>1. \A s \in Stacks : InProcess(s) \subseteq Tids
    BY DEF InProcess
  <2>2. CASE UNCHANGED vars
    BY <2>2 DEF vars, TypeOK
  <2>3. ASSUME NEW p \in net, Receive(p) \/ Lose(p) PROVE TypeOK'
    BY <2>3, ReceiveType, LoseType
  <2>4. ASSUME NEW s \in Stacks,
               \/ \E cascade, immediate \in BOOLEAN : Manage(s, cascade, immediate)
               \/ \E t \in InProcess(s) : Redo(s, t) \/ Timeout(s, t)
               \/ JoinEnd(s) \/ AllowEnd(s)
               \/ Expire(s) \/ ExpireReap(s) \/ Stop(s) \/ Start(s)
        PROVE  TypeOK'
    BY <2>1, <2>4, ManageType, AliverType, JoinEndType, AllowEndType, TimersType
  <2> QED
    BY <2>2, <2>3, <2>4 DEF Next
<1> QED
  BY <1>1, <1>2, PTL DEF Spec
=============================================================================
