------------------------------ MODULE Presence ------------------------------
(***************************************************************************)
(* The presence of a remote (raet/road/estating.py, refresh, manage, reap   *)
(* and unreap; raet/road/transacting.py, Aliver and Alivent;                *)
(* raet/road/stacking.py, manage and processRx): two stacks ask each other  *)
(* for signs of life, and a main stack stops asking a remote that gave none *)
(* for long.                                                                *)
(*                                                                          *)
(* An alive needs the remote joined and allowed, and starts the transaction *)
(* that is missing.  Join and allow are here only their outcomes: Joining   *)
(* and Session have their packets.  None and False are the same to all that *)
(* is read here.  A timer is expired or not: the clock is left out.         *)
(***************************************************************************)
EXTENDS Naturals, FiniteSets

CONSTANTS
  Mains,     \* stacks that are main
  MaxTid,    \* bound: alives of a stack in process
  MaxFault   \* bound: lost packets, early timeouts, joins and allows that fail, stops

Stacks == {"a", "b"}

ASSUME ConstantsAssumption == Mains \subseteq Stacks /\ MaxTid \in Nat /\ MaxFault \in Nat

VARIABLES
  up,        \* stacks that run
  remote,    \* the remote each stack has for the other
  alivers,   \* the Alivers of each stack, by transaction id
  joining,   \* the Joiner of each stack
  allowing,  \* the Allower of each stack
  net,       \* packets of alive transactions in flight
  faults     \* how many faults happened

vars == <<up, remote, alivers, joining, allowing, net, faults>>

Other(s) == IF s = "a" THEN "b" ELSE "a"
Tids == 1 .. MaxTid

(* due and late: timer and reapTimer are expired; saved: joined, on disk. *)
Remotes == [joined: BOOLEAN, saved: BOOLEAN, allowed: BOOLEAN, alived: BOOLEAN,
            reaped: BOOLEAN, due: BOOLEAN, late: BOOLEAN]

(* No transaction, one, or one that goes on with the next kind: cascade. *)
Phases == {"no", "one", "cascade"}
Phase(cascade) == IF cascade THEN "cascade" ELSE "one"

NoAlivers == [t \in Tids |-> "no"]
InProcess(s) == {t \in Tids : alivers[s][t] # "no"}

Packets == [to: Stacks, tid: Tids,
            pk: {"request", "ack", "unjoined", "unallowed", "nack"}]

(* Every variable has its type. *)
TypeOK ==
  /\ up \subseteq Stacks
  /\ remote \in [Stacks -> Remotes]
  /\ alivers \in [Stacks -> [Tids -> Phases]]
  /\ joining \in [Stacks -> Phases] /\ allowing \in [Stacks -> Phases]
  /\ net \subseteq Packets
  /\ faults \in 0 .. MaxFault

NewRemote(saved) ==
  [joined |-> saved, saved |-> saved, allowed |-> FALSE, alived |-> FALSE,
   reaped |-> FALSE, due |-> FALSE, late |-> FALSE]

Init ==
  /\ up = Stacks
  /\ remote = [s \in Stacks |-> NewRemote(FALSE)]
  /\ alivers = [s \in Stacks |-> NoAlivers]
  /\ joining = [s \in Stacks |-> "no"] /\ allowing = [s \in Stacks |-> "no"]
  /\ net = {} /\ faults = 0

Fault == faults < MaxFault /\ faults' = faults + 1

-----------------------------------------------------------------------------
(* RemoteEstate.                                                            *)

(* refresh(None): only the heartbeat timer is restarted. *)
Touched(r) == [r EXCEPT !.due = FALSE]

(* refresh(True) and refresh(False). *)
Refreshed(r, alived) ==
  LET heard == r.alived \/ alived
  IN [Touched(r) EXCEPT !.alived = alived,
                        !.late = IF heard THEN FALSE ELSE @,
                        !.reaped = IF heard THEN FALSE ELSE @]

(* processRx: unreap, for any packet but those of a join. *)
Unreaped(r) == [r EXCEPT !.reaped = FALSE]

(* Mutant: a remote is reaped whoever it is that the stack is. *)
ReapedByAny(s, r) == IF r.late THEN [r EXCEPT !.reaped = TRUE] ELSE r

(* Mutant: nobody is reaped. *)
ReapedNever(s, r) == r

(* manage: reap, which only a main does. *)
Reaped(s, r) == IF r.late /\ s \in Mains THEN [r EXCEPT !.reaped = TRUE] ELSE r

(* RoadStack.join and allow, from the state r of the remote of s: a transaction
   in process is not started again. *)
StartJoin(s, r, cascade) ==
  /\ joining' = [joining EXCEPT ![s] = IF @ = "no" THEN Phase(cascade) ELSE @]
  /\ remote' = [remote EXCEPT ![s] = IF joining[s] = "no" THEN [r EXCEPT !.joined = FALSE] ELSE r]
  /\ UNCHANGED allowing

StartAllow(s, r, cascade) ==
  LET reset == [r EXCEPT !.allowed = FALSE]
  IN IF joining[s] # "no" \/ allowing[s] # "no"
     THEN remote' = [remote EXCEPT ![s] = r] /\ UNCHANGED <<joining, allowing>>
     ELSE IF ~r.joined THEN StartJoin(s, reset, cascade)
     ELSE /\ allowing' = [allowing EXCEPT ![s] = Phase(cascade)]
          /\ remote' = [remote EXCEPT ![s] = reset]
          /\ UNCHANGED joining

-----------------------------------------------------------------------------
(* Aliver.                                                                  *)

Request(s, t) == [to |-> Other(s), tid |-> t, pk |-> "request"]

(* alive, from the state r, after which manage looks at reapTimer. *)
Alive(s, r, cascade) ==
  CASE ~r.joined -> StartJoin(s, Reaped(s, r), cascade) /\ UNCHANGED <<alivers, net>>
    [] r.joined /\ ~r.allowed -> StartAllow(s, Reaped(s, r), cascade) /\ UNCHANGED <<alivers, net>>
    [] OTHER ->
         \E t \in Tids \ InProcess(s) :
           /\ alivers' = [alivers EXCEPT ![s][t] = Phase(cascade)]
           /\ net' = net \cup {Request(s, t)}
           /\ remote' = [remote EXCEPT ![s] = Reaped(s, Touched(r))]
           /\ UNCHANGED <<joining, allowing>>

(* RemoteEstate.manage, called by RoadStack.manage. *)
Manage(s, cascade, immediate) ==
  LET r == remote[s]
  IN /\ s \in up /\ ~r.reaped /\ (immediate \/ r.due \/ r.late)
     /\ IF immediate \/ r.due
        THEN Alive(s, r, cascade)
        ELSE remote' = [remote EXCEPT ![s] = Reaped(s, r)]
             /\ UNCHANGED <<alivers, net, joining, allowing>>
     /\ UNCHANGED <<up, faults>>

Remove(s, t) == alivers' = [alivers EXCEPT ![s][t] = "no"]

(* process. *)
Redo(s, t) ==
  /\ s \in up /\ t \in InProcess(s)
  /\ net' = net \cup {Request(s, t)}
  /\ UNCHANGED <<up, remote, alivers, joining, allowing, faults>>

(* The timeout comes long after the answer unless something went wrong. *)
Timeout(s, t) ==
  /\ s \in up /\ t \in InProcess(s)
  /\ IF Other(s) \notin up THEN UNCHANGED faults ELSE Fault
  /\ Remove(s, t)
  /\ remote' = [remote EXCEPT ![s] = Refreshed(@, FALSE)]
  /\ UNCHANGED <<up, joining, allowing, net>>

(* A packet that answers p. *)
Answer(p, pk) == [to |-> Other(p.to), tid |-> p.tid, pk |-> pk]

Delivered(p) == p \in net /\ p.to \in up /\ UNCHANGED <<up, faults>>

Only(s, r) == remote' = [remote EXCEPT ![s] = r] /\ UNCHANGED <<joining, allowing>>

(* complete, refuse, unjoin and unallow, which pass on the Aliver's cascade;
   without an Aliver, stale nacks p. *)
AliverReceive(p) ==
  LET s == p.to
      r == Unreaped(remote[s])
      cascade == alivers[s][p.tid] = "cascade"
  IN /\ Delivered(p) /\ p.pk \notin {"request", "nack"}
     /\ IF p.tid \in InProcess(s)
        THEN /\ Remove(s, p.tid)
             /\ net' = net \ {p}
             /\ CASE p.pk = "ack"       -> Only(s, Refreshed(r, TRUE))
                  [] p.pk = "unjoined"  ->
                       StartJoin(s, [Touched(r) EXCEPT !.joined = FALSE], cascade)
                  [] p.pk = "unallowed" ->
                       StartAllow(s, [Touched(r) EXCEPT !.allowed = FALSE], cascade)
        ELSE /\ net' = (net \ {p}) \cup (IF p.pk = "ack" THEN {Answer(p, "nack")} ELSE {})
             /\ Only(s, r)
             /\ UNCHANGED alivers

(* Alivent.alive. *)
AliventReceive(p) ==
  LET s == p.to
      r == Unreaped(remote[s])
      pk == IF ~r.joined THEN "unjoined" ELSE IF ~r.allowed THEN "unallowed" ELSE "ack"
  IN /\ Delivered(p) /\ p.pk = "request"
     /\ net' = (net \ {p}) \cup {Answer(p, pk)}
     /\ Only(s, IF pk = "ack" THEN Refreshed(r, TRUE) ELSE Touched(r))
     /\ UNCHANGED alivers

(* The nack of a stale ack finds no transaction. *)
StaleReceive(p) ==
  /\ Delivered(p) /\ p.pk = "nack"
  /\ net' = net \ {p}
  /\ Only(p.to, Unreaped(remote[p.to]))
  /\ UNCHANGED alivers

Lose(p) ==
  /\ p \in net /\ net' = net \ {p}
  /\ IF p.to \in up THEN Fault ELSE UNCHANGED faults
  /\ UNCHANGED <<up, remote, alivers, joining, allowing>>

-----------------------------------------------------------------------------
(* How joins and allows end.                                                *)

Pair(s, mine, theirs) == [x \in Stacks |-> IF x = s THEN mine ELSE theirs]

(* A join that succeeds, for both, or only for the Joiner, when its ack was
   lost; with cascade an allow follows. *)
JoinEnds(s, both) ==
  LET o == Other(s)
      joined == [remote[s] EXCEPT !.joined = TRUE, !.saved = TRUE]
      theirs == [remote[o] EXCEPT !.joined = both, !.saved = @ \/ both]
      goes == joining[s] = "cascade" /\ allowing[s] = "no"
  IN /\ up = Stacks /\ joining[s] # "no"
     /\ IF both THEN UNCHANGED faults ELSE Fault
     /\ joining' = Pair(s, "no", "no")
     /\ allowing' = IF goes THEN [allowing EXCEPT ![s] = "cascade"] ELSE allowing
     /\ remote' = Pair(s, IF goes THEN [joined EXCEPT !.allowed = FALSE] ELSE joined, theirs)
     /\ UNCHANGED <<up, alivers, net>>

(* The Joiner times out; its request may have arrived. *)
JoinFails(s, arrived) ==
  /\ s \in up /\ joining[s] # "no" /\ (arrived => up = Stacks)
  /\ IF up = Stacks THEN Fault ELSE UNCHANGED faults
  /\ joining' = [joining EXCEPT ![s] = "no"]
  /\ remote' = IF arrived THEN [remote EXCEPT ![Other(s)].joined = FALSE] ELSE remote
  /\ UNCHANGED <<up, alivers, allowing, net>>

(* Allower.allow and Allowent.allow: alived is set, refresh is not called. *)
Allowed(r) == [Unreaped(r) EXCEPT !.allowed = TRUE, !.alived = TRUE]

(* An allow that succeeds, for both, or only for the Allowent; with cascade an
   alive follows. *)
AllowEnds(s, both) ==
  LET o == Other(s)
      mine == IF both THEN Allowed(remote[s]) ELSE Unreaped(remote[s])
      goes == both /\ allowing[s] = "cascade" /\ remote[s].joined
  IN /\ up = Stacks /\ allowing[s] # "no" /\ remote[o].joined /\ joining[o] = "no"
     /\ IF both THEN UNCHANGED faults ELSE Fault
     /\ allowing' = Pair(s, "no", "no")
     /\ remote' = Pair(s, IF goes THEN Touched(mine) ELSE mine, Allowed(remote[o]))
     /\ IF goes
        THEN \E t \in Tids \ InProcess(s) :
               /\ alivers' = [alivers EXCEPT ![s][t] = "cascade"]
               /\ net' = net \cup {Request(s, t)}
        ELSE UNCHANGED <<alivers, net>>
     /\ UNCHANGED <<up, joining>>

(* The Allowent is not joined: it nacks, and the Allower joins. *)
AllowUnjoined(s) ==
  LET o == Other(s)
  IN /\ up = Stacks /\ allowing[s] # "no" /\ ~remote[o].joined
     /\ allowing' = [allowing EXCEPT ![s] = "no"]
     /\ joining' = [joining EXCEPT ![s] = IF @ = "no" THEN allowing[s] ELSE @]
     /\ remote' = Pair(s, [Unreaped(remote[s]) EXCEPT !.joined = FALSE],
                       [Unreaped(remote[o]) EXCEPT !.allowed = FALSE])
     /\ UNCHANGED <<up, alivers, net, faults>>

(* The Allower times out or is refused; its hello may have arrived. *)
AllowFails(s, arrived) ==
  LET o == Other(s)
  IN /\ s \in up /\ allowing[s] # "no" /\ (arrived => up = Stacks)
     /\ IF up # Stacks \/ (arrived /\ joining[o] # "no") THEN UNCHANGED faults ELSE Fault
     /\ allowing' = [allowing EXCEPT ![s] = "no"]
     /\ remote' = IF arrived
                  THEN [remote EXCEPT ![o] = [Unreaped(@) EXCEPT !.allowed = FALSE]]
                  ELSE remote
     /\ UNCHANGED <<up, alivers, joining, net>>

-----------------------------------------------------------------------------
(* The timers, and the stacks themselves.                                   *)

Expire(s) ==
  /\ s \in up /\ ~remote[s].due
  /\ remote' = [remote EXCEPT ![s].due = TRUE]
  /\ UNCHANGED <<up, alivers, joining, allowing, net, faults>>

(* By default it runs 3600 times as long as the other. *)
ExpireReap(s) ==
  /\ s \in up /\ remote[s].due /\ ~remote[s].late
  /\ remote' = [remote EXCEPT ![s].late = TRUE]
  /\ UNCHANGED <<up, alivers, joining, allowing, net, faults>>

Stop(s) ==
  /\ s \in up /\ Fault
  /\ up' = up \ {s}
  /\ alivers' = [alivers EXCEPT ![s] = NoAlivers]
  /\ joining' = [joining EXCEPT ![s] = "no"] /\ allowing' = [allowing EXCEPT ![s] = "no"]
  /\ remote' = [remote EXCEPT ![s] = NewRemote(@.saved)]
  /\ UNCHANGED net

Start(s) ==
  /\ s \notin up /\ up' = up \cup {s}
  /\ UNCHANGED <<remote, alivers, joining, allowing, net, faults>>

Receive(p) == AliverReceive(p) \/ AliventReceive(p) \/ StaleReceive(p)

JoinEnd(s) == \E flag \in BOOLEAN : JoinEnds(s, flag) \/ JoinFails(s, flag)
AllowEnd(s) ==
  \/ \E flag \in BOOLEAN : AllowEnds(s, flag) \/ AllowFails(s, flag)
  \/ AllowUnjoined(s)

Next ==
  \/ \E p \in net : Receive(p) \/ Lose(p)
  \/ \E s \in Stacks :
       \/ \E cascade, immediate \in BOOLEAN : Manage(s, cascade, immediate)
       \/ \E t \in InProcess(s) : Redo(s, t) \/ Timeout(s, t)
       \/ JoinEnd(s) \/ AllowEnd(s)
       \/ Expire(s) \/ ExpireReap(s) \/ Stop(s) \/ Start(s)

Spec == Init /\ [][Next]_vars

(* Each stack is serviced again and again: its timers are seen to expire, what
   arrives is handled, transactions end.  While the other is down nothing
   restarts reapTimer but the first alive that fails. *)
Fairness ==
  /\ \A s \in Stacks :
       /\ WF_vars(Expire(s)) /\ SF_vars(Other(s) \notin up /\ ExpireReap(s))
       /\ WF_vars(\E cascade \in BOOLEAN : Manage(s, cascade, FALSE))
       /\ WF_vars(JoinEnd(s)) /\ WF_vars(AllowEnd(s))
       /\ \A t \in Tids : WF_vars(Timeout(s, t)) /\ WF_vars(Redo(s, t))
  /\ \A p \in Packets : WF_vars(Receive(p)) /\ WF_vars(p.to \notin up /\ Lose(p))

FairSpec == Spec /\ Fairness

-----------------------------------------------------------------------------
(* Properties.                                                              *)

(* Only one stack is main: whatever was lost, refused or reaped before, stacks
   that both run find each other alive again and again. *)
Recovers ==
  <>[](up = Stacks) =>
    []<>(\A s \in Stacks : remote[s].alived /\ remote[s].allowed /\ ~remote[s].reaped)

(* A main stack that goes on to manage its remotes reaps the one that stopped
   for good, whatever was under way when it did. *)
DeadIsReaped ==
  \A s \in Mains : <>[](up = {s}) => <>[](remote[s].reaped)

(* ".alived = True, alive, recently have received valid signed packets": one
   that stopped for good is no longer alive some day. *)
DeadIsNoticed ==
  \A s \in Stacks : <>[](up = {s}) => <>[](~remote[s].alived)
=============================================================================
