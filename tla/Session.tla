------------------------------- MODULE Session -------------------------------
(***************************************************************************)
(* Allow transactions and sessions of RAET (Allower, Allowent, RemoteEstate *)
(* and RoadStack.processRx under raet/road).  Two joined stacks allow each  *)
(* other by hello, cookie, initiate, ack and a final ack; either may start, *)
(* both at once.  Each completed allow starts a new session: messages under *)
(* way are saved and sent again in it, and packets of older sessions are    *)
(* stale.  Messages here take one packet; Messaging has the segments.       *)
(***************************************************************************)
EXTENDS Lotting, FiniteSets, Sequences

CONSTANTS
  Msgs,      \* messages the applications send
  From,      \* From[m]: the stack that sends m
  FirstSid,  \* the session number both sides begin with
  Quick,     \* the network is faster than every timer, loses and repeats nothing
  MaxTid,    \* bound: no allow is initiated once a stack has used this many ids
  MaxKey,    \* bound: short term keys a stack generates
  MaxSids,   \* bound: sessions a stack starts
  MaxNet     \* bound: packets in flight

Peers == {"a", "b"}   \* the stacks' names, "a" the lesser
Other(p) == IF p = "a" THEN "b" ELSE "a"

ASSUME FromAssumption == From \in [Msgs -> Peers]
ASSUME SidAssumption == FirstSid \in Ids /\ MaxSids \in 0 .. Half - 2
ASSUME BoundAssumption ==
  {MaxTid, MaxNet} \subseteq Nat /\ MaxKey \in Nat \ {0} /\ Quick \in BOOLEAN

VARIABLES
  estate,     \* each stack's RemoteEstate for the other, with its transactions
  net,        \* packets in flight
  sessions,   \* sessions each stack has started, for the bound
  submitted,  \* messages given to RoadStack.message
  rxMsgs,     \* how often a message of a session reached the application
  raised,     \* an exception has left serviceRxes
  timely      \* so far, each Allowent has outlived the Allower it answers

vars == <<estate, net, sessions, submitted, rxMsgs, raised, timely>>

-----------------------------------------------------------------------------
(* Packets and transactions.  A key is the count of its stack's rekeys, 0    *)
(* before the first is known; the cookie nonce, generated once a rekey, is   *)
(* named by the key it comes with.                                           *)

Pkt(p, tk, pk, cf, si, ti, body) ==
  [tk |-> tk, pk |-> pk, to |-> Other(p), cf |-> cf, si |-> si, ti |-> ti, body |-> body]

AllowPkt(p, t, pk, body) == Pkt(p, "allow", pk, t.rf, t.si, t.ti, body)
MessagePkt(p, x) == Pkt(p, "message", "message", FALSE, x.si, x.ti, <<x.m, x.box>>)
Reply(k, pk) ==
  Pkt(k.to, k.tk, pk, ~k.cf, k.si, k.ti, <<>>)

Nacks == {"nack", "refuse", "reject"}

(* What Allower.transmit and Allowent.transmit remember for the redo timer. *)
Redone(p, t, e) ==
  CASE t.tx = "hello"    -> AllowPkt(p, t, "hello", <<e.privee>>)
    [] t.tx = "initiate" -> AllowPkt(p, t, "initiate", <<e.privee, t.oreo>>)
    [] t.tx = "cookie"   -> AllowPkt(p, t, "cookie", <<t.oreo>>)
    [] t.tx = "ack"      -> AllowPkt(p, t, "ack", <<>>)

(* A message is encrypted for the pair of short term keys of its time. *)
Box(p, e) == IF p = "a" THEN <<e.privee, e.publee>> ELSE <<e.publee, e.privee>>

NewEstate(n, key) ==
  [sid |-> n, rsid |-> 0, tid |-> 0, allowed |-> FALSE, privee |-> key, publee |-> 0,
   messages |-> <<>>, doneTransactions |-> {}, allows |-> {}, messengers |-> {}]

-----------------------------------------------------------------------------
(* RemoteEstate.                                                             *)

(* What a handler leaves: the estate and the packets it sends. *)
Result(e, out) == [e |-> e, out |-> out]

(* Mutant: new keys, and still allowed. *)
RekeyAllowed(e) == [e EXCEPT !.privee = @ + 1, !.publee = 0]

(* rekey(): nothing is known of the other side's new key yet. *)
Rekey(e) == [e EXCEPT !.allowed = FALSE, !.privee = @ + 1, !.publee = 0]

(* removeStaleCorrespondents. *)
RemoveStaleCorrespondents(p, e) ==
  LET stale == {t \in e.allows : t.rf /\ ~Valid(t.si, e.rsid)}
  IN Result([e EXCEPT !.allows = @ \ stale, !.doneTransactions = {}],
            {AllowPkt(p, t, "nack", <<>>) : t \in stale})

(* What saveMessage keeps of stale Messengers, oldest transaction first. *)
Bodies(X) ==
  LET nth(i) == CHOOSE x \in X : Cardinality({y \in X : y.ti <= x.ti}) = i
  IN [i \in 1 .. Cardinality(X) |-> nth(i).m]

(* replaceStaleInitiators. *)
ReplaceStaleInitiators(p, e) ==
  LET allows == {t \in e.allows : ~t.rf /\ ~Valid(t.si, e.sid)}
      stale  == {x \in e.messengers : ~Valid(x.si, e.sid)}
  IN Result([e EXCEPT !.allows = @ \ allows, !.messengers = @ \ stale,
                      !.messages = @ \o Bodies(stale)],
            {AllowPkt(p, t, "nack", <<>>) : t \in allows}
              \cup {Pkt(p, "message", "nack", FALSE, x.si, x.ti, <<>>) : x \in stale})

StartSession(p, e) == ReplaceStaleInitiators(p, [e EXCEPT !.sid = NextId(@)])

(* Messenger.message for each message of a sequence: dropped if not allowed. *)
Messages(p, e, M) ==
  LET next == [e EXCEPT !.tid = @ + Len(M)]
      new  == {[m |-> M[i], si |-> e.sid, ti |-> e.tid + i, box |-> Box(p, e)] : i \in DOMAIN M}
  IN IF e.allowed
     THEN Result([next EXCEPT !.messengers = @ \cup new], {MessagePkt(p, x) : x \in new})
     ELSE Result(next, {})

SendSavedMessages(p, e) == Messages(p, [e EXCEPT !.messages = <<>>], e.messages)

-----------------------------------------------------------------------------
(* Allower.                                                                  *)

Hello(p, e) ==
  LET r == Rekey([e EXCEPT !.tid = @ + 1])
      t == [rf |-> FALSE, si |-> r.sid, ti |-> r.tid, tx |-> "hello", oreo |-> 0]
  IN Result([r EXCEPT !.allows = @ \cup {t}], {Redone(p, t, r)})

Cookie(p, e, t, k) ==
  LET s == [t EXCEPT !.tx = "initiate", !.oreo = k.body[1]]
      r == [e EXCEPT !.publee = k.body[1], !.allows = (@ \ {t}) \cup {s}]
  IN Result(r, {Redone(p, s, r)})

(* allow(), ackFinal(): the transaction is gone before its last ack is sent. *)
AckFinal(p, e, t) ==
  LET r    == [e EXCEPT !.allowed = TRUE, !.allows = @ \ {t}]
      next == StartSession(p, r)
      sent == SendSavedMessages(p, next.e)
  IN Result(sent.e, {AllowPkt(p, t, "ack", <<>>)} \cup next.out \cup sent.out)

Forget(e, t) == Result([e EXCEPT !.allows = @ \ {t}], {})

Refused(e, t, pk) ==
  Result([e EXCEPT !.allows = @ \ {t}, !.allowed = @ /\ pk # "reject"], {})

AllowerReceive(p, e, t, k) ==
  CASE k.pk = "cookie" -> Cookie(p, e, t, k)
    [] k.pk = "ack"    -> AckFinal(p, e, t)
    [] k.pk \in Nacks  -> Refused(e, t, k.pk)

-----------------------------------------------------------------------------
(* Allowent.                                                                 *)

(* Mutant: the initiator under way is kept beside the correspondent. *)
HelloedBoth(p, e, k) ==
  IF \E t \in e.allows : t.rf \/ p = "a" THEN Result(e, {Reply(k, "refuse")})
  ELSE LET r == Rekey(e)
           t == [rf |-> TRUE, si |-> k.si, ti |-> k.ti, tx |-> "cookie", oreo |-> r.privee]
           s == [r EXCEPT !.publee = k.body[1], !.allows = @ \cup {t}]
       IN Result(s, {Redone(p, t, s)})

(* Mutant: two initiators refuse each other. *)
HelloedRefuse(p, e, k) ==
  IF e.allows # {} THEN Result(e, {Reply(k, "refuse")})
  ELSE LET r == Rekey(e)
           t == [rf |-> TRUE, si |-> k.si, ti |-> k.ti, tx |-> "cookie", oreo |-> r.privee]
           s == [r EXCEPT !.publee = k.body[1], !.allows = {t}]
       IN Result(s, {Redone(p, t, s)})

(* hello() of a new Allowent: refused when an allow is in process here, except
   that the greater name gives up the one it has initiated. *)
Helloed(p, e, k) ==
  IF \E t \in e.allows : t.rf \/ p = "a" THEN Result(e, {Reply(k, "refuse")})
  ELSE LET r == Rekey(e)
           t == [rf |-> TRUE, si |-> k.si, ti |-> k.ti, tx |-> "cookie", oreo |-> r.privee]
           s == [r EXCEPT !.publee = k.body[1], !.allows = {t}]
       IN Result(s, {AllowPkt(p, i, "refuse", <<>>) : i \in e.allows} \cup {Redone(p, t, s)})

(* initiate(), ackInitiate(), allow(): each good initiate starts a session. *)
Initiated(p, e, t, k) ==
  IF k.body # <<e.publee, t.oreo>>
  THEN Result([e EXCEPT !.allows = @ \ {t}], {AllowPkt(p, t, "reject", <<>>)})
  ELSE LET s == [t EXCEPT !.tx = "ack"]
           next == StartSession(p, [e EXCEPT !.allowed = TRUE, !.allows = (@ \ {t}) \cup {s}])
       IN Result(next.e, {Redone(p, s, e)} \cup next.out)

AllowentReceive(p, e, t, k) ==
  CASE k.pk = "hello"    -> Result(e, {})
    [] k.pk = "initiate" -> Initiated(p, e, t, k)
    [] k.pk = "ack"      -> SendSavedMessages(p, [e EXCEPT !.allows = @ \ {t}])
    [] k.pk \in Nacks    -> Refused(e, t, k.pk)

-----------------------------------------------------------------------------
(* Messenger and Messengent, one packet a message.                           *)

MessengerReceive(e, x) == Result([e EXCEPT !.messengers = @ \ {x}], {})

(* Decryption with the present keys fails on a packet of older ones. *)
Readable(p, e, k) == k.body[2] = Box(p, e)

(* Mutant: what is done is not remembered. *)
Unhandled(e, k) == e

(* Messengent.remove. *)
Handled(e, k) == [e EXCEPT !.doneTransactions = @ \cup {k.ti}]

Messaged(p, e, k) ==
  IF k.ti \in e.doneTransactions THEN Result(e, {Reply(k, "nack")})
  ELSE IF ~e.allowed THEN Result(Handled(e, k), {Reply(k, "nack")})
  ELSE IF ~Readable(p, e, k) THEN Result(e, {})
  ELSE Result(Handled(e, k), {Reply(k, "done")})

IsDelivered(p, e, k) ==
  /\ k.tk = "message" /\ k.pk = "message"
  /\ k.ti \notin e.doneTransactions /\ e.allowed /\ Readable(p, e, k)

IsRaised(p, e, k) ==
  /\ k.tk = "message" /\ k.pk = "message"
  /\ k.ti \notin e.doneTransactions /\ e.allowed /\ ~Readable(p, e, k)

-----------------------------------------------------------------------------
(* RoadStack.processRx.                                                      *)

Same(x, k) == x.si = k.si /\ x.ti = k.ti

(* trans.receive, stale() or correspond(). *)
Dispatch(p, e, k) ==
  LET ts == {t \in e.allows : k.tk = "allow" /\ t.rf # k.cf /\ Same(t, k)}
      xs == {x \in e.messengers : k.tk = "message" /\ k.cf /\ Same(x, k)}
  IN CASE ts # {} -> LET t == CHOOSE t \in ts : TRUE
                     IN IF t.rf THEN AllowentReceive(p, e, t, k) ELSE AllowerReceive(p, e, t, k)
       [] xs # {} -> MessengerReceive(e, CHOOSE x \in xs : TRUE)
       [] ts = {} /\ xs = {} /\ k.cf ->
            Result(e, IF k.pk \in Nacks THEN {} ELSE {Reply(k, "nack")})
       [] ts = {} /\ ~k.cf /\ k.pk = "hello"   -> Helloed(p, e, k)
       [] ts = {} /\ ~k.cf /\ k.pk = "message" -> Messaged(p, e, k)
       [] OTHER -> Result(e, {})

(* A packet of a newer session than any seen moves rsid. *)
NewSession(p, e, k) ==
  IF ~k.cf /\ k.si # e.rsid THEN RemoveStaleCorrespondents(p, [e EXCEPT !.rsid = k.si])
  ELSE Result(e, {})

(* The packet, or a copy that stays in the network, is received. *)
Receive(k, copies) ==
  LET p == k.to
      e == estate[p]
      fresh == NewSession(p, e, k)
      done  == Dispatch(p, fresh.e, k)
      stale == ~k.cf /\ ~Valid(k.si, e.rsid)
      result == IF stale THEN Result(e, IF k.pk \in Nacks THEN {} ELSE {Reply(k, "nack")})
                ELSE Result(done.e, fresh.out \cup done.out)
      path == (net \ ({k} \ copies)) \cup result.out
  IN /\ k \in net
     /\ result.e.privee <= MaxKey
     /\ result.e.sid # e.sid => sessions[p] < MaxSids
     /\ estate' = [estate EXCEPT ![p] = result.e]
     /\ sessions' = [sessions EXCEPT ![p] = IF result.e.sid # e.sid THEN @ + 1 ELSE @]
     /\ net' = IF Cardinality(path) <= MaxNet THEN path ELSE net \ ({k} \ copies)
     /\ rxMsgs' = IF ~stale /\ IsDelivered(p, fresh.e, k)
                  THEN [rxMsgs EXCEPT ![<<k.body[1], k.si>>] = @ + 1] ELSE rxMsgs
     /\ raised' = (raised \/ (~stale /\ IsRaised(p, fresh.e, k)))
     /\ UNCHANGED <<submitted, timely>>

-----------------------------------------------------------------------------
(* Everything else that happens.                                             *)

Send(S) == net' = IF Cardinality(net \cup S) <= MaxNet THEN net \cup S ELSE net

Init ==
  /\ estate = [p \in Peers |-> NewEstate(FirstSid, 1)]
  /\ net = {}
  /\ sessions = [p \in Peers |-> 0]
  /\ submitted = {}
  /\ rxMsgs = [x \in Msgs \X Ids |-> 0]
  /\ raised = FALSE
  /\ timely = TRUE

(* RoadStack.allow, unless an allow is in process. *)
Allow(p) ==
  LET result == Hello(p, estate[p])
  IN /\ estate[p].allows = {}
     /\ result.e.tid <= MaxTid /\ result.e.privee <= MaxKey
     /\ estate' = [estate EXCEPT ![p] = result.e]
     /\ Send(result.out)
     /\ UNCHANGED <<sessions, submitted, rxMsgs, raised, timely>>

(* RoadStack.message: Messenger.message drops it when the remote is not allowed. *)
Submit(m) ==
  LET p == From[m]
      result == Messages(p, estate[p], <<m>>)
  IN /\ m \notin submitted
     /\ estate' = [estate EXCEPT ![p] = result.e]
     /\ Send(result.out)
     /\ submitted' = submitted \cup {m}
     /\ UNCHANGED <<sessions, rxMsgs, raised, timely>>

(* The redo timers. *)
Redo(p) ==
  /\ ~Quick
  /\ \/ \E t \in estate[p].allows : Send({Redone(p, t, estate[p])})
     \/ \E x \in estate[p].messengers : Send({MessagePkt(p, x)})
  /\ UNCHANGED <<estate, sessions, submitted, rxMsgs, raised, timely>>

(* The Allower that p's Allowent t answers still waits for it. *)
Awaited(p, t) == t.rf /\ \E i \in estate[Other(p)].allows : ~i.rf /\ Same(i, t)

(* The allow transactions' timeout; only the Allowent tells the other side.
   Allower.Timeout and Allowent.Timeout are the same and the Allowent is the
   younger, so that it is never the first to give up, unless RoadStack.allow
   was given another timeout, or a stack was not serviced: timely says which. *)
Timeout(p) ==
  /\ ~Quick
  /\ \E t \in estate[p].allows :
       /\ timely' = (timely /\ ~Awaited(p, t))
       /\ estate' = [estate EXCEPT ![p] = Forget(@, t).e]
       /\ Send(IF t.rf THEN {AllowPkt(p, t, "refuse", <<>>)} ELSE {})
  /\ UNCHANGED <<sessions, submitted, rxMsgs, raised>>

(* Mutant: sid is not kept on disk. *)
RestartFirst(p) ==
  /\ ~Quick
  /\ estate[p].privee < MaxKey
  /\ estate' = [estate EXCEPT ![p] = NewEstate(FirstSid, @.privee + 1)]
  /\ UNCHANGED <<net, sessions, submitted, rxMsgs, raised, timely>>

(* The program ends and is started again: sid comes from the keep, where every
   change of it was dumped before the packets of that handler left, and is
   advanced at once (KeepStack.__init__). *)
Restart(p) ==
  /\ ~Quick
  /\ timely' = (timely /\ \A t \in estate[p].allows : ~Awaited(p, t))
  /\ estate[p].privee < MaxKey /\ sessions[p] < MaxSids
  /\ estate' = [estate EXCEPT ![p] = NewEstate(NextId(@.sid), @.privee + 1)]
  /\ sessions' = [sessions EXCEPT ![p] = @ + 1]
  /\ UNCHANGED <<net, submitted, rxMsgs, raised>>

Lose(k) ==
  /\ ~Quick
  /\ net' = net \ {k}
  /\ UNCHANGED <<estate, sessions, submitted, rxMsgs, raised, timely>>

Next ==
  \/ \E p \in Peers : Allow(p) \/ Redo(p) \/ Timeout(p) \/ Restart(p)
  \/ \E m \in Msgs : Submit(m)
  \/ \E k \in net : \/ \E copies \in {{}} \cup (IF Quick THEN {} ELSE {{k}}) : Receive(k, copies)
                    \/ Lose(k)

Spec == Init /\ [][Next]_vars

-----------------------------------------------------------------------------
(* Safety.                                                                   *)

Payloads == {<<>>} \cup {<<n>> : n \in 1 .. MaxKey} \cup (1 .. MaxKey) \X (1 .. MaxKey)
            \cup (Msgs \X ((0 .. MaxKey) \X (0 .. MaxKey)))

Packets ==
  [tk: {"allow", "message"},
   pk: {"hello", "cookie", "initiate", "ack", "message", "done"} \cup Nacks,
   to: Peers, cf: BOOLEAN, si: Ids, ti: Nat \ {0}, body: Payloads]

Estates ==
  [sid: Ids, rsid: Ids \cup {0}, tid: Nat, allowed: BOOLEAN,
   privee: 1 .. MaxKey, publee: 0 .. MaxKey, messages: Seq(Msgs),
   doneTransactions: SUBSET Nat,
   allows: SUBSET [rf: BOOLEAN, si: Ids, ti: Nat,
                   tx: {"hello", "initiate", "cookie", "ack"}, oreo: 0 .. MaxKey],
   messengers: SUBSET [m: Msgs, si: Ids, ti: Nat,
                       box: (0 .. MaxKey) \X (0 .. MaxKey)]]

(* Every variable has its type. *)
TypeOK ==
  /\ DOMAIN estate = Peers
  /\ \A p \in Peers : estate[p] \in Estates
  /\ net \subseteq Packets
  /\ sessions \in [Peers -> 0 .. MaxSids]
  /\ submitted \subseteq Msgs
  /\ rxMsgs \in [Msgs \X Ids -> Nat]
  /\ {raised, timely} \subseteq BOOLEAN

(* There is never more than one allow transaction with a remote, in either
   direction: hello() on both sides looks at allowInProcess, and the race of two
   initiators is decided by name. *)
OneAllow == \A p \in Peers : Cardinality(estate[p].allows) <= 1

(* "The Allow transaction performs a Curve-CP handshake to exchange the short
   term encryption keys": two stacks that allow each other hold each other's
   keys, whatever handshakes overlapped, were repeated, refused, timed out or
   cut short by a restart, until the first time that an Allowent ends, by its
   timer or by a restart, before the Allower it answers (timely).  From then on
   a late cookie of the Allowent that is gone may replace the key of the next
   one (Allower.cookie). *)
KeysAgree ==
  timely /\ estate["a"].allowed /\ estate["b"].allowed
  => Box("a", estate["a"]) = Box("b", estate["b"])

(* A message reaches the application once in a session at most, although the
   ids already handled are forgotten with each new session, and by a restart:
   then rsid or the keys are newer than what may still arrive. *)
OncePerSession == \A x \in Msgs \X Ids : rxMsgs[x] <= 1

(* What a stack initiates now is never stale to the other side, and never taken
   for something done before: its session is not behind the rsid seen there,
   and of its present session only ids it has handed out are done or on their
   way.  Restarts begin with transaction 1 again. *)
CurrentIsFresh ==
  \A p \in Peers :
    LET e == estate[p]
        o == estate[Other(p)]
    IN /\ Valid(e.sid, o.rsid)
       /\ o.rsid = e.sid => \A t \in o.doneTransactions : t <= e.tid
       /\ \A k \in net : k.to = Other(p) /\ ~k.cf /\ k.si = e.sid => k.ti <= e.tid

(* When all is quiet between two stacks that allow each other, no message saved
   for the new session is still waiting. *)
NoMessageStranded ==
  /\ net = {}
  /\ \A p \in Peers : estate[p].allowed /\ estate[p].allows = {}
  => \A p \in Peers : estate[p].messages = <<>>

(* A packet that cannot be decrypted raises PacketError, which the callers of
   parse and parseInner handle: nothing else leaves serviceRxes. *)
FailureIsPacketError == ~raised

-----------------------------------------------------------------------------
(* Liveness, with a network that is quick and reliable, but may reorder.     *)

(* serviceAll is called again and again: while packets are in flight, one of
   them is received. *)
FairSpec == Spec /\ WF_vars(\E k \in net : Receive(k, {}))

Allowing == \E p \in Peers : estate[p].allows # {}

(* However the hellos of both stacks cross, one of the allow transactions
   succeeds: they never refuse each other for good. *)
AllowSucceeds ==
  Allowing ~> /\ ~Allowing
             /\ \E p \in Peers : estate[p].allowed
=============================================================================
