------------------------------ MODULE TxService ------------------------------
(***************************************************************************)
(* The queue of outgoing packets of a stack (raet/stacking.py, serviceTxes, *)
(* serviceTxOnce and _handleOneTx).  A destination whose socket is busy must *)
(* not hold up the others, and its own packets should keep their order: the *)
(* rest of them are put aside with the one that failed, and all return to   *)
(* the queue when it has been gone through.                                 *)
(***************************************************************************)
EXTENDS Integers, Sequences

CONSTANTS
  Dests,     \* destination addresses
  Dead,      \* the destinations that stay busy
  Modes,     \* how the application may service the stack, see mode
  MaxQueued  \* bound: packets queued for a destination

ASSUME DeadAssumption == Dead \subseteq Dests
ASSUME ModesAssumption == Modes \subseteq {"all", "once"} /\ MaxQueued \in Nat

VARIABLES
  mode,       \* "all": it calls serviceAll, "once": it calls serviceOneAll
  txes,       \* packets to send, a packet is the n-th for the destination d
  servicing,  \* "all" while serviceTxes is at work, else "no"
  laters,     \* its packets put aside
  blocks,     \* its destinations found busy
  queued,     \* packets queued for each destination so far
  sent,       \* the packets sent to each destination
  lost        \* packets dropped by an exception

vars == <<mode, txes, servicing, laters, blocks, queued, sent, lost>>

Txs == [d: Dests, n: Nat \ {0}]

(* Each variable has its type. *)
TypeOK ==
  /\ mode \in Modes
  /\ txes \in Seq(Txs) /\ laters \in Seq(Txs)
  /\ servicing \in {"no", "all"}
  /\ blocks \subseteq Dests
  /\ queued \in [Dests -> Nat] /\ sent \in [Dests -> SUBSET Nat]
  /\ lost \subseteq Txs

Init ==
  /\ mode \in Modes
  /\ txes = <<>> /\ laters = <<>>
  /\ servicing = "no"
  /\ blocks = {}
  /\ queued = [d \in Dests |-> 0] /\ sent = [d \in Dests |-> {}]
  /\ lost = {}

-----------------------------------------------------------------------------
(* tx(), and Transaction.transmit. *)
Tx(d) ==
  /\ servicing = "no"
  /\ queued[d] < MaxQueued
  /\ queued' = [queued EXCEPT ![d] = @ + 1]
  /\ txes' = Append(txes, [d |-> d, n |-> queued[d] + 1])
  /\ UNCHANGED <<mode, servicing, laters, blocks, sent, lost>>

(* server.send takes the packet. *)
Send(tx) == sent' = [sent EXCEPT ![tx.d] = @ \cup {tx.n}] /\ UNCHANGED lost

(* serviceTxes, its first lines. *)
ServiceTxes ==
  /\ mode = "all" /\ servicing = "no" /\ txes # <<>>
  /\ servicing' = "all"
  /\ blocks' = {}
  /\ UNCHANGED <<mode, txes, laters, queued, sent, lost>>

(* Mutant: the destinations found busy are not consulted. *)
NeverBlocked(d) == FALSE

(* Mutant: one busy destination blocks them all. *)
AnyBlocked(d) == blocks # {}

IsBlocked(d) == d \in blocks

(* _handleOneTx: its destination is known to be busy. *)
PutAside ==
  LET tx == Head(txes)
  IN /\ servicing = "all" /\ txes # <<>> /\ IsBlocked(tx.d)
     /\ txes' = Tail(txes)
     /\ laters' = Append(laters, tx)
     /\ UNCHANGED <<mode, servicing, blocks, queued, sent, lost>>

(* _handleOneTx: the packet is sent. *)
SendOne(d) ==
  LET tx == Head(txes)
  IN /\ servicing = "all" /\ txes # <<>> /\ tx.d = d /\ ~IsBlocked(d) /\ d \notin Dead
     /\ txes' = Tail(txes)
     /\ Send(tx)
     /\ UNCHANGED <<mode, servicing, laters, blocks, queued>>

(* Mutant: the packet that finds its destination busy is not put aside. *)
FindBusyDrops ==
  LET tx == Head(txes)
  IN /\ servicing = "all" /\ txes # <<>> /\ ~IsBlocked(tx.d)
     /\ txes' = Tail(txes)
     /\ blocks' = blocks \cup {tx.d}
     /\ UNCHANGED <<mode, servicing, laters, queued, sent, lost>>

(* Mutant: the packet is noted as busy instead of its destination. *)
FindBusyPacket ==
  LET tx == Head(txes)
  IN /\ servicing = "all" /\ txes # <<>> /\ ~IsBlocked(tx.d)
     /\ txes' = Tail(txes)
     /\ laters' = Append(laters, tx)
     /\ blocks' = blocks \cup {tx}
     /\ UNCHANGED <<mode, servicing, queued, sent, lost>>

(* _handleOneTx: EAGAIN, or another error that means not now. *)
FindBusy ==
  LET tx == Head(txes)
  IN /\ servicing = "all" /\ txes # <<>> /\ ~IsBlocked(tx.d)
     /\ txes' = Tail(txes)
     /\ laters' = Append(laters, tx)
     /\ blocks' = blocks \cup {tx.d}
     /\ UNCHANGED <<mode, servicing, queued, sent, lost>>

(* _handleOneTx: another error leaves serviceTxes, and with it .laters, a local
   variable, is lost. *)
Raise ==
  LET tx == Head(txes)
  IN /\ servicing = "all" /\ txes # <<>> /\ ~IsBlocked(tx.d) /\ tx.d \notin Dead
     /\ txes' = Tail(txes)
     /\ lost' = lost \cup {tx} \cup {laters[i] : i \in DOMAIN laters}
     /\ laters' = <<>> /\ blocks' = {} /\ servicing' = "no"
     /\ UNCHANGED <<mode, queued, sent>>

(* serviceTxes, its last lines. *)
PutBack ==
  /\ servicing = "all" /\ txes = <<>>
  /\ txes' = laters
  /\ laters' = <<>> /\ blocks' = {} /\ servicing' = "no"
  /\ UNCHANGED <<mode, queued, sent, lost>>

(* serviceTxOnce handles one packet: it is sent, *)
SendOnce(d) ==
  LET tx == Head(txes)
  IN /\ mode = "once" /\ txes # <<>> /\ tx.d = d /\ d \notin Dead
     /\ txes' = Tail(txes)
     /\ Send(tx)
     /\ UNCHANGED <<mode, servicing, laters, blocks, queued>>

(* or goes to the end of the queue, its destination being busy, *)
FindBusyOnce ==
  /\ mode = "once" /\ txes # <<>>
  /\ txes' = Append(Tail(txes), Head(txes))
  /\ UNCHANGED <<mode, servicing, laters, blocks, queued, sent, lost>>

(* or is dropped by an exception. *)
RaiseOnce ==
  /\ mode = "once" /\ txes # <<>> /\ Head(txes).d \notin Dead
  /\ txes' = Tail(txes)
  /\ lost' = lost \cup {Head(txes)}
  /\ UNCHANGED <<mode, servicing, laters, blocks, queued, sent>>

Next ==
  \/ \E d \in Dests : Tx(d) \/ SendOne(d) \/ SendOnce(d)
  \/ ServiceTxes \/ PutAside \/ FindBusy \/ Raise \/ PutBack
  \/ FindBusyOnce \/ RaiseOnce

Spec == Init /\ [][Next]_vars

-----------------------------------------------------------------------------
InOrder(s) == \A i, j \in DOMAIN s : i < j /\ s[i].d = s[j].d => s[i].n < s[j].n

(* "keep sequential": the packets of each destination wait, and leave, in the
   order they were queued: what was put aside comes before what is still to be
   handled, and none is older than one already sent.  (_handleOneTx) *)
Sequential ==
  LET waiting == laters \o txes
  IN /\ InOrder(waiting)
     /\ \A i \in DOMAIN waiting : \A k \in sent[waiting[i].d] : k < waiting[i].n

(* serviceTxes keeps them in order, however often destinations are busy. *)
KeepsOrder == mode = "all" => Sequential

(* Every packet queued is waiting, once, or sent, or dropped by an exception. *)
NothingLost ==
  LET waiting == laters \o txes
  IN \A d \in Dests :
       LET places == {i \in DOMAIN waiting : waiting[i].d = d}
       IN /\ {waiting[i].n : i \in places}
               = {n \in (1 .. queued[d]) \ sent[d] : [d |-> d, n |-> n] \notin lost}
          /\ \A i, j \in places : waiting[i].n = waiting[j].n => i = j

-----------------------------------------------------------------------------
(* serviceAll is called again and again, and a destination that is not dead    *)
(* takes a packet some time, if it is offered one again and again.             *)
Fairness ==
  /\ WF_vars(ServiceTxes) /\ WF_vars(PutAside \/ FindBusy) /\ WF_vars(PutBack)
  /\ WF_vars(FindBusyOnce)
  /\ \A d \in Dests : SF_vars(SendOne(d)) /\ SF_vars(SendOnce(d))

FairSpec == Spec /\ Fairness

Waits(tx) == \E i \in DOMAIN (laters \o txes) : (laters \o txes)[i] = tx

(* A packet leaves the queue in the end though other destinations never answer. *)
EventuallySent ==
  \A d \in Dests \ Dead : \A n \in 1 .. MaxQueued :
    Waits([d |-> d, n |-> n]) ~> ~Waits([d |-> d, n |-> n])

=============================================================================
