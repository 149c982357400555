-------------------------------- MODULE Lane --------------------------------
(***************************************************************************)
(* A lane of RAET (raet/lane/stacking.py, LaneStack; raet/lane/yarding.py,  *)
(* RemoteYard; raet/lane/paging.py, TxBook and RxBook): one yard sends      *)
(* messages to another over Unix domain sockets.  A long message is a book  *)
(* of pages.                                                                *)
(*                                                                          *)
(* A socket keeps the order and loses nothing while both ends exist.  A     *)
(* page that finds it busy is put aside and back with its order, which      *)
(* TxService has.  There is no reply: what is lost with a yard is gone.     *)
(***************************************************************************)
EXTENDS Naturals, Sequences, SequencesExt

CONSTANTS
  Accept,    \* accept: whether yards that are not in the lane are added
  MaxSid,    \* bound: sessions of the sender with the receiver
  MaxBid,    \* bound: messages of a session
  MaxPages,  \* bound: pages of a message
  MaxFault   \* bound: restarts, reaps and exceptions

ASSUME ConstantsAssumption ==
  /\ Accept \in BOOLEAN
  /\ MaxSid \in Nat /\ MaxBid \in Nat /\ MaxPages \in Nat /\ MaxFault \in Nat

VARIABLES
  remote,    \* the sender's RemoteYard of the receiver
  txes,      \* pages to send
  up,        \* whether the receiver's socket exists
  rxes,      \* pages in the socket and in .rxes
  yard,      \* the receiver's RemoteYard of the sender
  rxMsgs,    \* the books delivered to the receiver's application
  lost,      \* pages that left the queue by an exception
  faults

vars == <<remote, txes, up, rxes, yard, rxMsgs, lost, faults>>

Sids == 0 .. MaxSid   \* uuids; 0 for none
Bids == 0 .. MaxBid

(* A page: pn of pc of the book bi of the session si. *)
Pages == [si: Sids, bi: Bids, pn: 0 .. MaxPages - 1, pc: 1 .. MaxPages]

(* A message, as delivered: the pages its body was joined from. *)
Bodies == SUBSET Pages

(* Every variable has its type. *)
TypeOK ==
  /\ remote \in [known: BOOLEAN, sid: Sids, bid: Bids]
  /\ txes \in Seq(Pages) /\ rxes \in Seq(Pages) /\ lost \subseteq Pages
  /\ up \in BOOLEAN
  /\ yard.known \in BOOLEAN /\ yard.rsid \in Sids
  /\ DOMAIN yard.books \subseteq Sids \X Bids
  /\ \A index \in DOMAIN yard.books : yard.books[index] \subseteq Pages
  /\ rxMsgs \in Seq(Bodies)
  /\ faults \in 0 .. MaxFault

Fault == faults < MaxFault /\ faults' = faults + 1

NoYard == [known |-> FALSE, rsid |-> 0, books |-> <<>>]
NewYard == [NoYard EXCEPT !.known = TRUE]

Init ==
  /\ remote = [known |-> FALSE, sid |-> 0, bid |-> 0]
  /\ txes = <<>> /\ rxes = <<>>
  /\ up = TRUE
  /\ yard = NoYard
  /\ rxMsgs = <<>> /\ lost = {}
  /\ faults = 0

-----------------------------------------------------------------------------
(* The sender.                                                              *)

(* addRemote, by the application or for a yard that sent something: another
   session, whose books are numbered from 1. *)
AddRemote ==
  /\ ~remote.known /\ remote.sid < MaxSid
  /\ remote' = [known |-> TRUE, sid |-> remote.sid + 1, bid |-> 0]
  /\ UNCHANGED <<txes, up, rxes, yard, rxMsgs, lost, faults>>

(* Mutant: pages are numbered from 1. *)
BookFromOne(si, bi, pc) == [i \in 1 .. pc |-> [si |-> si, bi |-> bi, pn |-> i, pc |-> pc]]

(* TxBook.paginate. *)
Book(si, bi, pc) == [i \in 1 .. pc |-> [si |-> si, bi |-> bi, pn |-> i - 1, pc |-> pc]]

(* message: a book of pc pages is queued. *)
Message(pc) ==
  /\ remote.known /\ remote.bid < MaxBid
  /\ remote' = [remote EXCEPT !.bid = @ + 1]
  /\ txes' = txes \o Book(remote.sid, remote.bid + 1, pc)
  /\ UNCHANGED <<up, rxes, yard, rxMsgs, lost, faults>>

(* _handleOneTx: the socket takes the page. *)
SendPage ==
  /\ txes # <<>> /\ up
  /\ txes' = Tail(txes)
  /\ rxes' = Append(rxes, Head(txes))
  /\ UNCHANGED <<remote, up, yard, rxMsgs, lost, faults>>

(* ECONNREFUSED or ENOENT: the page is dropped, the yard removed. *)
FindRefused ==
  /\ txes # <<>> /\ ~up
  /\ txes' = Tail(txes)
  /\ remote' = [remote EXCEPT !.known = FALSE]
  /\ UNCHANGED <<up, rxes, yard, rxMsgs, lost, faults>>

(* Any other error but "busy" is raised, the page dropped. *)
Raise ==
  /\ txes # <<>> /\ Fault
  /\ txes' = Tail(txes)
  /\ lost' = lost \cup {Head(txes)}
  /\ UNCHANGED <<remote, up, rxes, yard, rxMsgs>>

RestartSender ==
  /\ Fault
  /\ txes' = <<>>
  /\ remote' = [remote EXCEPT !.known = FALSE]
  /\ UNCHANGED <<up, rxes, yard, rxMsgs, lost>>

-----------------------------------------------------------------------------
(* The receiver.                                                            *)

(* Only the first page opens a book. *)
Opens(p) == p.pn = 0

(* RxPage.index, without the names of the yards. *)
Index(p) == <<p.si, p.bi>>

(* Mutant: a new session leaves the books of the former. *)
SessionKeepsBooks(y, p) == [y EXCEPT !.rsid = p.si]

(* A page of another session ends the former and removes its books. *)
Session(y, p) ==
  [y EXCEPT !.rsid = p.si,
            !.books = [index \in {i \in DOMAIN @ : i[1] = p.si} |-> @[index]]]

(* RxBook.parse: the book has a page more, in its section. *)
Parsed(books, p) ==
  LET others == IF Index(p) \in DOMAIN books
                THEN {q \in books[Index(p)] : q.pn # p.pn} ELSE {}
  IN others \cup {p}

(* Mutant: a book is complete when its last page came. *)
CompleteAtLast(book, p) == p.pn = p.pc - 1

(* Mutant: one page more is waited for. *)
CompleteAfter(book, p) == {q.pn : q \in book} = 0 .. p.pc

Complete(book, p) == {q.pn : q \in book} = 0 .. p.pc - 1

Put(f, x, v) == [y \in DOMAIN f \cup {x} |-> IF y = x THEN v ELSE f[y]]
Drop(f, x)   == [y \in DOMAIN f \ {x} |-> f[y]]

(* processRx: a page alone is a message; else its book is opened, or missed,
   and delivered when it is complete. *)
ProcessRx(y, p) ==
  LET book == Parsed(y.books, p)
  IN IF p.pc = 1
     THEN /\ rxMsgs' = Append(rxMsgs, {p})
          /\ yard' = y
     ELSE IF Index(p) \notin DOMAIN y.books /\ ~Opens(p)
     THEN /\ yard' = y
          /\ UNCHANGED rxMsgs
     ELSE IF Complete(book, p)
     THEN /\ rxMsgs' = Append(rxMsgs, book)
          /\ yard' = [y EXCEPT !.books = Drop(@, Index(p))]
     ELSE /\ yard' = [y EXCEPT !.books = Put(@, Index(p), book)]
          /\ UNCHANGED rxMsgs

(* _handleOneRx. *)
Receive ==
  LET p == Head(rxes)
      known == IF yard.known THEN yard ELSE NewYard
  IN /\ up /\ rxes # <<>>
     /\ rxes' = Tail(rxes)
     /\ IF ~yard.known /\ ~Accept
        THEN UNCHANGED <<yard, rxMsgs>>
        ELSE ProcessRx(IF p.si # known.rsid THEN Session(known, p) ELSE known, p)
     /\ UNCHANGED <<remote, txes, up, lost, faults>>

(* The receiver's own pages to the sender were refused, or it is told to. *)
RemoveYard ==
  /\ yard.known /\ Fault
  /\ yard' = NoYard
  /\ UNCHANGED <<remote, txes, up, rxes, rxMsgs, lost>>

AddYard ==
  /\ up /\ ~yard.known
  /\ yard' = NewYard
  /\ UNCHANGED <<remote, txes, up, rxes, rxMsgs, lost, faults>>

StopReceiver ==
  /\ up /\ Fault
  /\ up' = FALSE
  /\ rxes' = <<>> /\ yard' = NoYard
  /\ UNCHANGED <<remote, txes, rxMsgs, lost>>

StartReceiver ==
  /\ ~up /\ up' = TRUE
  /\ UNCHANGED <<remote, txes, rxes, yard, rxMsgs, lost, faults>>

Next ==
  \/ AddRemote \/ (\E pc \in 1 .. MaxPages : Message(pc))
  \/ SendPage \/ FindRefused \/ Raise \/ RestartSender
  \/ Receive \/ RemoveYard \/ AddYard \/ StopReceiver \/ StartReceiver

Spec == Init /\ [][Next]_vars

(* Both stacks are serviced again and again. *)
FairSpec == Spec /\ WF_vars(SendPage) /\ WF_vars(Receive)

-----------------------------------------------------------------------------
(* Properties.                                                              *)

(* What is delivered is all the pages of one book, each message at most once
   and after those queued before it, whatever was lost in between: restarts,
   pages refused and sessions that end never join pages of two messages. *)
WholeInOrder ==
  /\ \A i \in DOMAIN rxMsgs : \E p \in rxMsgs[i] : rxMsgs[i] = ToSet(Book(p.si, p.bi, p.pc))
  /\ \A i, j \in DOMAIN rxMsgs : i < j =>
       \A p \in rxMsgs[i], q \in rxMsgs[j] :
         p.si < q.si \/ (p.si = q.si /\ p.bi < q.bi)

(* The receiver keeps no book that cannot be completed: the pages that miss are
   under way, unless an exception dropped them or their session is over.
   (missed_page, removeStaleBooks) *)
NoOrphanBook ==
  LET underWay == ToSet(rxes) \cup ToSet(txes) \cup lost
  IN /\ \A index \in DOMAIN yard.books : index[1] = yard.rsid
     /\ \A index \in DOMAIN yard.books : index[1] = remote.sid /\ remote.known =>
          \A p \in yard.books[index] :
            ToSet(Book(p.si, p.bi, p.pc)) \subseteq yard.books[index] \cup underWay

(* A message of which no page was lost is delivered, once nothing fails any
   more. *)
Whole(si, bi, pc) ==
  LET pages == ToSet(Book(si, bi, pc))
      came == IF yard.known /\ yard.rsid = si /\ <<si, bi>> \in DOMAIN yard.books
              THEN yard.books[<<si, bi>>] ELSE {}
  IN pages \subseteq ToSet(txes) \cup ToSet(rxes) \cup came

BooksArrive ==
  \A si \in 1 .. MaxSid, bi \in 1 .. MaxBid, pc \in 1 .. MaxPages :
    (Accept /\ up /\ faults = MaxFault /\ Whole(si, bi, pc))
      ~> ToSet(Book(si, bi, pc)) \in ToSet(rxMsgs)
=============================================================================
