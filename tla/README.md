# RAET in TLA+

TLA+ specifications of RAET, the Reliable Asynchronous Event Transport
(`src/raet`), with TLC model-checking runs and TLAPS proofs.

RAET's *road* half moves messages between stacks over UDP. Three handshakes
(join, allow, alive) establish an identity, a pair of short term keys and a
presence; a fourth transaction moves application messages. Its *lane* half
moves messages between processes of one host over local sockets. Everything in
a process is single threaded and cooperative: an application calls
`Stack.serviceAll` again and again, which receives (`serviceReceives`), handles
(`serviceRxes`), runs the timers (`process`), and sends (`serviceTxMsgs`,
`serviceTxes`). Nothing preempts a handler, so an action of these models is a
whole handler or a whole timer step; all concurrency is between stacks, and
comes from the network, from restarts and, for files, from a process that stops
between two of them.

## 1. Inventory

| Component | Source | State | Operations | What is hard |
|---|---|---|---|---|
| Message transaction | `road/transacting.py` 2675-3271, trays in `road/packeting.py` 748-895 | `Messenger.tray.current/.last`, `.acked`, `.misseds`, flags `af`, `wf` of each segment packet; `Messengent.tray.segments/.highest`, `.lowest`; `remote.doneTransactions`, `stack.rxMsgs` | `message`, `another`, `resend`, `sendMisseds`, `complete`, `reject`, `process`; `message`, `ack`, `resend`, `done`, `nack`, `process` | loss, repetition and reordering; the lost `done`; timers on both sides; packets of a transaction that is gone |
| Session and transaction numbers | `lotting.py`, `road/estating.py` | `sid`, `rsid`, `tid` | `nextSid`, `validSid`, `validRsid`, `nextTid` | rollover, half window |
| Allow transaction, sessions | `road/transacting.py` 1505-2313, `road/estating.py` 249-509, `road/stacking.py` 451-727 | `allowed`, `privee`, `publee`, the transactions of the remote, `messages` (saved), `doneTransactions`, `oreo` | `hello`, `cookie`, `initiate`, `ackInitiate`, `ackFinal`, `final`, `rekey`, `removeStaleCorrespondents`, `replaceStaleInitiators`, `saveMessage`, `sendSavedMessages` | crossing hellos, redo, stale packets of older handshakes, restarts, lost last ack |
| Alive, presence | `road/transacting.py` 2316-2672, `road/estating.py` 351-408, `road/stacking.py` 397-429 | `alived`, `reaped`, two timers | `alive`, `complete`, `refuse`, `reject`, `unjoin`, `unallow`, `refresh`, `manage`, `reap`, `unreap` | timers racing packets, the cascade alive, allow, join |
| Join transaction | `road/transacting.py` 356-1502, `road/stacking.py` 497-560 | `joined`, `acceptance`, `nuid`, `fuid`, role and keys, joins in process, `joinees` | `join`, `renew`, `pend`, `accept`, `ackPend`, `ackAccept`, `complete`, `refuse`, `reject` | crossing joins, vacuous joins, an index that moves, an administrator who accepts later |
| Role acceptance, keep of keys | `road/keeping.py` | acceptance and keys of each role, on disk | `statusRole`, `rejectRemote`, `pendRemote`, `acceptRemote` | three modes against what was persisted earlier, roles shared by remotes |
| Remotes index and keep | `stacking.py` 139-242 and 517-738, `keeping.py` | `remotes`, `nameRemotes`, `uidRemotes`, one file each remote | `addRemote`, `moveRemote`, `renameRemote`, `removeRemote`, `dump*`, `restore*` | several indexes and files, crash between dumps |
| Packet queues | `stacking.py` 274-448 | `rxes`, `txMsgs`, `txes`, `rxMsgs` | `serviceTxes`, `_handleOneTx`, `serviceTxOnce`, ... | a busy destination, order |
| Packet format, segmentation | `road/packeting.py` | bytes | `pack`, `parse`, `TxTray.pack` | size arithmetic |
| Lane | `lane/` | `remotes`, `books`, `sid`, `bid` | `message`, `processRx`, `addBook`, `removeStaleBooks` | pages of an earlier session, yards that go and come back |
| Key wrappers | `nacling.py`, `encoding.py` | none | `encrypt`, `decrypt`, `verify` | errors of libnacl |
| ioflo behaviors | `flo/behaving.py` | none of the protocol | `action` | none |
| Tests, examples, docs | `road/test`, `lane/test`, `docs`, `systest`, `pkg`, `scripts` | | | read, not modelled |

How they interact. `RoadStack.processRx` finds the remote of a packet, checks its
session number and gives it to the transaction of its index
(`rf, le, re, si, ti, bf`), or lets `stale`, `correspond` and `replyStale` answer
it. A transaction changes its `RemoteEstate`, appends packets to `stack.txes` and
dumps the remote through the keep. A new session (the end of an allow) reaches
into the other transactions of the remote: stale initiators are removed and
nacked, and the bodies of stale Messengers saved. The first packet with a new
session number does the same to correspondents on the other side. An alive that
finds a remote unallowed or unjoined starts an allow or a join, which go on to the
next one when they cascade. A join of which the other side's uid is not known yet
(*vacuous*) has no remote to be found by, and waits in `stack.joinees` under the address.

What makes each component correct:

* message transaction: at most one delivery, completion only after delivery, a
  stale answer harms no live transaction, both ends finish, a message arrives
  unless someone gives up;
* numbers: a session is refused exactly when it is older than the one known;
* allow: one allow at a time, crossing hellos end with one success, two allowed
  stacks have each other's keys, what is sent now is not stale at the other end,
  saved messages go out;
* alive: a dead remote is found, two stacks that run find each other again;
* join: both sides agree about uids, a road that is not mutable changes nothing;
* role acceptance: keys never change under a role, except in mode always, and a
  rejection sticks;
* remotes and keep: the indexes agree, and a restart finds the same remotes;
* queues: order of each destination, nothing lost or repeated;
* lane: pages of one yard session make whole messages, in order, and only those of it.

## 2. Plan

The most important behaviour came first. Proofs are in modules of their own that
EXTEND the component's; no module uses a RECURSIVE operator.

| # | Module | What | State |
|---|---|---|---|
| 1 | `Messaging`, `Delivery` | message transaction and the abstract promise it implements | checked, every invariant proved |
| 2 | `Lotting`, `Numbering` | session numbers across the rollover | checked, proved |
| 3 | `Session` (composes `Lotting`, the allow transaction, one-packet messages) | allow transactions, sessions, restarts | checked, every invariant proved |
| 4 | `TxService` | transmit queues with busy destinations | checked, every invariant proved |
| 5 | `Acceptance`, `Keep` | status of a role; remotes and their files, crashes | checked, every property proved |
| 6 | `Joining` (uses `Acceptance`) | join races, uids, names, renewals, restarts | checked, every property proved |
| 7 | `Presence` | presence, timers, the cascade from alive to allow to join | checked, types proved |
| 8 | `Lane` | yards, books, pages | checked, every invariant proved |
| 9 | `Segmenting`, `Cutting` (puts it together with `Messaging`) | where `TxTray` and `TxBook` cut a message, and how large packets and pages are | checked, proved |

Each run asks one question and finishes in minutes; two disagreements of the code with its own
words have a run that expects the violation, the others are state definitions left in the modules (section 5). Every invariant that a passing run
checks has a theorem; what is left to TLC is named at the end of section 6.

## 3. Modules and how they correspond to the code

Common conventions. A packet is a record of the header fields that the handlers
read; names, bodies and keys are abstract. The network is a *set* of packets: a
receive step may leave a copy behind (or a timer send the same packet again), so that a packet is duplicated or delayed
at will, and sets are unordered, so that packets overtake each other. A packet
that does not fit into `MaxNet` is lost, so the bound only adds losses; in `Joining` a step that
would not fit is not taken, which the packets lost before it make up for. Where the
code answers a packet and drops the transaction, the action does both.
Definitions marked *Mutant* are deliberate bugs, used to show that the properties
can fail; the specifications do not use them. `PROJECT.json` maps each definition to
the lines it stands for.

### Messaging, Delivery

One session between an initiating stack `tx` and a corresponding stack `rx`. A
message is named by its transaction id.

| Variable | Code |
|---|---|
| `messenger[m].state` | the Messenger is in `remote.transactions` (`active`), or why it was removed |
| `.current`, `.tx` | `tray.current`; the packet in `txPacket`, repeated by the redo timer |
| `.af`, `.wf` | flags now packed into each segment packet of `tray.packets` |
| `.acked`, `.misseds` | `Messenger.acked`; the oset `.misseds` |
| `messengent[m].live`, `.segs`, `.highest`, `.lowest` | the Messengent exists; its `RxTray` |
| `doneTransactions` | `remote.doneTransactions` on `rx` |
| `delivered[m]` | how often the body was appended to `rxMsgs` |
| `allowed` | `remote.allowed` on both sides, which stops messages when cleared |
| `forgotten` | history: the ids that left `doneTransactions` while their Messenger still retried |

`Message`, `RedoMessage` and `TimeoutMessage` are `RoadStack.message` and
`Messenger.process`; `ReceiveTx` is `processRx` on the initiating side, with
`Another` (ack), `Resend`, the removal by done or nack, and `Stale` when the
Messenger is gone; `ReceiveRx` is `processRx` on the other side with `Collect`
(`Messengent.message`), the nack, and `ReplyStale`; `RedoAsk` is
`Messengent.process`; `CleanupDone` is `cleanupDoneTransactions`. Timers are not
clocks: a timer that runs may expire at any time, which includes every duration. Two messages differ in
this: one of `Brief` has a timeout of at most `MsgStaleTimeout`, so that its Messenger has ended when its id is
forgotten; any other, such as one without timeout, the default, may still be retried then (once, which is a bound).
`misseds` is a set: the order of the resent packets is any order.

`Delivery` is the promise: submitted, delivered, complete only
after that, or given up, with the initiator not knowing whether it was
delivered; and delivered again only after the correspondent forgot it (`Forget`) before the initiator was done. `ImplementsDelivery` is the refinement, with `StatusOf` as the mapping.

### Segmenting, Cutting

Pure operators about sizes. `Bodies` is what a packed message comes to before it is cut: the sizes of its head, foot and coat, and the kind of head.
`Segmented` is the decision of `TxTray.pack`, `SegSize` the room `packetize` leaves, with its estimate `Extra` of how much longer the head of a segment is,
and `PacketSize` what the packet is once its head is really packed, with `sn`, `sc` and `ml` written by `TxHead.pack` if they are
not the default (`FieldSize`, `Digits`). `Pieces`, `First`, `Limit` are the slices, shared by `packetize` and `TxBook.paginate` (`SecSize`, `PageSize`). A large
packet is not an error until `repack` sets a flag in it, in the middle of a burst. `Cutting` is `Messaging` with the segments that
`Segmenting` makes of a body given for each message: `BodyAssumption` says that `SegCount` counts them. `PacketsFit` is about messages of at most `MAX_SEGMENT_COUNT` segments;
`RepackedFits` is about any that the size limit lets pass, and false (section 5).

### Lotting, Numbering

`Lotting` has `NextId` (`nextSid`, `nextTid`) and `Valid` (`validateSid`) on a circle
of `2 * Half` numbers; the code's `Half` is 2^31. `Numbering` puts an initiating
stack's `sid` against the `rsid` the other side last saw, while packets of the
last `Window` sessions may arrive, and adds `lead`, the true distance in sessions,
as a history variable: the specification says what the comparison should
be, and the number arithmetic must agree. `rsid` is 0, as in the code, until the first packet, and again after a `Restart` of the receiver.

### Session

Two joined stacks `a` and `b`; each has one `estate`, its `RemoteEstate` of the other:
`sid`, `rsid`, `tid`, `allowed`, the count `privee` of the short term keys it has made and
`publee`, the other's key it holds, `messages` saved, `doneTransactions`, and the transactions
`allows` (`rf` says Allowent, `tx` is the packet its timer repeats, `oreo` its cookie nonce)
and `messengers`.

`Receive` is the whole of `processRx`: the session check, the update of `rsid` with
`removeStaleCorrespondents`, and `Dispatch` to the transaction of the index, to
`stale`, or to `correspond`. Its result, the new estate and what is sent, is computed by
one operator a handler: `Hello`, `Cookie`, `AckFinal`, `Helloed`, `Initiated`,
`Messaged`, and so on. `StartSession` is the tail of both `allow()` methods
(`nextSid`, `replaceStaleInitiators`, dump). `Allow`, `Submit`, `Redo`, `Timeout` and
`Restart` are the calls of the application, the timers, and a program that ends
and starts again from its keep. The constant `Quick` leaves out everything that is not the delay of a packet, for `AllowSucceeds` alone.
`timely` is a history variable that restricts nothing: it is cleared when an Allowent ends, by its timer or its stack's restart, while the Allower it answers waits (`Awaited`), and `KeysAgree` speaks of the time before. A message takes one packet here; segments are in
`Messaging`. `raised` records an exception that leaves the service loop.

### TxService

The queue `txes` of a stack, a packet being the n-th one queued for its
destination. `ServiceTxes`, `PutAside`, `SendOne`, `FindBusy`, `Raise` and `PutBack` are
the steps of one `serviceTxes`, during which nothing else happens in the stack
(`Tx` waits); `SendOnce`, `FindBusyOnce` and `RaiseOnce` are `serviceTxOnce`. An
application uses one or the other, which `mode` says.

### Acceptance, Keep

`Acceptance` is `RoadKeep.statusRole` as two functions: `StatusRole`, the answer for keys
presented under a mode (`auto`: never, once, always) given what is on disk for the role, and
`Persisted`, what it then writes.

`Keep` is one stack's memory and disk. `remotes` is `nameRemotes` with what the files hold;
`remoteFile`, `roleFile` and `localFile` are the files; a role file may be shared by remotes.
A handler changes memory at once and leaves its file operations in `todo`, in the order of the
code; `FileStep` does the next one, and `Crash` may come before any of them or inside one,
which leaves that file `Torn`, since `Keep.dump` truncates it first. No handler runs while
`todo` is not empty (`Idle`): the code is one thread. `CreateRemote`,
`RemoveRemote`, `StartJoin`, `Introduced`, `Asked`, `Rejoined`, `Complete`, `RedoPended` and
`SetAcceptance` are what joins and an outside entity do to memory and files, with the packets
of the join left out: whatever it presents may come at any time. `Restart` is
`KeepStack.__init__` with `restoreRemotes` and `dumpRemotes(clear=True)`, in any order of the
remotes; what the code raises on (a uid twice, a file that does not parse) is `life = "raised"`.

### Joining

Two stacks at fixed addresses; `a` has the lesser name. `stack[s]` holds everything a join
reads or writes: the remotes by uid (`uidRemotes`), the index of names (`nameRemotes`),
`joinees` (for the one other address there is) with the `ghost` of a remote that is in
`joinees` but no longer in the stack, `puid`, the transactions, the files and the role.

`Receive` is `processRx` for a join packet: `FromJoinent` and `FromJoiner` find the remote, by
`de` or in `joinees`, or make an ephemeral one; `Transact` finds the transaction or
creates a correspondent. `Join`, `MeetVacuous`, `Meet` and `Correspond` are `Joinent.join` from its
top to its end; `Accept` and `Accepted` are `Joiner.accept`; `Completify`, `Renew`, `Reject`, `Complete`, `Refused`
and `Nack` are the methods of those names. They are functions from a stack to a stack and the
packets sent (`Did`), so that one step has the whole handler. `Add` raises for an index in use as
`addTransaction` does. `CreateRemote`, `JoinRemote`, `Timeout`, `Redo`, `SetAcceptance` and `Restart` (with its keep, or
wiped and with new keys) are the rest.

### Presence

Each stack has one `remote` of the other: `joined`, `allowed`, `alived`, `reaped`, whether the
timer is expired (`due`), whether `reapTimer` is (`late`), and whether the keep has it as joined (`saved`).
`Manage` is `RemoteEstate.manage` as `RoadStack.manage` calls it; `AliverReceive`, `AliventReceive`, `Timeout` and
`Redo` are the transaction; `Refreshed` and `Touched` are `refresh`. `StartAllow` and `StartJoin` are
`RoadStack.allow` and `join` with their guards. How an allow or a join ends is one step
(`JoinEnds`, `AllowEnds`, `AllowUnjoined`, `JoinFails`, `AllowFails`), for both stacks or for the one that does not depend on
the last ack: `Session` and `Joining` have the packets that lead there. What a packet of these
transactions does to the presence (`unreap`, `.alived` set by `allow()`) is part of the step.

### Lane

One direction between two yards. `Message` queues the pages of a book, `SendPage`, `FindRefused` and `Raise`
are what `_handleOneTx` meets, `Receive` is `_handleOneRx` with `processRx`, the yard's session (`Session`,
`removeStaleBooks`) and the books; yards are removed, added again and restarted at any time. Sessions are uuids and are
never used twice. `TxService` has the busy socket; a page put aside keeps its place there, which is why
the socket and the queue are sequences here.

## 4. Runs

| Run | Instance | Shows |
|---|---|---|
| `messaging` | messages of 3 and 1 segments, burst 2, 2 packets in flight, both sides may stop allowing | types, at-most-once delivery, what a rejection means, no live transaction hit by a stale nack, the waiting flag, the tray, packets that fit into a datagram when they are full to the last byte, and the refinement of `Delivery`; a message without timeout is in it |
| `messaging_live` | one message of 3 segments with a timeout, burst 2, any number of packets in flight | it ends at both ends, and arrives unless given up |
| `numbering` | 32 numbers, packets up to 14 sessions old, restarts of the receiver | the comparison of sessions is right across the rollover, and from the first packet on |
| `tx` | 3 destinations, one dead, 2 packets each, `serviceAll` or `serviceOneAll` | order (with `serviceAll`) and completeness of the transmit queue; the dead destination does not hold up the others |
| `session` | one message, 3 allows or messages initiated by each stack, 3 keys, 3 sessions, 2 packets in flight, rollover at the start | types, one allow at a time, one delivery a session, what is sent now is never stale, two allowed stacks have each other's keys until an Allowent ends too early |
| `session_live` | network fast and complete but unordered, 2 allows a side | crossing hellos end in success |
| `keep` | 2 remotes, 1 role, 2 keys, all modes, 3 uids, 2 crashes | what is joined survives, what is removed does not come back, no uid twice, keys and rejections of a role stay |
| `joining` | `b` main on a fixed road, `a` on a mutable one which creates the remote; 2 joins a remote, 3 uids, 2 packets in flight, one restart of either, with or without the keep; an outside entity at `b` | indexes agree, uids agree, nothing raises, a fixed road changes no credentials |
| `joining_mains` | two main stacks, both mutable, no restart | **violation**: the index of names (section 5) |
| `presence` | `b` main, 1 alive in process, 1 fault | stacks that both run find each other again and again; a stack that stopped for good is reaped |
| `presence_dead` | the same | **violation**: a dead stack stays alive (section 5) |
| `lane` | 2 sessions, 2 messages each of up to 3 pages, 2 faults | whole messages in order, no book that waits in vain, delivery |

**Bounds.** Three segments with a burst of two are the smallest message with a full
burst, a rest, a middle that can be missing and a rewind of `current`; its body of 2499 bytes fills its three packets; the one-segment
message takes the other path of `RxTray.parse` and of the first burst. Two packets in flight
allow any pair to be overtaken, and copies stay as long as they like; since what does not
fit is lost, fewer packets mean more losses. Allow transactions cross with two ids a side, and a third is
needed for an old handshake to meet a new one. Three keys a stack are those of a first handshake, of one that replaces it and of a hello or a restart after
that, and two packets let a late cookie overtake the answer to an initiate: without `timely` in it, `KeysAgree` fails on this instance within ten steps. It was also run with
one allow a side, four keys and three packets. `FirstSid` is the last number before the
rollover. Two remotes with one role are enough for a role file written for one to be wrong for
the other; three uids with two remotes and the local estate make `nextUid` roll over and skip
what is in use; two crashes let one interrupt what the restart after the other writes. In
`joining` two joins a remote let a join meet the late packets of one before it, and the third
uid is the one a vacuous request takes beside the local estate and the created remote; the
invariants but `UidsAgree` also hold when both roads are mutable. One fault in `presence` is one lost packet,
early timeout, failed join or allow, or stop of a stack, after everything a fault-free run can
reach; two were run by hand and hold. Two faults in `lane` are a restart or a refused page and
another after it, with pages of both sessions queued. `MaxTid`, `MaxKey`, `MaxSids`, `MaxUid`, `MaxBid`, `MaxSid`, `MaxCrash`, `MaxRestart` and
`MaxFault` bound runs that would be infinite; behaviours
simply end there, which is why deadlock is not checked in these runs. A real system
may stop too: when all messages are done and nothing is submitted, nothing happens.
In `numbering` and `keep` nothing ever stops, and deadlock is checked (a stack of `keep` that
raised may be restarted, and raise again). Symmetry is not used.

**Fairness.** `messaging_live`: the redo timers expire again and again, since
`process` runs in each `serviceAll` and a timer restarts itself; the path stops losing packets at
some time (`Recover`), an assumption about the world without which no protocol arrives; a
packet that stays in flight is then received. Nothing is assumed of the order in which
packets are received, of `TimeoutMessage` or of `CleanupDone`. The message is one with a timeout (`Brief`): one without may be delivered twice. `session_live`: packets in
flight are received, one after another, and nothing more; the network is faster than
the timers (`Quick`), so no timer is fair or even enabled: this is about crossing handshakes alone, and says nothing of losses. `tx`: `serviceTxes` (or `serviceTxOnce`) is called again and again and its loop
goes on; a destination that is not dead accepts a packet if offered one again and again,
which needs strong fairness, since a busy destination disables the step for this service.
`presence`: each stack is serviced again and again, so its timers are seen expired, `manage` runs when one is, and
packets, joins, allows and timeouts come to their end. An application calls `manage` with the same arguments each time, so it
is fair over both values of `cascade`, and never `immediate`. `reapTimer` is strongly fair only while the other stack is down: then nothing restarts it but a first
failed alive; while both run the shorter timer normally comes first, and the model does not force it to expire at all.
A packet for a stack that is down is lost. `lane`: both stacks are serviced, so the next page is sent if it can be and the next page
read; a stack that stopped need not start again.

## 5. Where the code and its documentation disagree

Two are shown by a run:

* **The index of names loses a remote** (`joining_mains`). `Joinent.join` (`road/transacting.py:1189`) gives the name of a vacuous request
  to its remote directly if no remote has that name, taking it for a new one. With two main stacks that join each other at once, the remote
  is the one of the Joiner that has just been refused, found in `joinees`: `nameRemotes` keeps it under its old name, and
  removing it later raises `KeyError`. `stacking.py:83` calls `nameRemotes` "remotes indexed by name".
* **A dead remote stays alive** (`presence_dead`). An alive that finds the remote not allowed becomes an allow (`road/transacting.py:2434`), and an allow that
  fails says nothing about presence. A stack that stops while the other has it as alive but no longer allowed
  stays in `aliveds` and `availables` for ever, although `road/estating.py:241` says "recently have received valid signed
  packets". A main stack reaps it all the same (`DeadIsReaped`).

The others are promises, quoted from the code, that the modules state and that TLC refutes in a minute at most; they are in no configuration of the project. In brackets: the property,
its module, and the run whose configuration refutes it when the property takes the place of those listed there.

* **A message is delivered twice** (`NeverTwice` of `Messaging`; `messaging`). A done id is forgotten after 600 s
  (`road/stacking.py:94`, `road/estating.py:185`). A Messenger without timeout, the default (`road/transacting.py:2680`), repeats
  for ever, and its packet carries no `af` flag as long as nothing was acknowledged. After a network failure of more than
  600 s that began with the loss of the `done`, the message is new again. The comment at
  `road/stacking.py:641` calls this packet "a stale resend". What holds, and is proved, is `AtMostOnce`: only a message that was
  forgotten while its Messenger retried is taken again, so never one with a timeout of at most 600 s.
* **A message with too many segments stops the service loop** (`RepackedFits` of `Cutting`; `messaging` with one message, `HugeBody`, `HugeSegs` and `Burst = 0`). `MAX_MESSAGE_SIZE` (`raeting.py:123`) is 65535 packets' worth of bytes, heads
  included, so a message below it may need more than `MAX_SEGMENT_COUNT` segments, which nothing checks. With a head of 100 bytes, a foot of 64 and a body of 54591488,
  it takes 65536: `sc` has five hex digits, one more than the "extra header size as a result of segmentation" (`road/packeting.py:789`) allows for, and the `repack` in `Messenger.message` raises
  `PacketError` outside of any `try`. The other packets of a burst are sent as they were cut, and are one byte too large without a word.
* **Two allowed stacks hold keys of different handshakes** (`KeysAgree` of `Session` without `timely`; `session`). `Allower.cookie` accepts a cookie at any stage and
  replaces `publee` (`road/transacting.py:1719`). If an Allowent ends while its Allower still waits, the next hello makes another, and the cookie of the first, arriving after the initiate for
  the second, leaves a wrong key, although
  `docs/topics/tutorial.rst:161-162` says that the allow transaction exchanges the short term keys. Both timeouts are 4 s, and the Allowent is the younger, so that this takes
  an `allow(timeout=...)` that is longer, a stack that was not serviced for a while, or one that was started again. Until one of these happens (`timely`) `KeysAgree` holds, and is proved; `timely` depends on nothing else,
so that losses, repetitions, reordering, refusals, all other timeouts and restarts are covered.
* **Saved messages are stranded** (`NoMessageStranded` of `Session`; `session`). `Allower.ackFinal` removes the
  transaction before sending the final ack, so a lost one is never repeated, and its redo branch is never reached; the Allowent
  is nacked and removed without `final`, the only place that sends what it saved. The docstrings at `road/transacting.py:1779-1781` and
  `road/estating.py:489-490` promise otherwise.
* **A decryption error leaves the service loop** (`FailureIsPacketError` of `Session`; `session`). A message that was under way while a
  new pair of keys was agreed cannot be decrypted; libnacl's error is not a `PacketError`, the only one caught, although
  `road/packeting.py:720` says that `parseInner` raises it.
* **`serviceOneAll` reorders packets of one destination** (`Sequential` of `TxService`; `tx`. `KeepsOrder` says `mode = "all"` for this reason). `serviceTxOnce` puts a busy packet at
  the end of the queue; `stacking.py:404`, in the helper it shares with `serviceTxes`, says "keep sequential".
* **A handler writes a rejection back** (`OnlyOutsideRejects` of `Keep`; `keep`). Remotes share the file of their role, each has its own copy of the acceptance, and `dumpRemote` writes that (`road/keeping.py:347`). When a role is
  rejected by way of one remote and accepted again by way of another, the join of the first completes and rejects it on disk, although `road/keeping.py:382` says "only set to rejected by an
  outside entity". The same undoes a rejection, which is why `RejectionSticks` is about roles whose remotes all know of it.
* **A remote has two joins** (`OneJoin` of `Joining`; `joining`). A second vacuous request makes an ephemeral remote that has no join, passes the check "only one join at a time is
  permitted" (`road/transacting.py:1128`), and is then replaced by the remote of its name.
* **`addTransaction` raises** (`NeverRaises` of `Joining`; `joining` with two restarts). After both stacks started again, a late packet from the uid its remote had before makes `processRx` remove the present remote from `joinees`
  (`road/stacking.py:525`). The next repetition of the present request meets it again by its name, while its Joinent still waits under the same index, which has the address and not the uid: an
  `EstateError` leaves the service loop. The docstring at `road/estating.py:143` says "Safely add transaction at index, If not already there".

Read in the code while modelling the join, the presence and the lane; each is in the models as the code has it, and shapes what the properties say:

* After a restart with its keep, a stack hands out transaction ids (and, if it stopped before a join completed, uids) that the other side has seen: an ack of before may complete a new
  join with an unknown `fuid`, and `addTransaction` may raise (`NeverRaises`). `UidsAgree` and `NoRaise` are therefore about stacks that were not
  restarted (`Unbroken`); the other invariants are not. Even then a remote that was rejected and created again counts its ids from 1, and with `b` mutable and
  roles rejected at both ends TLC finds a vacuous request that meets, by its name, a remote whose Joinent still has that index: the same happens, with `b` on a fixed road, once an outside entity rejects
  the role at `a` too and uids go far enough. `NoRaise` is therefore claimed, and proved, where the main stack is on a fixed road and only its own roles are decided from outside.
* `joinees` keeps a remote that was removed when a late copy of a vacuous request was rejected after its join (`ghost`).
* `removeRemote` takes the remote out of the index before it nacks its transactions, so that the nack of a Joiner
  is refused by `tx`, though comments (`road/transacting.py:1252`) say that it also nacks.
* `Joinent.complete` joins although the role was rejected while it waited for the ack.
* An ephemeral remote, and a stale request for a renewal, use up a uid each.
* A Joiner that is pended in a vacuous join stays vacuous, and takes name, uid and keys again from a second response before `accept` asks whether the road may change
  (`road/transacting.py:670`), so that a stack that is not mutable may replace the uid it has just been given (TLC finds it after one restart with `a` on a fixed road as the one that asks). `CredentialsKept`
  is claimed, and holds, where the asking stack is mutable.
* A torn keep file makes every restart raise until someone removes it (`RaisedOnlyIfTorn` says that nothing else does).
* `allow()` sets `.alived` directly (`road/transacting.py:1774` and `2228`; the docstring at 2321 says that only `refresh` does), so `reapTimer` goes on and a remote may be reaped and alive.
* `availables` is commented "both alive and allowed" (`road/stacking.py:407`); the code looks at `alived` only.
* Two main stacks that have reaped each other never speak again: neither manages a reaped remote. `Recovers` is therefore about one main.
* A lane page with a wrong destination name is counted as dropped and processed (`lane/stacking.py:126`).

## 6. Proofs

All proofs are checked by TLAPS (SMT, Zenon and LS4 backends), for all values of the constants.

| Module | Theorem | Statement |
|---|---|---|
| `Messaging_proofs` | `TypeCorrect` | types |
|  | `AtMostOnceTheorem` | a message reaches the application at most once in a session unless its id was forgotten while its Messenger retried |
|  | `RejectedTheorem` | a message rejected as stale was delivered, unless messages are no longer allowed |
|  | `NackTheorem` | a stale nack in flight never meets a live transaction, but one to the initiator of a message that was forgotten |
|  | `Refinement` | `Messaging` implements `Delivery`, whose `Forget` is the id that is forgotten |
|  | `RedoAsksTheorem` | the packet a Messenger repeats asks for an answer |
|  | `LowestTheorem` | a Messengent has every segment below `lowest` |
|  | `PiecesTile` | the pieces of a message are, one after another, the message |
|  | `SegmentedMeansMany` | a message that is cut has at least two segments |
|  | `PacketsFitTheorem` | every packet of a message of at most `MAX_SEGMENT_COUNT` segments fits into a datagram |
|  | `NoPacketTooLarge` | no packet under way of a message of at most `MAX_SEGMENT_COUNT` segments is larger than a datagram may be |
|  | `PagesFitTheorem` | every page of a message of at most a million pages fits into a datagram |
| `Numbering_proofs` | `LeadTheorem` | `rsid` is 0 or the number of the session `lead` before `sid`, across rollovers and restarts |
|  | `NumbersTheorem` | numbers keep their range, 0 is never used as `sid` |
|  | `ValidTheorem` | `validSid` admits a packet exactly if its session is not older than the one known |
| `TxService_proofs` | `TxTypeCorrect` | types |
|  | `OrderTheorem` | with `serviceAll` each destination's packets leave in order |
|  | `NothingLostTheorem` | a queued packet waits in exactly one place, or was sent, or was dropped by an exception that was raised |
| `Session_proofs` | `Types` | types |
|  | `OneAllowAtATime` | a stack has one allow transaction at most for the other |
|  | `DeliveredOnce` | a message is delivered once in a session at most |
|  | `CurrentTaken` | what a stack initiates now is neither stale nor done at the other end |
|  | `KeysMatch` | two stacks that allow each other hold each other's keys, until an Allowent ends before its Allower (`timely`) |
| `Presence_proofs` | `PresenceTypes` | types |
| `Keep_proofs` | `KeepTypes` | types, of memory, files and the operations to do |
|  | `KeysKeptTheorem` | a role on disk never gets other keys, except in mode always |
|  | `RejectionTheorem` | no handler undoes the rejection of a role |
|  | `RaisesOnlyWhenTorn` | a stack raises, at its restart or later, only if a crash tore a file |
|  | `NoGhosts` | between handlers each file is of the remote of its name |
|  | `JoinedKept` | between handlers a joined remote has its file and the file of its role |
| `Joining_proofs` | `Types` | types (no main stack asks) |
|  | `Indexes` | the indexes of remotes by uid and by name agree (no main stack asks) |
|  | `Credentials` | a road that is not mutable never changes name, uid or keys of a remote (nor does it ask) |
|  | `UidsMeet` | the uid of a joined remote leads to the remote made for this stack (a main stack with a fixed road, which does not ask, and one that asks on a mutable road) |
|  | `NoneRaised` | neither stack of that pair raises, as long as nobody outside judges the role at the stack that asks |
| `Lane_proofs` | `LaneTypes` | types |
|  | `BooksWholeInOrder` | what a yard delivers are whole messages, each once, in the order they were queued |
|  | `NoBookOrphaned` | what a book misses is under way or was dropped by an exception |

**Messaging.** `AtMostOnce` alone is not inductive: what prevents a second delivery is spread over the
correspondent's memory and whatever could still reach it. The invariant `MsgInv(m)` says of every message, forgotten or not: one not yet submitted has left no trace (`Untouched`); a `done` means a
delivery; a nack to the correspondent means that the Messenger is gone; what was rejected or forgotten was delivered, or messages are no longer allowed. Of one that was
not forgotten it adds (`Remembered`): once delivered, or while a nack to
the Messenger is in flight, the correspondent is `Closed`, that is not live, and either it remembers the
id or the Messenger is gone and no packet of the message remains; any
sign that the correspondent has heard of the message (`acked`, an `af` flag, a reply in flight) implies that it
is live or closed, which is what makes the `af` half of `correspond` safe; and a closed correspondent has delivered, or stopped allowing, or the Messenger is
gone. Nothing is assumed of timeouts: `forgotten` says which messages the claims are about, and that a message with a brief timeout is never among them is part of the types. The step cases are
grouped into steps of the Messenger (`MessengerSteps`), of the correspondent (`CorrespondentSteps`) and the
stale answers (`Staling`), each with a lemma; `Frame` and `OthersInv` say that a step on one message leaves the others alone. The refinement uses the same invariant: a
Messenger completes only with a delivery behind it, and a second delivery, unless the message was forgotten, is excluded by `Closed`.

**Resending.** Both theorems are about one end alone. That the packet a Messenger repeats has the
wait flag is inductive (`Asks`), since every operation that changes `tx` puts the same segment into `wf`. That a
Messengent has what is below `lowest` needs in addition that one which is gone left an empty record (`Collected`): the next one starts with `lowest = 0`.

**Numbering.** The invariant is that `rsid` is 0 or `Earlier(sid, lead)`; the lemmas are about the circle (`Circle`,
`EarlierFacts`, `ValidMeansNotOlder`) and use that `Window` is less than half of it.

**TxService.** The order of `laters \o txes` is inductive only with the fact that the packets put aside belong to blocked
destinations and precede the same destinations' packets still to be handled. That nothing is lost (`KeptInv`) is about the two
queues as sets: neither has a packet twice, they have none in common, and together they have those that were queued and neither sent nor dropped. A removal in
the middle of a queue never happens, so both need only what taking the head and appending do to such a queue (`PacketsTaken`, `PacketsPut`).

**Session.** Nothing is assumed of the network or of the timers, and the stacks restart at any time. The invariant `W` is a predicate of estates, packets, counts of
sessions and messages rather than of the variables, since one handler calls several others (a first packet of a session drops correspondents, is dispatched, ends
the allow, replaces initiators, sends what was saved): each call is shown to lead from a state with `W` to one with `W` (`Reached`), and a handler is the chain
of its calls. `W` says which numbers have been handed out: a session number anywhere was started by its initiator (`Started`), and within the present session a
transaction id is one already given (`Used`), so a number given next is new. On the circle of `2 * Half` numbers the i-th and the j-th session of a stack compare as i and j do
(`NthValid`), because `MaxSids`, the sessions of a run, is less than half of it; this is the one bound the proof uses. `OneAllow`
rests on the crossing rules of `hello` and `cookie` having both removed one before the other is added. For `OncePerSession` the invariant follows a
message in a session, with its id and the pair of keys it is encrypted for (`Carried`, by a Messenger or a packet): there is one such at most, what is
saved for the next session is not sent in it yet (`Unsent`), and if it was delivered the other side will not take it again (`Spent`), because its session is stale there,
its id is among the done ones, or the keys were replaced. `RankFacts` and `BodiesFacts` show that the bodies saved of several Messengers are each sent once.

`KeysAgree` is false of two estates alone: what makes the last step of a handshake right is which packets may still arrive. `Handshakes` looks at an Allower that waits and at the one Allowent that may answer it,
and says what they may take for granted as long as the Allower waits (`AllowerOK`): a hello or an initiate on its way has the Allower's present key; a cookie has the present key of the other stack, and an Allowent there that made it; an
ack means that this Allowent has seen the initiate (`Expected`); an Allower that has sent its initiate has that Allowent's key, and the Allowent has its. All of that is
about packets as they are, so that to lose or repeat them, or to keep them from an earlier time, changes nothing; packets of a handshake whose Allower has gone are not asked anything. The Allowent in turn knows that its cookie is of its present key, and that
it is allowed exactly if it has sent the ack (`AllowentOK`). What is left is an initiate that an Allowent would still accept after its Allower has gone: then the other stack is not allowed, nor about to be by the same means (`Accepting`).
Each kind of step is a lemma: `Asked`, `Accepted`, `Cookied`, `Agreed` and `Acknowledged` for the five packets of a handshake, `Repeated` for the redo timers, `NackVain` and `Unwaited` for packets that answer no Allower that waits, `Unmoved` for an allow that ends while nobody waits for it,
and `Begun` for a restart. What is inductive is that `Handshakes` holds as long as `timely` does. `timely` is used in `TimeoutHolds` and `RestartHolds` alone, where it says that the Allowent that ends is not awaited; otherwise the late
cookie of section 5 is what an Allower may receive. The proof needs no bound but that of `W`, and nothing of the network. TLC has checked `Handshakes` on a small
instance before it was proved.

**Keep.** That keys are kept and that a rejection sticks depend on what is in three places: the memory of every remote that shares the role, the
role's file, and the writes still to be done. The invariant says that the file of a role is written before those of its remotes
(`TodoInv`), so that a remote with a file has a role that was judged (`DiskInv`), even after a crash between the two; that a remote in memory with a role
was judged too, and its role has a file or is about to (`MemoryInv`); and, but for mode always, that there is one key for each role which
every remote, file and pending write agrees on (`OneKey`). Each handler is one of two kinds, with a lemma each: it leaves the keys of every role
alone (`PlainStep`), or it brings keys for one role, which `statusRole` admits only if they are the persisted ones or none are (`BringingStep`). `ApplyDisk` is
the lemma about one file operation, torn or not. `KeysKept` then follows from `OneKey`, and `RejectionSticks` from what `StatusRole` answers for a rejected role
(`RejectedStays`). TLC has checked the invariant on the instance of `keep` before it was proved.

What survives a crash is a second invariant, `FilesInv`, on top of it. `DistinctInv` holds at any time, in the middle of a handler and while the stack is down: no two files have the same
uid, or that of the local estate. `UpInv` holds while the stack runs: a file is that of the remote of its name or is about to be cleared, clears come before writes, what is to
be written is what memory has, and a joined remote has its file or will have it. The order of clears and writes is what makes a crash between them harmless: were the new name written before the old one
is cleared, a crash would leave two files with one uid. Handlers are reduced to four shapes (`PutFiles`, `RenamedFiles`, `RemovedFiles`, `LeftFiles`);
a restart finds memory that agrees with the files (`DumpedRemotes`) and fails only for a torn one (`RestorableUnlessTorn`).

**Joining.** All handlers are functions from a stack to a stack, so the invariant is one predicate of a stack, `Sound`, the same for both, and the only thing it says of the network is that packets
are well formed and that requests and responses have keys. Its core relates the five things a join touches (`Core`): remotes, names, transactions, files and the role.
The names are exactly the inverse of the remotes, a transaction and a file belong to a remote that is there, a file has its remote's name, and no two files the same. Each operation is a lemma about
these five (`RemoteChanges`, `RemoteRemoved`, `RemoteRenamed`, `RemoteAdded`, `RemoteDumped`), and a handler is a chain of them: `Keeps` says that a call leaves the remotes there and the stack sound,
`Fine` says it of a whole handler and of what it sends. A restart is the converse: from files of such a stack come remotes and names that agree (`Restored`). For a stack
with a fixed road that does not ask (`Fixed`) the core also says that every remote has an uid and the keys of the role, in memory and in its file, and that none
of its own joins is vacuous, so that the ways in which the code changes credentials without asking whether it may (a vacuous joiner, a restart) never apply.
The theorems assume that a main stack does not create remotes (`Mains \cap Creators = {}`), as in the handshake of `docs/topics/tutorial.rst:93-115`, where the main stack is the one asked. The hypothesis cannot be dropped: without it `joining_mains` refutes
`IndexesAgree`. It is used once, in `VacuousFine`: a main stack without a remote named after the other has no remote at all, so the remote that takes the name is new. `Credentials` needs in addition that who asks
has a mutable road (`Creators \subseteq Mutables`); section 5 has the step of a pended vacuous Joiner that refutes it otherwise. TLC has checked the invariant on the instance of `joining`, and with other mutable roads, before it was proved.

`UidsAgree` is about the pair, and is inductive with what each end may take for granted of the other (`Linked`). The main stack `m` has a fixed road, so a remote it made is there, with the uid
of its asker, until it is rejected; then `m` has no remote and takes none again (`Closed`), and nothing is claimed. Before, the asking stack knows as the uid of its remote at `m` only what `m` has for it
(`Asker`, by way of `Met`): in its remote, in a join in process, in every response and request on the way (`ToAsker`). In the other direction `m` says that its remote is joined only when the asker has handed out
that uid and, if its remote is still there, has completed it (`Asked`, by way of `Known`): this is what an ack or a pended join of the asker stands for (`ToAsked`), and that uids are handed out in
ascending order keeps it true when the asker makes another remote. Each handler of either end is a lemma (`AskerFine`, `AskedFine`): it keeps its own half, sends only packets of the right kind, and does to its
own state only what leaves the half of the other end true (`Kept`: the remotes of `m` keep their uids; `Onward`: what the asker handed out stays known); `LinkedTurns` puts the halves together.
A restart ends the claim (`Unbroken`). The hypotheses of `UidsMeet` are those of the instance `joining`, for either name of the main stack: on a mutable road `m` would take another uid for a remote that the
asker has not replaced, and a stack that may ask itself has remotes without uid. TLC has checked `Linked` with each stack as the main one, with modes never, once and always, and with roles decided from outside at both ends, before it was proved.

`NoRaise` says that `addTransaction` meets no index in use and `removeRemote` no name that is gone. The second follows from `Core`: what a handler removes is in the index of names at that moment, whatever it
changed before (`Named`). The first is a race. A Joinent is added after `join` found no Joinent of the remote at hand, so an index can be in use only if another remote is met than the one that was looked at, which is
what a vacuous request does: it looks at the remote in `joinees` and meets the one of its name. So the main stack must have, in `joinees`, its one remote as long as a Joinent answers a vacuous request (`Waits`), and no packet may
clear `joinees` meanwhile (`Expected`), which one with another source uid, or a rejection, would. `Steady` adds what keeps this so: the remote of the main stack is for the very remote that the other stack still has (`Expects`), every packet to the main stack comes
from that remote (`Sourced`), and no rejection is on its way in either direction, so that neither removes its remote and makes it again; for that the asking stack must not itself judge the keys as rejected (`Trusting`). Until the main stack has rejected
the role for good (`Closed`), after which it has no joins at all (`Shut`). The lemmas go in three chains, one for each part: `Calm...` (no handler raises, given `Expected`), `Trusts...` (the asking stack), `Told...` and `Starts...` (the main stack with and without its remote);
`SteadyTurns` puts them together with the two halves of `Linked`. That the role at the asking stack is not judged from outside (`Other(m) \notin Outsiders`) cannot be dropped (section 5); that `m` is main only excludes stacks that refuse every request.
TLC has checked `Steady` with each stack as the main one and with modes never, once and always before it was proved.

**Lane.** Pages have an order, of sessions, books and numbers (`Before`). The socket and the queue hold ascending pages, and whatever was handled comes before whatever is
under way (`FlowInv`): a page is never handled twice, and the delivered books are in order. All pages of a book agree about how many there are, so a book that
has that number has each of them. The books a yard holds are of the session it has (`YardInv`), and of the sender's present session the pages that follow one under way, or
belong to a book the receiver has begun, are under way, received or dropped (`ComingInv`), which is `NoOrphanBook`. `Handles` and `Delivers` sum up what `processRx` does to a
page: it is refused, or starts, extends or completes a book.

**Segmenting.** These are facts about operators, for every size. A cut is division with rest (`Quotient`). A head grows by three fields, and how
many digits a number takes is bounded by the power it is below (`DigitsBound`): four hex or five decimal digits for `sn` and `sc`, seven or
eight for `ml`, which with the labels is exactly the estimate of 27 or 36 bytes (`GrowthBound`). The hypothesis that a message has no more than
`MAX_SEGMENT_COUNT` segments cannot be dropped, and the code does not check it (section 5).

**Only model-checked.** All liveness
properties: fairness and ENABLED are outside what the prover handles, and so are induction over data and RECURSIVE operators, which no module here uses. That a
sum over a queue, or what is left of it when one destination is taken out, would be such an induction is why `NothingLost` and `Bodies` are stated with positions and ranks.

## 7. Not modelled

* Bytes: headers, JSON and msgpack bodies, signatures and encryption are represented by what
  they decide. `Session` lets a box open only with the pair of keys it was made for. Of formats, only sizes are in `Segmenting`.
* `flo/behaving.py` wraps the stack for ioflo; tests, examples, documentation and packaging hold no protocol state.
* In `Session`: joins in process, multi-packet messages and the expiry of done ids. In `Messaging`: more than one session.
  In `Presence`: the packets of joins and allows, and the clock behind the timers.
* In `Joining`: a change of address, kind or main flag, several remotes at one address, a third stack. In `Keep`: `moveRemote`, which nothing calls, and the
  clearing of whole directories.
  `Join` refuses a request at the first join that has to be refused for, and leaves the others as they are; the code, which looks at them in their order, may have removed a Joiner before it meets a
  Joinent, which the Joiner's timeout does as well. `Refused` asks whether the remote has joins left, the code whether it has any transaction: of transactions, only joins are there.
* In `Lane`: the format of pages, names and paths of yards, `nacks`. With a single sending yard no other yard can have its name or address, so that `addRemote` does not fail on a clash.
* Statistics, logging and the console.
