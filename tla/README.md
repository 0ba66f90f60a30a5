# TLA+ models of the Assimilation monitoring system

This directory holds TLA+ specifications of the nanoprobe of the Assimilation project
and of the protocol it shares with its management authority, the TLC configurations
that check them on small instances, and proofs that TLAPS checks for every value of the
constants.  Paths below are relative to the root of the repository.

## 1. The system

An Assimilation installation is one *Collective Management Authority* (CMA,
Python, `cma/`) and one *nanoprobe* (C, `nanoprobe/`, `clientlib/`) per managed
host.  A nanoprobe obeys the CMA: it sends and expects heartbeats, runs resource
operations and discovery, and reports what it sees.  The CMA arranges the hosts
in rings, tells neighbours to exchange heartbeats, and keeps everything in a
Neo4j database.  All of this travels in *framesets* over UDP; a reliable protocol
with acknowledgements by the application sits in between.

### Inventory

| Component | State it keeps | Operations | Talks to | What makes it correct |
|---|---|---|---|---|
| `FsQueue` (`fsqueue.c`) | framesets of one direction, next sequence number, session | `enq`, `ackthrough`, `flush`, `inqsorted`, deq, space tests | FsProtocol | ascending order, no duplicates, old sessions refused |
| `SeqnoFrame` (`seqnoframe.c`) | session id of the process | `initsessionid`, `compare` | FsQueue, FsProtocol | later runs have larger session ids |
| `FsProtocol` (`fsprotocol.c`) | table of connections, each with an automaton of six states, two queues, timers; lists `unacked` and `ipend` | `send1`, `send`, `receive`, `read`, `ackmessage`, `closeconn`, `closeall`, `activeconncount`, three timers | ReliableUDP, NetIO, applications | order, no loss behind the sender's back, lists agree with queues, every shutdown ends |
| `ReliableUDP` (`reliableudp.c`) | none of its own | thin calls into FsProtocol | NetGSource, applications | same as FsProtocol |
| `NetIO`, `NetGSource`, listeners | sockets, dispatch table | send and receive framesets, dispatch | GLib main loop | each frameset goes to its listener |
| `HbListener` (`hblistener.c`) | per sender: deadline, warning time, state | `addlist`, `checktimeouts`, `got_frameset` | nanoprobe callbacks | one death per silence, one return per death, a timer for as long as there is a peer to watch |
| `HbSender` (`hbsender.c`) | list of destinations with a timer | start, `stopsend` | NetIO | a stopped sender is silent |
| `Nanoprobe` (`nanoprobe.c`) | configuration, CMA address, shutdown flags | obey each CMA message, report upstream, shut down | all of the above | it asks until it is configured, starts nothing in shutdown, and ends |
| `ResourceQueue` (`resourcequeue.c`) | queue of operations per resource | `Qcmd`, `cancel`, `cancelall`, `runqueue`, `endnotify` | ResourceCmd | one operation per resource at a time, none started after cancel |
| `ResourceCmd` (`resourcecmd.c`, `resourceocf.c`, `resourcelsb.c`, `resourcenagios.c`) | request, child, whether it runs | make or refuse, execute, notify | ResourceQueue, ChildProcess | complete requests only are run, a reply has the output |
| `ChildProcess` (`childprocess.c`, `gmainfd.c`) | pid, timeout, escalation state, pipe | start, exit, timeout, kill | GLib, ResourceCmd, Discovery | a child outlives its watch, signals come in order |
| `Discovery` (`discovery.c`, `jsondiscovery.c`) | objects by name, timers, last result | periodic discovery, send on change | nanoprobe, ConfigContext | a change is reported once, references are right |
| Listening (`switchdiscovery.c`, `arpdiscovery.c`, `lldp_min.c`, `cdp_min.c`) | last switch and port, map of IP to MAC | capture, validate, send on change | libpcap, Discovery | the CMA knows what was heard last |
| Keys (`cryptframe.c`, `cryptcurve25519.c`) | key files, maps of keys, identities and destinations | load, generate, purge, set the key of a destination | NetIO, nanoprobe | one signing key for good, nothing encrypted for a stranger |
| Frames (`frame.c`, `frameset.c`, `packetdecoder.c` and the frame classes) | frames of a frameset | wrap, marshal, decode | NetIO | what arrives is what was made |
| Addresses and socket (`netaddr.c`, `netio.c`, `netioudp.c`) | socket, aliases | bind, join, send, receive, convert, compare, write, read | NetGSource | sent to whom it was meant; equal addresses are treated alike |
| Pid file (`misc.c`) | a file | look, write, remove, kill | other nanoprobes | it names the nanoprobe that runs |
| `HbRing` (`cma/hbring.py`) | members and order of a ring in the database | `join`, `leave`, `AUDIT` | Drone, Store | ring stays a ring; each member hears its neighbours |
| `Drone` (`cma/droneinfo.py`) | status, reason, rings of a host | `death_report`, `start_heartbeat`, `stop_heartbeat` | HbRing, transactions | a dead host is in no ring |
| Dispatch (`cma/dispatchtarget.py`, `messagedispatcher.py`, `packetlistener.py`) | queues of framesets by priority | one handler per frameset type | Drone, transactions | order within a priority, ACK after commit |
| Transactions (`cma/transaction.py`, `store.py`) | packets and database writes to be made | commit, abort | ReliableUDP, Neo4j | both or none |
| `ConfigContext` (`configcontext.c`), class system (`proj_classes.c`) | JSON values, a registry of classes | get, set, parse; casts | everything | data only |
| Queries, best practices, command line | rules, reports | evaluate, print | Store | no protocol state |

What is hard here: framesets that are lost, repeated or arrive from an earlier
session; acknowledgements that are cumulative and given by the application, long
after the frameset was read; a peer that restarts; timers that race late answers
and close a connection under the function that caused the transmission; an
automaton that is entered again from its own actions; queues at their limit; and
packets that are wrapped anew each time they are sent; key files written in steps
between which the process may crash; objects that outlive their owners because a child
or a timer still points to them; and on the CMA side, several packets per change of a
ring and a commit in three parts.  The hazards are listed line by line in `PROJECT.json`.

## 2. Plan

| Step | Modules | Abstract specification | State |
|---|---|---|---|
| 1 | `FsQueue`, `FsProtocolFSA`, `FsProtocol` | `ReliableChannel` | done, and proved but for the liveness properties |
| 2 | `ResourceQueue`: operations that repeat, are cancelled, cannot be started | | done, and its safety properties proved |
| 3 | `HbListener`, `HbSender`, `Discovery`, composed in `Nanoprobe` | | done, and their safety properties proved |
| 4 | `ResourceCmd`: one command, its child, the pipe, timeouts | | done, and its safety properties proved |
| 5 | `Packets`, `NetIO`; `NetAddrs`, `NetSocket` | | done, and their safety properties proved |
| 6 | `CryptKeys`, `PidFile`, `Capture` | | done, and their safety properties proved |
| 7 | a proof of `ReadyAudit`, which holds while no session ends | | done |
| 8 | `HbRing` with `Drone`, transactions and dispatch (CMA, Python) | a ring of the live hosts | open |

How the modules fit together:

```
FsProtocolFSA  FsQueue        HbListener  HbSender  Discovery     Packets  NetAddrs
          \    /                        \     |     /                |        |
        FsProtocol --INSTANCE-->          Nanoprobe                NetIO   NetSocket
             |      ReliableChannel                                   \       /
        MCFsProtocol             ResourceCmd CryptKeys Capture PidFile  |
                                          \________\_______\______\_____|
        ResourceQueue -- MCResourceQueue                               Parts -- MCParts
```

## 3. The frameset protocol

### Modules

* `FsQueue` – the queue of framesets as a record and one operator per C function.
  `FsQueue_proofs` has the type of every operation, what a queue holds after it, and
  how the numbers in a queue of output follow each other.
* `FsProtocolFSA` – the matrices `nextstates` and `actions`, cell by cell.
  `A_DEBUG` and `A_ACKTO` only log, `A_SNDNAK` and `A_NOSHUT` occur in no cell.
* `FsProtocol` – both ends `A` and `B` of one connection.  `conn[n]` is the
  `FsProtoElem` of end `n`; `present` says whether it is in the `endpoints` table,
  `ipend` and `unacked` count its entries in the two lists of the parent.  Each
  C function is an operator from a connection to the connection it leaves; what
  it transmits gathers in `tx` and reaches `net` when the action ends.  Each entry
  point, timer callback and received frameset is one action, because a nanoprobe,
  and the part of the CMA that calls this code, runs it from one GLib main loop.
* `ReliableChannel` – what one direction of a connection promises.
* `MCFsProtocol` – bounds for the runs.
* `FsProtocol_proofs` – the proofs.

### How the data is abstracted

* A frameset is its kind, session, request id and a number standing for its
  content.  Only sequenced framesets are modelled; heartbeats and other unsequenced
  ones bypass the queue's numbering.
* `nextrexmit` is `off`, `armed` or `due`, and `acktimeout` is a count of
  retransmissions (`tries`, up to `AckTries`): in the code about sixty of them fit
  into the timeout, and the runs use one, which reaches the timeout soonest.
* `net[n]` is the set of framesets under way to `n`.  With `Duplicates = TRUE`
  nothing leaves it: a frameset arrives any number of times, in any order, or never
  (loss is the absence of a delivery).  With `Duplicates = FALSE` a delivered
  frameset is gone and `Lose` removes others; the liveness run uses this.
* The checks of encryption and identity in `_fsprotocol_receive` discard a
  frameset before it has any effect, which is a loss.  `CONNNAK` is never sent by
  any code in the repository, so its column of the matrices is never used.
* The session id of a process is the time of day, made larger than the one saved
  on disk (`seqnoframe.c`); every reset of a connection adds one.  `SessStep` is
  the distance between the ids of two runs, and `Step` allows only as many resets
  in one run as fit in it; `SessStep = 1` allows none.
* `CountIdle` is `activeconncount` when it finds nothing active; `shutdown_when_outdone`
  calls it after `closeall`, so it is enabled only after a close.
* `send` and `sendreliablefs` refuse or drop framesets while a connection shuts
  down; the model calls them only outside a shutdown, except for the `CONNSHUT`
  that the automaton itself sends.
* Two branches are left out.  The second `g_list_prepend` in `_fsprotocol_xmitifwecan`
  cannot be taken, since the queue does not grow there.  The branch of `_fsprotocol_read`
  for a connection in `ipend` with nothing readable can be, as the run `dangling` shows,
  but it only logs.
* History variables: `handed`, `acked`, `seen`, and the fields `got` and
  `complained` of a connection.  They never occur in a guard other than a bound.

### Runs

`Window = 2` is the value in `fsprotocol.h`.  Because `_fsprotocol_xmitifwecan`
compares it with the length of the whole output queue, it means that at most one new
frameset is sent before it is acknowledged, and that a longer queue moves by
retransmission only; `AckedWasRead` depends on it.  `MaxQLen` is 2, or 1 where a full queue matters:
a full queue then needs few framesets.  Deadlock is not checked because the
bounded events run out; two idle ends then have nothing to do.

| Run | Bounds | Checks | Shows |
|---|---|---|---|
| `steady` | A sends 2, B 1; no resets | `TypeOK`, `ReadyAudit`, `NotShownAgain` | with reordering and repetition but no reset, the ready marks are right and nothing is read twice |
| `reset` | A sends 3, two resets | `IsReliableChannel` | one direction implements `ReliableChannel`, resets and a full queue included |
| `crash` | A sends 2, B 1, each end crashes once and resets once | `AckedWasRead`, `NoSeqnoReuse`, `ReadInOrder` | an acknowledged frameset was read by the peer, across restarts of either side |
| `shutdown` | A sends 1 and closes, queue of 1 | `TimerOnlyInShutdown`, `NoComplaint`, `ShutdownEnds` | the automaton gets no impossible input and every shutdown ends, even if the `CONNSHUT` did not fit or nothing arrives |
| `lossy` | A sends 2, losses without bound, each end is destroyed by its timer once | `UnackedAudit`, `OutputDrains`, `UpDelivers` | output drains, what is queued on an open connection is read, and the audit of the code holds also when connections are destroyed and created anew |

The bounds are small, and each kind of event still meets each other one: two
framesets one way and one the other are enough for reordering, overtaking and a
late copy of each; one reset per run makes two sessions of one process, one crash
a third; a queue of two is full with a list of two.

Two more runs expect a violation.  Each refutes what a comment, a log message of an
audit or a document of the repository says, and `PROJECT.json` quotes the line:

* `dangling` – a late frameset of an old session marks an empty
  input queue as ready, and the connection stays in `ipend` when it is destroyed;
* `session_reuse` – the finalize timer destroys the session id; the next message
  repeats a sequence number and is acknowledged without being read.

Two things the model does not contradict but a reader should know: the application may
acknowledge a frameset of a connection that the finalize timer has destroyed, and
`_fsprotocol_ackseqno` then reads through the missing connection before it tests for it;
and giving up on output in `INIT` also resets the input side, so that a frameset the
application has read and not yet acknowledged is shown to it again (`NotShownAgain`
holds in `steady`, which has no resets; section 7 has the exact condition).

### Fairness

`FairSpec` assumes that the main loop runs the retransmission and shutdown timers,
that readable input is dispatched, and that applications acknowledge what they read:
all are sources of a GLib main loop or calls of the code that dispatches a frameset.
Of the network it assumes that among infinitely many framesets of one kind to one
end, some arrive (strong fairness of `Deliver`, per end and kind).  `ShutFairSpec`
assumes the shutdown timer only: the network may lose everything, the peer may be
dead.

## 4. The resource queue

A nanoprobe runs operations on resources (in practice: monitors) as child
processes.  `ResourceQueue` models `resourcequeue.c` with the commands it runs and
the part of `nanoprobe.c` that calls it.  `q` is the C object and all it points to:

* `queue[r]` is the `GQueue` of resource `r`; an empty one is an absent entry of the
  hash table.  `elem` and `cmd` are the elements (`RscQElem`) and commands
  (`ResourceCmd`) by address.  Addresses are used again after a free, and the field
  `user_data` of a command keeps the address of its element after that was freed.
* `refs` and `activechildcnt` are the counts of the C object.  The count of a command
  is not a variable: it lives as long as its element or its child does.
* `due` stands for `now >= starttime`; `BecomeDue` is the passing of time.
* `runqueue` and `endnotify` are set-valued operators: any process they start may fail
  to be spawned.  `failed` counts such failures, which the code never undoes.
* A call with a freed element ends the process: `CASTTOCLASS` aborts
  (`ChildExitAborts`), unless the address holds another element by then.
* `cancelall` removes entries of the hash table while it iterates over it; GLib does
  not define how far it gets, so `InitiateShutdown` clears any of the queues, but at
  least one.
* `FoundDuplicate` does what `_queue_compare_requestid` makes of `g_queue_find_custom`:
  it finds an element with *another* id.  The elements of one queue thus have one id.
* Left out: requests that are refused as malformed (no state changes), the two LSB
  operations that answer without a child, and the text of results.

| Run | Bounds | Checks | Shows |
|---|---|---|---|
| `queue` | 2 resources, 2 ids, 3 requests, 1 failing spawn, 3 addresses of each kind | `TypeOK`, `QueuesHoldTheElements`, `QueueOutlivesChildren`, `OneQueuedRuns`, `RequesterKnows` | queues, memory, counts and reports stay consistent through cancels and shutdown |
| `repeat` | 1 resource, 2 requests that may repeat, 1 failing spawn | `EveryCommandRuns` | no command starves, and the timer comes back |
| `one_action` | 2 requests | `OneActionAtATime`, violated | a cancelled operation that still runs is overtaken by the next one of its resource |

Three requests and three addresses are enough for a cancelled command that still runs,
a new element at the address of its old one, and a third request behind it.  `queue`
uses symmetry of names and addresses, as it checks no liveness; in `repeat` one
resource is enough since `runqueue` treats every resource by itself.  Its fairness:
the timer is a source of the main loop, time passes, and processes end.  The last is an
assumption on resource agents, not a fact: nothing in the code sets `timeout_secs`, so a
hanging agent blocks its resource for ever.  Spawns fail finitely often.

The module assumes that memory is finite (`IsFiniteSet(Address)`), so that children can be
counted, and that `NULL` is the address of nothing.

`RequesterKnows` also shows what the code does not promise: a monitor that never worked
is never reported, because `last_success` starts as `FALSE`, whereas the CMA starts with
`isworking = True` (`cma/monitoring.py`).

## 5. The nanoprobe

`Nanoprobe` models `nanoprobe.c` and `nanomain.c` with the heartbeat listeners and senders
and the discoveries they drive.  Everything runs from one GLib main loop, so that each
callback, timer, signal poll and command is one action.

* `HbListener` – `listeners` is the list `_hb_listeners` by address (a new listener
  displaces the one of its address), `hbTimers` the number of sources that run
  `_hblistener_gsourcefunc`.  `silent` counts ticks since a peer was last heard; it stops
  one tick after the longest time, where it makes no difference any more.
* `HbSender` – the list `_hb_senders`, duplicates included.
* `Discovery` – `d.obj` are the discovery objects by address, with their reference
  counts, timers and children; `d.table` is `_discovery_timers`; `d.value` is the text the
  configuration keeps under the name of a discovery.  `Finalize` does what
  `_discovery_finalize` does to an entry that has displaced its own: it removes it.
* `Nanoprobe` – the states of `nano_startupidle`, the timer of `nano_reqconfig`, what is
  known of the CMA, the nanoobey functions, the agents for deaths, returns and martians,
  and the shutdown.  A command is one action with its early return in shutdown.
  `answer` is what is under way of the CMA's answer to a STARTUP and not lost.  The CMA
  answers each STARTUP with `SETCONFIG`, and with `ACKSTARTUP` only when its connection
  is not active (`DispatchSTARTUP` in `cma/dispatchtarget.py`); either may be lost, by
  itself or with the CMA.  So a STARTUP brings any part of what the nanoprobe has not had
  yet (`AnswerTo`), or nothing, and the parts may come in either order and long after.  What it has
  had changes nothing when it comes again: a second `ACKSTARTUP` is no step, a second
  `SETCONFIG` is `SetConfig` when `connected`.

Abstractions: `OutputAcked` stands for `activeconncount` reaching zero after `closeall`;
that it does is `ShutdownEnds` of `FsProtocol`.  The give-up time of
`shutdown_when_outdone` is years away (line 1479) and is left out.  A nanoprobe that never had
a connection ends in `InitiateShutdown` at once (line 1464).  `StopDiscover` changes nothing, because `nanoobey_stopdiscover` returns when it has found a name.  Resource
commands are in section 4; cancelling them in shutdown is `InitiateShutdown` there.

| Property | Says |
|---|---|
| `DeathToldOnce` | a death is told exactly once per silence |
| `ReferencesAreHeld` | a discovery has one reference for the table and one for its child, through all displacements |
| `ChangeIsReported` | an output that counts as sent is what the CMA has |
| `NothingStartsInShutdown` | no sender, listener or child is started in shutdown |
| `GetsConfigured` | the nanoprobe gets its whole configuration, though STARTUPs and either part of their answers are lost, since it asks until it has both |
| `SilenceIsNoticed` | a peer silent for too long is found to be dead, however often the list of listeners, which ends its timer when it is empty, was emptied and filled again |
| `SignalEnds` | a signal ends the nanoprobe |

Bounds of the run `nanoprobe`: one peer with one deadtime and warntime, two instances of
discovery and three addresses for their objects (one displaced, one that displaces it, and
the other instance), one output besides none, two commands after the configuration.
Two commands are enough to stop and start heartbeats, or to displace a discovery, while
timers and children run; two timers, as a list that is emptied and filled again within
a second has an old and a new one.  Peers do not interact, so that one is enough.
`SpawnMayFail = FALSE`: an agent that cannot be spawned at the first turn of its timer
ends that timer, and `GetsConfigured` does not hold of the code then.
A change from one output to another does not occur, as there is one output besides none;
that such a change is reported is proved (`ChangesAreReported`, section 7).

Fairness: the main loop runs its timers and idle functions, and handles what arrives; time
passes; children exit, and of infinitely many runs of an agent some give an output.  No
STARTUP is promised an answer: of infinitely many that are sent, some bring a part that
the nanoprobe has not had and that was not under way before (strong fairness of `ReqConfig`
with a new part in `answer`).  A nanoprobe that stops asking after one part may wait for the other for ever, as the mutant
`ReqConfigUntilKnown` does.  This does assume something of the CMA, whose code is not
modelled: that it comes back after a crash, and that it does not find its connection to the
nanoprobe active for ever while no `ACKSTARTUP` waits on it (`dispatchtarget.py:174`).  A
connection that gave up its first output is not active (`INIT` and an ACK timeout lead to
`NONE`); one that was up before the nanoprobe was started anew is, until the CMA takes the
host for dead (`droneinfo.py:340`).  Nothing is assumed of heartbeats, commands or signals.

## 6. The parts

Six parts have a module and state of their own and touch the rest by the result of a call
only.  They share the run `parts`: `Parts` chooses one of them at the start, and the
others stay as they are (`MCParts` gives the constants), so that the states of the run are the sum, not the product, of
those of the parts.  `PartsTypeOK` is the conjunction of their type invariants.

**`ResourceCmd`** – a request becomes a command of its class or is refused, is executed
as often as its owner likes, and is let go of by its owner at any time.  `child` and `proc`
are the `ChildProcess` and the process with its end of the pipe: writing, dying, reading the
pipe and noticing the exit are actions in any order.  A process that outlives SIGKILL is
given up on; when it exits after all, whether or not the owner has let go of its command in
the meantime, `_childprocess_childexit` runs again with a freed child (`ExitOfGivenUp`, the end of
the behaviour; `ChildOutlivesWatch` is about every other exit).  Bounds: each class with the operations it treats
differently and five bad requests, two executions, two pieces of output.  `ChildOutlivesWatch` and
`ReplyHasOutput` are its properties.

**`CryptKeys`** – the key files (`short` is a file created and not written), the maps of
`cryptframe.c`, the start (`nanoprobe_initialize_keys`) and the making of a pair, in which
the process may crash or fail between any two writes; and what packets do to the maps.
`OneSigningKey` and `CanEncrypt` are its properties.  Bounds: three own keys, so that two starts may fail
and a third succeed; two keys of the CMA and one of a stranger; two addresses.

**`Packets`** and **`NetIO`** – `Packets` has, per frame class, what its constructor makes,
what `isvalid` says and what the decoder accepts, and the three transformations: `Wrap`
and `Packet` (`frameset_construct_packet`) and `Decode` (`packetdecoder.c`).  A frame is a record with its length in bytes and
what decides about it; what is encrypted or compressed is the sequence of frames that was
closed.  `NetIO` builds a frameset, sends it, perhaps again with another key, over a network
that loses, repeats, cuts and garbles, and gives what arrives to a listener.
Properties: `ArrivesAsMade` and `WrappedOnce`.  `ArrivesAsMade` says that what the network did not
change is what was made, and that what was encrypted or compressed is not delivered at all if it was
changed.  What was changed in the open is, because a signature is not compared with its packet
(`signframe_tlvconstructor`).  The module assumes of the frames it builds with that a constructor makes them.
Bounds: two frames of three kinds, two datagrams under way, one of which something happens to.
`MadeIsValid` (an `ASSUME` of `MCParts`) checks that each constructor makes what `isvalid` and the
decoder accept, which `ConstructedIsValid` proves for any content.

**`NetAddrs`** and **`NetSocket`** – addresses as sequences of 16-bit words: equality with its
three loopbacks, hash, conversions, text and its parser word by word; and the socket: search for
a buffer size, bind, join, send by IPv6 until the first `EADDRNOTAVAIL` and by IPv4 from then on,
aliases, receive.  Properties: `SentToWhomMeant`, `EqualAddressesAlike`, `TextReadsBack`.  The last
is checked for zeros in all 256 combinations of places.  The module assumes that what is bound to,
sent to and given an alias are IP addresses, that a peer or alias is never the address that stands for any, and that
what is written is an IP or a MAC address.

**`Capture`** – LLDP and CDP packets as sequences of types with their ids, cut or padded; which
are valid, which ids they give, and what `switchdiscovery.c` makes of them; the ARP map and
its timer.  `EverySecond` is a loop that goes on twice per turn and so misses the ids in even
places.  An LLDP packet is padded behind its END only: zeros behind a packet without one would be
read as an END (`lldp_min.c:154`), which `IsValidLldp` leaves out.  Properties: `SwitchIsKnown`, `ArpMapIsSent`.

**`PidFile`** – any number of processes that start, fork, look at the file, write it, run, end,
crash, and kill each other, with process ids used again.  Two that are between looking and acting at
the same time may both run: the code has no lock.  `overlapped` records that this happened, and
`PidFileNamesTheOne` is about all other behaviours.

Deadlock is not checked in these two runs: a nanoprobe that has ended and a command that was
let go of have nothing to do.

## 7. Proofs

The theorems hold for any values of the constants: any window, queue length, sets of peers,
resources, keys and addresses, and any bounds.  They assume only the named assumptions of the
modules (positive numbers, two different ends, memory that is finite and in which `NULL` is no
address).  The theorems that need more say so in their hypotheses.

### The frameset protocol

`FsProtocol_proofs` rests on `FsQueue_proofs`, which has what each operation of a queue
takes, returns and keeps.

| Theorem | Statement |
|---|---|
| `TypeCorrect` | `Spec => []TypeOK` |
| `UnackedAudited` | `Spec => []UnackedAudit` |
| `TimerRight` | `Spec => []TimerOnlyInShutdown` |
| `NeverComplains` | `Spec => []NoComplaint` |
| `NumbersAreUsedOnce` | `Spec /\ ConnectionsStay => []NoSeqnoReuse` |
| `ReadingIsInOrder` | `Spec /\ ConnectionsStay => []ReadInOrder` |
| `AcksAreForRead` | if `Window <= 2`: `Spec /\ ConnectionsStay => []AckedWasRead` |
| `NothingIsShownAgain` | `Spec /\ ConnectionsStay /\ ReceptionStays => NotShownAgain` |
| `MarkIsRight` | if `Window <= 2`: `Spec /\ ReceptionStays /\ OutputStays => []ReadyAudit` |
| `ConnectionIsReliable` | if `Window <= 2`: `Spec /\ ConnectionsStay /\ ReceptionStays => IsReliableChannel` |

The conditions are those under which the code keeps the promise:

* `ConnectionsStay`: no step destroys a connection, except a restart of its process.  A connection
  that the finalize timer destroys forgets its session id, and the one created in its place gives
  the same numbers again: that is what the run `session_reuse` finds.  Losses, repetitions,
  resets, full queues, shutdowns and restarts of either end are all allowed.
  The behaviours of the runs `steady`, `reset` and `crash` meet it.
* `OutputStays`: an end gives out one session id, that of its process, so that no end that has sent
  something is reset, destroyed or restarted.  Without it, and `ReceptionStays`, a late frameset of an ended session is
  marked as ready: that is what the run `dangling` finds.  Losses, repetitions, delays, full queues and
  a shutdown up to its end are allowed; the behaviours of `steady` meet both.
* `Window <= 2`: the value in `fsprotocol.h`.  An acknowledgement drops everything
  up to its number, and it is only given for what was read because nothing but the head of
  the queue of output is ever sent.  A larger window would send more.
* `ReceptionStays`: an end that has received something is not reset, destroyed or restarted
  afterwards.  Without it a frameset is shown again (section 3); the sending end may be reset and
  restarted at any time.

**Types, lists and timers.**  None of `UnackedAudit`, `TimerOnlyInShutdown` and `NoComplaint` is
inductive alone.  That an `A_OOPS` cell is never reached
rests on two facts: an ACK timeout, or the last ACK, only comes to a connection with
output, and a connection in `NONE` has none; the shutdown timer only fires in a
shutdown state.  These rest in turn on the list and the timer.  The invariant `IInv`
says that each connection is `Sound` (open: listed exactly when it has output, idle
in `NONE`, timer exactly in shutdown, no complaint so far) or `Gone` (destroyed: empty,
in no list of output, no timer).  The lemmas follow the operators: each C function
turns a sound connection into a sound one.  Two cases carry the argument.  In
`ShutSound` the automaton finishes a transition into shutdown on a connection whose
state may have changed in between, since `A_SNDSHUT` has entered the automaton again
and may even have given up on the connection; the timer is started in any case.  In
`RetransmitSound` giving up comes from within a transmission; the connection has
output, so its state is not `NONE`.  The columns of the two matrices enter through
the `Table...` lemmas.

**Numbers and order.**  `Flows` relates the two ends.  `Numbered`: what end `n` has under way
anywhere (the network, what the action has transmitted, its queue) has distinct numbers below
the next one to give, and data is numbered in the order in which it was sent.  `InOrder`: what the peer has read comes
before whatever it can still read, that is, everything not before the next number its queue of input waits for.
The second needs the first, since without it a late frameset could have a number that was
given twice.  Within an action a connection passes through several C functions, so that the
step is proved for `Moves`, which says the same of a connection in the middle of an action.

**Acknowledgements.**  `Answered` says that each number that acknowledges something, wherever it
is (in the peer's list of what to acknowledge, in its last ACK, in an ACK under way), belongs to
data that the peer has read, and that nothing later than the head of the queue of
output was ever sent or acknowledged.  The second is what `Window <= 2` is for: an ACK then drops the head or nothing.

**What is shown.**  `Shown`: where the receiving end stays, what the application was
ever shown is what its connection has read.  `NotShownAgain` follows with `ReadInOrder`.

**The ready mark.**  `_fsprotocol_receive` marks a connection by what it has just queued, and a
read by what it leaves, so that a mark is wrong only if the head of the queue of input
changes without either seeing it: by an old number, or by a frameset of another session.  `SteadyState` rules out
both.  Per direction (`Steady`): all that is under way has the one session id and numbers that go up to
the next one the receiver waits for (`Within`), the queue of output has no gap, and its head is the one
awaited or was read already (`Leaves`), so that framesets come to the queue of input one at a time (`Arrives`);
and a connection that does nothing is marked rightly (`Settles`).  `Tracks` is its form inside an action: the connection
gave up on its output, or forgot its input, which the hypotheses exclude for a whole step, or
what goes out and comes in is as `Steady` says.

**The refinement.**  What `ReliableChannel` may lose is what leaves the queue of output
unread.  `Remains` and `KeepsOutput` say that a step keeps the output of A but for what was read, or
gives all of it up; again there is a lemma per C function.  A step of A thus
appends to the channel, or loses in it, or both (`SenderMaps`); that the channel as the
refinement mapping builds it changes by just that is the matter of the lemmas `PipeGrows`, `PipeSame`, `PipeLost`
and `PipeRead`.  A step of B reads one frameset at most; it is not after the head of what A still has to
send, so that nothing is skipped that was not lost (`ReaderMaps`).

### The nanoprobe, the resource queue and the commands

| Module | Theorem | Statement |
|---|---|---|
| `Nanoprobe_proofs` | `NanoTypeCorrect` | `Spec => []NanoTypeOK` |
| | `DeathIsToldOnce` | `Spec => []DeathToldOnce` |
| | `ReferencesAlwaysHeld` | `Spec => []ReferencesAreHeld` |
| | `ChangesAreReported` | `Spec => []ChangeIsReported` |
| | `QuietShutdown` | `Spec => NothingStartsInShutdown` |
| `ResourceQueue_proofs` | `QueueTypeCorrect` | `Spec => []TypeOK` |
| | `QueuesHoldThem` | `Spec => []QueuesHoldTheElements` |
| | `QueueOutlives` | `Spec => []QueueOutlivesChildren` |
| | `OneOfThemRuns` | `Spec => []OneQueuedRuns` |
| | `RequesterIsRight` | `Spec => []RequesterKnows` |
| `ResourceCmd_proofs` | `CommandTypeCorrect` | `ResourceCmdSpec => []ResourceCmdTypeOK` |
| | `ChildIsThere` | `ResourceCmdSpec => []ChildOutlivesWatch` |
| | `ReplyIsComplete` | `ResourceCmdSpec => []ReplyHasOutput` |

* `Nanoprobe_proofs`: `NanoInv` has the listeners (`HbInv`), the discoveries (`DiscInv`), and what ties
  them to the nanoprobe: nothing counts as sent before the CMA is known (`SentIsTold`), nothing is
  listened to before there is a connection (`OnlyWhenConnected`), and the table of discoveries is
  empty from the signal to the end (`ShutdownOrder`).  The references of discoveries are the
  difficult part, since the functions of `discovery.c` call each other with a reference halfway
  gone: `Held(s, x)` says that each object has a reference from the table, one from its child, and
  `x[o]` from functions that are not done.  Between two actions `x` is zero.
* `ResourceQueue_proofs`: `QInv` has a part about pointers, `Shape`, and one about counts, `Counted`.  Both take
  what an action has in its hands: `Shape(p, X)` allows for the elements in `X` that were taken
  out of their queue and not yet freed, `Counted(p, ending, users)` for commands that have
  ended and are still marked as running, and for the number of users.  The children are counted with the cardinality of a set of addresses, which is
  what memory has to be finite for.
* `ResourceCmd_proofs`: a command is there while its owner or its child holds it (`CommandIsHeld`),
  a command that runs has a watched child and a process that got the signals which the state of the child
  says (`RunningChild`), only a child that was given up on is watched otherwise (`EndedChild`), and while a command
  runs whose output is kept, what its process wrote is in the pipe or was read (`OutputIsKept`).

### The parts

| Module | Theorem | Statement |
|---|---|---|
| `Parts_proofs` | `KeysTypeCorrect`, `SignsWithOne`, `CanAlwaysEncrypt` | `CryptKeysSpec => []CryptKeysTypeOK`, `[]OneSigningKey`, `[]CanEncrypt` |
| | `PidFileTypeCorrect`, `NamesTheOne` | `PidFileSpec => []PidFileTypeOK`, `[]PidFileNamesTheOne` |
| | `CaptureTypeCorrect`, `SwitchKnown`, `ArpMapSent` | `CaptureSpec => []CaptureTypeOK`, `[]SwitchIsKnown`, `ArpMapIsSent` |
| | `PartsAreParts` | `PartsSpec` implies the specification of each of the six parts |
| | `PartsTypeCorrect` | `PartsSpec => []PartsTypeOK` |
| `NetIO_proofs` | `NetIOTypes`, `ArriveAsMade`, `AreWrappedOnce` | `NetIOSpec => []NetIOTypeOK`, `[]ArrivesAsMade`, `[]WrappedOnce` |
| | `ConstructedIsValid` | what a constructor makes is valid, and is what the decoder makes of its TLV |
| `NetSocket_proofs` | `HashFitsEqual` | `AddrEqual(a, b) <=> AddrHash(a) = AddrHash(b)` for IP addresses |
| | `NetSocketTypes`, `SentAsMeant`, `EqualAlike` | `NetSocketSpec => []NetSocketTypeOK`, `[]SentToWhomMeant`, `[]EqualAddressesAlike` |
| | `IPv6ReadsBack` | `ReadIPv6(WriteIPv6(b)) = {b}` for any eight words `b` |
| | `TextsReadBack` | `NetSocketSpec => []TextReadsBack` |

* The keys, for any sets of keys and addresses.  That a system signs with one key
  rests on there being one own pair at most that has both halves on disk (`OnePair`), and a key that signed is
  such a pair (`SignedArePaired`).  It is kept because a new pair is only made when no own key could sign,
  that is, when no complete pair was found at the start (`MakingAlone`), and because a cached private
  key is on disk with its public key (`CachedIsPaired`).  That nothing is encrypted for a
  stranger rests on the key of a destination being set by a frameset of the CMA only
  (`OnlyCmaIdentified`, `AnswersTheCma`).
* The pid file, for any set of process ids.  While no two processes overlapped, at most one is
  between looking and acting (`OneActs`), what it saw is still so (`SeenIsTrue`), and what runs
  is named by the file (`RunningIsNamed`).  The second is what makes the third inductive: a
  process writes the file only when nothing runs.
* Listening, for any packets and addresses: what is cached was sent (`CachedIsSent`,
  `TextIsSent`), so that what is not sent again is what the CMA has.
* `PartsAreParts` carries all this over to `Parts`, the specification that the run checks.
* `NetIO_proofs`, for any frames and keys.  `Wrapped`: the frames of a frameset are those it was made with, or these
  behind one signature, encryption and compression at most; wrapping takes off what it finds before it puts on its own.
  `Travelling`: marshalled, a packet is open, or it is a signature and one TLV that holds the rest.  The network
  can change any TLV, and cut, but the packet has one of the two forms still.  Decoding reads an open packet in one turn
  and a closed one in as many as it was closed by, and makes nothing of a closed one that was changed.
* `NetSocket_proofs`, for any addresses.  Each IP address has one IPv6 body that stands for it, with
  the loopbacks made one; this body and the port are what is hashed, and two addresses are equal
  when both agree, in each of the cases `_netaddr_equal` tells apart.  The invariant also says of the address a packet
  came from, to which an answer may go, that it is the address of a host.
* Addresses as text: `Writing` gives what the writer has after `n` words, `PlainState` and `GapState` what the reader
  has after `n` turns, for any body, whether zeros are left out of it or not.  The writer leaves out the first run of two or
  more zeros, wherever it is, and the reader counts the words on both sides of it.

Recursive functions (`Marshalled`, `DecodeFrames`, `WriteIPv6`, `ReadChunks`) are shown to exist, and their
values computed, one step at a time: for a fixed number of steps by as many facts, else by the least element of
a set of naturals (`SetInduction`), which needs no induction scheme with an operator as parameter.

### Only model-checked

* Liveness, as the prover has no rules for fairness: `OutputDrains`, `UpDelivers`, `ShutdownEnds`,
  `GetsConfigured`, `SilenceIsNoticed`, `SignalEnds`, `EveryCommandRuns`.
* The size that the search of `_netio_maximize_sockbufsize` ends with: no property is about it, since the code
  asks at a level that knows no such option (section 8).
* The theorems with conditions say nothing of behaviours that do not meet them; what happens outside is what
  `dangling`, `session_reuse` and the other runs show.

## 8. Not modelled

* The CMA (`cma/`, Python): rings, drones, dispatch, transactions, the store, monitoring rules,
  queries and the command line.  What a change of a ring or a commit means is decided by a Neo4j
  database outside the repository; towards the nanoprobe the models let the CMA send any command at any time.
* `configcontext.c` (JSON values and their parser), `proj_classes.c` and `assimobj.c` (registry of
  classes, casts, reference counts as such), `cmalib.c` (helpers for the Python side): data without
  protocol state.  Reference counts are modelled where objects have a life of their own.
* Byte layouts: frames have lengths, not bytes.  `nvpairframe.c` is used by nothing in the
  nanoprobe.  Cryptography, checksums and compression are idealised.
* libpcap, the lengths inside a link TLV, the CDP checksum, statistics, debugging and logging.
* Test programs (`testcode/`), build files, documentation in `docfiles/`, agents in shell and Python.

Oddities of the code that the models follow, or leave out, and that no property is about:

* `send1` on a connection that shuts down drops the frameset and returns `TRUE` (`fsprotocol.c:1282`);
  a list of framesets that does not fit into a queue is taken in part (`fsqueue.c:342`).
* `hbsender_new` does not look for an older sender to the same address, and stopping stops one of
  them (`hbsender.c:174`); `nanoobey_stopdiscover` stops nothing (`nanoprobe.c:1033`); a discovery
  that is started again under its name goes with the old one when that ends (`discovery.c:86`).
* A first agent that cannot be spawned leaves the nanoprobe without a configuration
  (`jsondiscovery.c:120`); one that exits with 0 and wrote nothing has its output followed through
  `NULL` (`jsondiscovery.c:149`, `gmainfd.c:125`).
* Nothing sets `timeout_secs` of a resource command (`resourcecmd.h:62`).
* `setblockio` sets `O_NONBLOCK` when it is to block and clears it when it is not (`netio.c:112`); the multicast TTL is given with a length
  of 0 (`netio.c:246`); the receive buffer is set at the level of UDP (`netio.c:319`); the alias for the
  local host is made for port 0 and never found (`nanoprobe.c:702`).
* The loops over LLDP and CDP TLVs go on twice (`cdp_min.c:305`); padding behind the END of an LLDP
  packet makes it invalid (`lldp_min.c:155`); entries of the ARP map are never removed
  (`arpdiscovery.c:176`).
* The pid file is removed before `nano_shutdown` is done (`nanomain.c:436`).
