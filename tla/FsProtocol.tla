----------------------------- MODULE FsProtocol ------------------------------
(***************************************************************************)
(* The reliable frameset protocol of clientlib/fsprotocol.c between the two *)
(* ends A and B of one connection.  Each end is a single-threaded process:  *)
(* a call, a received frameset or a timer callback is one action.           *)
(*                                                                         *)
(* conn[n] is the connection structure FsProtoElem of end n together with   *)
(* what the parent FsProtocol lists say of it (unacked, ipend).  Operators  *)
(* below take a connection c and return it as the C function leaves it; the *)
(* framesets the function transmits gather in c.tx until the action ends.   *)
(***************************************************************************)
EXTENDS FsQueue, FsProtocolFSA

CONSTANTS
  A, B,         \* the two ends
  Window,       \* FSPROTO_WINDOWSIZE
  AckTries,     \* retransmissions that fit in FSPROTO_ACKTIMEOUTINT
  SessStep,     \* the session ids of two runs of a process are this far apart
  Duplicates,   \* TRUE: the network repeats framesets, FALSE: it loses them
  MaxSend,      \* bound on framesets each application sends
  MaxClose,     \* bound on shutdowns each application asks for
  MaxRestart,   \* bound on crashes of each process
  MaxFinalize   \* bound on connections each process destroys

Node == {A, B}

ASSUME NodeAssumption   == A # B
ASSUME WindowAssumption == Window \in Nat \ {0}
ASSUME TimerAssumption  == AckTries \in Nat \ {0} /\ SessStep \in Nat \ {0}
ASSUME BoundAssumption  ==
  /\ Duplicates \in BOOLEAN
  /\ \A bound \in {MaxSend, MaxClose, MaxRestart, MaxFinalize} : bound \in [Node -> Nat]

Peer(n) == IF n = A THEN B ELSE A

VARIABLES
  conn,       \* the connection of each end
  net,        \* framesets on their way to each end
  procSess,   \* _sessionId of each process
  toack,      \* what each application has read and not acknowledged yet
  handed,     \* history: how many framesets each application has sent
  acked,      \* history: which of them have been acknowledged
  seen,       \* history: framesets of the peer each application has read
  used        \* how often each end has used up a bounded event

vars == <<conn, net, procSess, toack, handed, acked, seen, used>>

Rexmit == {"off", "armed", "due"}    \* nextrexmit: 0, in the future, past

Conn == [present       : BOOLEAN,          \* is it in the endpoints table?
         state         : FsProtoState,
         outq          : Queue,
         inq           : Queue,
         isready       : BOOLEAN,          \* inq->isready
         ipend         : Nat,              \* entries in the ipend queue
         unacked       : Nat,              \* entries in the unacked list
         lastacksent   : Seqno,
         lastseqsent   : Seqno,
         rexmit        : Rexmit,
         tries         : 0..AckTries,      \* retransmissions since acktimeout was set
         shuttimer     : BOOLEAN,
         finalizetimer : BOOLEAN,
         shutdown_complete : BOOLEAN,
         complained    : BOOLEAN,          \* history: A_OOPS or a bad transition
         tx            : SUBSET FrameSet,
         got           : Seq(Nat)]         \* history: data read since the last reset

NewConn ==
  [present |-> TRUE, state |-> "NONE", outq |-> EmptyQueue, inq |-> EmptyQueue,
   isready |-> FALSE, ipend |-> 0, unacked |-> 0,
   lastacksent |-> NoSeqno, lastseqsent |-> NoSeqno,
   rexmit |-> "off", tries |-> 0, shuttimer |-> FALSE, finalizetimer |-> FALSE,
   shutdown_complete |-> FALSE, complained |-> FALSE, tx |-> {}, got |-> <<>>]

NoConn == [NewConn EXCEPT !.present = FALSE]

-------------------------------------------------------------------------------
(* Creating, resetting and destroying a connection.                            *)

\* Mutants: removes from an empty list; does not remove.
RemoveAlways(count) == count - 1
RemoveNever(count)  == count

Remove(count) == IF count = 0 THEN 0 ELSE count - 1

\* A connection destroyed while it is listed stays in the list.
AddConn(c) ==
  IF c.present THEN c
  ELSE [NewConn EXCEPT !.ipend = c.ipend, !.unacked = c.unacked]

Reinit(c) ==
  [c EXCEPT
     !.state       = "NONE",
     !.outq        = [q |-> <<>>, next |-> 1, sess |-> IF @.sess = 0 THEN 0 ELSE @.sess + 1],
     !.unacked     = IF c.outq.q = <<>> THEN @ ELSE Remove(@),
     !.inq         = EmptyQueue,
     !.ipend       = IF c.inq.q = <<>> THEN @ ELSE Remove(@),
     !.isready     = IF c.inq.q = <<>> THEN @ ELSE FALSE,
     !.lastacksent = NoSeqno,
     !.lastseqsent = NoSeqno,
     !.rexmit      = "off",
     !.tries       = 0,
     !.shuttimer   = FALSE,
     !.finalizetimer     = FALSE,
     !.shutdown_complete = FALSE,
     !.got         = <<>>]

Destroy(c) ==
  [NoConn EXCEPT !.ipend = Reinit(c).ipend, !.unacked = Reinit(c).unacked]

-------------------------------------------------------------------------------
(* The automaton.  FsaFinish does what _fsprotocol_fsa does after A_ACKME and   *)
(* A_SNDSHUT; the state it started from is passed along, because A_SNDSHUT      *)
(* enters the automaton again before the new state is stored.                   *)

FsaFinish(c, state, input) ==
  LET does(action) == action \in Actions[state][input]
      next == NextState[state][input]
      timed  == [c EXCEPT !.shuttimer = (@ \/ does("TIMER")) /\ ~does("NOTIME")]
      closed == IF does("CLOSE")
                THEN [Reinit(timed) EXCEPT !.shutdown_complete = TRUE,
                                           !.finalizetimer = TRUE]
                ELSE timed
      wrong  == next = "NONE" /\ state # "NONE" /\ closed.outq.q # <<>>
  IN  [closed EXCEPT !.state = next,
                     !.complained = @ \/ does("OOPS") \/ wrong]

\* For an input that neither acknowledges nor sends anything.
FsaQuiet(c, input) == FsaFinish(c, c.state, input)

-------------------------------------------------------------------------------
(* Transmission.                                                               *)

\* What was queued after the last frameset sent; not the window of the comment
\* above the function: with a whole window queued, nothing new is sent.
Unsent(c) == {i \in DOMAIN c.outq.q : Before(c.lastseqsent, SeqnoOf(c.outq.q[i]))}

\* Mutant: one frameset too many.
SendNewOneMore(c) ==
  IF Len(c.outq.q) <= Window /\ Unsent(c) # {}
  THEN [c EXCEPT !.tx = @ \cup {c.outq.q[i] : i \in Unsent(c)},
                 !.lastseqsent = SeqnoOf(c.outq.q[Len(c.outq.q)])]
  ELSE c

SendNew(c) ==
  IF Len(c.outq.q) < Window /\ Unsent(c) # {}
  THEN [c EXCEPT !.tx = @ \cup {c.outq.q[i] : i \in Unsent(c)},
                 !.lastseqsent = SeqnoOf(c.outq.q[Len(c.outq.q)])]
  ELSE c

\* Mutant: the time of the next retransmission is not set.
RetransmitOnce(c) == [c EXCEPT !.tx = @ \cup {Head(c.outq.q)}, !.rexmit = "off"]

\* The oldest frameset again; too many times, and the automaton hears of it.
Retransmit(c) ==
  LET again == [c EXCEPT !.tx = @ \cup {Head(c.outq.q)}, !.rexmit = "armed"]
  IN  IF c.tries < AckTries
      THEN [again EXCEPT !.tries = @ + 1]
      ELSE [FsaQuiet(again, "ACKTIMEOUT") EXCEPT !.tries = 0]

XmitIfWeCan(c0) ==
  LET c == SendNew(c0)
  IN  CASE c.rexmit = "off" /\ c.outq.q # <<>> -> [c EXCEPT !.rexmit = "armed"]
        [] c.rexmit = "due" /\ c.outq.q # <<>> -> Retransmit(c)
        [] c.rexmit = "due" /\ c.outq.q = <<>> -> [c EXCEPT !.rexmit = "off"]
        [] OTHER                               -> c

\* Once shutdown has begun the frameset is dropped and the caller told TRUE.
Send1(c0, kind, val, sess) ==
  LET c == FsaQuiet(c0, "REQSEND")
      listed == IF c.outq.q = <<>>
                THEN [c EXCEPT !.unacked = @ + 1, !.rexmit = "armed", !.tries = 0]
                ELSE c
  IN  IF InShutdown(c0.state)
      THEN c0
      ELSE XmitIfWeCan([listed EXCEPT !.outq = Enq(@, kind, val, sess)])

AckFrameSet(s) == [kind |-> "ack", sess |-> s[1], seq |-> s[2], val |-> 0]

\* A frameset of a session that is over is not acknowledged any more.
AckSeqno(c, s) ==
  IF c.inq.sess \notin {0, s[1]}
  THEN c
  ELSE [c EXCEPT !.tx = @ \cup {AckFrameSet(s)},
                 !.lastacksent = IF Before(@, s) THEN s ELSE @]

\* The automaton on any input; s is the sequence number of the frameset given
\* to it and sess the session id of the process.
Fsa(c, input, s, sess) ==
  LET acts  == Actions[c.state][input]
      acked1 == IF "ACKME" \in acts THEN AckSeqno(c, s) ELSE c
      shut  == IF "SNDSHUT" \in acts THEN Send1(acked1, "connshut", 0, sess) ELSE acked1
  IN  FsaFinish(shut, c.state, input)

-------------------------------------------------------------------------------
(* Reception.                                                                  *)

ReceiveAck(c, s) ==
  LET left   == AckThrough(c.outq, s)
      popped == [c EXCEPT !.outq = left, !.tries = 0]
      idle   == [popped EXCEPT !.unacked = Remove(@), !.rexmit = "off"]
  IN  CASE AckRefused(c.outq, s) -> c
        [] ~AckRefused(c.outq, s) /\ left.q # <<>> -> XmitIfWeCan(popped)
        [] OTHER -> IF c.outq.q = <<>> THEN idle ELSE FsaQuiet(idle, "OUTALLDONE")

\* Mutant: an ACK is only sent once.
AckNeverAgain(c, fs) == c

\* Our ACK may have been lost: repeat the highest one.
AckAgain(c, fs) ==
  IF c.lastacksent[1] = fs.sess /\ fs.seq <= c.lastacksent[2]
  THEN AckSeqno(c, c.lastacksent)
  ELSE c

\* Mutant: a connection that is marked is marked again.
MarkReadyAgain(c, fs) ==
  IF fs.seq = c.inq.next
  THEN [c EXCEPT !.ipend = @ + 1, !.isready = TRUE]
  ELSE c

MarkReady(c, fs) ==
  IF ~c.isready /\ fs.seq = c.inq.next
  THEN [c EXCEPT !.ipend = @ + 1, !.isready = TRUE]
  ELSE c

ReceiveSequenced(c, fs) ==
  LET sorted == [c EXCEPT !.inq = InqSorted(@, fs)]
      filed  == CASE InqRefused(c.inq, fs) -> AckAgain(sorted, fs)
                  [] ~InqRefused(c.inq, fs) /\ fs.seq = 1 -> FsaQuiet(sorted, "GOTSTART")
                  [] OTHER -> sorted
  IN  XmitIfWeCan(MarkReady(filed, fs))

ReadOne(c, sess) ==
  LET fs    == Head(c.inq.q)
      rest  == Deq(c.inq)
      more  == Readable(rest)
      taken == [c EXCEPT !.inq = rest,
                         !.isready = more,
                         !.ipend = IF more THEN @ ELSE Remove(@),
                         !.got = IF fs.kind = "data" THEN Append(@, fs.val) ELSE @]
  IN  XmitIfWeCan(IF fs.kind = "connshut"
                  THEN Fsa(taken, "RCVSHUTDOWN", SeqnoOf(fs), sess)
                  ELSE taken)

-------------------------------------------------------------------------------
(* Actions.  Step stores the connection an operator returned and puts what it  *)
(* transmitted on the network.  Every reset adds one to the session id and the *)
(* clock adds SessStep between two runs of a process: Step assumes, with the   *)
(* comment in seqnoframe.c, that the resets of one run stay below that.        *)

Step(n, c, received) ==
  /\ c.outq.sess < procSess[n] + SessStep
  /\ conn' = [conn EXCEPT ![n] = [c EXCEPT !.tx = {}]]
  /\ net'  = [net EXCEPT ![Peer(n)] = @ \cup c.tx,
                         ![n] = IF Duplicates THEN @ ELSE @ \ received]

Use(n, event, bound) ==
  /\ used[n][event] < bound[n]
  /\ used' = [used EXCEPT ![n][event] = @ + 1]

\* sendareliablefs: one frameset.
Send(n) ==
  /\ handed[n] < MaxSend[n]
  /\ ~InShutdown(conn[n].state)
  /\ handed' = [handed EXCEPT ![n] = @ + 1]
  /\ Step(n, Send1(AddConn(conn[n]), "data", handed'[n], procSess[n]), {})
  /\ UNCHANGED <<procSess, toack, acked, seen, used>>

\* sendreliablefs: a list, here of two framesets.
SendList(n) ==
  LET c == AddConn(conn[n])
      first == Send1(c, "data", handed[n] + 1, procSess[n])
  IN  /\ handed[n] + 1 < MaxSend[n]
      /\ ~InShutdown(c.state)
      /\ HasQSpace(c.outq, 2)
      /\ handed' = [handed EXCEPT ![n] = @ + 2]
      /\ Step(n, XmitIfWeCan(Send1(first, "data", handed'[n], procSess[n])), {})
      /\ UNCHANGED <<procSess, toack, acked, seen, used>>

CloseConn(n) ==
  /\ conn[n].present
  /\ Use(n, "close", MaxClose)
  /\ Step(n, Fsa(conn[n], "REQSHUTDOWN", NoSeqno, procSess[n]), {})
  /\ UNCHANGED <<procSess, toack, handed, acked, seen>>

\* closeall: a connection that was never used is removed at once.
CloseAll(n) ==
  /\ conn[n].present
  /\ conn[n].outq.next <= 1
  /\ conn[n].inq.next <= 1
  /\ Use(n, "close", MaxClose)
  /\ Step(n, Destroy(conn[n]), {})
  /\ UNCHANGED <<procSess, toack, handed, acked, seen>>

ActiveConn(c) ==
  /\ c.state # "NONE"
  /\ c.inq.next > 1 \/ c.outq.next > 1
  /\ ~c.shutdown_complete

\* activeconncount, polled after closeall: no active connection, so forget
\* which ones were shut down.
CountIdle(n) ==
  /\ used[n].close > 0
  /\ conn[n].present
  /\ ~ActiveConn(conn[n])
  /\ Step(n, [conn[n] EXCEPT !.shutdown_complete = FALSE], {})
  /\ UNCHANGED <<procSess, toack, handed, acked, seen, used>>

Receive(n, fs) ==
  LET c == AddConn(conn[n])
  IN  IF fs.kind = "ack"
      THEN LET c1 == ReceiveAck(c, SeqnoOf(fs))
           IN  /\ Step(n, c1, {fs})
               /\ acked' = [acked EXCEPT ![n] = @ \cup
                    IF AckRefused(c.outq, SeqnoOf(fs)) THEN {}
                    ELSE {c.outq.q[i].val : i \in DOMAIN c.outq.q \ Unacked(c.outq, SeqnoOf(fs))} \ {0}]
      ELSE Step(n, ReceiveSequenced(c, fs), {fs}) /\ UNCHANGED acked

Deliver(n, kind) ==
  \E fs \in net[n] :
    /\ fs.kind = kind
    /\ Receive(n, fs)
    /\ UNCHANGED <<procSess, toack, handed, seen, used>>

Read(n) ==
  LET c == conn[n]
      fs == Head(c.inq.q)
  IN  /\ c.ipend > 0
      /\ Readable(c.inq)
      /\ Step(n, ReadOne(c, procSess[n]), {})
      /\ seen'  = [seen EXCEPT ![n] = IF fs.kind = "data" THEN @ \cup {fs.val} ELSE @]
      /\ toack' = [toack EXCEPT ![n] = Append(@, SeqnoOf(fs))]
      /\ UNCHANGED <<procSess, handed, acked, used>>

\* ackmessage: the application is done with the oldest frameset it has read.
AckMessage(n) ==
  /\ toack[n] # <<>>
  /\ conn[n].present
  /\ Step(n, AckSeqno(conn[n], Head(toack[n])), {})
  /\ toack' = [toack EXCEPT ![n] = Tail(@)]
  /\ UNCHANGED <<procSess, handed, acked, seen, used>>

\* Time passes the point where a retransmission is due.
RexmitDue(n) ==
  /\ conn[n].rexmit = "armed"
  /\ conn' = [conn EXCEPT ![n].rexmit = "due"]
  /\ UNCHANGED <<net, procSess, toack, handed, acked, seen, used>>

\* _fsprotocol_timeoutfun
Timeout(n) ==
  /\ conn[n].unacked > 0
  /\ conn[n].rexmit = "due"
  /\ Step(n, XmitIfWeCan(conn[n]), {})
  /\ UNCHANGED <<procSess, toack, handed, acked, seen, used>>

ShutTimeout(n) ==
  /\ conn[n].shuttimer
  /\ Step(n, FsaQuiet(conn[n], "SHUT_TO"), {})
  /\ UNCHANGED <<procSess, toack, handed, acked, seen, used>>

\* Reopened in the meantime: the timer is spent.  Still closed: destroyed.
FinalizeTimeout(n) ==
  /\ conn[n].finalizetimer
  /\ \/ /\ conn[n].state # "NONE"
        /\ Step(n, [conn[n] EXCEPT !.finalizetimer = FALSE], {})
        /\ UNCHANGED used
     \/ /\ conn[n].state = "NONE"
        /\ Use(n, "finalize", MaxFinalize)
        /\ Step(n, Destroy(conn[n]), {})
  /\ UNCHANGED <<procSess, toack, handed, acked, seen>>

-------------------------------------------------------------------------------
(* The environment: processes that die and come back with nothing but a later  *)
(* time of day, and a network that loses framesets.                            *)

\* Mutant: the session id does not depend on when the process started.
RestartSameSession(n) ==
  /\ Use(n, "restart", MaxRestart)
  /\ conn' = [conn EXCEPT ![n] = NoConn]
  /\ toack' = [toack EXCEPT ![n] = <<>>]
  /\ UNCHANGED <<net, procSess, handed, acked, seen>>

Restart(n) ==
  /\ Use(n, "restart", MaxRestart)
  /\ conn' = [conn EXCEPT ![n] = NoConn]
  /\ procSess' = [procSess EXCEPT ![n] = @ + SessStep]
  /\ toack' = [toack EXCEPT ![n] = <<>>]
  /\ UNCHANGED <<net, handed, acked, seen>>

Lose(n) ==
  /\ ~Duplicates
  /\ \E fs \in net[n] : net' = [net EXCEPT ![n] = @ \ {fs}]
  /\ UNCHANGED <<conn, procSess, toack, handed, acked, seen, used>>

-------------------------------------------------------------------------------
Init ==
  /\ conn     = [n \in Node |-> NoConn]
  /\ net      = [n \in Node |-> {}]
  /\ procSess = [n \in Node |-> 1]
  /\ toack    = [n \in Node |-> <<>>]
  /\ handed   = [n \in Node |-> 0]
  /\ acked    = [n \in Node |-> {}]
  /\ seen     = [n \in Node |-> {}]
  /\ used     = [n \in Node |-> [close |-> 0, restart |-> 0, finalize |-> 0]]

Timers(n) == RexmitDue(n) \/ Timeout(n) \/ ShutTimeout(n) \/ FinalizeTimeout(n)

Calls(n) ==
  \/ Send(n) \/ SendList(n) \/ Read(n) \/ AckMessage(n)
  \/ CloseConn(n) \/ CloseAll(n) \/ CountIdle(n)

Next ==
  \E n \in Node :
    \/ Calls(n) \/ Timers(n) \/ Restart(n) \/ Lose(n)
    \/ \E kind \in Kinds : Deliver(n, kind)

Spec == Init /\ [][Next]_vars

(***************************************************************************)
(* The GLib main loop runs every timer and dispatches input that is ready;  *)
(* applications acknowledge what they read.  The network may lose any       *)
(* frameset, but not all that come of one kind.                             *)
(***************************************************************************)
Fairness ==
  \A n \in Node :
    /\ WF_vars(RexmitDue(n)) /\ WF_vars(Timeout(n)) /\ WF_vars(ShutTimeout(n))
    /\ WF_vars(Read(n)) /\ WF_vars(AckMessage(n))
    /\ \A kind \in Kinds : SF_vars(Deliver(n, kind))

FairSpec == Spec /\ Fairness

\* Only the shutdown timer can be relied on: the network may lose everything.
ShutFairSpec == Spec /\ \A n \in Node : WF_vars(ShutTimeout(n))

-------------------------------------------------------------------------------
(* Properties. *)

\* Every variable holds a value of the type its C structure gives it.
TypeOK ==
  /\ conn     \in [Node -> Conn]
  /\ net      \in [Node -> SUBSET FrameSet]
  /\ procSess \in [Node -> Nat]
  /\ toack    \in [Node -> Seq(Seqno)]
  /\ handed   \in [Node -> Nat]
  /\ acked    \in [Node -> SUBSET Nat]
  /\ seen     \in [Node -> SUBSET Nat]
  /\ used     \in [Node -> [close : Nat, restart : Nat, finalize : Nat]]

\* The list of connections that wait for an ACK holds a connection once while
\* it has output and not at all otherwise, a destroyed one included: the audit
\* _fsprotocol_auditfspe makes before and after every transmission.
UnackedAudit ==
  \A n \in Node : conn[n].unacked = IF conn[n].outq.q = <<>> THEN 0 ELSE 1

\* A connection is marked ready, and listed once among those with input, exactly
\* when its next frameset can be read: the audit _fsprotocol_auditiready.
ReadyAudit ==
  \A n \in Node : LET c == conn[n]
                  IN  /\ c.isready = Readable(c.inq)
                      /\ c.ipend = IF c.isready THEN 1 ELSE 0

\* No pointer to a destroyed connection stays in the list of input (ipend).
NoDanglingInput == \A n \in Node : conn[n].present \/ conn[n].ipend = 0

\* The shutdown timer runs in the three shutdown states and in no other: it
\* never fires on a connection that was reopened, and no shutdown lacks one.
TimerOnlyInShutdown == \A n \in Node : conn[n].shuttimer = InShutdown(conn[n].state)

\* The automaton never gets an input its table calls impossible (A_OOPS), and
\* never goes to NONE with output left ("Inappropriate transition").
NoComplaint == \A n \in Node : ~conn[n].complained

\* Two different framesets never go out under one sequence number: session and
\* request id together identify what the peer is asked to acknowledge.
NoSeqnoReuse ==
  \A n \in Node : \A f, g \in net[n] :
    (f.kind # "ack" /\ g.kind # "ack" /\ SeqnoOf(f) = SeqnoOf(g)) => f = g

\* Within the life of a connection the application reads what the peer sent in
\* the order it was sent, each frameset at most once.
ReadInOrder ==
  \A n \in Node : \A i, j \in DOMAIN conn[n].got : i < j => conn[n].got[i] < conn[n].got[j]

\* What the sender drops as acknowledged has been read by the application of
\* the peer: the ACK is cumulative and the receiver may start at any request
\* id, so this rests on how few framesets are under way at a time.
AckedWasRead == \A n \in Node : acked[n] \subseteq seen[Peer(n)]

\* An application is not shown a frameset again that it has read before.
NotShownAgain ==
  [][\A n \in Node : Len(conn'[n].got) > Len(conn[n].got) =>
       conn'[n].got[Len(conn'[n].got)] \notin seen[n]]_vars

OutVals(n) == {conn[n].outq.q[i].val : i \in DOMAIN conn[n].outq.q}

\* Output is always either acknowledged or given up in the end.
OutputDrains == \A n \in Node : conn[n].outq.q # <<>> ~> conn[n].outq.q = <<>>

\* Once a connection is up it never gives up: what is queued on it gets read,
\* whatever the network loses and however long the queue is.
UpDelivers ==
  \A n \in Node : \A v \in 1..MaxSend[n] :
    (conn[n].state = "UP" /\ v \in OutVals(n)) ~> v \in seen[Peer(n)]

\* Every shutdown ends, answered or not (as long as another reset is allowed).
ShutdownEnds ==
  \A n \in Node :
    InShutdown(conn[n].state) ~>
      (~InShutdown(conn[n].state) \/ conn[n].outq.sess + 1 = procSess[n] + SessStep)

(***************************************************************************)
(* While B, having received something, never resets its end nor dies, and   *)
(* no connection is destroyed, the connection from A to B implements        *)
(* ReliableChannel: a frameset that was not read and is not in the output   *)
(* queue is lost.                                                           *)
(***************************************************************************)
LastRead == IF conn[B].got = <<>> THEN 0 ELSE conn[B].got[Len(conn[B].got)]

InPipe == [i \in 1..(handed[A] - LastRead) |->
             [val |-> LastRead + i, lost |-> LastRead + i \notin OutVals(A)]]

Channel == INSTANCE ReliableChannel
             WITH sent <- handed[A], pipe <- InPipe, out <- conn[B].got

\* The connection from A to B does what ReliableChannel promises.
IsReliableChannel == Channel!Spec

==============================================================================
