--------------------------- MODULE FsProtocol_proofs ---------------------------
(***************************************************************************)
(* Proofs about FsProtocol, for any window, any queue length, any number of *)
(* retransmissions and any bounds: its types, the audit of the list of      *)
(* unacknowledged connections, the shutdown timer, that the automaton never *)
(* meets an input its table calls impossible; and, where no connection is   *)
(* destroyed, the sequence numbers, the order of what is read, what is      *)
(* acknowledged (for a window of at most two framesets), what is shown to   *)
(* an application, that the connection is a ReliableChannel, and that its   *)
(* ready mark is right.                                                     *)
(*                                                                         *)
(* The first inductive invariant, IInv, speaks of one connection at a time: *)
(* it is either Sound (open) or Gone (destroyed).  Every operator of        *)
(* FsProtocol that stands for a C function turns a sound connection into a  *)
(* sound one; the lemmas are in the order the operators are defined in.     *)
(* The second, Flows, speaks of all framesets that one end has sent and the *)
(* other has not read, wherever they are; Moves is what an end may be in    *)
(* the middle of an action.  The third, Answered, says what a number that   *)
(* may be acknowledged stands for; Answers is its form inside an action.    *)
(* The fourth, Shown, says that what was shown was read.                    *)
(* The fifth, SteadyState, says that where no used end is reset framesets   *)
(* come one at a time, as the ready mark takes for granted; Tracks is its   *)
(* form inside an action.                                                   *)
(***************************************************************************)
EXTENDS FsProtocol, FsQueue_proofs

Listed(c) == c.unacked = IF c.outq.q = <<>> THEN 0 ELSE 1

Sound(c) ==
  /\ c \in Conn
  /\ c.present
  /\ Listed(c)
  /\ c.state = "NONE" => c.outq.q = <<>>
  /\ c.shuttimer = InShutdown(c.state)
  /\ ~c.complained

Gone(c) ==
  /\ c \in Conn
  /\ ~c.present
  /\ c.state = "NONE"
  /\ c.outq.q = <<>> /\ c.inq.q = <<>>
  /\ c.unacked = 0
  /\ c.rexmit = "off" /\ ~c.shuttimer /\ ~c.finalizetimer
  /\ ~c.complained

ConnInv == \A n \in Node : Sound(conn[n]) \/ Gone(conn[n])

IInv == TypeOK /\ ConnInv

-------------------------------------------------------------------------------
(* Creating, resetting and destroying a connection.                            *)

\* Removing from a list of connections, empty or not, leaves a list.
LEMMA RemoveType == ASSUME NEW k \in Nat PROVE Remove(k) \in Nat
BY DEF Remove

\* NULL stands for a sequence number, and zero for a count of retransmissions.
LEMMA SmallTypes == /\ NoSeqno \in Seqno
                    /\ 0 \in 0..AckTries
                    /\ <<>> \in Seq(Nat)
                    /\ {} \in SUBSET FrameSet
                    /\ "off" \in Rexmit /\ "armed" \in Rexmit /\ "due" \in Rexmit
                    /\ "NONE" \in FsProtoState
BY TimerAssumption DEF NoSeqno, Seqno, Rexmit, FsProtoState

\* A connection just created is sound, and the absence of one is of its type.
LEMMA NewConnType == /\ NewConn \in Conn /\ NewConn.present /\ NewConn.outq = EmptyQueue
                     /\ NewConn.state = "NONE" /\ NewConn.shuttimer = FALSE
                     /\ NewConn.complained = FALSE /\ NewConn.inq = EmptyQueue
                     /\ NewConn.rexmit = "off" /\ NewConn.finalizetimer = FALSE
                     /\ NewConn.unacked = 0
BY EmptyQueueType, SmallTypes DEF NewConn, Conn

\* What reinit leaves behind, whatever it is called on: a closed connection with
\* nothing to send, that the unacked list has lost if it had it.
LEMMA ReinitType ==
  ASSUME NEW c \in Conn
  PROVE  LET d == Reinit(c)
         IN  /\ d \in Conn
             /\ d.state = "NONE" /\ d.outq.q = <<>> /\ d.inq.q = <<>>
             /\ ~d.shuttimer /\ d.present = c.present /\ d.complained = c.complained
             /\ Listed(c) => d.unacked = 0
<1> DEFINE o == [q |-> <<>>, next |-> 1, sess |-> IF c.outq.sess = 0 THEN 0 ELSE c.outq.sess + 1]
           u == IF c.outq.q = <<>> THEN c.unacked ELSE Remove(c.unacked)
           i == IF c.inq.q = <<>> THEN c.ipend ELSE Remove(c.ipend)
           r == IF c.inq.q = <<>> THEN c.isready ELSE FALSE
           eq == EmptyQueue
           ns == NoSeqno  none == "NONE"  off == "off"  zero == 0  no == FALSE  empty == <<>>
<1>1. o \in Queue
  <2>1. c.outq.sess \in Nat
    BY DEF Conn, Queue
  <2> QED
    BY <2>1 DEF Queue
<1>2. u \in Nat /\ i \in Nat /\ r \in BOOLEAN
  BY RemoveType DEF Conn
<1>3. Listed(c) => u = 0
  BY DEF Listed, Remove
<1>4. /\ eq \in Queue /\ ns \in Seqno /\ none \in FsProtoState /\ off \in Rexmit
      /\ zero \in 0..AckTries /\ no \in BOOLEAN /\ empty \in Seq(Nat)
  BY EmptyQueueType, SmallTypes
<1> DEFINE d == [c EXCEPT !.state = none, !.outq = o, !.unacked = u, !.inq = eq,
                          !.ipend = i, !.isready = r, !.lastacksent = ns,
                          !.lastseqsent = ns, !.rexmit = off, !.tries = zero,
                          !.shuttimer = no, !.finalizetimer = no,
                          !.shutdown_complete = no, !.got = empty]
<1>5. Reinit(c) = d
  BY Zenon DEF Reinit
<1>6. o.q = <<>> /\ eq.q = <<>> /\ none = "NONE" /\ no = FALSE
  BY DEF EmptyQueue
<1> HIDE DEF o, u, i, r, eq, ns, none, off, zero, no, empty
<1>7. d \in Conn
  BY <1>1, <1>2, <1>4 DEF Conn
<1>8. /\ d.state = none /\ d.outq = o /\ d.inq = eq /\ d.shuttimer = no
      /\ d.present = c.present /\ d.complained = c.complained /\ d.unacked = u
  BY DEF Conn
<1> HIDE DEF d
<1> QED
  BY <1>3, <1>5, <1>6, <1>7, <1>8

\* addconn gives a sound connection, new or not.
LEMMA AddConnSound ==
  ASSUME NEW c, Sound(c) \/ Gone(c)
  PROVE  Sound(AddConn(c))
<1>1. CASE Sound(c)
  BY <1>1 DEF AddConn, Sound
<1>2. CASE Gone(c)
  <2> DEFINE i == c.ipend  u == c.unacked  d == [NewConn EXCEPT !.ipend = i, !.unacked = u]
  <2>1. i \in Nat /\ u \in Nat /\ u = 0
    BY <1>2 DEF Gone, Conn
  <2>2. AddConn(c) = d
    BY <1>2, Zenon DEF AddConn, Gone
  <2> HIDE DEF i, u
  <2>3. d \in Conn
    BY <2>1, NewConnType DEF Conn
  <2>4. /\ d.present = NewConn.present /\ d.outq = EmptyQueue /\ d.state = "NONE"
        /\ d.shuttimer = FALSE /\ d.complained = FALSE /\ d.unacked = 0
    BY <2>1, NewConnType DEF Conn
  <2> HIDE DEF d
  <2>5. d.outq.q = <<>> /\ Listed(d) /\ InShutdown(d.state) = FALSE
    BY <2>4 DEF Listed, EmptyQueue, InShutdown
  <2> QED
    BY <2>2, <2>3, <2>4, <2>5, NewConnType, Zenon DEF Sound
<1> QED
  BY <1>1, <1>2

\* A connection that was destroyed is gone and in no list of output.
LEMMA DestroyGone ==
  ASSUME NEW c, Sound(c)
  PROVE  Gone(Destroy(c))
<1> DEFINE i == Reinit(c).ipend  u == Reinit(c).unacked  no == FALSE
           d == [[NewConn EXCEPT !.present = no] EXCEPT !.ipend = i, !.unacked = u]
<1>1. i \in Nat /\ u \in Nat /\ u = 0 /\ no \in BOOLEAN /\ no = FALSE
  BY ReinitType DEF Sound, Conn
<1>2. Destroy(c) = d
  BY Zenon DEF Destroy, NoConn
<1> HIDE DEF i, u, no
<1>3. d \in Conn
  BY <1>1, NewConnType DEF Conn
<1>4. /\ d.present = no /\ d.outq = EmptyQueue /\ d.inq = EmptyQueue /\ d.state = "NONE"
      /\ d.shuttimer = FALSE /\ d.finalizetimer = FALSE /\ d.complained = FALSE
      /\ d.unacked = 0 /\ d.rexmit = "off"
  BY <1>1, NewConnType DEF Conn
<1> HIDE DEF d
<1> QED
  BY <1>1, <1>2, <1>3, <1>4 DEF Gone, EmptyQueue

-------------------------------------------------------------------------------
(* The automaton.                                                              *)

\* An input that neither closes the connection nor is impossible changes the
\* state and the timer and nothing else.
LEMMA FinishStays ==
  ASSUME NEW c \in Conn, NEW state, NEW input, ~c.complained,
         "CLOSE" \notin Actions[state][input], "OOPS" \notin Actions[state][input],
         NextState[state][input] \in FsProtoState, NextState[state][input] # "NONE"
  PROVE  LET d == FsaFinish(c, state, input)
             acts == Actions[state][input]
         IN  /\ d \in Conn
             /\ d.state = NextState[state][input]
             /\ d.outq = c.outq /\ d.unacked = c.unacked
             /\ d.present = c.present /\ ~d.complained
             /\ d.shuttimer = ((c.shuttimer \/ "TIMER" \in acts) /\ ~("NOTIME" \in acts))
<1> DEFINE acts == Actions[state][input]
           next == NextState[state][input]
           t == (c.shuttimer \/ "TIMER" \in acts) /\ ~("NOTIME" \in acts)
           timed == [c EXCEPT !.shuttimer = t]
           w == \/ timed.complained
                \/ "OOPS" \in acts
                \/ next = "NONE" /\ state # "NONE" /\ timed.outq.q # <<>>
           d == [timed EXCEPT !.state = next, !.complained = w]
<1>1. FsaFinish(c, state, input) = d
  BY Zenon DEF FsaFinish
<1>2. t \in BOOLEAN /\ w \in BOOLEAN
  BY Zenon
<1> HIDE DEF t
<1>3. timed \in Conn /\ timed.complained = c.complained
  BY <1>2 DEF Conn
<1>4. w = FALSE
  BY <1>3, Zenon
<1> HIDE DEF w, next
<1>5. d \in Conn
  <2>1. next \in FsProtoState
    BY DEF next
  <2> QED
    BY <1>2, <2>1 DEF Conn
<1>6. /\ d.state = next /\ d.outq = c.outq /\ d.unacked = c.unacked
      /\ d.present = c.present /\ d.complained = w /\ d.shuttimer = t
  BY DEF Conn
<1> HIDE DEF d
<1> QED
  BY <1>1, <1>4, <1>5, <1>6, Zenon DEF t, next

\* An input that closes the connection leaves it as reinit does.
LEMMA FinishCloses ==
  ASSUME NEW c \in Conn, NEW state, NEW input, ~c.complained, c.present, Listed(c),
         "CLOSE" \in Actions[state][input], "OOPS" \notin Actions[state][input],
         NextState[state][input] = "NONE"
  PROVE  Sound(FsaFinish(c, state, input))
<1> DEFINE acts == Actions[state][input]
           next == NextState[state][input]
           t == (c.shuttimer \/ "TIMER" \in acts) /\ ~("NOTIME" \in acts)
           timed == [c EXCEPT !.shuttimer = t]
           r == Reinit(timed)
           yes == TRUE
           closed == [r EXCEPT !.shutdown_complete = yes, !.finalizetimer = yes]
           w == \/ closed.complained
                \/ "OOPS" \in acts
                \/ next = "NONE" /\ state # "NONE" /\ closed.outq.q # <<>>
           d == [closed EXCEPT !.state = next, !.complained = w]
<1>1. FsaFinish(c, state, input) = d
  BY Zenon DEF FsaFinish
<1>2. t \in BOOLEAN /\ w \in BOOLEAN /\ yes \in BOOLEAN
  BY Zenon
<1> HIDE DEF t
<1>3. /\ timed \in Conn /\ timed.complained = c.complained /\ timed.present = c.present
      /\ timed.outq = c.outq /\ timed.unacked = c.unacked
  BY <1>2 DEF Conn
<1> HIDE DEF timed
<1>4. Listed(timed)
  BY <1>3 DEF Listed
<1>5. /\ r \in Conn /\ r.outq.q = <<>> /\ r.present = timed.present /\ ~r.shuttimer
      /\ r.complained = timed.complained /\ r.unacked = 0
  BY <1>3, <1>4, ReinitType
<1> HIDE DEF r, yes
<1>6. /\ closed \in Conn /\ closed.outq = r.outq /\ closed.complained = r.complained
  BY <1>2, <1>5 DEF Conn
<1>7. w = FALSE
  BY <1>3, <1>5, <1>6, Zenon
<1> HIDE DEF w, next
<1>8. next \in FsProtoState /\ next = "NONE"
  BY SmallTypes DEF next
<1>9. d \in Conn
  BY <1>2, <1>6, <1>8 DEF Conn
<1>10. /\ d.state = next /\ d.outq = r.outq /\ d.unacked = r.unacked
       /\ d.present = r.present /\ d.complained = w /\ d.shuttimer = r.shuttimer
  BY <1>5 DEF Conn
<1> HIDE DEF d
<1>11. InShutdown(d.state) = FALSE
  BY <1>8, <1>10 DEF InShutdown
<1>12. Listed(d) /\ d.outq.q = <<>>
  BY <1>5, <1>10 DEF Listed
<1>13. d.shuttimer = FALSE /\ d.present /\ ~d.complained
  <2>1. r.shuttimer \in BOOLEAN
    BY <1>5 DEF Conn
  <2> QED
    BY <1>3, <1>5, <1>7, <1>10, <2>1, Zenon
<1> QED
  BY <1>1, <1>9, <1>11, <1>12, <1>13, Zenon DEF Sound

(* The columns of the two matrices, for the inputs that the code produces. *)

\* A first frameset in either direction opens a connection and never closes one.
LEMMA TableStart ==
  ASSUME NEW s \in FsProtoState, NEW i \in {"GOTSTART", "REQSEND"}
  PROVE  /\ Actions[s][i] = {}
         /\ NextState[s][i] \in FsProtoState /\ NextState[s][i] # "NONE"
         /\ InShutdown(NextState[s][i]) = InShutdown(s)
BY DEF Actions, NextState, Row, FsProtoState, InShutdown

\* Giving up on an ACK closes a connection that is not up.
LEMMA TableGiveUp ==
  ASSUME NEW s \in FsProtoState \ {"NONE", "UP"}
  PROVE  /\ "CLOSE" \in Actions[s]["ACKTIMEOUT"] /\ "OOPS" \notin Actions[s]["ACKTIMEOUT"]
         /\ NextState[s]["ACKTIMEOUT"] = "NONE"
BY DEF Actions, NextState, Row, FsProtoState, Close, CloseNoTime

\* Giving up on an ACK does nothing to a connection that is up.
LEMMA TableUpGivesUp ==
  Actions["UP"]["ACKTIMEOUT"] = {} /\ NextState["UP"]["ACKTIMEOUT"] = "UP"
BY DEF Actions, NextState, Row

\* The last ACK finishes an answered shutdown and closes nothing else.
LEMMA TableAllDone ==
  /\ \A s \in {"INIT", "UP", "SHUT1", "SHUT3"} :
       /\ Actions[s]["OUTALLDONE"] = {}
       /\ NextState[s]["OUTALLDONE"] \in FsProtoState
       /\ NextState[s]["OUTALLDONE"] # "NONE"
       /\ InShutdown(NextState[s]["OUTALLDONE"]) = InShutdown(s)
  /\ "CLOSE" \in Actions["SHUT2"]["OUTALLDONE"] /\ "OOPS" \notin Actions["SHUT2"]["OUTALLDONE"]
  /\ NextState["SHUT2"]["OUTALLDONE"] = "NONE"
BY DEF Actions, NextState, Row, FsProtoState, InShutdown, CloseNoTime

\* The shutdown timer closes a connection in any shutdown state.
LEMMA TableShutTimeout ==
  ASSUME NEW s \in FsProtoState, InShutdown(s)
  PROVE  /\ "CLOSE" \in Actions[s]["SHUT_TO"] /\ "OOPS" \notin Actions[s]["SHUT_TO"]
         /\ NextState[s]["SHUT_TO"] = "NONE"
BY DEF Actions, NextState, Row, FsProtoState, InShutdown, Close

\* A shutdown asked for here starts the timer unless one is under way.
LEMMA TableClose ==
  /\ \A s \in {"INIT", "UP"} :
       /\ Actions[s]["REQSHUTDOWN"] = ShutTimer /\ NextState[s]["REQSHUTDOWN"] = "SHUT1"
  /\ \A s \in {"SHUT1", "SHUT2", "SHUT3"} :
       /\ Actions[s]["REQSHUTDOWN"] = {} /\ NextState[s]["REQSHUTDOWN"] = s
  /\ Actions["NONE"]["REQSHUTDOWN"] = Close /\ NextState["NONE"]["REQSHUTDOWN"] = "NONE"
BY DEF Actions, NextState, Row

\* A shutdown asked for by the peer starts the timer, or ends ours.
LEMMA TablePeerCloses ==
  /\ Actions["NONE"]["RCVSHUTDOWN"] = ShutTimer /\ NextState["NONE"]["RCVSHUTDOWN"] = "SHUT2"
  /\ \A s \in {"INIT", "UP"} :
       /\ Actions[s]["RCVSHUTDOWN"] = AckShut /\ NextState[s]["RCVSHUTDOWN"] = "SHUT2"
  /\ \A s \in {"SHUT1", "SHUT2"} :
       /\ Actions[s]["RCVSHUTDOWN"] = {"ACKME"} /\ NextState[s]["RCVSHUTDOWN"] = "SHUT2"
  /\ Actions["SHUT3"]["RCVSHUTDOWN"] = {"ACKME"} \cup CloseNoTime
  /\ NextState["SHUT3"]["RCVSHUTDOWN"] = "NONE"
BY DEF Actions, NextState, Row

\* A step that leaves what Sound speaks of alone preserves it.
LEMMA SoundKept ==
  ASSUME NEW c, Sound(c), NEW d \in Conn,
         d.present = c.present, d.state = c.state, d.outq = c.outq, d.unacked = c.unacked,
         d.shuttimer = c.shuttimer, d.complained = c.complained
  PROVE  Sound(d)
BY Zenon DEF Sound, Listed

\* An input with no action attached keeps a connection sound, if it stays open
\* and stays in or out of shutdown.
LEMMA StaysSound ==
  ASSUME NEW c, Sound(c), NEW i,
         Actions[c.state][i] = {},
         NextState[c.state][i] \in FsProtoState, NextState[c.state][i] # "NONE",
         InShutdown(NextState[c.state][i]) = InShutdown(c.state)
  PROVE  LET d == FsaQuiet(c, i)
         IN  Sound(d) /\ d.outq = c.outq /\ d.state = NextState[c.state][i]
<1> DEFINE d == FsaFinish(c, c.state, i)
           next == NextState[c.state][i]
<1>1. c \in Conn /\ c.shuttimer \in BOOLEAN /\ ~c.complained
  BY DEF Sound, Conn
<1>2. /\ d \in Conn /\ d.state = next /\ d.outq = c.outq /\ d.unacked = c.unacked
      /\ d.present = c.present /\ ~d.complained
      /\ d.shuttimer = ((c.shuttimer \/ "TIMER" \in {}) /\ ~("NOTIME" \in {}))
  BY <1>1, FinishStays, Zenon
<1>3. d.shuttimer = c.shuttimer
  BY <1>1, <1>2, Zenon
<1>4. FsaQuiet(c, i) = d
  BY DEF FsaQuiet
<1>5. next # "NONE" /\ InShutdown(next) = InShutdown(c.state)
  OBVIOUS
<1> HIDE DEF d, next
<1>6. Listed(d)
  BY <1>2, Zenon DEF Sound, Listed
<1>7. d.shuttimer = InShutdown(d.state) /\ d.present
  BY <1>2, <1>3, <1>5, Zenon DEF Sound
<1>8. Sound(d)
  BY <1>2, <1>5, <1>6, <1>7, Zenon DEF Sound
<1> QED
  BY <1>2, <1>4, <1>8, Zenon DEF next

\* The first frameset of the peer, or of ours, opens a connection.
LEMMA StartSound ==
  ASSUME NEW c, Sound(c), NEW i \in {"GOTSTART", "REQSEND"}
  PROVE  LET d == FsaQuiet(c, i) IN Sound(d) /\ d.outq = c.outq /\ d.state # "NONE"
<1>1. c.state \in FsProtoState
  BY DEF Sound, Conn
<1> QED
  BY <1>1, TableStart, StaysSound, Zenon

\* Giving up on an ACK ends in a sound connection, closed or not.
LEMMA GiveUpSound ==
  ASSUME NEW c, Sound(c), c.state # "NONE"
  PROVE  Sound(FsaQuiet(c, "ACKTIMEOUT"))
<1>1. c \in Conn /\ c.state \in FsProtoState /\ ~c.complained
  BY DEF Sound, Conn
<1>2. CASE c.state = "UP"
  <2>1. Actions[c.state]["ACKTIMEOUT"] = {} /\ NextState[c.state]["ACKTIMEOUT"] = c.state
    BY <1>2, TableUpGivesUp
  <2> QED
    BY <1>1, <2>1, StaysSound, Zenon
<1>3. CASE c.state # "UP"
  <2>1. /\ "CLOSE" \in Actions[c.state]["ACKTIMEOUT"]
        /\ "OOPS" \notin Actions[c.state]["ACKTIMEOUT"]
        /\ NextState[c.state]["ACKTIMEOUT"] = "NONE"
    BY <1>1, <1>3, TableGiveUp
  <2> QED
    BY <1>1, <2>1, FinishCloses, Zenon DEF Sound, FsaQuiet
<1> QED
  BY <1>2, <1>3

\* The shutdown timer ends in a sound connection.
LEMMA ShutTimeoutSound ==
  ASSUME NEW c, Sound(c), c.shuttimer
  PROVE  Sound(FsaQuiet(c, "SHUT_TO"))
<1>1. c \in Conn /\ c.state \in FsProtoState /\ InShutdown(c.state)
  BY DEF Sound, Conn
<1>2. /\ "CLOSE" \in Actions[c.state]["SHUT_TO"]
      /\ "OOPS" \notin Actions[c.state]["SHUT_TO"]
      /\ NextState[c.state]["SHUT_TO"] = "NONE"
  BY <1>1, TableShutTimeout
<1> QED
  BY <1>1, <1>2, FinishCloses, Zenon DEF Sound, FsaQuiet


\* The last ACK ends in a sound connection, closed if the shutdown is over.
LEMMA AllDoneSound ==
  ASSUME NEW c, Sound(c), c.state # "NONE"
  PROVE  Sound(FsaQuiet(c, "OUTALLDONE"))
<1>1. c \in Conn /\ c.state \in FsProtoState /\ ~c.complained
  BY DEF Sound, Conn
<1>2. CASE c.state = "SHUT2"
  <2>1. /\ "CLOSE" \in Actions[c.state]["OUTALLDONE"]
        /\ "OOPS" \notin Actions[c.state]["OUTALLDONE"]
        /\ NextState[c.state]["OUTALLDONE"] = "NONE"
    BY <1>2, TableAllDone
  <2> QED
    BY <1>1, <2>1, FinishCloses, Zenon DEF Sound, FsaQuiet
<1>3. CASE c.state # "SHUT2"
  <2>1. c.state \in {"INIT", "UP", "SHUT1", "SHUT3"}
    BY <1>1, <1>3 DEF FsProtoState
  <2>2. /\ Actions[c.state]["OUTALLDONE"] = {}
        /\ NextState[c.state]["OUTALLDONE"] \in FsProtoState
        /\ NextState[c.state]["OUTALLDONE"] # "NONE"
        /\ InShutdown(NextState[c.state]["OUTALLDONE"]) = InShutdown(c.state)
    BY <2>1, TableAllDone
  <2> QED
    BY <2>2, StaysSound, Zenon
<1> QED
  BY <1>2, <1>3

-------------------------------------------------------------------------------
(* Transmission.                                                               *)

\* The output queue of a connection and what is in it.
LEMMA OutputType ==
  ASSUME NEW c \in Conn
  PROVE  /\ c.outq \in Queue /\ c.outq.q \in Seq(FrameSet)
         /\ \A i \in DOMAIN c.outq.q : /\ c.outq.q[i] \in FrameSet
                                       /\ SeqnoOf(c.outq.q[i]) \in Seqno
         /\ c.outq.q # <<>> => /\ Len(c.outq.q) \in DOMAIN c.outq.q
                               /\ Head(c.outq.q) \in FrameSet
<1>1. c.outq \in Queue
  BY DEF Conn
<1>2. c.outq.q \in Seq(FrameSet)
  BY <1>1 DEF Queue
<1>3. ASSUME NEW i \in DOMAIN c.outq.q
      PROVE  c.outq.q[i] \in FrameSet /\ SeqnoOf(c.outq.q[i]) \in Seqno
  <2>1. c.outq.q[i] \in FrameSet
    BY <1>2
  <2> QED
    BY <2>1 DEF FrameSet, SeqnoOf, Seqno
<1> QED
  BY <1>1, <1>2, <1>3

\* Sending what is new changes what was sent and nothing else.
LEMMA SendNewSound ==
  ASSUME NEW c, Sound(c)
  PROVE  LET d == SendNew(c) IN Sound(d) /\ d.outq = c.outq /\ d.rexmit = c.rexmit /\ d.state = c.state
<1>1. CASE Len(c.outq.q) < Window /\ Unsent(c) # {}
  <2> DEFINE x == c.tx \cup {c.outq.q[i] : i \in Unsent(c)}
             s == SeqnoOf(c.outq.q[Len(c.outq.q)])
             d == [c EXCEPT !.tx = x, !.lastseqsent = s]
  <2>1. c \in Conn /\ c.tx \in SUBSET FrameSet
    BY DEF Sound, Conn
  <2>2. c.outq.q # <<>>
    BY <1>1 DEF Unsent
  <2>3. x \in SUBSET FrameSet
    BY <2>1, OutputType DEF Unsent
  <2>4. s \in Seqno
    BY <2>1, <2>2, OutputType
  <2>5. SendNew(c) = d
    BY <1>1, Zenon DEF SendNew
  <2> HIDE DEF x, s
  <2>6. d \in Conn
    BY <2>1, <2>3, <2>4 DEF Conn
  <2>7. /\ d.present = c.present /\ d.state = c.state /\ d.outq = c.outq
        /\ d.unacked = c.unacked /\ d.shuttimer = c.shuttimer
        /\ d.complained = c.complained /\ d.rexmit = c.rexmit
    BY <2>1 DEF Conn
  <2> HIDE DEF d
  <2> QED
    BY <2>5, <2>6, <2>7, SoundKept, Zenon
<1>2. CASE ~(Len(c.outq.q) < Window /\ Unsent(c) # {})
  BY <1>2, Zenon DEF SendNew
<1> QED
  BY <1>1, <1>2

\* Retransmitting, or giving up after too many times, keeps a connection sound.
LEMMA RetransmitSound ==
  ASSUME NEW c, Sound(c), c.outq.q # <<>>
  PROVE  Sound(Retransmit(c))
<1> DEFINE x == c.tx \cup {Head(c.outq.q)}
           r == "armed"
           again == [c EXCEPT !.tx = x, !.rexmit = r]
<1>1. c \in Conn /\ c.tx \in SUBSET FrameSet /\ c.state # "NONE" /\ c.tries \in 0..AckTries
  BY DEF Sound, Conn
<1>2. x \in SUBSET FrameSet /\ r \in Rexmit
  BY <1>1, OutputType, SmallTypes
<1>3. Retransmit(c) = IF c.tries < AckTries
                      THEN [again EXCEPT !.tries = again.tries + 1]
                      ELSE [FsaQuiet(again, "ACKTIMEOUT") EXCEPT !.tries = 0]
  BY Zenon DEF Retransmit
<1> HIDE DEF x, r
<1>4. again \in Conn
  BY <1>1, <1>2 DEF Conn
<1>5. /\ again.present = c.present /\ again.state = c.state /\ again.outq = c.outq
      /\ again.unacked = c.unacked /\ again.shuttimer = c.shuttimer
      /\ again.complained = c.complained /\ again.tries = c.tries
  BY <1>1 DEF Conn
<1> HIDE DEF again
<1>6. Sound(again)
  BY <1>4, <1>5, SoundKept, Zenon
<1>7. ASSUME NEW e, Sound(e), NEW t \in 0..AckTries
      PROVE  Sound([e EXCEPT !.tries = t])
  <2> DEFINE d == [e EXCEPT !.tries = t]
  <2>1. e \in Conn
    BY <1>7 DEF Sound
  <2>2. d \in Conn
    BY <2>1 DEF Conn
  <2>3. /\ d.present = e.present /\ d.state = e.state /\ d.outq = e.outq
        /\ d.unacked = e.unacked /\ d.shuttimer = e.shuttimer /\ d.complained = e.complained
    BY <2>1 DEF Conn
  <2> HIDE DEF d
  <2>4. Sound(d)
    BY <1>7, <2>2, <2>3, SoundKept, Zenon
  <2> QED
    BY <2>4 DEF d
<1>8. CASE c.tries < AckTries
  <2>1. again.tries + 1 \in 0..AckTries
    BY <1>1, <1>5, <1>8, TimerAssumption
  <2> QED
    BY <1>3, <1>6, <1>7, <1>8, <2>1, Zenon
<1>9. CASE ~(c.tries < AckTries)
  <2>1. Sound(FsaQuiet(again, "ACKTIMEOUT"))
    BY <1>1, <1>5, <1>6, GiveUpSound, Zenon
  <2> QED
    BY <1>3, <1>7, <1>9, <2>1, SmallTypes, Zenon
<1> QED
  BY <1>8, <1>9

\* Setting the time of the next retransmission keeps a connection sound.
LEMMA RexmitSound ==
  ASSUME NEW c, Sound(c), NEW r \in Rexmit
  PROVE  Sound([c EXCEPT !.rexmit = r])
<1> DEFINE d == [c EXCEPT !.rexmit = r]
<1>1. c \in Conn
  BY DEF Sound
<1>2. d \in Conn
  BY <1>1 DEF Conn
<1>3. /\ d.present = c.present /\ d.state = c.state /\ d.outq = c.outq
      /\ d.unacked = c.unacked /\ d.shuttimer = c.shuttimer /\ d.complained = c.complained
  BY <1>1 DEF Conn
<1> HIDE DEF d
<1>4. Sound(d)
  BY <1>2, <1>3, SoundKept, Zenon
<1> QED
  BY <1>4 DEF d

\* xmitifwecan keeps a connection sound.
LEMMA XmitSound ==
  ASSUME NEW c0, Sound(c0)
  PROVE  Sound(XmitIfWeCan(c0))
<1> DEFINE c == SendNew(c0)
<1>1. Sound(c)
  BY SendNewSound
<1>2. XmitIfWeCan(c0) =
        CASE c.rexmit = "off" /\ c.outq.q # <<>> -> [c EXCEPT !.rexmit = "armed"]
          [] c.rexmit = "due" /\ c.outq.q # <<>> -> Retransmit(c)
          [] c.rexmit = "due" /\ c.outq.q = <<>> -> [c EXCEPT !.rexmit = "off"]
          [] OTHER                               -> c
  BY Zenon DEF XmitIfWeCan
<1> HIDE DEF c
<1>3. Sound([c EXCEPT !.rexmit = "armed"]) /\ Sound([c EXCEPT !.rexmit = "off"])
  BY <1>1, RexmitSound, SmallTypes, Zenon
<1>4. c.outq.q # <<>> => Sound(Retransmit(c))
  BY <1>1, RetransmitSound
<1> QED
  BY <1>1, <1>2, <1>3, <1>4, Zenon

\* Queueing a frameset puts the connection on the list of output if it is not
\* there, and keeps it sound.
LEMMA Send1Queues ==
  ASSUME NEW c0, Sound(c0), NEW kind \in Kinds, NEW val \in Nat, NEW sess \in Nat,
         ~InShutdown(c0.state)
  PROVE  LET c == FsaQuiet(c0, "REQSEND")
         IN  \E d : /\ Send1(c0, kind, val, sess) = XmitIfWeCan(d)
                    /\ Sound(c) /\ c.outq = c0.outq /\ Sound(d)
                    /\ d.outq = Enq(c.outq, kind, val, sess)
                    /\ d.tx = c.tx /\ d.inq = c.inq /\ d.got = c.got
                    /\ d.lastacksent = c.lastacksent
                    /\ d.isready = c.isready /\ d.ipend = c.ipend
<1> DEFINE c == FsaQuiet(c0, "REQSEND")
           u == c.unacked + 1
           r == "armed"
           z == 0
           listed == IF c.outq.q = <<>>
                     THEN [c EXCEPT !.unacked = u, !.rexmit = r, !.tries = z]
                     ELSE c
           o == Enq(listed.outq, kind, val, sess)
           d == [listed EXCEPT !.outq = o]
<1>1. Send1(c0, kind, val, sess) = XmitIfWeCan(d)
  BY Zenon DEF Send1
<1>2. Sound(c) /\ c.state # "NONE" /\ c.outq = c0.outq
  BY StartSound
<1> HIDE DEF c
<1>3. /\ c \in Conn /\ u \in Nat /\ r \in Rexmit /\ z \in 0..AckTries
      /\ c.outq.q = <<>> => u = 1
      /\ c.outq.q # <<>> => c.unacked = 1
  <2>1. c \in Conn /\ c.unacked \in Nat
    BY <1>2 DEF Sound, Conn
  <2> QED
    BY <1>2, <2>1, SmallTypes DEF Sound, Listed
<1> HIDE DEF u, r, z
<1>4. /\ listed \in Conn /\ listed.unacked = 1 /\ listed.outq = c.outq
      /\ listed.present = c.present /\ listed.state = c.state
      /\ listed.shuttimer = c.shuttimer /\ listed.complained = c.complained
      /\ listed.tx = c.tx /\ listed.inq = c.inq /\ listed.got = c.got
      /\ listed.lastacksent = c.lastacksent
      /\ listed.isready = c.isready /\ listed.ipend = c.ipend
  <2>1. CASE c.outq.q = <<>>
    <3> DEFINE e == [c EXCEPT !.unacked = u, !.rexmit = r, !.tries = z]
    <3>1. e \in Conn
      BY <1>3 DEF Conn
    <3>2. /\ e.unacked = u /\ e.outq = c.outq /\ e.present = c.present /\ e.state = c.state
          /\ e.shuttimer = c.shuttimer /\ e.complained = c.complained
          /\ e.tx = c.tx /\ e.inq = c.inq /\ e.got = c.got /\ e.lastacksent = c.lastacksent
          /\ e.isready = c.isready /\ e.ipend = c.ipend
      BY <1>3 DEF Conn
    <3> HIDE DEF e
    <3>3. listed = e
      BY <2>1, Zenon DEF e
    <3> QED
      BY <1>3, <2>1, <3>1, <3>2, <3>3, Zenon
  <2>2. CASE c.outq.q # <<>>
    BY <1>3, <2>2, Zenon
  <2> QED
    BY <2>1, <2>2
<1> HIDE DEF listed
<1>5. o \in Queue /\ o.q # <<>> /\ o = Enq(c.outq, kind, val, sess)
  <2>1. listed.outq \in Queue
    BY <1>4 DEF Conn
  <2> QED
    BY <1>4, <2>1, EnqType
<1> HIDE DEF o
<1>6. d \in Conn
  BY <1>4, <1>5 DEF Conn
<1>7. /\ d.unacked = listed.unacked /\ d.outq = o /\ d.present = listed.present
      /\ d.state = listed.state /\ d.shuttimer = listed.shuttimer
      /\ d.complained = listed.complained
      /\ d.tx = listed.tx /\ d.inq = listed.inq /\ d.got = listed.got
      /\ d.lastacksent = listed.lastacksent
      /\ d.isready = listed.isready /\ d.ipend = listed.ipend
  BY <1>4 DEF Conn
<1> HIDE DEF d
<1>8. Listed(d)
  BY <1>4, <1>5, <1>7 DEF Listed
<1>9. Sound(d)
  BY <1>2, <1>4, <1>6, <1>7, <1>8, Zenon DEF Sound
<1> QED
  BY <1>1, <1>2, <1>4, <1>5, <1>7, <1>9, Zenon DEF c

\* send1 keeps a connection sound.
LEMMA Send1Sound ==
  ASSUME NEW c, Sound(c), NEW kind \in Kinds, NEW val \in Nat, NEW sess \in Nat
  PROVE  Sound(Send1(c, kind, val, sess))
<1>1. CASE InShutdown(c.state)
  BY <1>1, Zenon DEF Send1
<1>2. CASE ~InShutdown(c.state)
  <2>1. PICK d : Send1(c, kind, val, sess) = XmitIfWeCan(d) /\ Sound(d)
    BY <1>2, Send1Queues
  <2> QED
    BY <2>1, XmitSound
<1> QED
  BY <1>1, <1>2

\* Sending an ACK keeps a connection sound, and in its state.
LEMMA AckSeqnoSound ==
  ASSUME NEW c, Sound(c), NEW s \in Seqno
  PROVE  Sound(AckSeqno(c, s)) /\ AckSeqno(c, s).state = c.state
<1>1. CASE c.inq.sess \notin {0, s[1]}
  BY <1>1, Zenon DEF AckSeqno
<1>2. CASE ~(c.inq.sess \notin {0, s[1]})
  <2> DEFINE x == c.tx \cup {AckFrameSet(s)}
             l == IF Before(c.lastacksent, s) THEN s ELSE c.lastacksent
             d == [c EXCEPT !.tx = x, !.lastacksent = l]
  <2>1. c \in Conn /\ c.tx \in SUBSET FrameSet /\ c.lastacksent \in Seqno
    BY DEF Sound, Conn
  <2>2. AckFrameSet(s) \in FrameSet
    <3>1. s[1] \in Nat /\ s[2] \in Nat
      BY DEF Seqno
    <3> QED
      BY <3>1 DEF AckFrameSet, FrameSet, Kinds
  <2>3. x \in SUBSET FrameSet /\ l \in Seqno
    BY <2>1, <2>2
  <2>4. AckSeqno(c, s) = d
    BY <1>2, Zenon DEF AckSeqno
  <2> HIDE DEF x, l
  <2>5. d \in Conn
    BY <2>1, <2>3 DEF Conn
  <2>6. /\ d.present = c.present /\ d.state = c.state /\ d.outq = c.outq
        /\ d.unacked = c.unacked /\ d.shuttimer = c.shuttimer
        /\ d.complained = c.complained
    BY <2>1 DEF Conn
  <2> HIDE DEF d
  <2> QED
    BY <2>4, <2>5, <2>6, SoundKept, Zenon
<1> QED
  BY <1>1, <1>2

\* Going into shutdown with a timer, or moving on in it, keeps a connection
\* sound: whatever its state was when it entered the automaton.
LEMMA ShutSound ==
  ASSUME NEW c, Sound(c), NEW state, NEW input,
         "CLOSE" \notin Actions[state][input], "OOPS" \notin Actions[state][input],
         "NOTIME" \notin Actions[state][input],
         "TIMER" \in Actions[state][input] \/ c.shuttimer,
         NextState[state][input] \in {"SHUT1", "SHUT2", "SHUT3"}
  PROVE  Sound(FsaFinish(c, state, input))
<1> DEFINE d == FsaFinish(c, state, input)
           next == NextState[state][input]
<1>1. c \in Conn /\ ~c.complained /\ c.present
  BY DEF Sound
<1>2. next \in FsProtoState /\ next # "NONE" /\ InShutdown(next) = TRUE
  BY DEF FsProtoState, InShutdown
<1>3. /\ d \in Conn /\ d.state = next /\ d.outq = c.outq /\ d.unacked = c.unacked
      /\ d.present = c.present /\ ~d.complained
      /\ d.shuttimer = ((c.shuttimer \/ "TIMER" \in Actions[state][input])
                        /\ ~("NOTIME" \in Actions[state][input]))
  BY <1>1, <1>2, FinishStays, Zenon
<1>4. d.shuttimer = TRUE
  BY <1>3, Zenon
<1> HIDE DEF d, next
<1>5. Listed(d)
  BY <1>3, Zenon DEF Sound, Listed
<1>6. Sound(d)
  BY <1>1, <1>2, <1>3, <1>4, <1>5, Zenon DEF Sound
<1> QED
  BY <1>6 DEF d

\* A shutdown asked for by the application keeps a connection sound.
LEMMA CloseSound ==
  ASSUME NEW c, Sound(c), NEW s \in Seqno, NEW sess \in Nat
  PROVE  Sound(Fsa(c, "REQSHUTDOWN", s, sess))
<1> DEFINE acts == Actions[c.state]["REQSHUTDOWN"]
           next == NextState[c.state]["REQSHUTDOWN"]
           acked1 == IF "ACKME" \in acts THEN AckSeqno(c, s) ELSE c
           shut == IF "SNDSHUT" \in acts THEN Send1(acked1, "connshut", 0, sess) ELSE acked1
<1>1. Fsa(c, "REQSHUTDOWN", s, sess) = FsaFinish(shut, c.state, "REQSHUTDOWN")
  BY Zenon DEF Fsa
<1>2. c \in Conn /\ c.state \in FsProtoState /\ ~c.complained
  BY DEF Sound, Conn
<1>3. "ACKME" \notin acts
  BY <1>2, TableClose DEF FsProtoState, ShutTimer, Close
<1>4. acked1 = c
  BY <1>3, Zenon
<1> HIDE DEF acked1
<1>5. CASE c.state = "NONE"
  <2>1. "CLOSE" \in acts /\ "OOPS" \notin acts /\ "SNDSHUT" \notin acts /\ next = "NONE"
    BY <1>5, TableClose DEF Close
  <2>2. shut = c
    BY <1>4, <2>1, Zenon
  <2>3. Sound(FsaFinish(c, c.state, "REQSHUTDOWN"))
    BY <1>2, <2>1, FinishCloses, Zenon DEF Sound
  <2> HIDE DEF shut
  <2> QED
    BY <1>1, <2>2, <2>3, Zenon
<1>6. CASE c.state \in {"INIT", "UP"}
  <2>1. /\ "CLOSE" \notin acts /\ "OOPS" \notin acts /\ "NOTIME" \notin acts
        /\ "TIMER" \in acts /\ "SNDSHUT" \in acts
        /\ next \in {"SHUT1", "SHUT2", "SHUT3"}
    BY <1>6, TableClose DEF ShutTimer
  <2>2. Sound(shut)
    <3>1. "connshut" \in Kinds /\ 0 \in Nat
      BY DEF Kinds
    <3> QED
      BY <1>4, <2>1, <3>1, Send1Sound, Zenon
  <2> QED
    BY <1>1, <2>1, <2>2, ShutSound, Zenon
<1>7. CASE c.state \in {"SHUT1", "SHUT2", "SHUT3"}
  <2>1. acts = {} /\ next = c.state
    BY <1>7, TableClose
  <2>2. c.state # "NONE"
    BY <1>7
  <2>3. shut = c
    BY <1>4, <2>1, Zenon
  <2>4. Sound(FsaFinish(c, c.state, "REQSHUTDOWN"))
    BY <1>2, <2>1, <2>2, StaysSound, Zenon DEF FsaQuiet
  <2> HIDE DEF shut
  <2> QED
    BY <1>1, <2>3, <2>4, Zenon
<1> QED
  BY <1>2, <1>5, <1>6, <1>7 DEF FsProtoState

\* A shutdown asked for by the peer keeps a connection sound.
LEMMA PeerClosesSound ==
  ASSUME NEW c, Sound(c), NEW s \in Seqno, NEW sess \in Nat
  PROVE  Sound(Fsa(c, "RCVSHUTDOWN", s, sess))
<1> DEFINE acts == Actions[c.state]["RCVSHUTDOWN"]
           next == NextState[c.state]["RCVSHUTDOWN"]
           acked1 == IF "ACKME" \in acts THEN AckSeqno(c, s) ELSE c
           shut == IF "SNDSHUT" \in acts THEN Send1(acked1, "connshut", 0, sess) ELSE acked1
<1>1. Fsa(c, "RCVSHUTDOWN", s, sess) = FsaFinish(shut, c.state, "RCVSHUTDOWN")
  BY Zenon DEF Fsa
<1>2. c.state \in FsProtoState /\ c.shuttimer = InShutdown(c.state)
  BY DEF Sound, Conn
<1>3. Sound(acked1) /\ acked1.state = c.state
  BY AckSeqnoSound, Zenon
<1> HIDE DEF acked1
<1>4. CASE c.state \in {"NONE", "INIT", "UP"}
  <2>1. /\ "CLOSE" \notin acts /\ "OOPS" \notin acts /\ "NOTIME" \notin acts
        /\ "TIMER" \in acts /\ "SNDSHUT" \in acts
        /\ next \in {"SHUT1", "SHUT2", "SHUT3"}
    BY <1>4, TablePeerCloses DEF ShutTimer, AckShut
  <2>2. Sound(shut)
    <3>1. "connshut" \in Kinds /\ 0 \in Nat
      BY DEF Kinds
    <3> QED
      BY <1>3, <2>1, <3>1, Send1Sound, Zenon
  <2> QED
    BY <1>1, <2>1, <2>2, ShutSound, Zenon
<1>5. CASE c.state \in {"SHUT1", "SHUT2"}
  <2>1. acts = {"ACKME"} /\ next = "SHUT2"
    BY <1>5, TablePeerCloses
  <2>2. /\ "CLOSE" \notin acts /\ "OOPS" \notin acts /\ "NOTIME" \notin acts
        /\ "SNDSHUT" \notin acts /\ next \in {"SHUT1", "SHUT2", "SHUT3"}
    BY <2>1
  <2>3. acked1.shuttimer
    <3>1. InShutdown(acked1.state)
      BY <1>3, <1>5 DEF InShutdown
    <3> QED
      BY <1>3, <3>1, Zenon DEF Sound
  <2>4. shut = acked1
    BY <2>2, Zenon
  <2>5. Sound(FsaFinish(acked1, c.state, "RCVSHUTDOWN"))
    BY <1>3, <2>2, <2>3, ShutSound, Zenon
  <2> HIDE DEF shut
  <2> QED
    BY <1>1, <2>4, <2>5, Zenon
<1>6. CASE c.state = "SHUT3"
  <2>1. "CLOSE" \in acts /\ "OOPS" \notin acts /\ "SNDSHUT" \notin acts /\ next = "NONE"
    BY <1>6, TablePeerCloses DEF CloseNoTime
  <2>2. shut = acked1
    BY <2>1, Zenon
  <2>3. Sound(FsaFinish(acked1, c.state, "RCVSHUTDOWN"))
    BY <1>3, <2>1, FinishCloses, Zenon DEF Sound
  <2> HIDE DEF shut
  <2> QED
    BY <1>1, <2>2, <2>3, Zenon
<1> QED
  BY <1>2, <1>4, <1>5, <1>6 DEF FsProtoState

-------------------------------------------------------------------------------
(* Reception.                                                                  *)

\* An ACK, refused or not, keeps a connection sound: the last one takes it off
\* the list of output.
LEMMA ReceiveAckSound ==
  ASSUME NEW c, Sound(c), NEW s \in Seqno
  PROVE  Sound(ReceiveAck(c, s))
<1> DEFINE left == AckThrough(c.outq, s)
           z == 0
           popped == [c EXCEPT !.outq = left, !.tries = z]
           u == Remove(popped.unacked)
           off == "off"
           idle == [popped EXCEPT !.unacked = u, !.rexmit = off]
<1>1. ReceiveAck(c, s) =
        CASE AckRefused(c.outq, s) -> c
          [] ~AckRefused(c.outq, s) /\ left.q # <<>> -> XmitIfWeCan(popped)
          [] OTHER -> IF c.outq.q = <<>> THEN idle ELSE FsaQuiet(idle, "OUTALLDONE")
  BY Zenon DEF ReceiveAck
<1>2. c \in Conn /\ c.outq \in Queue /\ c.unacked \in Nat
  BY DEF Sound, Conn
<1>3. left \in Queue /\ (c.outq.q = <<>> => left.q = <<>>)
  BY <1>2, AckThroughType
<1>4. z \in 0..AckTries /\ off \in Rexmit
  BY SmallTypes
<1> HIDE DEF left, z, off
<1>5. popped \in Conn
  BY <1>2, <1>3, <1>4 DEF Conn
<1>6. /\ popped.present = c.present /\ popped.state = c.state /\ popped.outq = left
      /\ popped.unacked = c.unacked /\ popped.shuttimer = c.shuttimer
      /\ popped.complained = c.complained
  BY <1>2 DEF Conn
<1> HIDE DEF popped
<1>7. u \in Nat /\ u = 0
  BY <1>2, <1>6 DEF Sound, Listed, Remove
<1> HIDE DEF u
<1>8. idle \in Conn
  BY <1>4, <1>5, <1>7 DEF Conn
<1>9. /\ idle.present = popped.present /\ idle.state = popped.state /\ idle.outq = popped.outq
      /\ idle.unacked = u /\ idle.shuttimer = popped.shuttimer
      /\ idle.complained = popped.complained
  BY <1>5 DEF Conn
<1> HIDE DEF idle
<1>10. ASSUME left.q # <<>> PROVE Sound(XmitIfWeCan(popped))
  <2>1. c.outq.q # <<>> /\ Listed(popped)
    BY <1>3, <1>6, <1>10 DEF Sound, Listed
  <2>2. Sound(popped)
    BY <1>5, <1>6, <1>10, <2>1, Zenon DEF Sound
  <2> QED
    BY <2>2, XmitSound
<1>11. ASSUME left.q = <<>>
       PROVE  Sound(IF c.outq.q = <<>> THEN idle ELSE FsaQuiet(idle, "OUTALLDONE"))
  <2>1. Listed(idle) /\ idle.outq.q = <<>>
    BY <1>6, <1>7, <1>9, <1>11 DEF Listed
  <2>2. Sound(idle)
    BY <1>6, <1>8, <1>9, <2>1, Zenon DEF Sound
  <2>3. c.outq.q # <<>> => idle.state # "NONE"
    BY <1>6, <1>9 DEF Sound
  <2> QED
    BY <2>2, <2>3, AllDoneSound, Zenon
<1> QED
  BY <1>1, <1>10, <1>11, Zenon

\* The fields of the input side do not matter to a sound connection.
LEMMA InputSound ==
  ASSUME NEW c, Sound(c), NEW q \in Queue, NEW r \in BOOLEAN, NEW i \in Nat, NEW g \in Seq(Nat)
  PROVE  LET d == [c EXCEPT !.inq = q, !.isready = r, !.ipend = i, !.got = g] IN Sound(d)
<1> DEFINE d == [c EXCEPT !.inq = q, !.isready = r, !.ipend = i, !.got = g]
<1>1. c \in Conn
  BY DEF Sound
<1>2. d \in Conn
  BY <1>1 DEF Conn
<1>3. /\ d.present = c.present /\ d.state = c.state /\ d.outq = c.outq
      /\ d.unacked = c.unacked /\ d.shuttimer = c.shuttimer /\ d.complained = c.complained
  BY <1>1 DEF Conn
<1> HIDE DEF d
<1>4. Sound(d)
  BY <1>2, <1>3, SoundKept, Zenon
<1> QED
  BY <1>4 DEF d

\* Repeating an ACK keeps a connection sound.
LEMMA AckAgainSound ==
  ASSUME NEW c, Sound(c), NEW fs
  PROVE  Sound(AckAgain(c, fs))
<1>1. c.lastacksent \in Seqno
  BY DEF Sound, Conn
<1> QED
  BY <1>1, AckSeqnoSound, Zenon DEF AckAgain

\* Marking a connection as one with input keeps it sound.
LEMMA MarkReadySound ==
  ASSUME NEW c, Sound(c), NEW fs
  PROVE  Sound(MarkReady(c, fs))
<1> DEFINE i == c.ipend + 1
           yes == TRUE
           d == [c EXCEPT !.ipend = i, !.isready = yes]
<1>1. c \in Conn /\ i \in Nat /\ yes \in BOOLEAN
  BY DEF Sound, Conn
<1>2. MarkReady(c, fs) = IF ~c.isready /\ fs.seq = c.inq.next THEN d ELSE c
  BY Zenon DEF MarkReady
<1> HIDE DEF i, yes
<1>3. d \in Conn
  BY <1>1 DEF Conn
<1>4. /\ d.present = c.present /\ d.state = c.state /\ d.outq = c.outq
      /\ d.unacked = c.unacked /\ d.shuttimer = c.shuttimer /\ d.complained = c.complained
  BY <1>1 DEF Conn
<1> HIDE DEF d
<1>5. Sound(d)
  BY <1>3, <1>4, SoundKept, Zenon
<1> QED
  BY <1>2, <1>5, Zenon

\* A sequenced frameset, kept or refused, leaves a sound connection.
LEMMA ReceiveSequencedSound ==
  ASSUME NEW c, Sound(c), NEW fs \in FrameSet
  PROVE  Sound(ReceiveSequenced(c, fs))
<1> DEFINE q == InqSorted(c.inq, fs)
           sorted == [c EXCEPT !.inq = q]
           filed == CASE InqRefused(c.inq, fs) -> AckAgain(sorted, fs)
                      [] ~InqRefused(c.inq, fs) /\ fs.seq = 1 -> FsaQuiet(sorted, "GOTSTART")
                      [] OTHER -> sorted
<1>1. ReceiveSequenced(c, fs) = XmitIfWeCan(MarkReady(filed, fs))
  BY Zenon DEF ReceiveSequenced
<1>2. c \in Conn /\ c.inq \in Queue
  BY DEF Sound, Conn
<1>3. q \in Queue
  BY <1>2, InqSortedType
<1> HIDE DEF q
<1>4. sorted \in Conn
  BY <1>2, <1>3 DEF Conn
<1>5. /\ sorted.present = c.present /\ sorted.state = c.state /\ sorted.outq = c.outq
      /\ sorted.unacked = c.unacked /\ sorted.shuttimer = c.shuttimer
      /\ sorted.complained = c.complained
  BY <1>2 DEF Conn
<1> HIDE DEF sorted
<1>6. Sound(sorted)
  BY <1>4, <1>5, SoundKept, Zenon
<1>7. Sound(AckAgain(sorted, fs)) /\ Sound(FsaQuiet(sorted, "GOTSTART"))
  BY <1>6, AckAgainSound, StartSound, Zenon
<1>8. Sound(filed)
  BY <1>6, <1>7, Zenon
<1> HIDE DEF filed
<1> QED
  BY <1>1, <1>8, MarkReadySound, XmitSound, Zenon

\* Reading a frameset leaves a sound connection.
LEMMA ReadOneSound ==
  ASSUME NEW c, Sound(c), c.inq.q # <<>>, NEW sess \in Nat
  PROVE  Sound(ReadOne(c, sess))
<1> DEFINE fs == Head(c.inq.q)
           rest == Deq(c.inq)
           more == Readable(rest)
           i == IF more THEN c.ipend ELSE Remove(c.ipend)
           g == IF fs.kind = "data" THEN Append(c.got, fs.val) ELSE c.got
           taken == [c EXCEPT !.inq = rest, !.isready = more, !.ipend = i, !.got = g]
<1>1. ReadOne(c, sess) = XmitIfWeCan(IF fs.kind = "connshut"
                                     THEN Fsa(taken, "RCVSHUTDOWN", SeqnoOf(fs), sess)
                                     ELSE taken)
  BY Zenon DEF ReadOne
<1>2. c.inq \in Queue /\ c.ipend \in Nat /\ c.got \in Seq(Nat)
  BY DEF Sound, Conn
<1>3. rest \in Queue /\ fs \in FrameSet
  BY <1>2, DeqType
<1>4. fs.val \in Nat /\ SeqnoOf(fs) \in Seqno
  BY <1>3 DEF FrameSet, SeqnoOf, Seqno
<1>5. more \in BOOLEAN
  BY Zenon DEF Readable
<1>6. i \in Nat
  BY <1>2, RemoveType
<1>7. g \in Seq(Nat)
  BY <1>2, <1>4, AppendProperties
<1> HIDE DEF rest, more, i, g, fs
<1>8. Sound(taken)
  BY <1>3, <1>5, <1>6, <1>7, InputSound, Zenon
<1> HIDE DEF taken
<1> QED
  BY <1>1, <1>4, <1>8, PeerClosesSound, XmitSound, Zenon

-------------------------------------------------------------------------------
(* The specification.                                                          *)

\* What an action has transmitted leaves the connection as it was.
LEMMA SentSound ==
  ASSUME NEW c, Sound(c) \/ Gone(c)
  PROVE  LET d == [c EXCEPT !.tx = {}] IN d \in Conn /\ (Sound(d) \/ Gone(d))
<1> DEFINE x == {}
           d == [c EXCEPT !.tx = x]
<1>1. c \in Conn
  BY DEF Sound, Gone
<1>2. x \in SUBSET FrameSet
  OBVIOUS
<1> HIDE DEF x
<1>3. d \in Conn
  BY <1>1, <1>2 DEF Conn
<1>4. /\ d.present = c.present /\ d.state = c.state /\ d.outq = c.outq /\ d.inq = c.inq
      /\ d.unacked = c.unacked /\ d.shuttimer = c.shuttimer /\ d.complained = c.complained
      /\ d.rexmit = c.rexmit /\ d.finalizetimer = c.finalizetimer
  BY <1>1 DEF Conn
<1>5. d = [c EXCEPT !.tx = {}]
  BY DEF d, x
<1> HIDE DEF d
<1>6. Sound(d) \/ Gone(d)
  BY <1>3, <1>4, SoundKept, Zenon DEF Gone
<1> QED
  BY <1>3, <1>5, <1>6, Zenon

\* Storing a sound or a destroyed connection, and sending what it transmits,
\* preserves the part of the invariant that is about conn and net.
LEMMA StepInv ==
  ASSUME IInv, NEW n \in Node, NEW c, Sound(c) \/ Gone(c), NEW received,
         Step(n, c, received)
  PROVE  /\ conn' \in [Node -> Conn]
         /\ ConnInv'
         /\ net' \in [Node -> SUBSET FrameSet]
<1> DEFINE d == [c EXCEPT !.tx = {}]
           p == Peer(n)
           a == net[p] \cup c.tx
           net1 == [net EXCEPT ![p] = a]
           b == IF Duplicates THEN net[n] ELSE net[n] \ received
<1>1. d \in Conn /\ (Sound(d) \/ Gone(d))
  BY SentSound
<1>2. c.tx \in SUBSET FrameSet
  BY DEF Sound, Gone, Conn
<1>3. p \in Node
  BY DEF Peer, Node
<1>4. conn' = [conn EXCEPT ![n] = d] /\ net' = [net1 EXCEPT ![n] = b]
  BY Zenon DEF Step
<1> HIDE DEF d, p
<1>5. conn \in [Node -> Conn] /\ net \in [Node -> SUBSET FrameSet] /\ ConnInv
  BY DEF IInv, TypeOK
<1>6. a \in SUBSET FrameSet
  BY <1>2, <1>3, <1>5
<1> HIDE DEF a
<1>7. net1 \in [Node -> SUBSET FrameSet]
  BY <1>3, <1>5, <1>6
<1> HIDE DEF net1
<1>8. b \in SUBSET FrameSet
  BY <1>5
<1> HIDE DEF b
<1>9. net' \in [Node -> SUBSET FrameSet]
  BY <1>4, <1>7, <1>8
<1>10. conn' \in [Node -> Conn]
  BY <1>1, <1>4, <1>5
<1>11. \A m \in Node : conn'[m] = IF m = n THEN d ELSE conn[m]
  BY <1>4, <1>5
<1>12. ConnInv'
  BY <1>1, <1>5, <1>11, Zenon DEF ConnInv
<1> QED
  BY <1>9, <1>10, <1>12

\* The rest of the invariant, for an action that leaves these variables alone.
LEMMA RestUnchanged ==
  ASSUME IInv
  PROVE  /\ procSess' = procSess => procSess' \in [Node -> Nat]
         /\ toack' = toack => toack' \in [Node -> Seq(Seqno)]
         /\ handed' = handed => handed' \in [Node -> Nat]
         /\ acked' = acked => acked' \in [Node -> SUBSET Nat]
         /\ seen' = seen => seen' \in [Node -> SUBSET Nat]
         /\ used' = used => used' \in [Node -> [close : Nat, restart : Nat, finalize : Nat]]
BY Zenon DEF IInv, TypeOK

\* Using up a bounded event counts it.
LEMMA UseType ==
  ASSUME IInv, NEW n \in Node, NEW event \in {"close", "restart", "finalize"}, NEW bound,
         Use(n, event, bound)
  PROVE  used' \in [Node -> [close : Nat, restart : Nat, finalize : Nat]]
<1>1. used \in [Node -> [close : Nat, restart : Nat, finalize : Nat]]
  BY DEF IInv, TypeOK
<1> DEFINE k == used[n][event] + 1
<1>2. used' = [used EXCEPT ![n][event] = k]
  BY Zenon DEF Use
<1>3. k \in Nat
  BY <1>1
<1> HIDE DEF k
<1> QED
  BY <1>1, <1>2, <1>3

\* A process that has just started has no connection, and says so.
LEMMA NoConnGone == NoConn \in Conn /\ Gone(NoConn)
<1> DEFINE no == FALSE
           d == [NewConn EXCEPT !.present = no]
<1>1. no \in BOOLEAN /\ no = FALSE
  OBVIOUS
<1>2. NoConn = d
  BY Zenon DEF NoConn
<1> HIDE DEF no
<1>3. d \in Conn
  BY <1>1, NewConnType DEF Conn
<1>4. /\ d.present = no /\ d.outq = EmptyQueue /\ d.inq = EmptyQueue /\ d.state = "NONE"
      /\ d.shuttimer = FALSE /\ d.finalizetimer = FALSE /\ d.complained = FALSE
      /\ d.unacked = 0 /\ d.rexmit = "off"
  BY NewConnType DEF Conn
<1> HIDE DEF d
<1> QED
  BY <1>1, <1>2, <1>3, <1>4 DEF Gone, EmptyQueue

\* Initially there is no connection.
LEMMA InitInv == Init => IInv
<1> SUFFICES ASSUME Init PROVE IInv
  OBVIOUS
<1>1. ConnInv
  BY NoConnGone DEF Init, ConnInv
<1>2. TypeOK
  BY NoConnGone DEF Init, TypeOK
<1> QED
  BY <1>1, <1>2 DEF IInv

\* The calls of the application preserve the invariant.
LEMMA CallsInv ==
  ASSUME IInv, NEW n \in Node, Calls(n)
  PROVE  IInv'
<1>1. /\ Sound(conn[n]) \/ Gone(conn[n])
      /\ procSess[n] \in Nat /\ handed \in [Node -> Nat] /\ handed[n] \in Nat
      /\ toack \in [Node -> Seq(Seqno)] /\ seen \in [Node -> SUBSET Nat]
  BY DEF IInv, ConnInv, TypeOK
<1>2. Sound(AddConn(conn[n]))
  BY <1>1, AddConnSound
<1>3. ASSUME conn[n].present PROVE Sound(conn[n])
  BY <1>1, <1>3, Zenon DEF Gone
<1>4. "data" \in Kinds /\ NoSeqno \in Seqno
  BY SmallTypes DEF Kinds
<1>5. CASE Send(n)
  <2> DEFINE d == Send1(AddConn(conn[n]), "data", handed'[n], procSess[n])
  <2>1. handed' \in [Node -> Nat] /\ handed'[n] \in Nat
    <3> DEFINE k == handed[n] + 1
    <3>1. handed' = [handed EXCEPT ![n] = k]
      BY <1>5, Zenon DEF Send
    <3>2. k \in Nat
      BY <1>1
    <3> HIDE DEF k
    <3> QED
      BY <1>1, <3>1, <3>2
  <2>2. Sound(d)
    BY <1>1, <1>2, <1>4, <2>1, Send1Sound
  <2>3. Step(n, d, {}) /\ UNCHANGED <<procSess, toack, acked, seen, used>>
    BY <1>5, Zenon DEF Send
  <2> HIDE DEF d
  <2> QED
    BY <2>1, <2>2, <2>3, StepInv, RestUnchanged DEF IInv, TypeOK
<1>6. CASE SendList(n)
  <2> DEFINE first == Send1(AddConn(conn[n]), "data", handed[n] + 1, procSess[n])
             d == XmitIfWeCan(Send1(first, "data", handed'[n], procSess[n]))
  <2>1. handed' \in [Node -> Nat] /\ handed'[n] \in Nat /\ handed[n] + 1 \in Nat
    <3> DEFINE k == handed[n] + 2
    <3>1. handed' = [handed EXCEPT ![n] = k]
      BY <1>6, Zenon DEF SendList
    <3>2. k \in Nat /\ handed[n] + 1 \in Nat
      BY <1>1
    <3> HIDE DEF k
    <3> QED
      BY <1>1, <3>1, <3>2
  <2>2. Sound(first)
    BY <1>1, <1>2, <1>4, <2>1, Send1Sound, Zenon
  <2> HIDE DEF first
  <2>3. Sound(d)
    BY <1>1, <1>4, <2>1, <2>2, Send1Sound, XmitSound, Zenon
  <2>4. Step(n, d, {}) /\ UNCHANGED <<procSess, toack, acked, seen, used>>
    BY <1>6, Zenon DEF SendList, first
  <2> HIDE DEF d
  <2> QED
    BY <2>1, <2>3, <2>4, StepInv, RestUnchanged DEF IInv, TypeOK
<1>7. CASE Read(n)
  <2> DEFINE fs == Head(conn[n].inq.q)
             d == ReadOne(conn[n], procSess[n])
  <2>1. conn[n].inq.q # <<>>
    BY <1>7, Zenon DEF Read, Readable
  <2>2. Sound(conn[n])
    BY <1>1, <2>1, Zenon DEF Gone
  <2>3. Sound(d)
    BY <1>1, <2>1, <2>2, ReadOneSound
  <2>4. Step(n, d, {}) /\ UNCHANGED <<procSess, handed, acked, used>>
    BY <1>7, Zenon DEF Read
  <2>5. SeqnoOf(fs) \in Seqno /\ fs.val \in Nat
    <3>1. conn[n].inq \in Queue
      BY <2>2 DEF Sound, Conn
    <3>2. fs \in FrameSet
      BY <2>1, <3>1, DeqType
    <3> HIDE DEF fs
    <3> QED
      BY <3>2 DEF FrameSet, SeqnoOf, Seqno
  <2>6. toack' \in [Node -> Seq(Seqno)]
    <3> DEFINE t == Append(toack[n], SeqnoOf(fs))
    <3>1. toack' = [toack EXCEPT ![n] = t]
      BY <1>7, Zenon DEF Read
    <3>2. t \in Seq(Seqno)
      BY <1>1, <2>5, AppendProperties
    <3> HIDE DEF t
    <3> QED
      BY <1>1, <3>1, <3>2
  <2>7. seen' \in [Node -> SUBSET Nat]
    <3> DEFINE v == IF fs.kind = "data" THEN seen[n] \cup {fs.val} ELSE seen[n]
    <3>1. seen' = [seen EXCEPT ![n] = v]
      BY <1>7, Zenon DEF Read
    <3>2. v \in SUBSET Nat
      BY <1>1, <2>5
    <3> HIDE DEF v
    <3> QED
      BY <1>1, <3>1, <3>2
  <2> HIDE DEF d
  <2> QED
    BY <2>3, <2>4, <2>6, <2>7, StepInv, RestUnchanged DEF IInv, TypeOK
<1>8. CASE AckMessage(n)
  <2> DEFINE s == Head(toack[n])
             d == AckSeqno(conn[n], s)
             t == Tail(toack[n])
  <2>1. toack[n] # <<>> /\ conn[n].present /\ toack[n] \in Seq(Seqno)
    BY <1>1, <1>8 DEF AckMessage
  <2>2. s \in Seqno /\ t \in Seq(Seqno)
    BY <2>1, HeadTailProperties
  <2>3. Sound(d)
    BY <1>3, <2>1, <2>2, AckSeqnoSound
  <2>4. /\ Step(n, d, {}) /\ UNCHANGED <<procSess, handed, acked, seen, used>>
        /\ toack' = [toack EXCEPT ![n] = t]
    BY <1>8, Zenon DEF AckMessage
  <2> HIDE DEF d, t
  <2>5. toack' \in [Node -> Seq(Seqno)]
    BY <1>1, <2>2, <2>4
  <2> QED
    BY <2>3, <2>4, <2>5, StepInv, RestUnchanged DEF IInv, TypeOK
<1>9. CASE CloseConn(n)
  <2> DEFINE d == Fsa(conn[n], "REQSHUTDOWN", NoSeqno, procSess[n])
  <2>1. Sound(d)
    BY <1>1, <1>3, <1>4, <1>9, CloseSound, Zenon DEF CloseConn
  <2>2. /\ Step(n, d, {}) /\ UNCHANGED <<procSess, toack, handed, acked, seen>>
        /\ Use(n, "close", MaxClose)
    BY <1>9, Zenon DEF CloseConn
  <2>3. used' \in [Node -> [close : Nat, restart : Nat, finalize : Nat]]
    BY <2>2, UseType
  <2> HIDE DEF d
  <2> QED
    BY <2>1, <2>2, <2>3, StepInv, RestUnchanged DEF IInv, TypeOK
<1>10. CASE CloseAll(n)
  <2> DEFINE d == Destroy(conn[n])
  <2>1. Gone(d)
    BY <1>3, <1>10, DestroyGone, Zenon DEF CloseAll
  <2>2. /\ Step(n, d, {}) /\ UNCHANGED <<procSess, toack, handed, acked, seen>>
        /\ Use(n, "close", MaxClose)
    BY <1>10, Zenon DEF CloseAll
  <2>3. used' \in [Node -> [close : Nat, restart : Nat, finalize : Nat]]
    BY <2>2, UseType
  <2> HIDE DEF d
  <2> QED
    BY <2>1, <2>2, <2>3, StepInv, RestUnchanged DEF IInv, TypeOK
<1>11. CASE CountIdle(n)
  <2> DEFINE c == conn[n]
             no == FALSE
             d == [c EXCEPT !.shutdown_complete = no]
  <2>1. Sound(c) /\ no \in BOOLEAN
    BY <1>3, <1>11, Zenon DEF CountIdle
  <2>2. Step(n, d, {}) /\ UNCHANGED <<procSess, toack, handed, acked, seen, used>>
    BY <1>11, Zenon DEF CountIdle
  <2> HIDE DEF c, no
  <2>3. c \in Conn
    BY <2>1 DEF Sound
  <2>4. d \in Conn
    BY <2>1, <2>3 DEF Conn
  <2>5. /\ d.present = c.present /\ d.state = c.state /\ d.outq = c.outq
        /\ d.unacked = c.unacked /\ d.shuttimer = c.shuttimer /\ d.complained = c.complained
    BY <2>3 DEF Conn
  <2> HIDE DEF d
  <2>6. Sound(d)
    BY <2>1, <2>4, <2>5, SoundKept, Zenon
  <2> QED
    BY <2>2, <2>6, StepInv, RestUnchanged DEF IInv, TypeOK
<1> QED
  BY <1>5, <1>6, <1>7, <1>8, <1>9, <1>10, <1>11 DEF Calls

\* Receiving a frameset preserves the invariant.
LEMMA DeliverInv ==
  ASSUME IInv, NEW n \in Node, NEW kind \in Kinds, Deliver(n, kind)
  PROVE  IInv'
<1>1. PICK fs \in net[n] : /\ Receive(n, fs)
                           /\ UNCHANGED <<procSess, toack, handed, seen, used>>
  BY Zenon DEF Deliver
<1>2. /\ Sound(conn[n]) \/ Gone(conn[n])
      /\ net \in [Node -> SUBSET FrameSet] /\ acked \in [Node -> SUBSET Nat]
  BY DEF IInv, ConnInv, TypeOK
<1>3. fs \in FrameSet
  BY <1>1, <1>2
<1>4. SeqnoOf(fs) \in Seqno
  BY <1>3 DEF FrameSet, SeqnoOf, Seqno
<1> DEFINE c == AddConn(conn[n])
           s == SeqnoOf(fs)
<1>5. Sound(c) /\ c \in Conn
  BY <1>2, AddConnSound DEF Sound
<1>6. CASE fs.kind = "ack"
  <2> DEFINE vals == {c.outq.q[i].val : i \in DOMAIN c.outq.q \ Unacked(c.outq, s)} \ {0}
             a == acked[n] \cup (IF AckRefused(c.outq, s) THEN {} ELSE vals)
  <2>1. Step(n, ReceiveAck(c, s), {fs}) /\ acked' = [acked EXCEPT ![n] = a]
    BY <1>1, <1>6, Zenon DEF Receive
  <2>2. Sound(ReceiveAck(c, s))
    BY <1>4, <1>5, ReceiveAckSound
  <2>3. vals \in SUBSET Nat
    <3>1. \A i \in DOMAIN c.outq.q : c.outq.q[i] \in FrameSet
      BY <1>5, OutputType
    <3>2. \A i \in DOMAIN c.outq.q : c.outq.q[i].val \in Nat
      BY <3>1 DEF FrameSet
    <3> HIDE DEF c
    <3> QED
      BY <3>2
  <2> HIDE DEF vals
  <2>4. a \in SUBSET Nat
    BY <1>2, <2>3
  <2> HIDE DEF a
  <2>5. acked' \in [Node -> SUBSET Nat]
    BY <1>2, <2>1, <2>4
  <2> QED
    BY <1>1, <2>1, <2>2, <2>5, StepInv, RestUnchanged DEF IInv, TypeOK
<1>7. CASE fs.kind # "ack"
  <2>1. Step(n, ReceiveSequenced(c, fs), {fs}) /\ UNCHANGED acked
    BY <1>1, <1>7, Zenon DEF Receive
  <2>2. Sound(ReceiveSequenced(c, fs))
    BY <1>3, <1>5, ReceiveSequencedSound
  <2> QED
    BY <1>1, <2>1, <2>2, StepInv, RestUnchanged DEF IInv, TypeOK
<1> QED
  BY <1>6, <1>7

\* The timers preserve the invariant.
LEMMA TimersInv ==
  ASSUME IInv, NEW n \in Node, Timers(n)
  PROVE  IInv'
<1>1. /\ Sound(conn[n]) \/ Gone(conn[n])
      /\ conn \in [Node -> Conn] /\ net \in [Node -> SUBSET FrameSet] /\ ConnInv
  BY DEF IInv, ConnInv, TypeOK
<1>2. CASE RexmitDue(n)
  <2> DEFINE c == conn[n]
             r == "due"
             d == [c EXCEPT !.rexmit = r]
  <2>1. Sound(c) /\ r \in Rexmit
    <3>1. c.rexmit # "off"
      BY <1>2 DEF RexmitDue
    <3> QED
      BY <1>1, <3>1, SmallTypes, Zenon DEF Gone
  <2>2. conn' = [conn EXCEPT ![n] = d] /\ UNCHANGED <<net, procSess, toack, handed, acked, seen, used>>
    BY <1>2, Zenon DEF RexmitDue
  <2> HIDE DEF c, r
  <2>3. Sound(d)
    BY <2>1, RexmitSound
  <2> HIDE DEF d
  <2>4. d \in Conn
    BY <2>3 DEF Sound
  <2>5. conn' \in [Node -> Conn] /\ \A m \in Node : conn'[m] = IF m = n THEN d ELSE conn[m]
    BY <1>1, <2>2, <2>4
  <2>6. ConnInv'
    BY <1>1, <2>3, <2>5, Zenon DEF ConnInv
  <2>7. net' \in [Node -> SUBSET FrameSet]
    BY <1>1, <2>2
  <2> QED
    BY <2>2, <2>5, <2>6, <2>7, RestUnchanged DEF IInv, TypeOK
<1>3. CASE Timeout(n)
  <2> DEFINE d == XmitIfWeCan(conn[n])
  <2>1. Step(n, d, {}) /\ UNCHANGED <<procSess, toack, handed, acked, seen, used>>
    BY <1>3, Zenon DEF Timeout
  <2>2. conn[n].rexmit # "off"
    BY <1>3 DEF Timeout
  <2>3. Sound(d)
    BY <1>1, <2>2, XmitSound, Zenon DEF Gone
  <2> HIDE DEF d
  <2> QED
    BY <2>1, <2>3, StepInv, RestUnchanged DEF IInv, TypeOK
<1>4. CASE ShutTimeout(n)
  <2> DEFINE d == FsaQuiet(conn[n], "SHUT_TO")
  <2>1. Step(n, d, {}) /\ UNCHANGED <<procSess, toack, handed, acked, seen, used>>
    BY <1>4, Zenon DEF ShutTimeout
  <2>2. Sound(d)
    BY <1>1, <1>4, ShutTimeoutSound, Zenon DEF Gone, ShutTimeout
  <2> HIDE DEF d
  <2> QED
    BY <2>1, <2>2, StepInv, RestUnchanged DEF IInv, TypeOK
<1>5. CASE FinalizeTimeout(n)
  <2> DEFINE c == conn[n]
             no == FALSE
             d == [c EXCEPT !.finalizetimer = no]
  <2>1. Sound(c) /\ no \in BOOLEAN
    BY <1>1, <1>5, Zenon DEF Gone, FinalizeTimeout
  <2>2. UNCHANGED <<procSess, toack, handed, acked, seen>>
    BY <1>5, Zenon DEF FinalizeTimeout
  <2>3. \/ Step(n, d, {}) /\ UNCHANGED used
        \/ Step(n, Destroy(c), {}) /\ Use(n, "finalize", MaxFinalize)
    BY <1>5, Zenon DEF FinalizeTimeout
  <2> HIDE DEF c, no
  <2>4. Sound(d)
    <3>1. c \in Conn
      BY <2>1 DEF Sound
    <3>2. d \in Conn
      BY <2>1, <3>1 DEF Conn
    <3>3. /\ d.present = c.present /\ d.state = c.state /\ d.outq = c.outq
          /\ d.unacked = c.unacked /\ d.shuttimer = c.shuttimer /\ d.complained = c.complained
      BY <3>1 DEF Conn
    <3> HIDE DEF d
    <3> QED
      BY <2>1, <3>2, <3>3, SoundKept, Zenon
  <2>5. Gone(Destroy(c))
    BY <2>1, DestroyGone
  <2> HIDE DEF d
  <2>6. CASE Step(n, d, {}) /\ UNCHANGED used
    BY <2>2, <2>4, <2>6, StepInv, RestUnchanged DEF IInv, TypeOK
  <2>7. CASE Step(n, Destroy(c), {}) /\ Use(n, "finalize", MaxFinalize)
    <3>1. used' \in [Node -> [close : Nat, restart : Nat, finalize : Nat]]
      BY <2>7, UseType
    <3> QED
      BY <2>2, <2>5, <2>7, <3>1, StepInv, RestUnchanged DEF IInv, TypeOK
  <2> QED
    BY <2>3, <2>6, <2>7
<1> QED
  BY <1>2, <1>3, <1>4, <1>5 DEF Timers

\* A crash and a lost frameset preserve the invariant.
LEMMA EnvironmentInv ==
  ASSUME IInv, NEW n \in Node, Restart(n) \/ Lose(n)
  PROVE  IInv'
<1>1. /\ conn \in [Node -> Conn] /\ net \in [Node -> SUBSET FrameSet] /\ ConnInv
      /\ procSess \in [Node -> Nat] /\ toack \in [Node -> Seq(Seqno)]
  BY DEF IInv, TypeOK
<1>2. CASE Restart(n)
  <2> DEFINE k == procSess[n] + SessStep
             e == <<>>
  <2>1. /\ conn' = [conn EXCEPT ![n] = NoConn]
        /\ procSess' = [procSess EXCEPT ![n] = k] /\ toack' = [toack EXCEPT ![n] = e]
        /\ UNCHANGED <<net, handed, acked, seen>> /\ Use(n, "restart", MaxRestart)
    BY <1>2, Zenon DEF Restart
  <2>2. k \in Nat /\ e \in Seq(Seqno)
    BY <1>1, TimerAssumption
  <2>3. NoConn \in Conn /\ Gone(NoConn)
    BY NoConnGone
  <2> HIDE DEF k, e
  <2>4. conn' \in [Node -> Conn] /\ \A m \in Node : conn'[m] = IF m = n THEN NoConn ELSE conn[m]
    BY <1>1, <2>1, <2>3
  <2>5. ConnInv'
    BY <1>1, <2>3, <2>4, Zenon DEF ConnInv
  <2>6. procSess' \in [Node -> Nat] /\ toack' \in [Node -> Seq(Seqno)]
    BY <1>1, <2>1, <2>2
  <2>7. used' \in [Node -> [close : Nat, restart : Nat, finalize : Nat]]
    BY <2>1, UseType
  <2>8. net' \in [Node -> SUBSET FrameSet]
    BY <1>1, <2>1
  <2> QED
    BY <2>1, <2>4, <2>5, <2>6, <2>7, <2>8, RestUnchanged DEF IInv, TypeOK
<1>3. CASE Lose(n)
  <2>1. PICK fs \in net[n] : net' = [net EXCEPT ![n] = net[n] \ {fs}]
    BY <1>3, Zenon DEF Lose
  <2>2. UNCHANGED <<conn, procSess, toack, handed, acked, seen, used>>
    BY <1>3, Zenon DEF Lose
  <2> DEFINE a == net[n] \ {fs}
  <2>3. a \in SUBSET FrameSet
    BY <1>1
  <2> HIDE DEF a
  <2>4. net' \in [Node -> SUBSET FrameSet]
    <3>1. net' = [net EXCEPT ![n] = a]
      BY <2>1, Zenon DEF a
    <3> QED
      BY <1>1, <2>3, <3>1
  <2>5. conn' \in [Node -> Conn] /\ ConnInv'
    BY <1>1, <2>2 DEF ConnInv
  <2> QED
    BY <2>2, <2>4, <2>5, RestUnchanged DEF IInv, TypeOK
<1> QED
  BY <1>2, <1>3

\* A step that changes nothing preserves the invariant.
LEMMA StutterInv ==
  ASSUME IInv, UNCHANGED vars
  PROVE  IInv'
<1>1. /\ conn \in [Node -> Conn] /\ net \in [Node -> SUBSET FrameSet] /\ ConnInv
  BY DEF IInv, TypeOK
<1>2. /\ conn' = conn /\ net' = net /\ procSess' = procSess /\ toack' = toack
      /\ handed' = handed /\ acked' = acked /\ seen' = seen /\ used' = used
  BY Zenon DEF vars
<1>3. conn' \in [Node -> Conn] /\ net' \in [Node -> SUBSET FrameSet] /\ ConnInv'
  BY <1>1, <1>2 DEF ConnInv
<1> QED
  BY <1>2, <1>3, RestUnchanged DEF IInv, TypeOK

\* The inductive invariant: types, and every connection sound or gone.
THEOREM Invariance == Spec => []IInv
<1>1. Init => IInv
  BY InitInv
<1>2. IInv /\ [Next]_vars => IInv'
  <2> SUFFICES ASSUME IInv, [Next]_vars PROVE IInv'
    OBVIOUS
  <2>1. CASE UNCHANGED vars
    BY <2>1, StutterInv
  <2>2. CASE Next
    <3>1. PICK n \in Node : \/ Calls(n) \/ Timers(n) \/ Restart(n) \/ Lose(n)
                            \/ \E kind \in Kinds : Deliver(n, kind)
      BY <2>2, Zenon DEF Next
    <3> QED
      BY <3>1, CallsInv, TimersInv, EnvironmentInv, DeliverInv, Zenon
  <2> QED
    BY <2>1, <2>2
<1> QED
  BY <1>1, <1>2, PTL DEF Spec

\* Every variable keeps its type, whatever the bounds.
THEOREM TypeCorrect == Spec => []TypeOK
<1>1. IInv => TypeOK
  BY DEF IInv
<1> QED
  BY <1>1, Invariance, PTL

\* The audit of _fsprotocol_auditfspe never fails: a connection is in the unacked
\* list once while it has output and not at all otherwise.
THEOREM UnackedAudited == Spec => []UnackedAudit
<1>1. IInv => UnackedAudit
  BY DEF IInv, ConnInv, UnackedAudit, Sound, Gone, Listed
<1> QED
  BY <1>1, Invariance, PTL

\* The shutdown timer runs exactly in the three shutdown states.
THEOREM TimerRight == Spec => []TimerOnlyInShutdown
<1>1. IInv => TimerOnlyInShutdown
  <2> SUFFICES ASSUME IInv, NEW n \in Node
               PROVE  conn[n].shuttimer = InShutdown(conn[n].state)
    BY Zenon DEF TimerOnlyInShutdown
  <2>1. CASE Sound(conn[n])
    BY <2>1, Zenon DEF Sound
  <2>2. CASE Gone(conn[n])
    <3>1. conn[n].shuttimer \in BOOLEAN
      BY <2>2 DEF Gone, Conn
    <3>2. InShutdown(conn[n].state) = FALSE
      BY <2>2 DEF Gone, InShutdown
    <3> QED
      BY <2>2, <3>1, <3>2, Zenon DEF Gone
  <2> QED
    BY <2>1, <2>2, Zenon DEF IInv, ConnInv
<1> QED
  BY <1>1, Invariance, PTL

\* The automaton never gets an input its table calls impossible, and never closes
\* a connection that has output left.
THEOREM NeverComplains == Spec => []NoComplaint
<1>1. IInv => NoComplaint
  BY Zenon DEF IInv, ConnInv, NoComplaint, Sound, Gone
<1> QED
  BY <1>1, Invariance, PTL


-------------------------------------------------------------------------------
(* What the operators do to the framesets of a connection.  Apart from queueing *)
(* a new frameset, taking acknowledged ones off, and storing and reading input, *)
(* a C function leaves each side of the connection alone or resets it, and      *)
(* sends what the window allows and acknowledgements.                           *)

\* What of a queue may have been sent: all of it, or only its head if the window
\* is the one of fsprotocol.h.
Due(fq) == {fq.q[i] : i \in {j \in DOMAIN fq.q : j = 1 \/ Window > 2}}

Acks(K) == {AckFrameSet(k) : k \in K}

OutputKept(c, d) ==
  \/ d.outq = c.outq
  \/ /\ d.outq.q = <<>> /\ d.outq.next = 1
     /\ IF c.outq.sess = 0 THEN d.outq.sess = 0 ELSE d.outq.sess > c.outq.sess

InputKept(c, d) ==
  \/ d.inq = c.inq /\ d.got = c.got
  \/ d.inq = EmptyQueue /\ d.got = <<>>

\* Only the numbers in K are acknowledged.
Quiet(c, d, K) ==
  /\ OutputKept(c, d)
  /\ InputKept(c, d)
  /\ d.tx \subseteq c.tx \cup Due(c.outq) \cup Acks(K)
  /\ d.lastacksent \in {c.lastacksent} \cup K

\* Doing nothing is quiet.
LEMMA QuietSame == ASSUME NEW c, NEW K PROVE Quiet(c, c, K)
BY DEF Quiet, OutputKept, InputKept

\* A connection that sends nothing and keeps its queues is quiet.
LEMMA QuietFields ==
  ASSUME NEW c, NEW d, NEW K,
         d.outq = c.outq, d.inq = c.inq, d.got = c.got, d.tx = c.tx,
         d.lastacksent = c.lastacksent
  PROVE  Quiet(c, d, K)
BY Zenon DEF Quiet, OutputKept, InputKept

\* One quiet function after another is quiet.
LEMMA QuietTrans ==
  ASSUME NEW c \in Conn, NEW d \in Conn, NEW e \in Conn, NEW K,
         Quiet(c, d, K), Quiet(d, e, K)
  PROVE  Quiet(c, e, K)
<1>1. /\ OutputKept(c, d) /\ OutputKept(d, e) /\ InputKept(c, d) /\ InputKept(d, e)
      /\ d.tx \subseteq c.tx \cup Due(c.outq) \cup Acks(K)
      /\ e.tx \subseteq d.tx \cup Due(d.outq) \cup Acks(K)
      /\ d.lastacksent \in {c.lastacksent} \cup K
      /\ e.lastacksent \in {d.lastacksent} \cup K
  BY Zenon DEF Quiet
<1>2. c.outq.sess \in Nat /\ d.outq.sess \in Nat /\ e.outq.sess \in Nat
  BY DEF Conn, Queue
<1>3. OutputKept(c, e)
  BY <1>1, <1>2 DEF OutputKept
<1>4. InputKept(c, e)
  BY <1>1, Zenon DEF InputKept
<1>5. Due(d.outq) \subseteq Due(c.outq)
  <2>1. CASE d.outq = c.outq
    BY <2>1
  <2>2. CASE d.outq.q = <<>>
    BY <2>2 DEF Due
  <2> QED
    BY <1>1, <2>1, <2>2 DEF OutputKept
<1>6. e.tx \subseteq c.tx \cup Due(c.outq) \cup Acks(K)
  BY <1>1, <1>5, Zenon
<1>7. e.lastacksent \in {c.lastacksent} \cup K
  BY <1>1, Zenon
<1> QED
  BY <1>3, <1>4, <1>6, <1>7, Zenon DEF Quiet

\* Sending what is new is quiet.
LEMMA SendNewQuiet ==
  ASSUME NEW c \in Conn, NEW K
  PROVE  Quiet(c, SendNew(c), K)
<1>1. CASE Len(c.outq.q) < Window /\ Unsent(c) # {}
  <2> DEFINE x == c.tx \cup {c.outq.q[i] : i \in Unsent(c)}
             s == SeqnoOf(c.outq.q[Len(c.outq.q)])
             d == [c EXCEPT !.tx = x, !.lastseqsent = s]
  <2>1. SendNew(c) = d
    BY <1>1, Zenon DEF SendNew
  <2>2. {c.outq.q[i] : i \in Unsent(c)} \subseteq Due(c.outq)
    <3>1. c.outq.q \in Seq(FrameSet)
      BY OutputType
    <3>2. ASSUME NEW i \in Unsent(c) PROVE i \in DOMAIN c.outq.q /\ (i = 1 \/ Window > 2)
      <4>1. i \in DOMAIN c.outq.q
        BY DEF Unsent
      <4>2. i \in 1..Len(c.outq.q) /\ Len(c.outq.q) \in Nat
        BY <3>1, <4>1
      <4> QED
        BY <1>1, <4>1, <4>2, WindowAssumption
    <3> QED
      BY <3>2 DEF Due
  <2>3. x \subseteq c.tx \cup Due(c.outq) \cup Acks(K)
    BY <2>2
  <2> HIDE DEF x, s
  <2>4. /\ d.outq = c.outq /\ d.inq = c.inq /\ d.got = c.got
        /\ d.lastacksent = c.lastacksent /\ d.tx = x
    BY DEF Conn
  <2> HIDE DEF d
  <2> QED
    BY <2>1, <2>3, <2>4, Zenon DEF Quiet, OutputKept, InputKept
<1>2. CASE ~(Len(c.outq.q) < Window /\ Unsent(c) # {})
  BY <1>2, QuietSame, Zenon DEF SendNew
<1> QED
  BY <1>1, <1>2

\* Resetting a connection is quiet.
LEMMA ReinitQuiet ==
  ASSUME NEW c \in Conn, NEW K, NoSeqno \in K
  PROVE  Quiet(c, Reinit(c), K)
<1> DEFINE o == [q |-> <<>>, next |-> 1, sess |-> IF c.outq.sess = 0 THEN 0 ELSE c.outq.sess + 1]
           u == IF c.outq.q = <<>> THEN c.unacked ELSE Remove(c.unacked)
           i == IF c.inq.q = <<>> THEN c.ipend ELSE Remove(c.ipend)
           r == IF c.inq.q = <<>> THEN c.isready ELSE FALSE
           eq == EmptyQueue
           ns == NoSeqno  none == "NONE"  off == "off"  zero == 0  no == FALSE  empty == <<>>
           d == [c EXCEPT !.state = none, !.outq = o, !.unacked = u, !.inq = eq,
                          !.ipend = i, !.isready = r, !.lastacksent = ns,
                          !.lastseqsent = ns, !.rexmit = off, !.tries = zero,
                          !.shuttimer = no, !.finalizetimer = no,
                          !.shutdown_complete = no, !.got = empty]
<1>1. Reinit(c) = d
  BY Zenon DEF Reinit
<1>2. /\ o.q = <<>> /\ o.next = 1
      /\ IF c.outq.sess = 0 THEN o.sess = 0 ELSE o.sess > c.outq.sess
  <2>1. c.outq.sess \in Nat
    BY DEF Conn, Queue
  <2> QED
    BY <2>1
<1>3. empty = <<>>
  OBVIOUS
<1> HIDE DEF o, u, i, r, eq, ns, none, off, zero, no, empty
<1>4. /\ d.outq = o /\ d.inq = eq /\ d.got = empty /\ d.lastacksent = ns /\ d.tx = c.tx
  BY DEF Conn
<1> HIDE DEF d
<1>5. eq = EmptyQueue /\ ns = NoSeqno
  BY DEF eq, ns
<1>6. OutputKept(c, d)
  BY <1>2, <1>4, Zenon DEF OutputKept
<1>7. InputKept(c, d)
  BY <1>3, <1>4, <1>5, Zenon DEF InputKept
<1> QED
  BY <1>1, <1>4, <1>5, <1>6, <1>7, Zenon DEF Quiet

\* Whatever the automaton does after it has sent something is quiet.
LEMMA FinishQuiet ==
  ASSUME NEW c \in Conn, NEW state, NEW input, NEW K, NoSeqno \in K
  PROVE  Quiet(c, FsaFinish(c, state, input), K)
<1> DEFINE acts == Actions[state][input]
           next == NextState[state][input]
           t == (c.shuttimer \/ "TIMER" \in acts) /\ ~("NOTIME" \in acts)
           timed == [c EXCEPT !.shuttimer = t]
           r == Reinit(timed)
           yes == TRUE
           shut == [r EXCEPT !.shutdown_complete = yes, !.finalizetimer = yes]
           closed == IF "CLOSE" \in acts THEN shut ELSE timed
           w == \/ closed.complained
                \/ "OOPS" \in acts
                \/ next = "NONE" /\ state # "NONE" /\ closed.outq.q # <<>>
           d == [closed EXCEPT !.state = next, !.complained = w]
<1>1. FsaFinish(c, state, input) = d
  BY Zenon DEF FsaFinish
<1>2. t \in BOOLEAN /\ yes \in BOOLEAN /\ w \in BOOLEAN
  BY Zenon
<1> HIDE DEF t, yes
<1>3. /\ timed \in Conn
      /\ timed.outq = c.outq /\ timed.inq = c.inq /\ timed.got = c.got
      /\ timed.tx = c.tx /\ timed.lastacksent = c.lastacksent
  BY <1>2 DEF Conn
<1>4. Quiet(c, timed, K)
  BY <1>3, QuietFields, Zenon
<1> HIDE DEF timed
<1>5. r \in Conn /\ Quiet(timed, r, K)
  BY <1>3, ReinitQuiet, ReinitType
<1> HIDE DEF r
<1>6. /\ shut \in Conn
      /\ shut.outq = r.outq /\ shut.inq = r.inq /\ shut.got = r.got
      /\ shut.tx = r.tx /\ shut.lastacksent = r.lastacksent
  BY <1>2, <1>5 DEF Conn
<1>7. Quiet(c, shut, K)
  <2>1. Quiet(r, shut, K)
    BY <1>6, QuietFields, Zenon
  <2>2. Quiet(c, r, K)
    BY <1>3, <1>4, <1>5, QuietTrans
  <2> HIDE DEF shut
  <2> QED
    BY <1>5, <1>6, <2>1, <2>2, QuietTrans
<1> HIDE DEF shut
<1>8. closed \in Conn /\ Quiet(c, closed, K)
  BY <1>3, <1>4, <1>6, <1>7, Zenon
<1> HIDE DEF closed, w, next
<1>9. /\ d.outq = closed.outq /\ d.inq = closed.inq /\ d.got = closed.got
      /\ d.tx = closed.tx /\ d.lastacksent = closed.lastacksent
  BY <1>8 DEF Conn
<1> HIDE DEF d
<1> QED
  BY <1>1, <1>8, <1>9, Zenon DEF Quiet, OutputKept, InputKept

\* Sending the oldest frameset again, or giving up on it, is quiet.
LEMMA RetransmitQuiet ==
  ASSUME NEW c, Sound(c), c.outq.q # <<>>, NEW K, NoSeqno \in K
  PROVE  Quiet(c, Retransmit(c), K)
<1> DEFINE x == c.tx \cup {Head(c.outq.q)}
           r == "armed"
           again == [c EXCEPT !.tx = x, !.rexmit = r]
           e == FsaQuiet(again, "ACKTIMEOUT")
           z == 0
           k == again.tries + 1
           one == [again EXCEPT !.tries = k]
           all == [e EXCEPT !.tries = z]
<1>1. c \in Conn /\ c.tx \in SUBSET FrameSet /\ c.state # "NONE"
  BY DEF Sound, Conn
<1>2. x \in SUBSET FrameSet /\ r \in Rexmit
  BY <1>1, OutputType, SmallTypes
<1>3. Retransmit(c) = IF c.tries < AckTries THEN one ELSE all
  BY Zenon DEF Retransmit
<1>4. Head(c.outq.q) \in Due(c.outq)
  <2>1. c.outq.q \in Seq(FrameSet)
    BY <1>1, OutputType
  <2>2. 1 \in DOMAIN c.outq.q /\ Head(c.outq.q) = c.outq.q[1]
    BY <2>1
  <2> QED
    BY <2>2 DEF Due
<1>5. x \subseteq c.tx \cup Due(c.outq) \cup Acks(K)
  BY <1>4
<1> HIDE DEF x, r
<1>6. again \in Conn
  BY <1>1, <1>2 DEF Conn
<1>7. /\ again.outq = c.outq /\ again.inq = c.inq /\ again.got = c.got
      /\ again.lastacksent = c.lastacksent /\ again.tx = x
      /\ again.present = c.present /\ again.state = c.state
      /\ again.unacked = c.unacked /\ again.shuttimer = c.shuttimer
      /\ again.complained = c.complained
  BY <1>1 DEF Conn
<1> HIDE DEF again
<1>8. Quiet(c, again, K)
  BY <1>5, <1>7, Zenon DEF Quiet, OutputKept, InputKept
<1>9. Sound(again)
  BY <1>6, <1>7, SoundKept, Zenon
<1>10. e \in Conn /\ Quiet(again, e, K)
  <2>1. Sound(e)
    BY <1>1, <1>7, <1>9, GiveUpSound, Zenon
  <2>2. Quiet(again, e, K)
    BY <1>6, FinishQuiet, Zenon DEF FsaQuiet
  <2> QED
    BY <2>1, <2>2 DEF Sound
<1> HIDE DEF e, k, z
<1>11. Quiet(c, one, K)
  <2>1. /\ one.outq = again.outq /\ one.inq = again.inq /\ one.got = again.got
        /\ one.tx = again.tx /\ one.lastacksent = again.lastacksent
    BY <1>6 DEF Conn
  <2> HIDE DEF one
  <2> QED
    BY <1>8, <2>1, Zenon DEF Quiet, OutputKept, InputKept
<1>12. Quiet(c, all, K)
  <2>1. /\ all.outq = e.outq /\ all.inq = e.inq /\ all.got = e.got
        /\ all.tx = e.tx /\ all.lastacksent = e.lastacksent
    BY <1>10 DEF Conn
  <2> HIDE DEF all
  <2>2. Quiet(c, e, K)
    BY <1>1, <1>6, <1>8, <1>10, QuietTrans
  <2> QED
    BY <2>1, <2>2, Zenon DEF Quiet, OutputKept, InputKept
<1> QED
  BY <1>3, <1>11, <1>12, Zenon

\* xmitifwecan is quiet.
LEMMA XmitQuiet ==
  ASSUME NEW c0, Sound(c0), NEW K, NoSeqno \in K
  PROVE  Quiet(c0, XmitIfWeCan(c0), K)
<1> DEFINE c == SendNew(c0)
           armed == [c EXCEPT !.rexmit = "armed"]
           off == [c EXCEPT !.rexmit = "off"]
<1>1. Sound(c) /\ Quiet(c0, c, K) /\ c0 \in Conn
  <2>1. c0 \in Conn
    BY DEF Sound
  <2> QED
    BY <2>1, SendNewSound, SendNewQuiet
<1>2. XmitIfWeCan(c0) =
        CASE c.rexmit = "off" /\ c.outq.q # <<>> -> armed
          [] c.rexmit = "due" /\ c.outq.q # <<>> -> Retransmit(c)
          [] c.rexmit = "due" /\ c.outq.q = <<>> -> off
          [] OTHER                               -> c
  BY Zenon DEF XmitIfWeCan
<1> HIDE DEF c
<1>3. c \in Conn
  BY <1>1 DEF Sound
<1>4. Quiet(c0, armed, K)
  <2>1. /\ armed.outq = c.outq /\ armed.inq = c.inq /\ armed.got = c.got
        /\ armed.tx = c.tx /\ armed.lastacksent = c.lastacksent
    BY <1>3 DEF Conn
  <2> HIDE DEF armed
  <2> QED
    BY <1>1, <2>1, Zenon DEF Quiet, OutputKept, InputKept
<1>5. Quiet(c0, off, K)
  <2>1. /\ off.outq = c.outq /\ off.inq = c.inq /\ off.got = c.got
        /\ off.tx = c.tx /\ off.lastacksent = c.lastacksent
    BY <1>3 DEF Conn
  <2> HIDE DEF off
  <2> QED
    BY <1>1, <2>1, Zenon DEF Quiet, OutputKept, InputKept
<1>6. ASSUME c.outq.q # <<>> PROVE Quiet(c0, Retransmit(c), K)
  <2>1. Quiet(c, Retransmit(c), K)
    BY <1>1, <1>6, RetransmitQuiet
  <2>2. Retransmit(c) \in Conn
    BY <1>1, <1>6, RetransmitSound DEF Sound
  <2> QED
    BY <1>1, <1>3, <2>1, <2>2, QuietTrans
<1> HIDE DEF armed, off
<1> QED
  BY <1>1, <1>2, <1>4, <1>5, <1>6, Zenon

\* Sending an ACK is quiet, and acknowledges what it is asked to.
LEMMA AckSeqnoQuiet ==
  ASSUME NEW c \in Conn, NEW K, NEW s \in K
  PROVE  Quiet(c, AckSeqno(c, s), K)
<1> DEFINE x == c.tx \cup {AckFrameSet(s)}
           l == IF Before(c.lastacksent, s) THEN s ELSE c.lastacksent
           d == [c EXCEPT !.tx = x, !.lastacksent = l]
<1>1. AckSeqno(c, s) = IF c.inq.sess \notin {0, s[1]} THEN c ELSE d
  BY Zenon DEF AckSeqno
<1>2. x \subseteq c.tx \cup Due(c.outq) \cup Acks(K)
  BY DEF Acks
<1>3. l \in {c.lastacksent} \cup K
  OBVIOUS
<1> HIDE DEF x, l
<1>4. d.outq = c.outq /\ d.inq = c.inq /\ d.got = c.got /\ d.lastacksent = l /\ d.tx = x
  BY DEF Conn
<1> HIDE DEF d
<1>5. Quiet(c, d, K)
  BY <1>2, <1>3, <1>4, Zenon DEF Quiet, OutputKept, InputKept
<1> QED
  BY <1>1, <1>5, QuietSame, Zenon

\* Repeating an ACK is quiet.
LEMMA AckAgainQuiet ==
  ASSUME NEW c \in Conn, NEW K, c.lastacksent \in K, NEW fs
  PROVE  Quiet(c, AckAgain(c, fs), K)
BY AckSeqnoQuiet, QuietSame, Zenon DEF AckAgain

\* Marking a connection as one with input is quiet.
LEMMA MarkReadyQuiet ==
  ASSUME NEW c \in Conn, NEW K, NEW fs
  PROVE  Quiet(c, MarkReady(c, fs), K)
<1> DEFINE i == c.ipend + 1
           yes == TRUE
           d == [c EXCEPT !.ipend = i, !.isready = yes]
<1>1. MarkReady(c, fs) = IF ~c.isready /\ fs.seq = c.inq.next THEN d ELSE c
  BY Zenon DEF MarkReady
<1> HIDE DEF i, yes
<1>2. /\ d.outq = c.outq /\ d.inq = c.inq /\ d.got = c.got
      /\ d.lastacksent = c.lastacksent /\ d.tx = c.tx
  BY DEF Conn
<1> HIDE DEF d
<1> QED
  BY <1>1, <1>2, QuietFields, QuietSame, Zenon

-------------------------------------------------------------------------------
(* The numbers of the framesets one end sends, and the order in which the other *)
(* reads them.  Pool(n) is what n has sent and its peer has not read, on the    *)
(* network and in the queue of input; Sending adds what n is about to send and  *)
(* what is queued.                                                             *)

Sequenced(F) == {f \in F : f.kind # "ack"}

Pool(n) == Sequenced(net[Peer(n)]) \cup Held(conn[Peer(n)].inq)

Sending(c, P) == P \cup Sequenced(c.tx) \cup Held(c.outq)

\* What was sent comes before what is going to be sent.
Past(c, sess, f) ==
  IF c.outq.sess = 0 THEN f.sess < sess ELSE Before(SeqnoOf(f), Top(c.outq))

\* No number is given twice, and data is numbered in the order it was sent.
Numbered(c, P, sess, h) ==
  /\ \A f \in Sending(c, P) :
       /\ f.sess > 0 /\ Past(c, sess, f)
       /\ f.kind = "data" => 0 < f.val /\ f.val <= h
  /\ \A f, g \in Sending(c, P) :
       /\ SeqnoOf(f) = SeqnoOf(g) => f = g
       /\ f.kind = "data" /\ g.kind = "data" /\ Before(SeqnoOf(f), SeqnoOf(g)) => f.val < g.val

\* What was read is in order, and comes before whatever can still be read of S.
InOrder(c, S, h) ==
  /\ OneSession(c.inq)
  /\ c.inq.sess = 0 => c.got = <<>>
  /\ \A i \in DOMAIN c.got : c.got[i] <= h
  /\ \A i \in DOMAIN c.got : \A f \in S :
       f.kind = "data" /\ ~Before(SeqnoOf(f), Top(c.inq)) => c.got[i] < f.val
  /\ \A i, j \in DOMAIN c.got : i < j => c.got[i] < c.got[j]

Flow(n) ==
  LET c == conn[n]
      p == Peer(n)
  IN  /\ c.tx = {}
      /\ ~c.present => c.outq = EmptyQueue /\ c.inq = EmptyQueue /\ c.got = <<>>
      /\ procSess[n] > 0 /\ c.outq.sess < procSess[n] + SessStep
      /\ Numbered(c, Pool(n), procSess[n], handed[n])
      /\ InOrder(c, Sending(conn[p], Pool(p)), handed[p])

Flows == \A n \in Node : Flow(n)

\* What c may be while an action of n runs that has handed over h framesets.
Moves(n, c, h) ==
  LET p == Peer(n)
  IN  /\ h \in Nat /\ handed[n] <= h
      /\ Numbered(c, Pool(n), procSess[n], h)
      /\ \A f \in Sending(c, Pool(n)) :
           f \in Sending(conn[n], Pool(n)) \/ (f.kind = "data" => handed[n] < f.val)
      /\ Held(c.inq) \subseteq Pool(p)
      /\ InOrder(c, Sending(conn[p], Pool(p)), handed[p])

\* The peer of an end is the other end.
LEMMA PeerType ==
  ASSUME NEW n \in Node
  PROVE  Peer(n) \in Node /\ Peer(n) # n /\ Peer(Peer(n)) = n
BY NodeAssumption DEF Peer, Node

\* What is on its way consists of framesets.
LEMMA PoolType ==
  ASSUME IInv, NEW n \in Node
  PROVE  Pool(n) \subseteq FrameSet
<1> DEFINE p == Peer(n)
<1>1. p \in Node
  BY PeerType
<1>2. net[p] \subseteq FrameSet /\ conn[p] \in Conn
  BY <1>1 DEF IInv, TypeOK
<1> HIDE DEF p
<1>3. conn[p].inq \in Queue
  BY <1>2 DEF Conn
<1>4. Held(conn[p].inq) \subseteq FrameSet
  BY <1>3, HeldType
<1>5. Sequenced(net[p]) \subseteq FrameSet
  BY <1>2 DEF Sequenced
<1> QED
  BY <1>4, <1>5 DEF Pool, p

\* So does what an end sends.
LEMMA SendingType ==
  ASSUME NEW c \in Conn, NEW P \in SUBSET FrameSet
  PROVE  Sending(c, P) \subseteq FrameSet
<1>1. c.outq \in Queue /\ c.tx \subseteq FrameSet
  BY DEF Conn
<1>2. Held(c.outq) \subseteq FrameSet
  BY <1>1, HeldType
<1> QED
  BY <1>1, <1>2 DEF Sending, Sequenced

\* A connection that sends less, numbers on and keeps or resets its input may take
\* the place of another one.
LEMMA LessMoves ==
  ASSUME IInv, NEW n \in Node, NEW c \in Conn, NEW d \in Conn, NEW h, Moves(n, c, h),
         Sending(d, Pool(n)) \subseteq Sending(c, Pool(n)),
         c.outq.sess = 0 => d.outq.sess = 0,
         c.outq.sess # 0 => d.outq.sess # 0 /\ ~Before(Top(d.outq), Top(c.outq)),
         InputKept(c, d)
  PROVE  Moves(n, d, h)
<1> DEFINE P == Pool(n)
           p == Peer(n)
           S == Sending(conn[p], Pool(p))
<1>1. /\ h \in Nat /\ handed[n] <= h
      /\ Numbered(c, P, procSess[n], h)
      /\ \A f \in Sending(c, P) :
           f \in Sending(conn[n], P) \/ (f.kind = "data" => handed[n] < f.val)
      /\ Held(c.inq) \subseteq Pool(p)
      /\ InOrder(c, S, handed[p])
  BY Zenon DEF Moves
<1>2. P \in SUBSET FrameSet
  BY PoolType
<1>3. Sending(c, P) \subseteq FrameSet /\ c.outq.sess \in Nat /\ d.outq.sess \in Nat
      /\ c.outq.next \in Nat /\ d.outq.next \in Nat
  BY <1>2, SendingType DEF Conn, Queue
<1>4. Sending(d, P) \subseteq Sending(c, P)
  OBVIOUS
<1> HIDE DEF P, S, p
<1>5. ASSUME NEW f \in Sending(c, P), Past(c, procSess[n], f)
      PROVE  Past(d, procSess[n], f)
  <2>1. f.sess \in Nat /\ f.seq \in Nat
    BY <1>3 DEF FrameSet
  <2> QED
    BY <1>3, <1>5, <2>1 DEF Past, Before, Top, SeqnoOf
<1>6. Numbered(d, P, procSess[n], h)
  BY <1>1, <1>4, <1>5, Zenon DEF Numbered
<1>7. CASE d.inq = c.inq /\ d.got = c.got
  <2>1. InOrder(d, S, handed[p])
    BY <1>1, <1>7, Zenon DEF InOrder
  <2> QED
    BY <1>1, <1>4, <1>6, <1>7, <2>1, Zenon DEF Moves, P, S, p
<1>8. CASE d.inq = EmptyQueue /\ d.got = <<>>
  <2>1. Held(d.inq) = {}
    BY <1>8 DEF Held, EmptyQueue
  <2>2. DOMAIN d.got = {}
    BY <1>8
  <2>3. InOrder(d, S, handed[p])
    BY <1>8, <2>1, <2>2, Zenon DEF InOrder, OneSession
  <2> QED
    BY <1>1, <1>4, <1>6, <2>1, <2>3, Zenon DEF Moves, P, S, p
<1> QED
  BY <1>7, <1>8, Zenon DEF InputKept

\* Something quiet keeps what an action may have.
LEMMA QuietMoves ==
  ASSUME IInv, NEW n \in Node, NEW c \in Conn, NEW d \in Conn, NEW h, NEW K,
         Moves(n, c, h), Quiet(c, d, K)
  PROVE  Moves(n, d, h)
<1>1. /\ OutputKept(c, d) /\ InputKept(c, d)
      /\ d.tx \subseteq c.tx \cup Due(c.outq) \cup Acks(K)
  BY Zenon DEF Quiet
<1>2. /\ c.outq.sess \in Nat /\ d.outq.sess \in Nat
      /\ c.outq.next \in Nat /\ d.outq.next \in Nat
  BY DEF Conn, Queue
<1>3. Due(c.outq) \subseteq Held(c.outq)
  BY DEF Due, Held
<1>4. Sequenced(Acks(K)) = {}
  BY DEF Sequenced, Acks, AckFrameSet
<1>5. Sequenced(d.tx) \subseteq Sequenced(c.tx) \cup Held(c.outq)
  BY <1>1, <1>3, <1>4 DEF Sequenced
<1>6. Held(d.outq) \subseteq Held(c.outq)
  BY <1>1 DEF OutputKept, Held
<1>7. Sending(d, Pool(n)) \subseteq Sending(c, Pool(n))
  BY <1>5, <1>6 DEF Sending
<1>8. c.outq.sess = 0 => d.outq.sess = 0
  BY <1>1 DEF OutputKept
<1>9. c.outq.sess # 0 => d.outq.sess # 0 /\ ~Before(Top(d.outq), Top(c.outq))
  BY <1>1, <1>2 DEF OutputKept, Before, Top
<1> QED
  BY <1>1, <1>7, <1>8, <1>9, LessMoves

\* More may be handed over than is sent: a full queue drops it.
LEMMA MovesLater ==
  ASSUME IInv, NEW n \in Node, NEW c \in Conn, NEW h, NEW k \in Nat, h <= k, Moves(n, c, h)
  PROVE  Moves(n, c, k)
<1> DEFINE P == Pool(n)
           p == Peer(n)
           S == Sending(conn[p], Pool(p))
<1>1. /\ h \in Nat /\ handed[n] <= h
      /\ Numbered(c, P, procSess[n], h)
      /\ \A f \in Sending(c, P) :
           f \in Sending(conn[n], P) \/ (f.kind = "data" => handed[n] < f.val)
      /\ Held(c.inq) \subseteq Pool(p)
      /\ InOrder(c, S, handed[p])
  BY Zenon DEF Moves
<1>2. handed[n] \in Nat
  BY DEF IInv, TypeOK
<1>3. Sending(c, P) \subseteq FrameSet
  BY PoolType, SendingType
<1> HIDE DEF P, S, p
<1>4. ASSUME NEW f \in Sending(c, P), f.kind = "data" => 0 < f.val /\ f.val <= h
      PROVE  f.kind = "data" => 0 < f.val /\ f.val <= k
  <2>1. f.val \in Nat
    BY <1>3 DEF FrameSet
  <2> QED
    BY <1>1, <1>4, <2>1
<1>5. Numbered(c, P, procSess[n], k)
  BY <1>1, <1>4, Zenon DEF Numbered
<1>6. handed[n] <= k
  BY <1>1, <1>2
<1> QED
  BY <1>1, <1>5, <1>6, Zenon DEF Moves, P, S, p

\* Queueing a frameset gives it a number of its own, above all that were sent.
LEMMA EnqMoves ==
  ASSUME IInv, NEW n \in Node, procSess[n] > 0,
         NEW c \in Conn, NEW d \in Conn, NEW h, Moves(n, c, h),
         NEW kind \in Kinds, NEW val \in Nat, NEW k \in Nat, h <= k,
         kind = "data" => h < val /\ val <= k,
         d.outq = Enq(c.outq, kind, val, procSess[n]),
         d.tx = c.tx, d.inq = c.inq, d.got = c.got
  PROVE  Moves(n, d, k)
<1> DEFINE P == Pool(n)
           p == Peer(n)
           S == Sending(conn[p], Pool(p))
           ps == procSess[n]
           e == Added(c.outq, kind, val, ps)
<1>1. /\ h \in Nat /\ handed[n] <= h
      /\ Numbered(c, P, ps, h)
      /\ \A f \in Sending(c, P) :
           f \in Sending(conn[n], P) \/ (f.kind = "data" => handed[n] < f.val)
      /\ Held(c.inq) \subseteq Pool(p)
      /\ InOrder(c, S, handed[p])
  BY Zenon DEF Moves
<1>2. handed[n] \in Nat /\ ps \in Nat /\ ps > 0
  BY DEF IInv, TypeOK
<1>3. Sending(c, P) \subseteq FrameSet
  BY PoolType, SendingType
<1>4. c.outq \in Queue /\ c.outq.sess \in Nat /\ c.outq.next \in Nat
  BY DEF Conn, Queue
<1>5. CASE d.outq = c.outq
  <2>1. Sending(d, P) \subseteq Sending(c, P)
    BY <1>5 DEF Sending
  <2>2. InputKept(c, d)
    BY Zenon DEF InputKept
  <2>3. ~Before(Top(d.outq), Top(c.outq))
    BY <1>4, <1>5 DEF Before, Top
  <2>4. Moves(n, d, h)
    BY <1>5, <2>1, <2>2, <2>3, LessMoves
  <2> QED
    BY <2>4, MovesLater
<1>6. CASE /\ Held(d.outq) = Held(c.outq) \cup {e}
           /\ Top(d.outq) = <<EnqSession(c.outq, ps), c.outq.next + 1>>
           /\ e \in FrameSet
  <2>1. /\ e.kind = kind /\ e.val = val /\ e.sess = EnqSession(c.outq, ps)
        /\ e.seq = c.outq.next
    BY DEF Added
  <2> HIDE DEF e, ps, P, S, p
  <2>2. Sending(d, P) = Sending(c, P) \cup {e}
    BY <1>6 DEF Sending
  <2>3. e.sess \in Nat /\ e.sess > 0 /\ SeqnoOf(e) = <<e.sess, e.seq>>
        /\ e.seq \in Nat /\ Top(d.outq) = <<e.sess, e.seq + 1>>
    BY <1>2, <1>4, <1>6, <2>1 DEF EnqSession, SeqnoOf
  <2>4. d.outq.sess = e.sess
    BY <2>3 DEF Top
  <2>5. Past(d, ps, e)
    BY <2>3, <2>4 DEF Past, Before
  <2>6. ASSUME NEW f \in Sending(c, P), Past(c, ps, f)
        PROVE  Before(SeqnoOf(f), SeqnoOf(e)) /\ Past(d, ps, f)
    <3>1. f.sess \in Nat /\ f.seq \in Nat /\ SeqnoOf(f) = <<f.sess, f.seq>>
      BY <1>3 DEF FrameSet, SeqnoOf
    <3>2. CASE c.outq.sess = 0
      <4>1. f.sess < ps /\ e.sess = ps
        BY <1>6, <2>1, <2>6, <3>2 DEF Past, EnqSession
      <4> QED
        BY <1>2, <2>3, <2>4, <3>1, <4>1 DEF Past, Before
    <3>3. CASE c.outq.sess # 0
      <4>1. Before(SeqnoOf(f), <<e.sess, e.seq>>)
        BY <2>1, <2>6, <3>3 DEF Past, EnqSession, Top
      <4> QED
        BY <2>3, <2>4, <3>1, <4>1 DEF Past, Before
    <3> QED
      BY <3>2, <3>3
  <2>7. ASSUME NEW f \in Sending(c, P), Past(c, ps, f), f.kind = "data" => 0 < f.val /\ f.val <= h
        PROVE  /\ SeqnoOf(f) # SeqnoOf(e) /\ ~Before(SeqnoOf(e), SeqnoOf(f))
               /\ f.kind = "data" /\ e.kind = "data" => f.val < e.val
               /\ f.kind = "data" => 0 < f.val /\ f.val <= k
    <3>1. /\ f.sess \in Nat /\ f.seq \in Nat /\ f.val \in Nat
          /\ SeqnoOf(f) = <<f.sess, f.seq>>
      BY <1>3 DEF FrameSet, SeqnoOf
    <3>2. Before(SeqnoOf(f), SeqnoOf(e))
      BY <2>6, <2>7
    <3>3. SeqnoOf(f) # SeqnoOf(e) /\ ~Before(SeqnoOf(e), SeqnoOf(f))
      BY <2>3, <3>1, <3>2 DEF Before
    <3>4. f.kind = "data" /\ e.kind = "data" => f.val < e.val
      BY <1>1, <2>1, <2>7, <3>1
    <3>5. f.kind = "data" => 0 < f.val /\ f.val <= k
      BY <1>1, <2>7, <3>1
    <3> QED
      BY <3>3, <3>4, <3>5
  <2>8. ~Before(SeqnoOf(e), SeqnoOf(e))
    BY <2>3 DEF Before
  <2>9. e.kind = "data" => 0 < e.val /\ e.val <= k /\ handed[n] < e.val
    BY <1>1, <1>2, <2>1
  <2>10. ASSUME NEW f \in Sending(d, P)
         PROVE  /\ f.sess > 0 /\ Past(d, ps, f)
                /\ f.kind = "data" => 0 < f.val /\ f.val <= k
    BY <1>1, <2>2, <2>3, <2>5, <2>6, <2>7, <2>9, Zenon DEF Numbered
  <2>11. ASSUME NEW f \in Sending(d, P), NEW g \in Sending(d, P)
         PROVE  /\ SeqnoOf(f) = SeqnoOf(g) => f = g
                /\ f.kind = "data" /\ g.kind = "data" /\ Before(SeqnoOf(f), SeqnoOf(g)) => f.val < g.val
    BY <1>1, <2>2, <2>7, <2>8, Zenon DEF Numbered
  <2>12. Numbered(d, P, ps, k)
    BY <2>10, <2>11, Zenon DEF Numbered
  <2>13. \A f \in Sending(d, P) :
           f \in Sending(conn[n], P) \/ (f.kind = "data" => handed[n] < f.val)
    BY <1>1, <2>2, <2>9, Zenon
  <2>14. handed[n] <= k
    BY <1>1, <1>2
  <2>15. InOrder(d, S, handed[p])
    BY <1>1, Zenon DEF InOrder
  <2> QED
    BY <1>1, <2>12, <2>13, <2>14, <2>15, Zenon DEF Moves, P, S, p, ps
<1>7. \/ d.outq = c.outq
      \/ /\ Held(d.outq) = Held(c.outq) \cup {e}
         /\ Top(d.outq) = <<EnqSession(c.outq, ps), c.outq.next + 1>>
         /\ e \in FrameSet
  <2>1. ps = procSess[n]
    OBVIOUS
  <2> HIDE DEF ps
  <2>2. \/ Enq(c.outq, kind, val, ps) = c.outq
        \/ /\ Held(Enq(c.outq, kind, val, ps)) = Held(c.outq) \cup {Added(c.outq, kind, val, ps)}
           /\ Top(Enq(c.outq, kind, val, ps)) = <<EnqSession(c.outq, ps), c.outq.next + 1>>
           /\ Added(c.outq, kind, val, ps) \in FrameSet
    BY <1>2, <1>4, EnqHeld
  <2>3. d.outq = Enq(c.outq, kind, val, ps)
    BY <2>1
  <2> QED
    BY <2>2, <2>3
<1> QED
  BY <1>5, <1>6, <1>7, Zenon

\* addconn gives a connection an action may have.
LEMMA AddConnMoves ==
  ASSUME IInv, Flows, NEW n \in Node
  PROVE  /\ Sound(AddConn(conn[n]))
         /\ Moves(n, AddConn(conn[n]), handed[n])
         /\ AddConn(conn[n]).outq = conn[n].outq /\ AddConn(conn[n]).inq = conn[n].inq
         /\ AddConn(conn[n]).tx = {}
<1> DEFINE c == conn[n]
           d == AddConn(c)
           p == Peer(n)
<1>1. Flow(n) /\ c \in Conn /\ (Sound(c) \/ Gone(c)) /\ handed[n] \in Nat
  BY DEF Flows, IInv, ConnInv, TypeOK
<1>2. /\ c.tx = {}
      /\ ~c.present => c.outq = EmptyQueue /\ c.inq = EmptyQueue /\ c.got = <<>>
      /\ Numbered(c, Pool(n), procSess[n], handed[n])
      /\ InOrder(c, Sending(conn[p], Pool(p)), handed[p])
  BY <1>1, Zenon DEF Flow
<1>3. Held(c.inq) \subseteq Pool(p)
  BY PeerType DEF Pool
<1>4. Moves(n, c, handed[n])
  <2>1. handed[n] <= handed[n]
    BY <1>1
  <2>2. \A f \in Sending(c, Pool(n)) : f \in Sending(conn[n], Pool(n))
    OBVIOUS
  <2> HIDE DEF c, p
  <2> QED
    BY <1>1, <1>2, <1>3, <2>1, <2>2, Zenon DEF Moves, c, p
<1>5. Sound(d)
  BY <1>1, AddConnSound
<1>6. CASE c.present
  BY <1>2, <1>4, <1>5, <1>6, Zenon DEF AddConn
<1>7. CASE ~c.present
  <2> DEFINE i == c.ipend  u == c.unacked  e == [NewConn EXCEPT !.ipend = i, !.unacked = u]
  <2>1. d = e
    BY <1>7, Zenon DEF AddConn
  <2>2. e.outq = EmptyQueue /\ e.inq = EmptyQueue /\ e.got = <<>> /\ e.tx = {}
    BY DEF NewConn
  <2> HIDE DEF e, c
  <2>3. d \in Conn
    BY <1>5 DEF Sound
  <2>4. d.outq = c.outq /\ d.inq = c.inq /\ d.got = c.got /\ d.tx = c.tx
    BY <1>2, <1>7, <2>1, <2>2, Zenon
  <2> HIDE DEF d
  <2>5. Sending(d, Pool(n)) \subseteq Sending(c, Pool(n)) /\ InputKept(c, d)
    BY <2>4 DEF Sending, InputKept
  <2>6. ~Before(Top(d.outq), Top(c.outq))
    <3>1. c.outq.sess \in Nat /\ c.outq.next \in Nat
      BY <1>1 DEF Conn, Queue
    <3> QED
      BY <2>4, <3>1 DEF Before, Top
  <2>7. Moves(n, d, handed[n])
    BY <1>1, <1>4, <2>3, <2>4, <2>5, <2>6, LessMoves
  <2> QED
    BY <1>2, <1>5, <2>4, <2>7 DEF c, d
<1> QED
  BY <1>6, <1>7

\* send1 sends one more frameset, or drops it.
LEMMA Send1Moves ==
  ASSUME IInv, NEW n \in Node, procSess[n] > 0,
         NEW c0, Sound(c0), NEW h, Moves(n, c0, h),
         NEW kind \in Kinds, NEW val \in Nat, NEW k \in Nat, h <= k,
         kind = "data" => h < val /\ val <= k
  PROVE  Moves(n, Send1(c0, kind, val, procSess[n]), k)
<1>1. c0 \in Conn /\ procSess[n] \in Nat
  BY DEF Sound, IInv, TypeOK
<1>2. CASE InShutdown(c0.state)
  <2>1. Send1(c0, kind, val, procSess[n]) = c0
    BY <1>2, Zenon DEF Send1
  <2> QED
    BY <1>1, <2>1, MovesLater
<1>3. CASE ~InShutdown(c0.state)
  <2> DEFINE c == FsaQuiet(c0, "REQSEND")
             K == {NoSeqno}
  <2>1. PICK d : /\ Send1(c0, kind, val, procSess[n]) = XmitIfWeCan(d)
                 /\ Sound(c) /\ c.outq = c0.outq /\ Sound(d)
                 /\ d.outq = Enq(c.outq, kind, val, procSess[n])
                 /\ d.tx = c.tx /\ d.inq = c.inq /\ d.got = c.got
                 /\ d.lastacksent = c.lastacksent
                 /\ d.isready = c.isready /\ d.ipend = c.ipend
    BY <1>1, <1>3, Send1Queues, Zenon
  <2>2. Quiet(c0, c, K)
    BY <1>1, FinishQuiet DEF FsaQuiet
  <2> HIDE DEF c
  <2>3. c \in Conn /\ d \in Conn
    BY <2>1 DEF Sound
  <2>4. Moves(n, c, h)
    BY <1>1, <2>2, <2>3, QuietMoves
  <2>5. Moves(n, d, k)
    BY <2>1, <2>3, <2>4, EnqMoves
  <2>6. Quiet(d, XmitIfWeCan(d), K)
    BY <2>1, XmitQuiet
  <2>7. XmitIfWeCan(d) \in Conn
    BY <2>1, XmitSound DEF Sound
  <2> HIDE DEF K
  <2>8. Moves(n, XmitIfWeCan(d), k)
    BY <2>3, <2>5, <2>6, <2>7, QuietMoves
  <2> QED
    BY <2>1, <2>8
<1> QED
  BY <1>2, <1>3

\* The automaton may send a CONNSHUT and acknowledge, on the inputs of a shutdown.
LEMMA FsaMoves ==
  ASSUME IInv, NEW n \in Node, procSess[n] > 0,
         NEW c, Sound(c), NEW h, Moves(n, c, h), NEW input, NEW s \in Seqno,
         Sound(Fsa(c, input, s, procSess[n]))
  PROVE  Moves(n, Fsa(c, input, s, procSess[n]), h)
<1> DEFINE acts == Actions[c.state][input]
           acked1 == IF "ACKME" \in acts THEN AckSeqno(c, s) ELSE c
           shut == IF "SNDSHUT" \in acts THEN Send1(acked1, "connshut", 0, procSess[n]) ELSE acked1
           d == FsaFinish(shut, c.state, input)
           K == {NoSeqno, s}
<1>1. Fsa(c, input, s, procSess[n]) = d
  BY Zenon DEF Fsa
<1>2. c \in Conn /\ procSess[n] \in Nat
  BY DEF Sound, IInv, TypeOK
<1>3. Sound(acked1) /\ Moves(n, acked1, h)
  <2>1. Sound(AckSeqno(c, s)) /\ Quiet(c, AckSeqno(c, s), K)
    BY <1>2, AckSeqnoSound, AckSeqnoQuiet
  <2>2. AckSeqno(c, s) \in Conn
    BY <2>1 DEF Sound
  <2> HIDE DEF K
  <2>3. Moves(n, AckSeqno(c, s), h)
    BY <1>2, <2>1, <2>2, QuietMoves
  <2> QED
    BY <2>1, <2>3, Zenon
<1> HIDE DEF acked1
<1>4. Sound(shut) /\ Moves(n, shut, h)
  <2>1. "connshut" \in Kinds /\ "connshut" # "data" /\ 0 \in Nat
    BY DEF Kinds
  <2>2. h \in Nat /\ h <= h
    <3>1. h \in Nat
      BY Zenon DEF Moves
    <3> QED
      BY <3>1
  <2>3. Sound(Send1(acked1, "connshut", 0, procSess[n]))
    BY <1>2, <1>3, <2>1, Send1Sound
  <2>4. Moves(n, Send1(acked1, "connshut", 0, procSess[n]), h)
    BY <1>3, <2>1, <2>2, Send1Moves
  <2> QED
    BY <1>3, <2>3, <2>4, Zenon
<1> HIDE DEF shut
<1>5. shut \in Conn /\ d \in Conn
  <2>1. Sound(d)
    BY <1>1
  <2> QED
    BY <1>4, <2>1 DEF Sound
<1>6. Quiet(shut, d, K)
  BY <1>5, FinishQuiet
<1> HIDE DEF d, K
<1> QED
  BY <1>1, <1>4, <1>5, <1>6, QuietMoves

\* An ACK only takes framesets off the queue.
LEMMA ReceiveAckMoves ==
  ASSUME IInv, NEW n \in Node, NEW c, Sound(c), NEW h, Moves(n, c, h), NEW s \in Seqno
  PROVE  Moves(n, ReceiveAck(c, s), h)
<1> DEFINE left == AckThrough(c.outq, s)
           z == 0
           popped == [c EXCEPT !.outq = left, !.tries = z]
           u == Remove(popped.unacked)
           off == "off"
           idle == [popped EXCEPT !.unacked = u, !.rexmit = off]
           K == {NoSeqno}
<1>1. ReceiveAck(c, s) =
        CASE AckRefused(c.outq, s) -> c
          [] ~AckRefused(c.outq, s) /\ left.q # <<>> -> XmitIfWeCan(popped)
          [] OTHER -> IF c.outq.q = <<>> THEN idle ELSE FsaQuiet(idle, "OUTALLDONE")
  BY Zenon DEF ReceiveAck
<1>2. Sound(ReceiveAck(c, s))
  BY ReceiveAckSound
<1>3. c \in Conn /\ c.outq \in Queue /\ c.unacked \in Nat /\ c.outq.sess \in Nat /\ c.outq.next \in Nat
  BY DEF Sound, Conn, Queue
<1>4. /\ left \in Queue /\ (c.outq.q = <<>> => left.q = <<>>)
      /\ Held(left) \subseteq Held(c.outq) /\ Top(left) = Top(c.outq)
  BY <1>3, AckThroughType, AckThroughHeld
<1>5. z \in 0..AckTries /\ off \in Rexmit
  BY SmallTypes
<1> HIDE DEF left, z, off
<1>6. popped \in Conn
  BY <1>3, <1>4, <1>5 DEF Conn
<1>7. /\ popped.present = c.present /\ popped.state = c.state /\ popped.outq = left
      /\ popped.unacked = c.unacked /\ popped.shuttimer = c.shuttimer
      /\ popped.complained = c.complained /\ popped.inq = c.inq /\ popped.got = c.got
      /\ popped.tx = c.tx
  BY <1>3 DEF Conn
<1> HIDE DEF popped
<1>8. Moves(n, popped, h)
  <2>1. Sending(popped, Pool(n)) \subseteq Sending(c, Pool(n))
    BY <1>4, <1>7 DEF Sending
  <2>2. InputKept(c, popped)
    BY <1>7 DEF InputKept
  <2>3. left.sess = c.outq.sess /\ left.next = c.outq.next
    BY <1>4 DEF Top
  <2>4. ~Before(Top(popped.outq), Top(c.outq))
    BY <1>3, <1>4, <1>7 DEF Before, Top
  <2> QED
    BY <1>3, <1>6, <1>7, <2>1, <2>2, <2>3, <2>4, LessMoves
<1>9. u \in Nat /\ u = 0
  BY <1>3, <1>7 DEF Sound, Listed, Remove
<1> HIDE DEF u
<1>10. idle \in Conn
  BY <1>5, <1>6, <1>9 DEF Conn
<1>11. /\ idle.outq = popped.outq /\ idle.inq = popped.inq /\ idle.got = popped.got
       /\ idle.tx = popped.tx /\ idle.lastacksent = popped.lastacksent
  BY <1>6 DEF Conn
<1> HIDE DEF idle
<1>12. Moves(n, idle, h)
  BY <1>6, <1>8, <1>10, <1>11, QuietFields, QuietMoves
<1>13. CASE AckRefused(c.outq, s)
  BY <1>1, <1>13, Zenon
<1>14. CASE ~AckRefused(c.outq, s) /\ left.q # <<>>
  <2>1. Sound(popped)
    <3>1. c.outq.q # <<>> /\ Listed(popped)
      BY <1>4, <1>7, <1>14 DEF Sound, Listed
    <3> QED
      BY <1>6, <1>7, <1>14, <3>1, Zenon DEF Sound
  <2>2. Quiet(popped, XmitIfWeCan(popped), K)
    BY <2>1, XmitQuiet
  <2>3. ReceiveAck(c, s) = XmitIfWeCan(popped)
    BY <1>1, <1>14, Zenon
  <2>4. XmitIfWeCan(popped) \in Conn
    BY <1>2, <2>3 DEF Sound
  <2> HIDE DEF K
  <2> QED
    BY <1>6, <1>8, <2>2, <2>3, <2>4, QuietMoves
<1>15. CASE ~AckRefused(c.outq, s) /\ left.q = <<>>
  <2>1. CASE c.outq.q = <<>>
    BY <1>1, <1>12, <1>15, <2>1, Zenon
  <2>2. CASE c.outq.q # <<>>
    <3>1. ReceiveAck(c, s) = FsaQuiet(idle, "OUTALLDONE")
      BY <1>1, <1>15, <2>2, Zenon
    <3>2. Quiet(idle, FsaQuiet(idle, "OUTALLDONE"), K)
      BY <1>10, FinishQuiet DEF FsaQuiet
    <3>3. FsaQuiet(idle, "OUTALLDONE") \in Conn
      BY <1>2, <3>1 DEF Sound
    <3> HIDE DEF K
    <3> QED
      BY <1>10, <1>12, <3>1, <3>2, <3>3, QuietMoves
  <2> QED
    BY <2>1, <2>2
<1> QED
  BY <1>13, <1>14, <1>15

\* A frameset of the peer that is stored, or refused, keeps the order of input.
LEMMA InqMoves ==
  ASSUME IInv, NEW n \in Node, NEW c \in Conn, NEW d \in Conn, NEW h, Moves(n, c, h),
         NEW fs \in Pool(Peer(n)), fs.sess > 0,
         d.inq = InqSorted(c.inq, fs), d.got = c.got, d.outq = c.outq, d.tx = c.tx
  PROVE  Moves(n, d, h)
<1> DEFINE p == Peer(n)
           S == Sending(conn[p], Pool(p))
<1>1. /\ h \in Nat /\ handed[n] <= h
      /\ Numbered(c, Pool(n), procSess[n], h)
      /\ \A f \in Sending(c, Pool(n)) :
           f \in Sending(conn[n], Pool(n)) \/ (f.kind = "data" => handed[n] < f.val)
      /\ Held(c.inq) \subseteq Pool(p)
      /\ InOrder(c, S, handed[p])
  BY Zenon DEF Moves
<1>2. Sending(d, Pool(n)) = Sending(c, Pool(n))
  BY DEF Sending
<1>3. Numbered(d, Pool(n), procSess[n], h)
  BY <1>1, <1>2, Zenon DEF Numbered, Past
<1>4. p \in Node /\ fs \in FrameSet /\ Pool(p) \subseteq FrameSet
  BY PeerType, PoolType
<1>5. c.inq \in Queue /\ d.inq \in Queue
  BY DEF Conn
<1>6. S \subseteq FrameSet
  <2>1. conn[p] \in Conn
    BY <1>4 DEF IInv, TypeOK
  <2> QED
    BY <1>4, <2>1, SendingType
<1>7. OneSession(c.inq)
  BY <1>1, Zenon DEF InOrder
<1>8. /\ Held(d.inq) \subseteq Held(c.inq) \cup {fs}
      /\ OneSession(d.inq) /\ d.inq.sess > 0
      /\ c.inq.sess # 0 => ~Before(Top(d.inq), Top(c.inq))
  BY <1>4, <1>5, <1>7, InqSortedKeeps
<1>9. fs \in Pool(p)
  OBVIOUS
<1>10. c.inq.sess = 0 => c.got = <<>>
  BY <1>1, Zenon DEF InOrder
<1>11. /\ \A i \in DOMAIN c.got : c.got[i] <= handed[p]
       /\ \A i \in DOMAIN c.got : \A f \in S :
            f.kind = "data" /\ ~Before(SeqnoOf(f), Top(c.inq)) => c.got[i] < f.val
       /\ \A i, j \in DOMAIN c.got : i < j => c.got[i] < c.got[j]
  BY <1>1, Zenon DEF InOrder
<1> HIDE DEF p, S
<1>12. ASSUME NEW i \in DOMAIN c.got, NEW f \in S, f.kind = "data",
              ~Before(SeqnoOf(f), Top(d.inq))
       PROVE  c.got[i] < f.val
  <2>1. c.inq.sess # 0
    BY <1>10
  <2>2. ~Before(SeqnoOf(f), Top(c.inq))
    <3>1. SeqnoOf(f) = <<f.sess, f.seq>> /\ f.sess \in Nat /\ f.seq \in Nat
      BY <1>6 DEF FrameSet, SeqnoOf
    <3>2. /\ c.inq.sess \in Nat /\ c.inq.next \in Nat
          /\ d.inq.sess \in Nat /\ d.inq.next \in Nat
      BY <1>5 DEF Queue
    <3>3. ~Before(Top(d.inq), Top(c.inq)) /\ ~Before(SeqnoOf(f), Top(d.inq))
      BY <1>8, <1>12, <2>1
    <3> QED
      BY <3>1, <3>2, <3>3 DEF Before, Top
  <2> QED
    BY <1>11, <1>12, <2>2
<1>13. d.inq.sess # 0
  BY <1>8
<1>14. InOrder(d, S, handed[p])
  BY <1>8, <1>11, <1>12, <1>13, Zenon DEF InOrder
<1>15. Held(d.inq) \subseteq Pool(p)
  BY <1>1, <1>8, <1>9
<1> QED
  BY <1>1, <1>2, <1>3, <1>14, <1>15, Zenon DEF Moves, S, p

\* A sequenced frameset of the peer, kept or refused.
LEMMA ReceiveSequencedMoves ==
  ASSUME IInv, NEW n \in Node, NEW c, Sound(c), NEW h, Moves(n, c, h),
         NEW fs \in Pool(Peer(n)), fs.sess > 0
  PROVE  Moves(n, ReceiveSequenced(c, fs), h)
<1> DEFINE q == InqSorted(c.inq, fs)
           sorted == [c EXCEPT !.inq = q]
           filed == CASE InqRefused(c.inq, fs) -> AckAgain(sorted, fs)
                      [] ~InqRefused(c.inq, fs) /\ fs.seq = 1 -> FsaQuiet(sorted, "GOTSTART")
                      [] OTHER -> sorted
           marked == MarkReady(filed, fs)
           K == {NoSeqno, c.lastacksent}
<1>1. ReceiveSequenced(c, fs) = XmitIfWeCan(marked)
  BY Zenon DEF ReceiveSequenced
<1>2. c \in Conn /\ c.inq \in Queue /\ fs \in FrameSet
  BY PeerType, PoolType DEF Sound, Conn
<1>3. q \in Queue
  BY <1>2, InqSortedType
<1>4. q = InqSorted(c.inq, fs)
  OBVIOUS
<1> HIDE DEF q
<1>5. sorted \in Conn
  BY <1>2, <1>3 DEF Conn
<1>6. /\ sorted.present = c.present /\ sorted.state = c.state /\ sorted.outq = c.outq
      /\ sorted.unacked = c.unacked /\ sorted.shuttimer = c.shuttimer
      /\ sorted.complained = c.complained /\ sorted.inq = q /\ sorted.got = c.got
      /\ sorted.tx = c.tx /\ sorted.lastacksent = c.lastacksent
  BY <1>2 DEF Conn
<1> HIDE DEF sorted
<1>7. Sound(sorted)
  BY <1>5, <1>6, SoundKept, Zenon
<1>8. Moves(n, sorted, h)
  BY <1>2, <1>4, <1>5, <1>6, InqMoves
<1>9. /\ Sound(AckAgain(sorted, fs)) /\ Sound(FsaQuiet(sorted, "GOTSTART"))
  BY <1>7, AckAgainSound, StartSound, Zenon
<1>10. Quiet(sorted, AckAgain(sorted, fs), K) /\ Quiet(sorted, FsaQuiet(sorted, "GOTSTART"), K)
  BY <1>5, <1>6, AckAgainQuiet, FinishQuiet DEF FsaQuiet
<1>11. Sound(filed) /\ Quiet(sorted, filed, K)
  BY <1>7, <1>9, <1>10, QuietSame, Zenon
<1> HIDE DEF filed
<1>12. filed \in Conn
  BY <1>11 DEF Sound
<1>13. Sound(marked) /\ Quiet(filed, marked, K)
  BY <1>11, <1>12, MarkReadySound, MarkReadyQuiet
<1> HIDE DEF marked
<1>14. Sound(XmitIfWeCan(marked)) /\ Quiet(marked, XmitIfWeCan(marked), K)
  BY <1>13, XmitSound, XmitQuiet
<1>15. marked \in Conn /\ XmitIfWeCan(marked) \in Conn
  BY <1>13, <1>14 DEF Sound
<1> HIDE DEF K
<1>16. Moves(n, filed, h)
  BY <1>5, <1>8, <1>11, <1>12, QuietMoves
<1>17. Moves(n, marked, h)
  BY <1>12, <1>13, <1>15, <1>16, QuietMoves
<1>18. Moves(n, XmitIfWeCan(marked), h)
  BY <1>14, <1>15, <1>17, QuietMoves
<1> QED
  BY <1>1, <1>18

\* Reading the next frameset appends it to what was read, behind everything else.
LEMMA TakenMoves ==
  ASSUME IInv, Flows, NEW n \in Node, NEW c \in Conn, NEW d \in Conn, NEW h, Moves(n, c, h),
         Readable(c.inq),
         d.inq = Deq(c.inq), d.outq = c.outq, d.tx = c.tx,
         d.got = IF Head(c.inq.q).kind = "data" THEN Append(c.got, Head(c.inq.q).val) ELSE c.got
  PROVE  Moves(n, d, h)
<1> DEFINE p == Peer(n)
           S == Sending(conn[p], Pool(p))
           fs == Head(c.inq.q)
<1>1. /\ h \in Nat /\ handed[n] <= h
      /\ Numbered(c, Pool(n), procSess[n], h)
      /\ \A f \in Sending(c, Pool(n)) :
           f \in Sending(conn[n], Pool(n)) \/ (f.kind = "data" => handed[n] < f.val)
      /\ Held(c.inq) \subseteq Pool(p)
      /\ InOrder(c, S, handed[p])
  BY Zenon DEF Moves
<1>2. Sending(d, Pool(n)) = Sending(c, Pool(n))
  BY DEF Sending
<1>3. Numbered(d, Pool(n), procSess[n], h)
  BY <1>1, <1>2, Zenon DEF Numbered, Past
<1>4. p \in Node /\ Pool(p) \subseteq FrameSet /\ Flow(p) /\ conn[p] \in Conn
  BY PeerType, PoolType DEF Flows, IInv, TypeOK
<1>5. c.inq \in Queue /\ c.got \in Seq(Nat) /\ c.inq.q # <<>> /\ fs.seq = c.inq.next
  BY DEF Conn, Readable
<1>6. /\ fs \in Held(c.inq) /\ Held(d.inq) \subseteq Held(c.inq)
      /\ d.inq.sess = c.inq.sess /\ d.inq.next = c.inq.next + 1
  BY <1>5, DeqHeld
<1>7. S \subseteq FrameSet /\ Pool(p) \subseteq S
  <2>1. S \subseteq FrameSet
    BY <1>4, SendingType
  <2> QED
    BY <2>1 DEF Sending
<1>8. fs \in S /\ fs \in FrameSet
  BY <1>1, <1>6, <1>7
<1>9. OneSession(c.inq)
  BY <1>1, Zenon DEF InOrder
<1>10. fs.sess = c.inq.sess /\ fs.sess > 0
  BY <1>6, <1>9 DEF OneSession
<1>11. OneSession(d.inq)
  BY <1>6, <1>9, Zenon DEF OneSession
<1>12. /\ \A i \in DOMAIN c.got : c.got[i] <= handed[p]
       /\ \A i \in DOMAIN c.got : \A f \in S :
            f.kind = "data" /\ ~Before(SeqnoOf(f), Top(c.inq)) => c.got[i] < f.val
       /\ \A i, j \in DOMAIN c.got : i < j => c.got[i] < c.got[j]
  BY <1>1, Zenon DEF InOrder
<1>13. /\ \A f \in S : f.kind = "data" => f.val <= handed[p]
       /\ \A f \in S : f.kind = "data" /\ fs.kind = "data" /\ Before(SeqnoOf(fs), SeqnoOf(f))
                       => fs.val < f.val
  <2>1. Numbered(conn[p], Pool(p), procSess[p], handed[p])
    BY <1>4, Zenon DEF Flow
  <2> QED
    BY <1>8, <2>1, Zenon DEF Numbered
<1> HIDE DEF p, S
<1>14. ASSUME NEW f \in S, ~Before(SeqnoOf(f), Top(d.inq))
       PROVE  Before(SeqnoOf(fs), SeqnoOf(f)) /\ ~Before(SeqnoOf(f), Top(c.inq))
  <2>1. f.sess \in Nat /\ f.seq \in Nat /\ c.inq.sess \in Nat /\ c.inq.next \in Nat
    BY <1>5, <1>7 DEF FrameSet, Queue
  <2> QED
    BY <1>5, <1>6, <1>10, <1>14, <2>1 DEF Before, Top, SeqnoOf
<1>15. ~Before(SeqnoOf(fs), Top(c.inq))
  <2>1. c.inq.sess \in Nat /\ c.inq.next \in Nat
    BY <1>5 DEF Queue
  <2> QED
    BY <1>5, <1>10, <2>1 DEF Before, Top, SeqnoOf
<1>16. fs.val \in Nat
  BY <1>8 DEF FrameSet
<1>17. d.inq.sess # 0
  BY <1>6, <1>10
<1> HIDE DEF fs
<1>18. CASE fs.kind = "data"
  <2>1. d.got = Append(c.got, fs.val)
    BY <1>18 DEF fs
  <2>2. /\ Len(d.got) = Len(c.got) + 1 /\ d.got[Len(c.got) + 1] = fs.val
        /\ \A i \in 1..Len(c.got) : d.got[i] = c.got[i]
        /\ DOMAIN c.got = 1..Len(c.got) /\ DOMAIN d.got = 1..(Len(c.got) + 1)
        /\ Len(c.got) \in Nat
    <3> DEFINE v == fs.val
               g == Append(c.got, v)
    <3>1. v \in Nat /\ v = fs.val /\ d.got = g
      BY <1>16, <2>1
    <3> HIDE DEF v
    <3>2. /\ g \in Seq(Nat) /\ Len(g) = Len(c.got) + 1 /\ g[Len(c.got) + 1] = v
          /\ \A i \in 1..Len(c.got) : g[i] = c.got[i]
      BY <1>5, <3>1, AppendProperties
    <3> HIDE DEF g
    <3>3. /\ DOMAIN c.got = 1..Len(c.got) /\ DOMAIN g = 1..(Len(c.got) + 1)
          /\ Len(c.got) \in Nat
      BY <1>5, <3>2
    <3> QED
      BY <3>1, <3>2, <3>3
  <2>3. ASSUME NEW i \in DOMAIN d.got
        PROVE  \/ i = Len(c.got) + 1 /\ d.got[i] = fs.val
               \/ i \in DOMAIN c.got /\ d.got[i] = c.got[i]
    BY <2>2
  <2>4. ASSUME NEW i \in DOMAIN d.got PROVE d.got[i] <= handed[p]
    BY <1>8, <1>12, <1>13, <1>18, <2>3
  <2>5. ASSUME NEW i \in DOMAIN d.got, NEW f \in S, f.kind = "data",
               ~Before(SeqnoOf(f), Top(d.inq))
        PROVE  d.got[i] < f.val
    BY <1>12, <1>13, <1>14, <1>18, <2>3, <2>5, Zenon
  <2>6. ASSUME NEW i \in DOMAIN d.got, NEW j \in DOMAIN d.got, i < j
        PROVE  d.got[i] < d.got[j]
    <3>1. i \in DOMAIN c.got /\ d.got[i] = c.got[i]
      BY <2>2, <2>3, <2>6
    <3>2. CASE j \in DOMAIN c.got /\ d.got[j] = c.got[j]
      BY <1>12, <2>6, <3>1, <3>2
    <3>3. CASE d.got[j] = fs.val
      BY <1>8, <1>12, <1>15, <1>18, <3>1, <3>3
    <3> QED
      BY <2>3, <3>2, <3>3
  <2>7. InOrder(d, S, handed[p])
    BY <1>11, <1>17, <2>4, <2>5, <2>6, Zenon DEF InOrder
  <2> QED
    BY <1>1, <1>2, <1>3, <1>6, <2>7, Zenon DEF Moves, S, p
<1>19. CASE fs.kind # "data"
  <2>1. d.got = c.got
    BY <1>19 DEF fs
  <2>2. InOrder(d, S, handed[p])
    BY <1>11, <1>12, <1>14, <1>17, <2>1, Zenon DEF InOrder
  <2> QED
    BY <1>1, <1>2, <1>3, <1>6, <2>2, Zenon DEF Moves, S, p
<1> QED
  BY <1>18, <1>19

\* Reading a frameset, and obeying it when it is a CONNSHUT.
LEMMA ReadOneMoves ==
  ASSUME IInv, Flows, NEW n \in Node, procSess[n] > 0,
         NEW c, Sound(c), NEW h, Moves(n, c, h), Readable(c.inq)
  PROVE  Moves(n, ReadOne(c, procSess[n]), h)
<1> DEFINE fs == Head(c.inq.q)
           rest == Deq(c.inq)
           more == Readable(rest)
           i == IF more THEN c.ipend ELSE Remove(c.ipend)
           g == IF fs.kind = "data" THEN Append(c.got, fs.val) ELSE c.got
           taken == [c EXCEPT !.inq = rest, !.isready = more, !.ipend = i, !.got = g]
           told == Fsa(taken, "RCVSHUTDOWN", SeqnoOf(fs), procSess[n])
           d == IF fs.kind = "connshut" THEN told ELSE taken
           K == {NoSeqno}
<1>1. ReadOne(c, procSess[n]) = XmitIfWeCan(d)
  BY Zenon DEF ReadOne
<1>2. c \in Conn /\ c.inq \in Queue /\ c.ipend \in Nat /\ c.got \in Seq(Nat) /\ c.inq.q # <<>>
      /\ procSess[n] \in Nat
  BY DEF Sound, Conn, Readable, IInv, TypeOK
<1>3. rest \in Queue /\ fs \in FrameSet
  BY <1>2, DeqType
<1>4. fs.val \in Nat /\ SeqnoOf(fs) \in Seqno
  BY <1>3 DEF FrameSet, SeqnoOf, Seqno
<1>5. more \in BOOLEAN
  BY Zenon DEF Readable
<1>6. i \in Nat
  BY <1>2, RemoveType
<1>7. g \in Seq(Nat)
  BY <1>2, <1>4, AppendProperties
<1>8. rest = Deq(c.inq)
  OBVIOUS
<1>9. g = IF Head(c.inq.q).kind = "data" THEN Append(c.got, Head(c.inq.q).val) ELSE c.got
  OBVIOUS
<1> HIDE DEF rest, more, i, g, fs
<1>10. Sound(taken)
  BY <1>3, <1>5, <1>6, <1>7, InputSound, Zenon
<1>11. /\ taken.inq = rest /\ taken.got = g /\ taken.outq = c.outq /\ taken.tx = c.tx
  BY <1>2 DEF Conn
<1> HIDE DEF taken
<1>12. taken \in Conn
  BY <1>10 DEF Sound
<1>13. Moves(n, taken, h)
  BY <1>2, <1>8, <1>9, <1>11, <1>12, TakenMoves
<1>14. Sound(told)
  BY <1>2, <1>4, <1>10, PeerClosesSound
<1>15. Moves(n, told, h)
  BY <1>4, <1>10, <1>13, <1>14, FsaMoves
<1> HIDE DEF told
<1>16. Sound(d) /\ Moves(n, d, h)
  BY <1>10, <1>13, <1>14, <1>15, Zenon
<1> HIDE DEF d
<1>17. Quiet(d, XmitIfWeCan(d), K) /\ Sound(XmitIfWeCan(d))
  BY <1>16, XmitQuiet, XmitSound
<1>18. d \in Conn /\ XmitIfWeCan(d) \in Conn
  BY <1>16, <1>17 DEF Sound
<1> HIDE DEF K
<1> QED
  BY <1>1, <1>16, <1>17, <1>18, QuietMoves

\* Fewer framesets leave the numbers as they are.
LEMMA NumberedLess ==
  ASSUME NEW c, NEW d, NEW P, NEW Q, NEW sess, NEW h,
         Numbered(c, P, sess, h), Sending(d, Q) \subseteq Sending(c, P), d.outq = c.outq
  PROVE  Numbered(d, Q, sess, h)
BY Zenon DEF Numbered, Past

\* They leave the order as it is, too; and so do later ones.
LEMMA InOrderLess ==
  ASSUME NEW c, NEW d, NEW S, NEW T, NEW h \in Nat, NEW k \in Nat, h <= k,
         c.got \in Seq(Nat), T \subseteq FrameSet,
         InOrder(c, S, h), d.inq = c.inq, d.got = c.got,
         \A f \in T : f \in S \/ (f.kind = "data" => h < f.val)
  PROVE  InOrder(d, T, k)
<1>1. /\ OneSession(c.inq)
      /\ c.inq.sess = 0 => c.got = <<>>
      /\ \A i \in DOMAIN c.got : c.got[i] <= h
      /\ \A i \in DOMAIN c.got : \A f \in S :
           f.kind = "data" /\ ~Before(SeqnoOf(f), Top(c.inq)) => c.got[i] < f.val
      /\ \A i, j \in DOMAIN c.got : i < j => c.got[i] < c.got[j]
  BY Zenon DEF InOrder
<1>2. \A i \in DOMAIN c.got : c.got[i] \in Nat
  OBVIOUS
<1>3. ASSUME NEW i \in DOMAIN c.got, NEW f \in T, f.kind = "data",
             ~Before(SeqnoOf(f), Top(c.inq))
      PROVE  c.got[i] < f.val
  <2>1. CASE f \in S
    BY <1>1, <1>3, <2>1
  <2>2. CASE h < f.val
    <3>1. f.val \in Nat
      BY DEF FrameSet
    <3> QED
      BY <1>1, <1>2, <2>2, <3>1
  <2> QED
    BY <1>3, <2>1, <2>2
<1>4. \A i \in DOMAIN c.got : c.got[i] <= k
  BY <1>1, <1>2
<1> QED
  BY <1>1, <1>3, <1>4, Zenon DEF InOrder

\* Storing the connection an action has made, and sending what it transmits.
LEMMA StepConn ==
  ASSUME IInv, NEW n \in Node, NEW d, Sound(d), NEW received, Step(n, d, received)
  PROVE  /\ conn'[Peer(n)] = conn[Peer(n)]
         /\ conn'[n].outq = d.outq /\ conn'[n].inq = d.inq /\ conn'[n].got = d.got
         /\ conn'[n].lastacksent = d.lastacksent
         /\ conn'[n].isready = d.isready /\ conn'[n].ipend = d.ipend
         /\ conn'[n].present = d.present /\ conn'[n].tx = {}
         /\ net'[Peer(n)] = net[Peer(n)] \cup d.tx
         /\ net'[n] \subseteq net[n]
         /\ d.outq.sess < procSess[n] + SessStep
<1> DEFINE p == Peer(n)
           e == [d EXCEPT !.tx = {}]
           a == net[p] \cup d.tx
           net1 == [net EXCEPT ![p] = a]
           b == IF Duplicates THEN net[n] ELSE net[n] \ received
<1>1. p \in Node /\ p # n
  BY PeerType
<1>2. conn \in [Node -> Conn] /\ net \in [Node -> SUBSET FrameSet] /\ d \in Conn
  BY DEF IInv, TypeOK, Sound
<1>3. conn' = [conn EXCEPT ![n] = e] /\ net' = [net1 EXCEPT ![n] = b]
  BY Zenon DEF Step
<1>4. d.outq.sess < procSess[n] + SessStep
  BY DEF Step
<1>5. e.outq = d.outq /\ e.inq = d.inq /\ e.got = d.got /\ e.lastacksent = d.lastacksent
      /\ e.isready = d.isready /\ e.ipend = d.ipend
      /\ e.present = d.present /\ e.tx = {}
  BY <1>2 DEF Conn
<1>6. b \subseteq net[n]
  OBVIOUS
<1> HIDE DEF e, p
<1>7. conn'[n] = e /\ conn'[p] = conn[p]
  BY <1>1, <1>2, <1>3
<1>8. n \in DOMAIN net1 /\ p \in DOMAIN net1 /\ net1[p] = a
  BY <1>1, <1>2
<1> HIDE DEF net1, a, b
<1>9. net'[p] = a /\ net'[n] = b
  BY <1>1, <1>3, <1>8
<1>10. net'[p] = net[p] \cup d.tx /\ net'[n] \subseteq net[n]
  BY <1>6, <1>9 DEF a
<1> QED
  BY <1>4, <1>5, <1>7, <1>10 DEF p

\* An action that makes what it may have preserves the flow in both directions.
LEMMA StepFlows ==
  ASSUME IInv, IInv', Flows, NEW n \in Node, NEW d, Sound(d), NEW received,
         Step(n, d, received), NEW k, Moves(n, d, k),
         procSess' = procSess, handed'[n] = k, handed'[Peer(n)] = handed[Peer(n)]
  PROVE  Flows'
<1> DEFINE p == Peer(n)
           c == conn[n]
           S == Sending(conn[p], Pool(p))
<1>1. p \in Node /\ p # n /\ Peer(p) = n
  BY PeerType
<1>2. /\ conn'[p] = conn[p]
      /\ conn'[n].outq = d.outq /\ conn'[n].inq = d.inq /\ conn'[n].got = d.got
      /\ conn'[n].present = d.present /\ conn'[n].tx = {}
      /\ net'[p] = net[p] \cup d.tx /\ net'[n] \subseteq net[n]
      /\ d.outq.sess < procSess[n] + SessStep
  BY StepConn
<1>3. /\ k \in Nat /\ handed[n] <= k
      /\ Numbered(d, Pool(n), procSess[n], k)
      /\ \A f \in Sending(d, Pool(n)) :
           f \in Sending(c, Pool(n)) \/ (f.kind = "data" => handed[n] < f.val)
      /\ Held(d.inq) \subseteq Pool(p)
      /\ InOrder(d, S, handed[p])
  BY Zenon DEF Moves
<1>4. /\ d.present /\ d \in Conn /\ conn[p] \in Conn /\ handed[n] \in Nat /\ handed[p] \in Nat
      /\ Flow(n) /\ Flow(p)
  BY <1>1 DEF Sound, IInv, TypeOK, Flows
<1>5. /\ Pool(n)' = Pool(n) \cup Sequenced(d.tx)
      /\ Pool(p)' \subseteq Pool(p)
  <2>1. Pool(n) = Sequenced(net[p]) \cup Held(conn[p].inq)
    BY DEF Pool
  <2>2. Pool(n)' = Sequenced(net'[p]) \cup Held(conn'[p].inq)
    BY DEF Pool
  <2>3. Pool(p)' = Sequenced(net'[n]) \cup Held(conn'[n].inq)
    BY <1>1 DEF Pool
  <2>4. Pool(p) = Sequenced(net[n]) \cup Held(conn[n].inq)
    BY <1>1 DEF Pool
  <2>5. Sequenced(net'[p]) = Sequenced(net[p]) \cup Sequenced(d.tx)
    BY <1>2 DEF Sequenced
  <2>6. Sequenced(net'[n]) \subseteq Sequenced(net[n])
    BY <1>2 DEF Sequenced
  <2> HIDE DEF p
  <2>7. Pool(n)' = Pool(n) \cup Sequenced(d.tx)
    BY <1>2, <2>1, <2>2, <2>5
  <2>8. Pool(p)' \subseteq Pool(p)
    BY <1>2, <1>3, <2>3, <2>4, <2>6
  <2> QED
    BY <2>7, <2>8
<1>6. Sending(conn'[n], Pool(n)') = Sending(d, Pool(n))
  <2>1. Sequenced(conn'[n].tx) = {}
    BY <1>2 DEF Sequenced
  <2> QED
    BY <1>2, <1>5, <2>1 DEF Sending
<1>7. Sending(conn'[p], Pool(p)') \subseteq S
  BY <1>2, <1>5 DEF Sending
<1>8. Sending(d, Pool(n)) \subseteq FrameSet /\ S \subseteq FrameSet
  BY <1>1, <1>4, PoolType, SendingType
<1>9. d.got \in Seq(Nat) /\ conn[p].got \in Seq(Nat)
  BY <1>4 DEF Conn
<1> HIDE DEF S, p
<1>10. Flow(n)'
  <2>1. Numbered(conn'[n], Pool(n)', procSess[n], k)
    BY <1>2, <1>3, <1>6, NumberedLess
  <2>2. InOrder(conn'[n], Sending(conn'[p], Pool(p)'), handed[p])
    <3> DEFINE T == Sending(conn'[p], Pool(p)')
    <3>1. handed[p] <= handed[p] /\ handed[p] \in Nat
      BY <1>4
    <3>2. T \subseteq S /\ T \subseteq FrameSet
      BY <1>7, <1>8
    <3>3. conn'[n].inq = d.inq /\ conn'[n].got = d.got /\ InOrder(d, S, handed[p])
      BY <1>2, <1>3
    <3> HIDE DEF T
    <3>4. \A f \in T : f \in S \/ (f.kind = "data" => handed[p] < f.val)
      BY <3>2
    <3>5. InOrder(conn'[n], T, handed[p])
      BY <1>9, <3>1, <3>2, <3>3, <3>4, InOrderLess
    <3> QED
      BY <3>5 DEF T
  <2>3. procSess'[n] > 0 /\ conn'[n].outq.sess < procSess'[n] + SessStep
    BY <1>2, <1>4 DEF Flow
  <2>4. conn'[n].present
    BY <1>2, <1>4
  <2> QED
    BY <1>1, <1>2, <2>1, <2>2, <2>3, <2>4, Zenon DEF Flow, p
<1>11. Flow(p)'
  <2>1. /\ conn[p].tx = {}
        /\ ~conn[p].present => conn[p].outq = EmptyQueue /\ conn[p].inq = EmptyQueue /\ conn[p].got = <<>>
        /\ procSess[p] > 0 /\ conn[p].outq.sess < procSess[p] + SessStep
        /\ Numbered(conn[p], Pool(p), procSess[p], handed[p])
        /\ InOrder(conn[p], Sending(c, Pool(n)), handed[n])
    BY <1>1, <1>4, Zenon DEF Flow
  <2>2. Numbered(conn'[p], Pool(p)', procSess[p], handed[p])
    BY <1>2, <1>7, <2>1, NumberedLess DEF S
  <2>3. InOrder(conn'[p], Sending(conn'[n], Pool(n)'), k)
    BY <1>2, <1>3, <1>4, <1>6, <1>8, <1>9, <2>1, InOrderLess
  <2> QED
    BY <1>1, <1>2, <2>1, <2>2, <2>3, Zenon DEF Flow, p
<1>12. \A m \in Node : m = n \/ m = p
  BY <1>1 DEF Node
<1> QED
  BY <1>10, <1>11, <1>12, Zenon DEF Flows


\* The same for an action that hands over nothing.
LEMMA SameFlows ==
  ASSUME IInv, IInv', Flows, NEW n \in Node, NEW d, Sound(d), NEW received,
         Step(n, d, received), Moves(n, d, handed[n]), procSess' = procSess, handed' = handed
  PROVE  Flows'
BY StepFlows

\* An end that stays as it is keeps its flow when the other one has less to send.
LEMMA LessFlow ==
  ASSUME IInv, IInv', NEW n \in Node, Flow(n), procSess'[n] = procSess[n], handed' = handed,
         conn'[n].present = conn[n].present, conn'[n].tx = conn[n].tx,
         conn'[n].outq = conn[n].outq, conn'[n].inq = conn[n].inq, conn'[n].got = conn[n].got,
         Pool(n)' \subseteq Pool(n),
         Sending(conn'[Peer(n)], Pool(Peer(n))') \subseteq Sending(conn[Peer(n)], Pool(Peer(n)))
  PROVE  Flow(n)'
<1> DEFINE p == Peer(n)
           c == conn[n]
           d == conn'[n]
           S == Sending(conn[p], Pool(p))
           T == Sending(conn'[p], Pool(p)')
<1>1. /\ c.tx = {}
      /\ ~c.present => c.outq = EmptyQueue /\ c.inq = EmptyQueue /\ c.got = <<>>
      /\ procSess[n] > 0 /\ c.outq.sess < procSess[n] + SessStep
      /\ Numbered(c, Pool(n), procSess[n], handed[n])
      /\ InOrder(c, S, handed[p])
  BY Zenon DEF Flow
<1>2. p \in Node /\ c \in Conn /\ conn[p] \in Conn /\ handed[p] \in Nat
  BY PeerType DEF IInv, TypeOK
<1>3. c.got \in Seq(Nat)
  BY <1>2 DEF Conn
<1>4. S \subseteq FrameSet
  BY <1>2, PoolType, SendingType
<1>5. T \subseteq S
  OBVIOUS
<1>6. Sending(d, Pool(n)') \subseteq Sending(c, Pool(n))
  BY DEF Sending
<1>7. Numbered(d, Pool(n)', procSess[n], handed[n])
  BY <1>1, <1>6, NumberedLess
<1> HIDE DEF S, T, p
<1>8. handed[p] <= handed[p]
  BY <1>2
<1>9. T \subseteq FrameSet /\ \A f \in T : f \in S \/ (f.kind = "data" => handed[p] < f.val)
  BY <1>4, <1>5
<1>10. InOrder(d, T, handed[p])
  BY <1>1, <1>2, <1>3, <1>8, <1>9, InOrderLess
<1> QED
  BY <1>1, <1>7, <1>10, Zenon DEF Flow, T, p

\* An action that takes nothing but framesets off the network keeps the flow.
LEMMA FewerFlows ==
  ASSUME IInv, IInv', Flows, procSess' = procSess, handed' = handed,
         \A n \in Node : /\ conn'[n].present = conn[n].present /\ conn'[n].tx = conn[n].tx
                         /\ conn'[n].outq = conn[n].outq /\ conn'[n].inq = conn[n].inq
                         /\ conn'[n].got = conn[n].got
                         /\ net'[n] \subseteq net[n]
  PROVE  Flows'
<1>1. ASSUME NEW n \in Node
      PROVE  Pool(n)' \subseteq Pool(n)
  <2> DEFINE p == Peer(n)
  <2>1. p \in Node
    BY PeerType
  <2>2. Pool(n)' = Sequenced(net'[p]) \cup Held(conn'[p].inq)
    BY DEF Pool
  <2>3. Pool(n) = Sequenced(net[p]) \cup Held(conn[p].inq)
    BY DEF Pool
  <2> HIDE DEF p
  <2>4. net'[p] \subseteq net[p] /\ conn'[p].inq = conn[p].inq
    BY <2>1
  <2>5. Sequenced(net'[p]) \subseteq Sequenced(net[p])
    BY <2>4 DEF Sequenced
  <2> QED
    BY <2>2, <2>3, <2>4, <2>5
<1>2. ASSUME NEW n \in Node
      PROVE  Sending(conn'[n], Pool(n)') \subseteq Sending(conn[n], Pool(n))
  <2>1. conn'[n].tx = conn[n].tx /\ conn'[n].outq = conn[n].outq
    OBVIOUS
  <2> QED
    BY <1>1, <2>1 DEF Sending
<1>3. ASSUME NEW n \in Node
      PROVE  Flow(n)'
  <2>1. Peer(n) \in Node /\ Flow(n)
    BY PeerType, Zenon DEF Flows
  <2>2. Sending(conn'[Peer(n)], Pool(Peer(n))') \subseteq Sending(conn[Peer(n)], Pool(Peer(n)))
    BY <1>2, <2>1
  <2> QED
    BY <1>1, <2>1, <2>2, LessFlow
<1> QED
  BY <1>3, Zenon DEF Flows

\* A restarted process has a later session id than all it sent before.
LEMMA RestartFlows ==
  ASSUME IInv, IInv', Flows, NEW n \in Node, Restart(n)
  PROVE  Flows'
<1> DEFINE p == Peer(n)
           k == procSess[n] + SessStep
           c == conn[n]
           d == conn'[n]
<1>1. p \in Node /\ p # n /\ Peer(p) = n /\ Flow(n) /\ Flow(p)
  BY PeerType, Zenon DEF Flows
<1>2. /\ conn \in [Node -> Conn] /\ procSess \in [Node -> Nat] /\ procSess[n] \in Nat
      /\ SessStep \in Nat /\ c \in Conn /\ handed[p] \in Nat
  BY <1>1, TimerAssumption DEF IInv, TypeOK
<1>3. /\ conn' = [conn EXCEPT ![n] = NoConn]
      /\ procSess' = [procSess EXCEPT ![n] = k]
      /\ net' = net /\ handed' = handed
  BY Zenon DEF Restart
<1> HIDE DEF k, p
<1>4. d = NoConn /\ conn'[p] = conn[p] /\ procSess'[n] = k /\ procSess'[p] = procSess[p]
  BY <1>1, <1>2, <1>3
<1>5. /\ d.tx = {} /\ d.outq = EmptyQueue /\ d.inq = EmptyQueue /\ d.got = <<>> /\ ~d.present
  BY <1>4 DEF NoConn, NewConn
<1>6. Held(EmptyQueue) = {} /\ EmptyQueue.sess = 0 /\ EmptyQueue \in Queue
  BY EmptyQueueType DEF Held, EmptyQueue
<1>7. Pool(n)' = Pool(n) /\ Pool(p)' \subseteq Pool(p)
  <2>1. Pool(n)' = Sequenced(net'[p]) \cup Held(conn'[p].inq)
    BY DEF Pool, p
  <2>2. Pool(n) = Sequenced(net[p]) \cup Held(conn[p].inq)
    BY DEF Pool, p
  <2>3. Pool(p)' = Sequenced(net'[n]) \cup Held(conn'[n].inq)
    BY <1>1 DEF Pool, p
  <2>4. Pool(p) = Sequenced(net[n]) \cup Held(conn[n].inq)
    BY <1>1 DEF Pool
  <2> QED
    BY <1>3, <1>4, <1>5, <1>6, <2>1, <2>2, <2>3, <2>4
<1>8. Sending(d, Pool(n)') = Pool(n)
  BY <1>5, <1>6, <1>7 DEF Sending, Sequenced
<1>9. Pool(n) \subseteq Sending(c, Pool(n)) /\ Pool(n) \subseteq FrameSet
  BY PoolType DEF Sending
<1>10. /\ c.outq.sess \in Nat /\ c.outq.next \in Nat
       /\ procSess[n] > 0 /\ c.outq.sess < k
       /\ Numbered(c, Pool(n), procSess[n], handed[n])
  <2>1. c.outq \in Queue
    BY <1>2 DEF Conn
  <2>2. c.outq.sess \in Nat /\ c.outq.next \in Nat
    BY <2>1 DEF Queue
  <2> QED
    BY <1>1, <2>2 DEF Flow, k
<1>11. k > 0 /\ 0 < k + SessStep
  BY <1>2, <1>10 DEF k
<1>12. ASSUME NEW f \in Sending(c, Pool(n)), Past(c, procSess[n], f), f \in FrameSet
       PROVE  f.sess < k
  <2>1. f.sess \in Nat /\ f.seq \in Nat
    BY <1>12 DEF FrameSet
  <2>2. f.sess < procSess[n] \/ f.sess <= c.outq.sess
    BY <1>10, <1>12, <2>1 DEF Past, Before, SeqnoOf, Top
  <2> QED
    BY <1>2, <1>10, <2>1, <2>2 DEF k
<1>13. Numbered(d, Pool(n)', k, handed[n])
  <2>1. \A f \in Pool(n) : Past(d, k, f)
    <3> SUFFICES ASSUME NEW f \in Pool(n) PROVE Past(d, k, f)
      OBVIOUS
    <3>1. f \in Sending(c, Pool(n)) /\ f \in FrameSet
      BY <1>9
    <3>2. Past(c, procSess[n], f)
      BY <1>10, <3>1, Zenon DEF Numbered
    <3> QED
      BY <1>5, <1>6, <1>12, <3>1, <3>2, Zenon DEF Past
  <2> QED
    BY <1>8, <1>9, <1>10, <2>1, Zenon DEF Numbered
<1>14. InOrder(d, Sending(conn'[p], Pool(p)'), handed[p])
  <2>1. DOMAIN d.got = {}
    BY <1>5
  <2> QED
    BY <1>5, <1>6, <2>1, Zenon DEF InOrder, OneSession
<1>15. Flow(n)'
  BY <1>3, <1>4, <1>5, <1>6, <1>11, <1>13, <1>14, Zenon DEF Flow, p
<1>16. Flow(p)'
  <2>1. Sending(d, Pool(n)') \subseteq Sending(c, Pool(n))
    BY <1>8, <1>9
  <2>2. /\ conn'[p].present = conn[p].present /\ conn'[p].tx = conn[p].tx
        /\ conn'[p].outq = conn[p].outq /\ conn'[p].inq = conn[p].inq
        /\ conn'[p].got = conn[p].got
    BY <1>4
  <2> QED
    BY <1>1, <1>3, <1>4, <1>7, <2>1, <2>2, LessFlow
<1>17. \A m \in Node : m = n \/ m = p
  BY <1>1 DEF Node
<1> QED
  BY <1>15, <1>16, <1>17, Zenon DEF Flows


-------------------------------------------------------------------------------
(* A destroyed connection forgets which numbers it gave out: one created in its *)
(* place by the same run of the process starts again with the same session id.  *)
(* What follows is about the steps that destroy none but by a restart.          *)

Stay == \A n \in Node : conn[n].present => conn'[n].present \/ procSess'[n] # procSess[n]

\* No step of a behaviour destroys a connection, except a restart of its process.
ConnectionsStay == [][Stay]_vars

\* A destroyed connection is gone: such a step is not taken.
LEMMA DestroyLeaves ==
  ASSUME IInv, NEW n \in Node, Sound(conn[n]), NEW received,
         Step(n, Destroy(conn[n]), received), procSess' = procSess
  PROVE  ~Stay
<1> DEFINE e == [Destroy(conn[n]) EXCEPT !.tx = {}]
<1>1. conn \in [Node -> Conn]
  BY DEF IInv, TypeOK
<1>2. conn' = [conn EXCEPT ![n] = e]
  BY Zenon DEF Step
<1>3. Gone(Destroy(conn[n]))
  BY DestroyGone
<1>4. Destroy(conn[n]) \in Conn /\ ~Destroy(conn[n]).present
  BY <1>3, Zenon DEF Gone
<1>5. ~e.present
  BY <1>4 DEF Conn
<1> HIDE DEF e
<1>6. conn'[n] = e
  BY <1>1, <1>2
<1>7. conn[n].present
  BY Zenon DEF Sound
<1> QED
  BY <1>5, <1>6, <1>7, Zenon DEF Stay

\* Where nothing is being done an end may have what it has.
LEMMA CurrentMoves ==
  ASSUME IInv, Flows, NEW n \in Node, conn[n].present
  PROVE  Sound(conn[n]) /\ Moves(n, conn[n], handed[n])
<1>1. AddConn(conn[n]) = conn[n]
  BY Zenon DEF AddConn
<1> QED
  BY <1>1, AddConnMoves, Zenon

\* Neither the initial state nor any step breaks the flow.  First the initial state.
LEMMA InitFlows == Init => Flows
<1> SUFFICES ASSUME Init, NEW n \in Node PROVE Flow(n)
  BY Zenon DEF Flows
<1> DEFINE p == Peer(n)
           c == conn[n]
<1>1. p \in Node
  BY PeerType
<1>2. c = NoConn /\ conn[p] = NoConn /\ net[p] = {} /\ net[n] = {} /\ procSess[n] = 1
      /\ Peer(p) = n
  BY <1>1, PeerType DEF Init
<1>3. /\ c.tx = {} /\ c.outq = EmptyQueue /\ c.inq = EmptyQueue /\ c.got = <<>> /\ ~c.present
      /\ conn[p].inq = EmptyQueue
  BY <1>2 DEF NoConn, NewConn
<1>4. Held(EmptyQueue) = {} /\ EmptyQueue.sess = 0
  BY DEF Held, EmptyQueue
<1>5. Sending(c, Pool(n)) = {}
  BY <1>2, <1>3, <1>4 DEF Sending, Pool, Sequenced
<1>6. 0 < procSess[n] + SessStep /\ procSess[n] > 0
  BY <1>2, TimerAssumption
<1>7. Numbered(c, Pool(n), procSess[n], handed[n])
  BY <1>5, Zenon DEF Numbered
<1>8. DOMAIN c.got = {}
  BY <1>3
<1>9. InOrder(c, Sending(conn[p], Pool(p)), handed[p])
  BY <1>3, <1>4, <1>8, Zenon DEF InOrder, OneSession
<1> QED
  BY <1>3, <1>4, <1>6, <1>7, <1>9, Zenon DEF Flow


\* The calls of the application keep the flow.
LEMMA CallsFlows ==
  ASSUME IInv, IInv', Flows, Stay, NEW n \in Node, Calls(n)
  PROVE  Flows'
<1>1. /\ procSess[n] \in Nat /\ handed \in [Node -> Nat] /\ handed[n] \in Nat
      /\ toack \in [Node -> Seq(Seqno)]
      /\ Sound(conn[n]) \/ Gone(conn[n])
  BY DEF IInv, ConnInv, TypeOK
<1>2. /\ Sound(AddConn(conn[n])) /\ Moves(n, AddConn(conn[n]), handed[n])
  BY AddConnMoves
<1>3. ASSUME conn[n].present PROVE Sound(conn[n]) /\ Moves(n, conn[n], handed[n])
  BY <1>3, CurrentMoves
<1>4. "data" \in Kinds /\ NoSeqno \in Seqno
  BY SmallTypes DEF Kinds
<1>5. procSess[n] > 0
  BY DEF Flows, Flow
<1>6. Peer(n) \in Node /\ Peer(n) # n
  BY PeerType
<1>7. CASE Send(n)
  <2> DEFINE k == handed[n] + 1
             d == Send1(AddConn(conn[n]), "data", k, procSess[n])
  <2>1. handed' = [handed EXCEPT ![n] = k]
    BY <1>7, Zenon DEF Send
  <2>2. k \in Nat /\ handed[n] <= k /\ handed[n] < k /\ k <= k
    BY <1>1
  <2> HIDE DEF k
  <2>3. handed'[n] = k /\ handed'[Peer(n)] = handed[Peer(n)]
    BY <1>1, <1>6, <2>1
  <2>4. Step(n, d, {}) /\ procSess' = procSess
    BY <1>7, <2>3, Zenon DEF Send
  <2>5. Sound(d)
    BY <1>1, <1>2, <1>4, <2>2, Send1Sound
  <2>6. Moves(n, d, k)
    BY <1>2, <1>4, <1>5, <2>2, Send1Moves
  <2> HIDE DEF d
  <2> QED
    BY <2>3, <2>4, <2>5, <2>6, StepFlows
<1>8. CASE SendList(n)
  <2> DEFINE i == handed[n] + 1
             k == handed[n] + 2
             first == Send1(AddConn(conn[n]), "data", i, procSess[n])
             both == Send1(first, "data", k, procSess[n])
             d == XmitIfWeCan(both)
             K == {NoSeqno}
  <2>1. handed' = [handed EXCEPT ![n] = k]
    BY <1>8, Zenon DEF SendList
  <2>2. k \in Nat /\ i \in Nat /\ handed[n] <= i /\ handed[n] < i /\ i <= i /\ i <= k /\ i < k /\ k <= k
    BY <1>1
  <2>3. handed'[n] = k /\ handed'[Peer(n)] = handed[Peer(n)]
    BY <1>1, <1>6, <2>1
  <2>4. Step(n, d, {}) /\ procSess' = procSess
    BY <1>8, <2>3, Zenon DEF SendList
  <2> HIDE DEF k, i
  <2>5. Sound(first) /\ Moves(n, first, i)
    BY <1>1, <1>2, <1>4, <1>5, <2>2, Send1Sound, Send1Moves
  <2> HIDE DEF first
  <2>6. Sound(both) /\ Moves(n, both, k)
    BY <1>1, <1>4, <1>5, <2>2, <2>5, Send1Sound, Send1Moves
  <2> HIDE DEF both
  <2>7. Sound(d)
    BY <2>6, XmitSound
  <2>8. Quiet(both, d, K)
    BY <2>6, XmitQuiet
  <2> HIDE DEF K
  <2>9. Moves(n, d, k)
    BY <2>6, <2>7, <2>8, QuietMoves DEF Sound
  <2> HIDE DEF d
  <2> QED
    BY <2>3, <2>4, <2>7, <2>9, StepFlows
<1>9. CASE Read(n)
  <2> DEFINE d == ReadOne(conn[n], procSess[n])
  <2>1. conn[n].inq.q # <<>> /\ Readable(conn[n].inq)
    BY <1>9, Zenon DEF Read, Readable
  <2>2. Sound(conn[n])
    BY <1>1, <2>1, Zenon DEF Gone
  <2>3. Moves(n, conn[n], handed[n])
    BY <1>3, <2>2, Zenon DEF Sound
  <2>4. Step(n, d, {}) /\ procSess' = procSess /\ handed' = handed
    BY <1>9, Zenon DEF Read
  <2>5. Sound(d) /\ Moves(n, d, handed[n])
    BY <1>1, <1>5, <2>1, <2>2, <2>3, ReadOneSound, ReadOneMoves
  <2> HIDE DEF d
  <2> QED
    BY <2>4, <2>5, SameFlows
<1>10. CASE AckMessage(n)
  <2> DEFINE s == Head(toack[n])
             d == AckSeqno(conn[n], s)
             K == {s}
  <2>1. toack[n] # <<>> /\ conn[n].present /\ toack[n] \in Seq(Seqno)
    BY <1>1, <1>10 DEF AckMessage
  <2>2. s \in Seqno
    BY <2>1, HeadTailProperties
  <2>3. Sound(conn[n]) /\ Moves(n, conn[n], handed[n])
    BY <1>3, <2>1
  <2>4. Step(n, d, {}) /\ procSess' = procSess /\ handed' = handed
    BY <1>10, Zenon DEF AckMessage
  <2> HIDE DEF s
  <2>5. Sound(d)
    BY <2>2, <2>3, AckSeqnoSound
  <2>6. Quiet(conn[n], d, K)
    BY <2>3, AckSeqnoQuiet DEF Sound
  <2> HIDE DEF d, K
  <2>7. Moves(n, d, handed[n])
    BY <2>3, <2>5, <2>6, QuietMoves DEF Sound
  <2> QED
    BY <2>4, <2>5, <2>7, SameFlows
<1>11. CASE CloseConn(n)
  <2> DEFINE d == Fsa(conn[n], "REQSHUTDOWN", NoSeqno, procSess[n])
  <2>1. conn[n].present /\ Step(n, d, {}) /\ procSess' = procSess /\ handed' = handed
    BY <1>11, Zenon DEF CloseConn
  <2>2. Sound(conn[n]) /\ Moves(n, conn[n], handed[n])
    BY <1>3, <2>1
  <2>3. Sound(d)
    BY <1>1, <1>4, <2>2, CloseSound
  <2>4. Moves(n, d, handed[n])
    BY <1>4, <1>5, <2>2, <2>3, FsaMoves
  <2> HIDE DEF d
  <2> QED
    BY <2>1, <2>3, <2>4, SameFlows
<1>12. CASE CloseAll(n)
  <2>1. conn[n].present /\ Step(n, Destroy(conn[n]), {}) /\ procSess' = procSess
    BY <1>12, Zenon DEF CloseAll
  <2>2. Sound(conn[n])
    BY <1>3, <2>1
  <2> QED
    BY <2>1, <2>2, DestroyLeaves
<1>13. CASE CountIdle(n)
  <2> DEFINE c == conn[n]
             no == FALSE
             d == [c EXCEPT !.shutdown_complete = no]
             K == {NoSeqno}
  <2>1. c.present /\ Step(n, d, {}) /\ procSess' = procSess /\ handed' = handed
    BY <1>13, Zenon DEF CountIdle
  <2>2. Sound(c) /\ Moves(n, c, handed[n]) /\ no \in BOOLEAN
    BY <1>3, <2>1
  <2> HIDE DEF c, no
  <2>3. c \in Conn
    BY <2>2 DEF Sound
  <2>4. d \in Conn
    BY <2>2, <2>3 DEF Conn
  <2>5. /\ d.present = c.present /\ d.state = c.state /\ d.outq = c.outq
        /\ d.unacked = c.unacked /\ d.shuttimer = c.shuttimer /\ d.complained = c.complained
        /\ d.inq = c.inq /\ d.got = c.got /\ d.lastacksent = c.lastacksent /\ d.tx = c.tx
    BY <2>3 DEF Conn
  <2> HIDE DEF d
  <2>6. Sound(d)
    BY <2>2, <2>4, <2>5, SoundKept, Zenon
  <2>7. Quiet(c, d, K)
    BY <2>5, QuietFields, Zenon
  <2> HIDE DEF K
  <2>8. Moves(n, d, handed[n])
    BY <2>2, <2>3, <2>4, <2>7, QuietMoves
  <2> QED
    BY <2>1, <2>6, <2>8, SameFlows
<1> QED
  BY <1>7, <1>8, <1>9, <1>10, <1>11, <1>12, <1>13 DEF Calls


\* Receiving a frameset keeps the flow.
LEMMA DeliverFlows ==
  ASSUME IInv, IInv', Flows, NEW n \in Node, NEW kind \in Kinds, Deliver(n, kind)
  PROVE  Flows'
<1> DEFINE p == Peer(n)
           c == AddConn(conn[n])
<1>1. PICK fs \in net[n] : /\ Receive(n, fs)
                           /\ UNCHANGED <<procSess, toack, handed, seen, used>>
  BY Zenon DEF Deliver
<1>2. net[n] \subseteq FrameSet /\ fs \in FrameSet
  BY DEF IInv, TypeOK
<1>3. SeqnoOf(fs) \in Seqno
  BY <1>2 DEF FrameSet, SeqnoOf, Seqno
<1>4. Sound(c) /\ Moves(n, c, handed[n])
  BY AddConnMoves
<1>5. procSess' = procSess /\ handed' = handed
  BY <1>1
<1> HIDE DEF c
<1>6. CASE fs.kind = "ack"
  <2> DEFINE d == ReceiveAck(c, SeqnoOf(fs))
  <2>1. Step(n, d, {fs})
    BY <1>1, <1>6, Zenon DEF Receive, c
  <2>2. Sound(d) /\ Moves(n, d, handed[n])
    BY <1>3, <1>4, ReceiveAckSound, ReceiveAckMoves
  <2> HIDE DEF d
  <2> QED
    BY <1>5, <2>1, <2>2, SameFlows
<1>7. CASE fs.kind # "ack"
  <2> DEFINE d == ReceiveSequenced(c, fs)
  <2>1. Step(n, d, {fs})
    BY <1>1, <1>7, Zenon DEF Receive, c
  <2>2. p \in Node /\ Peer(p) = n /\ Flow(p)
    BY PeerType, Zenon DEF Flows
  <2>3. fs \in Pool(p)
    BY <1>7, <2>2 DEF Pool, Sequenced
  <2>4. fs.sess > 0
    <3>1. fs \in Sending(conn[p], Pool(p))
      BY <2>3 DEF Sending
    <3>2. Numbered(conn[p], Pool(p), procSess[p], handed[p])
      BY <2>2, Zenon DEF Flow
    <3> QED
      BY <3>1, <3>2, Zenon DEF Numbered
  <2>5. Sound(d) /\ Moves(n, d, handed[n])
    BY <1>2, <1>4, <2>3, <2>4, ReceiveSequencedSound, ReceiveSequencedMoves
  <2> HIDE DEF d
  <2> QED
    BY <1>5, <2>1, <2>5, SameFlows
<1> QED
  BY <1>6, <1>7

\* The timers keep the flow.
LEMMA TimersFlows ==
  ASSUME IInv, IInv', Flows, Stay, NEW n \in Node, Timers(n)
  PROVE  Flows'
<1> DEFINE c == conn[n]
           K == {NoSeqno}
<1>1. /\ Sound(c) \/ Gone(c)
      /\ conn \in [Node -> Conn] /\ net \in [Node -> SUBSET FrameSet] /\ c \in Conn
  BY DEF IInv, ConnInv, TypeOK
<1>2. ASSUME c.present PROVE Sound(c) /\ Moves(n, c, handed[n])
  BY <1>2, CurrentMoves
<1>3. CASE RexmitDue(n)
  <2> DEFINE r == "due"
             d == [c EXCEPT !.rexmit = r]
  <2>1. conn' = [conn EXCEPT ![n] = d] /\ net' = net /\ procSess' = procSess /\ handed' = handed
    BY <1>3, Zenon DEF RexmitDue
  <2> HIDE DEF c, r
  <2>2. /\ d.present = c.present /\ d.outq = c.outq /\ d.inq = c.inq /\ d.got = c.got
        /\ d.tx = c.tx
    BY <1>1 DEF Conn
  <2> HIDE DEF d
  <2>3. \A m \in Node : conn'[m] = IF m = n THEN d ELSE conn[m]
    BY <1>1, <2>1
  <2>4. \A m \in Node : /\ conn'[m].present = conn[m].present /\ conn'[m].tx = conn[m].tx
                        /\ conn'[m].outq = conn[m].outq /\ conn'[m].inq = conn[m].inq
                        /\ conn'[m].got = conn[m].got
                        /\ net'[m] \subseteq net[m]
    BY <2>1, <2>2, <2>3 DEF c
  <2> QED
    BY <2>1, <2>4, FewerFlows
<1>4. CASE Timeout(n)
  <2> DEFINE d == XmitIfWeCan(c)
  <2>1. Step(n, d, {}) /\ procSess' = procSess /\ handed' = handed /\ c.rexmit # "off"
    BY <1>4, Zenon DEF Timeout
  <2>2. Sound(c)
    BY <1>1, <2>1, Zenon DEF Gone
  <2>3. Moves(n, c, handed[n])
    BY <1>2, <2>2, Zenon DEF Sound
  <2>4. Sound(d) /\ Quiet(c, d, K)
    BY <2>2, XmitSound, XmitQuiet
  <2> HIDE DEF d, K
  <2>5. Moves(n, d, handed[n])
    BY <2>2, <2>3, <2>4, QuietMoves DEF Sound
  <2> QED
    BY <2>1, <2>4, <2>5, SameFlows
<1>5. CASE ShutTimeout(n)
  <2> DEFINE d == FsaQuiet(c, "SHUT_TO")
  <2>1. Step(n, d, {}) /\ procSess' = procSess /\ handed' = handed /\ c.shuttimer
    BY <1>5, Zenon DEF ShutTimeout
  <2>2. Sound(c)
    BY <1>1, <2>1, Zenon DEF Gone
  <2>3. Moves(n, c, handed[n])
    BY <1>2, <2>2, Zenon DEF Sound
  <2>4. Sound(d)
    BY <2>1, <2>2, ShutTimeoutSound
  <2>5. Quiet(c, d, K)
    BY <1>1, FinishQuiet DEF FsaQuiet
  <2> HIDE DEF d, K
  <2>6. Moves(n, d, handed[n])
    BY <2>2, <2>3, <2>4, <2>5, QuietMoves DEF Sound
  <2> QED
    BY <2>1, <2>4, <2>6, SameFlows
<1>6. CASE FinalizeTimeout(n)
  <2> DEFINE no == FALSE
             d == [c EXCEPT !.finalizetimer = no]
  <2>1. procSess' = procSess /\ handed' = handed /\ c.finalizetimer
    BY <1>6, Zenon DEF FinalizeTimeout
  <2>2. Step(n, d, {}) \/ Step(n, Destroy(c), {})
    BY <1>6, Zenon DEF FinalizeTimeout
  <2>3. Sound(c)
    BY <1>1, <2>1, Zenon DEF Gone
  <2>4. Moves(n, c, handed[n])
    BY <1>2, <2>3, Zenon DEF Sound
  <2>5. ~Step(n, Destroy(c), {})
    BY <2>1, <2>3, DestroyLeaves
  <2>6. no \in BOOLEAN
    OBVIOUS
  <2> HIDE DEF c, no
  <2>7. d \in Conn
    BY <1>1, <2>6 DEF Conn
  <2>8. /\ d.present = c.present /\ d.state = c.state /\ d.outq = c.outq
        /\ d.unacked = c.unacked /\ d.shuttimer = c.shuttimer /\ d.complained = c.complained
        /\ d.inq = c.inq /\ d.got = c.got /\ d.lastacksent = c.lastacksent /\ d.tx = c.tx
    BY <1>1 DEF Conn
  <2> HIDE DEF d, K
  <2>9. Sound(d)
    BY <2>3, <2>7, <2>8, SoundKept, Zenon
  <2>10. Quiet(c, d, K)
    BY <2>8, QuietFields, Zenon
  <2>11. Moves(n, d, handed[n])
    BY <1>1, <2>4, <2>7, <2>10, QuietMoves
  <2> QED
    BY <2>1, <2>2, <2>5, <2>9, <2>11, SameFlows
<1> QED
  BY <1>3, <1>4, <1>5, <1>6 DEF Timers

\* Every step that destroys no connection keeps the flow.
LEMMA NextFlows ==
  ASSUME IInv, IInv', Flows, Stay, [Next]_vars
  PROVE  Flows'
<1>1. CASE UNCHANGED vars
  <2>1. conn' = conn /\ net' = net /\ procSess' = procSess /\ handed' = handed
    BY <1>1, Zenon DEF vars
  <2> QED
    BY <2>1, FewerFlows
<1>2. CASE Next
  <2>1. PICK n \in Node : \/ Calls(n) \/ Timers(n) \/ Restart(n) \/ Lose(n)
                          \/ \E kind \in Kinds : Deliver(n, kind)
    BY <1>2, Zenon DEF Next
  <2>2. CASE Lose(n)
    <3>1. PICK fs \in net[n] : net' = [net EXCEPT ![n] = net[n] \ {fs}]
      BY <2>2, Zenon DEF Lose
    <3>2. conn' = conn /\ procSess' = procSess /\ handed' = handed
      BY <2>2, Zenon DEF Lose
    <3>3. net \in [Node -> SUBSET FrameSet]
      BY DEF IInv, TypeOK
    <3>4. \A m \in Node : net'[m] \subseteq net[m]
      BY <3>1, <3>3
    <3> QED
      BY <3>2, <3>4, FewerFlows
  <2> QED
    BY <2>1, <2>2, CallsFlows, TimersFlows, RestartFlows, DeliverFlows, Zenon
<1> QED
  BY <1>1, <1>2

\* Where connections stay the flow is an invariant: what is sent under one session
\* and number is one frameset, and what was read comes before what can be read.
THEOREM FlowInvariance == Spec /\ ConnectionsStay => []Flows
<1>1. Init => Flows
  BY InitFlows
<1>2. IInv /\ IInv' /\ Flows /\ [Next]_vars /\ [Stay]_vars => Flows'
  <2>1. CASE UNCHANGED vars
    <3>1. conn' = conn
      BY <2>1, Zenon DEF vars
    <3>2. Stay
      BY <3>1, Zenon DEF Stay
    <3> QED
      BY <3>2, NextFlows
  <2>2. CASE Stay
    BY <2>2, NextFlows
  <2> QED
    BY <2>1, <2>2
<1> QED
  BY <1>1, <1>2, Invariance, PTL DEF Spec, ConnectionsStay

\* Two different framesets never go out under one sequence number, whatever is lost,
\* repeated, reset or restarted, as long as no run of a process destroys a connection.
THEOREM NumbersAreUsedOnce == Spec /\ ConnectionsStay => []NoSeqnoReuse
<1>1. IInv /\ Flows => NoSeqnoReuse
  <2> SUFFICES ASSUME IInv, Flows, NEW n \in Node, NEW f \in net[n], NEW g \in net[n],
                      f.kind # "ack", g.kind # "ack", SeqnoOf(f) = SeqnoOf(g)
               PROVE  f = g
    BY Zenon DEF NoSeqnoReuse
  <2> DEFINE p == Peer(n)
  <2>1. p \in Node /\ Peer(p) = n
    BY PeerType
  <2>2. Numbered(conn[p], Pool(p), procSess[p], handed[p])
    BY <2>1, Zenon DEF Flows, Flow
  <2>3. f \in Pool(p) /\ g \in Pool(p)
    BY <2>1 DEF Pool, Sequenced
  <2>4. f \in Sending(conn[p], Pool(p)) /\ g \in Sending(conn[p], Pool(p))
    BY <2>3 DEF Sending
  <2> QED
    BY <2>2, <2>4, Zenon DEF Numbered
<1> QED
  BY <1>1, Invariance, FlowInvariance, PTL

\* Within the life of a connection the application reads what the peer sent in the
\* order it was sent, and nothing twice, although the network reorders and repeats.
THEOREM ReadingIsInOrder == Spec /\ ConnectionsStay => []ReadInOrder
<1>1. Flows => ReadInOrder
  BY Zenon DEF Flows, Flow, InOrder, ReadInOrder
<1> QED
  BY <1>1, FlowInvariance, PTL

-------------------------------------------------------------------------------
(* What is acknowledged.  An ACK covers all framesets up to its number, so that *)
(* it may only be for what was read if no frameset is sent while an earlier one *)
(* may still be unread: with the window of fsprotocol.h an end sends the head   *)
(* of its queue of output and nothing else.                                     *)

NumbersOf(F) == {SeqnoOf(f) : f \in F}

\* The numbers of n's framesets that its peer has acknowledged or may acknowledge.
AckNumbers(n) ==
  LET p == Peer(n)
  IN  {NoSeqno, conn[p].lastacksent} \cup {toack[p][i] : i \in DOMAIN toack[p]}
        \cup NumbersOf(net[n] \ Sequenced(net[n]))

\* Data whose number is in T is in S; what is not data carries the value 0.
Settled(f, T, S) ==
  IF f.kind = "data" THEN SeqnoOf(f) \in T => f.val \in S ELSE f.val = 0

\* What c may be while an action of n runs that has read the framesets numbered X.
Answers(n, c, X) ==
  LET p == Peer(n)
  IN  /\ InRun(c.outq)
      /\ \A t \in AckNumbers(n) \cup NumbersOf(Pool(n) \cup Sequenced(c.tx)) :
           AtMost(c.outq, procSess[n], t)
      /\ \A f \in Sending(c, Pool(n)) : Settled(f, AckNumbers(n), seen[p])
      /\ {c.lastacksent} \cup NumbersOf(c.tx \ Sequenced(c.tx)) \subseteq AckNumbers(p) \cup X

Answered == \A n \in Node : Answers(n, conn[n], {}) /\ acked[n] \subseteq seen[Peer(n)]

\* Acknowledgements carry sequence numbers.
LEMMA AckNumbersType ==
  ASSUME IInv, NEW n \in Node
  PROVE  AckNumbers(n) \subseteq Seqno
<1> DEFINE p == Peer(n)
<1>1. /\ p \in Node /\ conn[p] \in Conn /\ toack[p] \in Seq(Seqno) /\ net[n] \subseteq FrameSet
  BY PeerType DEF IInv, TypeOK
<1>2. NoSeqno \in Seqno /\ conn[p].lastacksent \in Seqno
  BY <1>1, SmallTypes DEF Conn
<1>3. \A f \in FrameSet : SeqnoOf(f) \in Seqno
  BY DEF FrameSet, SeqnoOf, Seqno
<1>4. \A i \in DOMAIN toack[p] : toack[p][i] \in Seqno
  BY <1>1
<1> HIDE DEF p
<1> QED
  BY <1>1, <1>2, <1>3, <1>4 DEF AckNumbers, NumbersOf, p

\* So do the framesets that are under way.
LEMMA NumbersType ==
  ASSUME NEW F, F \subseteq FrameSet
  PROVE  NumbersOf(F) \subseteq Seqno
<1>1. \A f \in FrameSet : SeqnoOf(f) \in Seqno
  BY DEF FrameSet, SeqnoOf, Seqno
<1> QED
  BY <1>1 DEF NumbersOf

\* Only the head of the queue is transmitted.
LEMMA DueIsHead ==
  ASSUME Window <= 2, NEW fq \in Queue, InRun(fq), NEW f \in Due(fq), NEW s \in Nat
  PROVE  f \in Held(fq) /\ AtMost(fq, s, SeqnoOf(f))
<1>1. PICK i \in DOMAIN fq.q : f = fq.q[i] /\ (i = 1 \/ Window > 2)
  BY DEF Due
<1>2. i = 1
  BY <1>1, WindowAssumption
<1>3. f \in Held(fq)
  BY <1>1 DEF Held
<1>4. fq.q # <<>>
  BY <1>1
<1>5. f = Head(fq.q)
  BY <1>1, <1>2, <1>4, HeadIsLeast
<1>6. f.sess \in Nat /\ f.seq \in Nat
  BY <1>3, HeldType DEF FrameSet
<1>7. ~Before(SeqnoOf(f), SeqnoOf(f))
  BY <1>6 DEF Before, SeqnoOf
<1> QED
  BY <1>3, <1>4, <1>5, <1>7 DEF AtMost

\* A connection with the same output and acknowledgements may take the place of
\* another one.
LEMMA SameAnswers ==
  ASSUME NEW n, NEW c, NEW d, NEW X, Answers(n, c, X),
         d.outq = c.outq, d.tx = c.tx, d.lastacksent = c.lastacksent
  PROVE  Answers(n, d, X)
<1>1. Sending(d, Pool(n)) = Sending(c, Pool(n))
  BY DEF Sending
<1> QED
  BY <1>1, Zenon DEF Answers

\* So may one after something quiet, which acknowledges what may be acknowledged.
LEMMA QuietAnswers ==
  ASSUME Window <= 2, IInv, NEW n \in Node, NEW c \in Conn, NEW d \in Conn,
         NEW X, X \subseteq Seqno, NEW K, K \subseteq AckNumbers(Peer(n)) \cup X,
         Answers(n, c, X), Quiet(c, d, K)
  PROVE  Answers(n, d, X)
<1> DEFINE p == Peer(n)
           T == AckNumbers(n)
           Y == AckNumbers(p) \cup X
<1>1. /\ InRun(c.outq)
      /\ \A t \in T \cup NumbersOf(Pool(n) \cup Sequenced(c.tx)) :
           AtMost(c.outq, procSess[n], t)
      /\ \A f \in Sending(c, Pool(n)) : Settled(f, T, seen[p])
      /\ {c.lastacksent} \cup NumbersOf(c.tx \ Sequenced(c.tx)) \subseteq Y
  BY Zenon DEF Answers
<1>2. /\ OutputKept(c, d) /\ d.tx \subseteq c.tx \cup Due(c.outq) \cup Acks(K)
      /\ d.lastacksent \in {c.lastacksent} \cup K
  BY Zenon DEF Quiet
<1>3. /\ c.outq \in Queue /\ d.outq \in Queue /\ c.tx \subseteq FrameSet
      /\ d.tx \subseteq FrameSet /\ procSess[n] \in Nat
  BY DEF Conn, IInv, TypeOK
<1>4. T \subseteq Seqno /\ Y \subseteq Seqno /\ Pool(n) \subseteq FrameSet
  BY PeerType, AckNumbersType, PoolType
<1> HIDE DEF T, Y, p
<1>5. K \subseteq Y /\ K \subseteq Seqno
  BY <1>4 DEF Y, p
<1>6. \A f \in Due(c.outq) : /\ f \in Held(c.outq) /\ AtMost(c.outq, procSess[n], SeqnoOf(f))
                             /\ f.kind # "ack"
  <2>1. \A f \in Due(c.outq) : f \in Held(c.outq) /\ AtMost(c.outq, procSess[n], SeqnoOf(f))
    BY <1>1, <1>3, DueIsHead
  <2> QED
    BY <1>1, <2>1 DEF InRun
<1>7. \A k \in K : SeqnoOf(AckFrameSet(k)) = k /\ AckFrameSet(k).kind = "ack"
  BY <1>5 DEF AckFrameSet, SeqnoOf, Seqno
<1>8. Sequenced(d.tx) \subseteq Sequenced(c.tx) \cup Due(c.outq)
  BY <1>2, <1>7 DEF Sequenced, Acks
<1>9. Held(d.outq) \subseteq Held(c.outq)
  BY <1>2 DEF OutputKept, Held
<1>10. Sending(d, Pool(n)) \subseteq Sending(c, Pool(n))
  BY <1>6, <1>8, <1>9 DEF Sending
<1>11. InRun(d.outq)
  BY <1>1, <1>2, EmptyInRun DEF OutputKept
<1>12. ASSUME NEW t \in T \cup NumbersOf(Pool(n) \cup Sequenced(d.tx))
       PROVE  AtMost(d.outq, procSess[n], t)
  <2>1. t \in Seqno
    <3>1. Pool(n) \cup Sequenced(d.tx) \subseteq FrameSet
      BY <1>3, <1>4 DEF Sequenced
    <3> QED
      BY <1>4, <3>1, NumbersType
  <2>2. AtMost(c.outq, procSess[n], t)
    BY <1>1, <1>6, <1>8 DEF NumbersOf
  <2>3. CASE d.outq = c.outq
    BY <2>2, <2>3
  <2>4. CASE d.outq.q = <<>> /\ IF c.outq.sess = 0 THEN d.outq.sess = 0
                                ELSE d.outq.sess > c.outq.sess
    BY <1>1, <1>3, <2>1, <2>2, <2>4, AtMostReset
  <2> QED
    BY <1>2, <2>3, <2>4, Zenon DEF OutputKept
<1>13. \A f \in Sending(d, Pool(n)) : Settled(f, T, seen[p])
  BY <1>1, <1>10
<1>14. {d.lastacksent} \cup NumbersOf(d.tx \ Sequenced(d.tx)) \subseteq Y
  <2>1. ASSUME NEW f \in d.tx, f.kind = "ack" PROVE SeqnoOf(f) \in Y
    <3>1. CASE f \in c.tx
      BY <1>1, <2>1, <3>1 DEF NumbersOf, Sequenced
    <3>2. CASE f \in Acks(K)
      BY <1>5, <1>7, <3>2 DEF Acks
    <3> QED
      BY <1>2, <1>6, <2>1, <3>1, <3>2
  <2>2. d.lastacksent \in Y
    BY <1>1, <1>2, <1>5
  <2> QED
    BY <2>1, <2>2 DEF NumbersOf, Sequenced
<1> QED
  BY <1>11, <1>12, <1>13, <1>14, Zenon DEF Answers, T, Y, p


\* Queueing a frameset gives it a number that nobody has acknowledged.
LEMMA EnqAnswers ==
  ASSUME IInv, NEW n \in Node, procSess[n] > 0, NEW c \in Conn, NEW d, NEW X,
         NEW kind \in Kinds, kind # "ack", NEW val \in Nat, kind # "data" => val = 0,
         Answers(n, c, X), d.outq = Enq(c.outq, kind, val, procSess[n]),
         d.tx = c.tx, d.lastacksent = c.lastacksent
  PROVE  Answers(n, d, X)
<1> DEFINE p == Peer(n)
           T == AckNumbers(n)
           Y == AckNumbers(p) \cup X
           U == NumbersOf(Pool(n) \cup Sequenced(c.tx))
           e == Added(c.outq, kind, val, procSess[n])
<1>1. /\ InRun(c.outq)
      /\ \A t \in T \cup U : AtMost(c.outq, procSess[n], t)
      /\ \A f \in Sending(c, Pool(n)) : Settled(f, T, seen[p])
      /\ {c.lastacksent} \cup NumbersOf(c.tx \ Sequenced(c.tx)) \subseteq Y
  BY Zenon DEF Answers
<1>2. c.outq \in Queue /\ c.tx \subseteq FrameSet /\ procSess[n] \in Nat
  BY DEF Conn, IInv, TypeOK
<1>3. T \cup U \subseteq Seqno
  <2>1. Pool(n) \cup Sequenced(c.tx) \subseteq FrameSet
    BY <1>2, PoolType DEF Sequenced
  <2> QED
    BY <2>1, AckNumbersType, NumbersType
<1>4. U = NumbersOf(Pool(n) \cup Sequenced(d.tx))
  OBVIOUS
<1> HIDE DEF T, U, Y, p
<1>5. InRun(d.outq)
  BY <1>1, <1>2, EnqInRun
<1>6. \A t \in T \cup U : AtMost(d.outq, procSess[n], t) /\ SeqnoOf(e) # t
  BY <1>1, <1>2, <1>3, EnqAtMost
<1>7. Settled(e, T, seen[p])
  <2>1. SeqnoOf(e) \notin T
    BY <1>6
  <2>2. e.kind = kind /\ e.val = val
    BY DEF Added
  <2> QED
    BY <2>1, <2>2 DEF Settled
<1>8. Held(d.outq) \subseteq Held(c.outq) \cup {e}
  BY <1>2, EnqHeld
<1>9. Sending(d, Pool(n)) \subseteq Sending(c, Pool(n)) \cup {e}
  BY <1>8 DEF Sending
<1>10. \A f \in Sending(d, Pool(n)) : Settled(f, T, seen[p])
  BY <1>1, <1>7, <1>9
<1>11. {d.lastacksent} \cup NumbersOf(d.tx \ Sequenced(d.tx)) \subseteq Y
  BY <1>1
<1> QED
  BY <1>4, <1>5, <1>6, <1>10, <1>11, Zenon DEF Answers, T, Y, p

\* send1 sends no more than its head.
LEMMA Send1Answers ==
  ASSUME Window <= 2, IInv, NEW n \in Node, procSess[n] > 0, NEW c0, Sound(c0),
         NEW X, X \subseteq Seqno, Answers(n, c0, X),
         NEW kind \in Kinds, kind # "ack", NEW val \in Nat, kind # "data" => val = 0
  PROVE  Answers(n, Send1(c0, kind, val, procSess[n]), X)
<1>1. c0 \in Conn /\ procSess[n] \in Nat
  BY DEF Sound, IInv, TypeOK
<1>2. CASE InShutdown(c0.state)
  BY <1>2, Zenon DEF Send1
<1>3. CASE ~InShutdown(c0.state)
  <2> DEFINE c == FsaQuiet(c0, "REQSEND")
             K == {NoSeqno}
  <2>1. PICK d : /\ Send1(c0, kind, val, procSess[n]) = XmitIfWeCan(d)
                 /\ Sound(c) /\ c.outq = c0.outq /\ Sound(d)
                 /\ d.outq = Enq(c.outq, kind, val, procSess[n])
                 /\ d.tx = c.tx /\ d.inq = c.inq /\ d.got = c.got
                 /\ d.lastacksent = c.lastacksent
                 /\ d.isready = c.isready /\ d.ipend = c.ipend
    BY <1>1, <1>3, Send1Queues, Zenon
  <2>2. Quiet(c0, c, K)
    BY <1>1, FinishQuiet DEF FsaQuiet
  <2> HIDE DEF c
  <2>3. c \in Conn /\ d \in Conn
    BY <2>1 DEF Sound
  <2>4. K \subseteq AckNumbers(Peer(n)) \cup X
    BY DEF AckNumbers
  <2>5. Quiet(d, XmitIfWeCan(d), K)
    BY <2>1, XmitQuiet
  <2>6. XmitIfWeCan(d) \in Conn
    BY <2>1, XmitSound DEF Sound
  <2> HIDE DEF K
  <2>7. Answers(n, c, X)
    BY <1>1, <2>2, <2>3, <2>4, QuietAnswers
  <2>8. Answers(n, d, X)
    BY <2>1, <2>3, <2>7, EnqAnswers
  <2>9. Answers(n, XmitIfWeCan(d), X)
    BY <2>3, <2>4, <2>5, <2>6, <2>8, QuietAnswers
  <2> QED
    BY <2>1, <2>9
<1> QED
  BY <1>2, <1>3

\* The automaton acknowledges the frameset it was given, if any.
LEMMA FsaAnswers ==
  ASSUME Window <= 2, IInv, NEW n \in Node, procSess[n] > 0, NEW c, Sound(c),
         NEW X, X \subseteq Seqno, Answers(n, c, X), NEW input,
         NEW s \in Seqno, s \in AckNumbers(Peer(n)) \cup X,
         Sound(Fsa(c, input, s, procSess[n]))
  PROVE  Answers(n, Fsa(c, input, s, procSess[n]), X)
<1> DEFINE acts == Actions[c.state][input]
           acked1 == IF "ACKME" \in acts THEN AckSeqno(c, s) ELSE c
           shut == IF "SNDSHUT" \in acts THEN Send1(acked1, "connshut", 0, procSess[n]) ELSE acked1
           d == FsaFinish(shut, c.state, input)
           K == {NoSeqno, s}
<1>1. Fsa(c, input, s, procSess[n]) = d
  BY Zenon DEF Fsa
<1>2. c \in Conn /\ procSess[n] \in Nat
  BY DEF Sound, IInv, TypeOK
<1>3. K \subseteq AckNumbers(Peer(n)) \cup X
  BY DEF AckNumbers
<1>4. Sound(acked1) /\ Answers(n, acked1, X)
  <2>1. Sound(AckSeqno(c, s)) /\ Quiet(c, AckSeqno(c, s), K)
    BY <1>2, AckSeqnoSound, AckSeqnoQuiet
  <2>2. AckSeqno(c, s) \in Conn
    BY <2>1 DEF Sound
  <2> HIDE DEF K
  <2>3. Answers(n, AckSeqno(c, s), X)
    BY <1>2, <1>3, <2>1, <2>2, QuietAnswers
  <2> QED
    BY <2>1, <2>3, Zenon
<1> HIDE DEF acked1
<1>5. Sound(shut) /\ Answers(n, shut, X)
  <2>1. "connshut" \in Kinds /\ "connshut" # "ack" /\ 0 \in Nat
    BY DEF Kinds
  <2>2. Sound(Send1(acked1, "connshut", 0, procSess[n]))
    BY <1>2, <1>4, <2>1, Send1Sound
  <2>3. Answers(n, Send1(acked1, "connshut", 0, procSess[n]), X)
    BY <1>4, <2>1, Send1Answers
  <2> QED
    BY <1>4, <2>2, <2>3, Zenon
<1> HIDE DEF shut
<1>6. shut \in Conn /\ d \in Conn
  <2>1. Sound(d)
    BY <1>1
  <2> QED
    BY <1>5, <2>1 DEF Sound
<1>7. Quiet(shut, d, K)
  BY <1>6, FinishQuiet
<1> HIDE DEF d, K
<1> QED
  BY <1>1, <1>3, <1>5, <1>6, <1>7, QuietAnswers


\* What an ACK takes off the queue has been read.
LEMMA ReceiveAckAnswers ==
  ASSUME Window <= 2, IInv, NEW n \in Node, NEW c, Sound(c),
         NEW X, X \subseteq Seqno, Answers(n, c, X), NEW s \in AckNumbers(n)
  PROVE  /\ Answers(n, ReceiveAck(c, s), X)
         /\ ~AckRefused(c.outq, s) =>
              {c.outq.q[i].val : i \in DOMAIN c.outq.q \ Unacked(c.outq, s)} \ {0} \subseteq seen[Peer(n)]
<1> DEFINE left == AckThrough(c.outq, s)
           z == 0
           popped == [c EXCEPT !.outq = left, !.tries = z]
           u == Remove(popped.unacked)
           off == "off"
           idle == [popped EXCEPT !.unacked = u, !.rexmit = off]
           K == {NoSeqno}
           p == Peer(n)
           T == AckNumbers(n)
           U == NumbersOf(Pool(n) \cup Sequenced(c.tx))
           Y == AckNumbers(p) \cup X
<1>1. ReceiveAck(c, s) =
        CASE AckRefused(c.outq, s) -> c
          [] ~AckRefused(c.outq, s) /\ left.q # <<>> -> XmitIfWeCan(popped)
          [] OTHER -> IF c.outq.q = <<>> THEN idle ELSE FsaQuiet(idle, "OUTALLDONE")
  BY Zenon DEF ReceiveAck
<1>2. /\ InRun(c.outq)
      /\ \A t \in T \cup U : AtMost(c.outq, procSess[n], t)
      /\ \A f \in Sending(c, Pool(n)) : Settled(f, T, seen[p])
      /\ {c.lastacksent} \cup NumbersOf(c.tx \ Sequenced(c.tx)) \subseteq Y
  BY Zenon DEF Answers
<1>3. c \in Conn /\ c.outq \in Queue /\ c.unacked \in Nat /\ c.tx \subseteq FrameSet
      /\ procSess[n] \in Nat
  BY DEF Sound, Conn, IInv, TypeOK
<1>4. s \in Seqno /\ T \cup U \subseteq Seqno
  <2>1. Pool(n) \cup Sequenced(c.tx) \subseteq FrameSet
    BY <1>3, PoolType DEF Sequenced
  <2> QED
    BY <2>1, AckNumbersType, NumbersType
<1>5. Sound(ReceiveAck(c, s))
  BY <1>4, ReceiveAckSound
<1>6. /\ left \in Queue /\ (c.outq.q = <<>> => left.q = <<>>)
      /\ Held(left) \subseteq Held(c.outq) /\ Top(left) = Top(c.outq) /\ InRun(left)
  BY <1>2, <1>3, <1>4, AckThroughType, AckThroughHeld, AckThroughInRun
<1>7. z \in 0..AckTries /\ off \in Rexmit
  BY SmallTypes
<1>8. K \subseteq Y
  BY DEF AckNumbers
<1> HIDE DEF left, z, off
<1>9. popped \in Conn
  BY <1>3, <1>6, <1>7 DEF Conn
<1>10. /\ popped.present = c.present /\ popped.state = c.state /\ popped.outq = left
       /\ popped.unacked = c.unacked /\ popped.shuttimer = c.shuttimer
       /\ popped.complained = c.complained /\ popped.tx = c.tx
       /\ popped.lastacksent = c.lastacksent
  BY <1>3 DEF Conn
<1> HIDE DEF popped
<1>11. Answers(n, popped, X)
  <2> HIDE DEF T, U, Y, p
  <2>1. \A t \in T \cup U : AtMost(popped.outq, procSess[n], t)
    BY <1>2, <1>3, <1>4, <1>6, <1>10, AtMostLess
  <2>2. Sending(popped, Pool(n)) \subseteq Sending(c, Pool(n))
    BY <1>6, <1>10 DEF Sending
  <2>3. \A f \in Sending(popped, Pool(n)) : Settled(f, T, seen[p])
    BY <1>2, <2>2
  <2>4. {popped.lastacksent} \cup NumbersOf(popped.tx \ Sequenced(popped.tx)) \subseteq Y
    BY <1>2, <1>10
  <2>5. U = NumbersOf(Pool(n) \cup Sequenced(popped.tx))
    BY <1>10 DEF U
  <2>6. InRun(popped.outq)
    BY <1>6, <1>10
  <2> QED
    BY <2>1, <2>3, <2>4, <2>5, <2>6, Zenon DEF Answers, T, Y, p
<1>12. u \in Nat
  BY <1>3, <1>10, RemoveType
<1> HIDE DEF u
<1>13. idle \in Conn
  BY <1>7, <1>9, <1>12 DEF Conn
<1>14. idle.outq = popped.outq /\ idle.tx = popped.tx /\ idle.lastacksent = popped.lastacksent
  BY <1>9 DEF Conn
<1> HIDE DEF idle
<1>15. Answers(n, idle, X)
  BY <1>11, <1>14, SameAnswers
<1>16. Answers(n, ReceiveAck(c, s), X)
  <2>1. CASE AckRefused(c.outq, s)
    BY <1>1, <2>1, Zenon
  <2>2. CASE ~AckRefused(c.outq, s) /\ left.q # <<>>
    <3>1. Sound(popped)
      <4>1. c.outq.q # <<>> /\ Listed(popped)
        BY <1>6, <1>10, <2>2 DEF Sound, Listed
      <4> QED
        BY <1>9, <1>10, <2>2, <4>1, Zenon DEF Sound
    <3>2. Quiet(popped, XmitIfWeCan(popped), K)
      BY <3>1, XmitQuiet
    <3>3. ReceiveAck(c, s) = XmitIfWeCan(popped)
      BY <1>1, <2>2, Zenon
    <3>4. XmitIfWeCan(popped) \in Conn
      BY <1>5, <3>3 DEF Sound
    <3> HIDE DEF K
    <3> QED
      BY <1>8, <1>9, <1>11, <3>2, <3>3, <3>4, QuietAnswers
  <2>3. CASE ~AckRefused(c.outq, s) /\ left.q = <<>>
    <3>1. CASE c.outq.q = <<>>
      BY <1>1, <1>15, <2>3, <3>1, Zenon
    <3>2. CASE c.outq.q # <<>>
      <4>1. ReceiveAck(c, s) = FsaQuiet(idle, "OUTALLDONE")
        BY <1>1, <2>3, <3>2, Zenon
      <4>2. Quiet(idle, FsaQuiet(idle, "OUTALLDONE"), K)
        BY <1>13, FinishQuiet DEF FsaQuiet
      <4>3. FsaQuiet(idle, "OUTALLDONE") \in Conn
        BY <1>5, <4>1 DEF Sound
      <4> HIDE DEF K
      <4> QED
        BY <1>8, <1>13, <1>15, <4>1, <4>2, <4>3, QuietAnswers
    <3> QED
      BY <3>1, <3>2
  <2> QED
    BY <2>1, <2>2, <2>3
<1>17. ASSUME ~AckRefused(c.outq, s), NEW i \in DOMAIN c.outq.q \ Unacked(c.outq, s),
              c.outq.q[i].val # 0
       PROVE  c.outq.q[i].val \in seen[Peer(n)]
  <2> DEFINE f == c.outq.q[i]
  <2>1. AtMost(c.outq, procSess[n], s) /\ s \in T
    BY <1>2
  <2>2. SeqnoOf(f) = s /\ f \in Held(c.outq)
    BY <1>2, <1>3, <1>4, <1>17, <2>1, AckedIsNamed
  <2>3. Settled(f, T, seen[p])
    BY <1>2, <2>2 DEF Sending
  <2> QED
    BY <1>17, <2>1, <2>2, <2>3 DEF Settled
<1> QED
  BY <1>16, <1>17


\* A sequenced frameset of the peer makes an end repeat an acknowledgement at most.
LEMMA ReceiveSequencedAnswers ==
  ASSUME Window <= 2, IInv, NEW n \in Node, NEW c, Sound(c),
         NEW X, X \subseteq Seqno, Answers(n, c, X), NEW fs \in FrameSet
  PROVE  Answers(n, ReceiveSequenced(c, fs), X)
<1> DEFINE q == InqSorted(c.inq, fs)
           sorted == [c EXCEPT !.inq = q]
           filed == CASE InqRefused(c.inq, fs) -> AckAgain(sorted, fs)
                      [] ~InqRefused(c.inq, fs) /\ fs.seq = 1 -> FsaQuiet(sorted, "GOTSTART")
                      [] OTHER -> sorted
           marked == MarkReady(filed, fs)
           K == {NoSeqno, c.lastacksent}
<1>1. ReceiveSequenced(c, fs) = XmitIfWeCan(marked)
  BY Zenon DEF ReceiveSequenced
<1>2. c \in Conn /\ c.inq \in Queue
  BY DEF Sound, Conn
<1>3. q \in Queue
  BY <1>2, InqSortedType
<1>4. K \subseteq AckNumbers(Peer(n)) \cup X
  <2>1. c.lastacksent \in AckNumbers(Peer(n)) \cup X
    BY DEF Answers
  <2> QED
    BY <2>1 DEF AckNumbers
<1> HIDE DEF q
<1>5. sorted \in Conn
  BY <1>2, <1>3 DEF Conn
<1>6. /\ sorted.present = c.present /\ sorted.state = c.state /\ sorted.outq = c.outq
      /\ sorted.unacked = c.unacked /\ sorted.shuttimer = c.shuttimer
      /\ sorted.complained = c.complained
      /\ sorted.tx = c.tx /\ sorted.lastacksent = c.lastacksent
  BY <1>2 DEF Conn
<1> HIDE DEF sorted
<1>7. Sound(sorted)
  BY <1>5, <1>6, SoundKept, Zenon
<1>8. Answers(n, sorted, X)
  BY <1>6, SameAnswers
<1>9. /\ Sound(AckAgain(sorted, fs)) /\ Sound(FsaQuiet(sorted, "GOTSTART"))
  BY <1>7, AckAgainSound, StartSound, Zenon
<1>10. Quiet(sorted, AckAgain(sorted, fs), K) /\ Quiet(sorted, FsaQuiet(sorted, "GOTSTART"), K)
  BY <1>5, <1>6, AckAgainQuiet, FinishQuiet DEF FsaQuiet
<1>11. Sound(filed) /\ Quiet(sorted, filed, K)
  BY <1>7, <1>9, <1>10, QuietSame, Zenon
<1> HIDE DEF filed
<1>12. filed \in Conn
  BY <1>11 DEF Sound
<1>13. Sound(marked) /\ Quiet(filed, marked, K)
  BY <1>11, <1>12, MarkReadySound, MarkReadyQuiet
<1> HIDE DEF marked
<1>14. Sound(XmitIfWeCan(marked)) /\ Quiet(marked, XmitIfWeCan(marked), K)
  BY <1>13, XmitSound, XmitQuiet
<1>15. marked \in Conn /\ XmitIfWeCan(marked) \in Conn
  BY <1>13, <1>14 DEF Sound
<1> HIDE DEF K
<1>16. Answers(n, filed, X)
  BY <1>4, <1>5, <1>8, <1>11, <1>12, QuietAnswers
<1>17. Answers(n, marked, X)
  BY <1>4, <1>12, <1>13, <1>15, <1>16, QuietAnswers
<1>18. Answers(n, XmitIfWeCan(marked), X)
  BY <1>4, <1>14, <1>15, <1>17, QuietAnswers
<1> QED
  BY <1>1, <1>18

\* Reading a frameset allows to acknowledge it.
LEMMA ReadOneAnswers ==
  ASSUME Window <= 2, IInv, NEW n \in Node, procSess[n] > 0, NEW c, Sound(c),
         Answers(n, c, {}), Readable(c.inq)
  PROVE  Answers(n, ReadOne(c, procSess[n]), {SeqnoOf(Head(c.inq.q))})
<1> DEFINE fs == Head(c.inq.q)
           rest == Deq(c.inq)
           more == Readable(rest)
           i == IF more THEN c.ipend ELSE Remove(c.ipend)
           g == IF fs.kind = "data" THEN Append(c.got, fs.val) ELSE c.got
           taken == [c EXCEPT !.inq = rest, !.isready = more, !.ipend = i, !.got = g]
           told == Fsa(taken, "RCVSHUTDOWN", SeqnoOf(fs), procSess[n])
           d == IF fs.kind = "connshut" THEN told ELSE taken
           K == {NoSeqno}
           X == {SeqnoOf(fs)}
<1>1. ReadOne(c, procSess[n]) = XmitIfWeCan(d)
  BY Zenon DEF ReadOne
<1>2. c \in Conn /\ c.inq \in Queue /\ c.ipend \in Nat /\ c.got \in Seq(Nat) /\ c.inq.q # <<>>
      /\ procSess[n] \in Nat
  BY DEF Sound, Conn, Readable, IInv, TypeOK
<1>3. rest \in Queue /\ fs \in FrameSet
  BY <1>2, DeqType
<1>4. fs.val \in Nat /\ SeqnoOf(fs) \in Seqno
  BY <1>3 DEF FrameSet, SeqnoOf, Seqno
<1>5. more \in BOOLEAN
  BY Zenon DEF Readable
<1>6. i \in Nat
  BY <1>2, RemoveType
<1>7. g \in Seq(Nat)
  BY <1>2, <1>4, AppendProperties
<1>8. X \subseteq Seqno /\ SeqnoOf(fs) \in X
  BY <1>4
<1>9. Answers(n, c, X)
  BY Zenon DEF Answers
<1> HIDE DEF rest, more, i, g, fs
<1>10. Sound(taken)
  BY <1>3, <1>5, <1>6, <1>7, InputSound, Zenon
<1>11. taken.outq = c.outq /\ taken.tx = c.tx /\ taken.lastacksent = c.lastacksent
  BY <1>2 DEF Conn
<1> HIDE DEF taken
<1>12. Answers(n, taken, X)
  BY <1>9, <1>11, SameAnswers
<1>13. Sound(told)
  BY <1>2, <1>4, <1>10, PeerClosesSound
<1> HIDE DEF X
<1>14. Answers(n, told, X)
  BY <1>4, <1>8, <1>10, <1>12, <1>13, FsaAnswers
<1> HIDE DEF told
<1>15. Sound(d) /\ Answers(n, d, X)
  BY <1>10, <1>12, <1>13, <1>14, Zenon
<1> HIDE DEF d
<1>16. Quiet(d, XmitIfWeCan(d), K) /\ Sound(XmitIfWeCan(d))
  BY <1>15, XmitQuiet, XmitSound
<1>17. d \in Conn /\ XmitIfWeCan(d) \in Conn
  BY <1>15, <1>16 DEF Sound
<1>18. K \subseteq AckNumbers(Peer(n)) \cup X
  BY DEF AckNumbers
<1> HIDE DEF K
<1>19. Answers(n, XmitIfWeCan(d), X)
  BY <1>8, <1>15, <1>16, <1>17, <1>18, QuietAnswers
<1> QED
  BY <1>1, <1>19 DEF X, fs

\* A connection that is created has nothing to send or to acknowledge.
LEMMA AddConnAnswers ==
  ASSUME IInv, Flows, Answered, NEW n \in Node
  PROVE  Answers(n, AddConn(conn[n]), {})
<1> DEFINE c == conn[n]
           d == AddConn(c)
<1>1. Answers(n, c, {}) /\ Flow(n)
  BY DEF Answered, Flows
<1>2. CASE c.present
  BY <1>1, <1>2, Zenon DEF AddConn
<1>3. CASE ~c.present
  <2>1. d.outq = c.outq /\ d.tx = {} /\ c.tx = {}
    BY <1>1, AddConnMoves, Zenon DEF Flow
  <2>2. d.lastacksent = NoSeqno
    BY <1>3 DEF AddConn, NewConn
  <2> HIDE DEF d, c
  <2>3. NoSeqno \in AckNumbers(Peer(n))
    BY DEF AckNumbers
  <2>4. Sending(d, Pool(n)) = Sending(c, Pool(n))
    BY <2>1 DEF Sending
  <2>5. {d.lastacksent} \cup NumbersOf(d.tx \ Sequenced(d.tx)) \subseteq AckNumbers(Peer(n)) \cup {}
    BY <2>1, <2>2, <2>3 DEF NumbersOf
  <2> QED
    BY <1>1, <2>1, <2>4, <2>5, Zenon DEF Answers, c, d
<1> QED
  BY <1>2, <1>3


\* An end that stays as it is keeps what it may be when less is under way and only
\* what was read is acknowledged.
LEMMA LessAnswers ==
  ASSUME NEW n \in Node, NEW X, Answers(n, conn[n], {}), conn[n].tx = {},
         procSess'[n] = procSess[n], conn'[n].outq = conn[n].outq,
         conn'[n].tx = conn[n].tx, conn'[n].lastacksent = conn[n].lastacksent,
         Pool(n)' \subseteq Pool(n), AckNumbers(n)' \subseteq AckNumbers(n) \cup X,
         X \subseteq NumbersOf(Pool(n)),
         seen[Peer(n)] \subseteq seen'[Peer(n)],
         \A f \in Sending(conn[n], Pool(n)) : Settled(f, X, seen'[Peer(n)])
  PROVE  Answers(n, conn[n], {})'
<1> DEFINE p == Peer(n)
           c == conn[n]
           T == AckNumbers(n)
           Q == Pool(n)'
           W == AckNumbers(n)'
<1>1. /\ InRun(c.outq)
      /\ \A t \in T \cup NumbersOf(Pool(n) \cup Sequenced(c.tx)) :
           AtMost(c.outq, procSess[n], t)
      /\ \A f \in Sending(c, Pool(n)) : Settled(f, T, seen[p])
  BY Zenon DEF Answers
<1>2. Sending(c, Q) \subseteq Sending(c, Pool(n))
  BY DEF Sending
<1>3. c.tx = {} /\ Sequenced(c.tx) = {}
  BY DEF Sequenced
<1> HIDE DEF T, Q, W, p, c
<1>4. W \cup NumbersOf(Q \cup Sequenced(c.tx)) \subseteq T \cup NumbersOf(Pool(n) \cup Sequenced(c.tx))
  BY <1>3 DEF NumbersOf, T, Q, W
<1>5. \A t \in W \cup NumbersOf(Q \cup Sequenced(c.tx)) : AtMost(c.outq, procSess[n], t)
  BY <1>1, <1>4
<1>6. \A f \in Sending(c, Q) : Settled(f, W, seen'[p])
  <2> SUFFICES ASSUME NEW f \in Sending(c, Q) PROVE Settled(f, W, seen'[p])
    OBVIOUS
  <2>1. Settled(f, T, seen[p]) /\ Settled(f, X, seen'[p])
    BY <1>1, <1>2 DEF c, p
  <2>2. W \subseteq T \cup X /\ seen[p] \subseteq seen'[p]
    BY DEF W, T, p
  <2> QED
    BY <2>1, <2>2 DEF Settled
<1>7. {c.lastacksent} \cup NumbersOf(c.tx \ Sequenced(c.tx)) \subseteq AckNumbers(p)' \cup {}
  <2>1. Peer(p) = n
    BY PeerType DEF p
  <2>2. c.lastacksent \in AckNumbers(p)'
    BY <2>1 DEF AckNumbers, c
  <2> QED
    BY <1>3, <2>2 DEF NumbersOf
<1> DEFINE d == conn'[n]
<1>8. d.outq = c.outq /\ d.tx = c.tx /\ d.lastacksent = c.lastacksent
      /\ procSess'[n] = procSess[n]
  BY DEF c
<1>9. Sending(d, Q) = Sending(c, Q)
  BY <1>8 DEF Sending
<1> HIDE DEF d
<1> QED
  BY <1>1, <1>5, <1>6, <1>7, <1>8, <1>9, Zenon DEF Answers, W, Q, p, d

\* An action that makes what it may have preserves what is acknowledged.
LEMMA StepAnswers ==
  ASSUME IInv, IInv', Flows, Answered, NEW n \in Node, NEW d, Sound(d), NEW received,
         Step(n, d, received), NEW h, Moves(n, d, h),
         NEW X, Answers(n, d, X), X \subseteq NumbersOf(Pool(Peer(n))),
         procSess' = procSess,
         toack'[Peer(n)] = toack[Peer(n)], seen'[Peer(n)] = seen[Peer(n)],
         acked'[Peer(n)] = acked[Peer(n)],
         \A i \in DOMAIN toack'[n] : toack'[n][i] \in {toack[n][j] : j \in DOMAIN toack[n]} \cup X,
         seen[n] \subseteq seen'[n], acked'[n] \subseteq seen[Peer(n)],
         \A f \in Sending(conn[Peer(n)], Pool(Peer(n))) : Settled(f, X, seen'[n])
  PROVE  Answered'
<1> DEFINE p == Peer(n)
           c == conn[n]
<1>1. p \in Node /\ p # n /\ Peer(p) = n
  BY PeerType
<1>2. /\ conn'[p] = conn[p]
      /\ conn'[n].outq = d.outq /\ conn'[n].inq = d.inq
      /\ conn'[n].lastacksent = d.lastacksent /\ conn'[n].tx = {}
      /\ net'[p] = net[p] \cup d.tx /\ net'[n] \subseteq net[n]
  BY StepConn
<1>3. Held(d.inq) \subseteq Pool(p)
  BY Zenon DEF Moves
<1>4. conn[p].tx = {} /\ Answers(p, conn[p], {}) /\ acked[p] \subseteq seen[n]
  BY <1>1, Zenon DEF Flows, Flow, Answered
<1>5. /\ InRun(d.outq)
      /\ \A t \in AckNumbers(n) \cup NumbersOf(Pool(n) \cup Sequenced(d.tx)) :
           AtMost(d.outq, procSess[n], t)
      /\ \A f \in Sending(d, Pool(n)) : Settled(f, AckNumbers(n), seen[p])
      /\ {d.lastacksent} \cup NumbersOf(d.tx \ Sequenced(d.tx)) \subseteq AckNumbers(p) \cup X
  BY Zenon DEF Answers
<1>6. Pool(n)' = Pool(n) \cup Sequenced(d.tx) /\ Pool(p)' \subseteq Pool(p)
  <2>1. Pool(n) = Sequenced(net[p]) \cup Held(conn[p].inq)
    BY DEF Pool
  <2>2. Pool(n)' = Sequenced(net'[p]) \cup Held(conn'[p].inq)
    BY DEF Pool
  <2>3. Pool(p)' = Sequenced(net'[n]) \cup Held(conn'[n].inq)
    BY <1>1 DEF Pool
  <2>4. Pool(p) = Sequenced(net[n]) \cup Held(conn[n].inq)
    BY <1>1 DEF Pool
  <2>5. Sequenced(net'[p]) = Sequenced(net[p]) \cup Sequenced(d.tx)
    BY <1>2 DEF Sequenced
  <2>6. Sequenced(net'[n]) \subseteq Sequenced(net[n])
    BY <1>2 DEF Sequenced
  <2> HIDE DEF p
  <2>7. Pool(n)' = Pool(n) \cup Sequenced(d.tx)
    BY <1>2, <2>1, <2>2, <2>5
  <2>8. Pool(p)' \subseteq Pool(p)
    BY <1>2, <1>3, <2>3, <2>4, <2>6
  <2> QED
    BY <2>7, <2>8
<1>7. AckNumbers(n)' \subseteq AckNumbers(n)
  <2>1. AckNumbers(n) = {NoSeqno, conn[p].lastacksent} \cup {toack[p][i] : i \in DOMAIN toack[p]}
                          \cup NumbersOf(net[n] \ Sequenced(net[n]))
    BY DEF AckNumbers
  <2>2. AckNumbers(n)' = {NoSeqno, conn'[p].lastacksent}
                           \cup {toack'[p][i] : i \in DOMAIN toack'[p]}
                           \cup NumbersOf(net'[n] \ Sequenced(net'[n]))
    BY DEF AckNumbers
  <2>3. net'[n] \ Sequenced(net'[n]) \subseteq net[n] \ Sequenced(net[n])
    BY <1>2 DEF Sequenced
  <2>4. NumbersOf(net'[n] \ Sequenced(net'[n])) \subseteq NumbersOf(net[n] \ Sequenced(net[n]))
    BY <2>3 DEF NumbersOf
  <2>5. conn'[p].lastacksent = conn[p].lastacksent /\ toack'[p] = toack[p]
    BY <1>2
  <2> HIDE DEF p
  <2> QED
    BY <2>1, <2>2, <2>4, <2>5
<1>8. AckNumbers(p)' \subseteq AckNumbers(p) \cup X
  <2>1. AckNumbers(p) = {NoSeqno, conn[n].lastacksent} \cup {toack[n][i] : i \in DOMAIN toack[n]}
                          \cup NumbersOf(net[p] \ Sequenced(net[p]))
    BY <1>1 DEF AckNumbers
  <2>2. AckNumbers(p)' = {NoSeqno, conn'[n].lastacksent}
                           \cup {toack'[n][i] : i \in DOMAIN toack'[n]}
                           \cup NumbersOf(net'[p] \ Sequenced(net'[p]))
    BY <1>1 DEF AckNumbers
  <2>3. net'[p] \ Sequenced(net'[p]) \subseteq (net[p] \ Sequenced(net[p])) \cup (d.tx \ Sequenced(d.tx))
    BY <1>2 DEF Sequenced
  <2>4. NumbersOf(net'[p] \ Sequenced(net'[p])) \subseteq
          NumbersOf(net[p] \ Sequenced(net[p])) \cup NumbersOf(d.tx \ Sequenced(d.tx))
    BY <2>3 DEF NumbersOf
  <2>5. NumbersOf(net'[p] \ Sequenced(net'[p])) \subseteq AckNumbers(p) \cup X
    BY <1>5, <2>1, <2>4
  <2>6. conn'[n].lastacksent \in AckNumbers(p) \cup X
    BY <1>2, <1>5
  <2>7. {toack'[n][i] : i \in DOMAIN toack'[n]} \subseteq AckNumbers(p) \cup X
    <3>1. {toack[n][j] : j \in DOMAIN toack[n]} \subseteq AckNumbers(p)
      BY <2>1
    <3> HIDE DEF p
    <3> QED
      BY <3>1
  <2>8. NoSeqno \in AckNumbers(p)
    BY <2>1
  <2> HIDE DEF p
  <2> QED
    BY <2>2, <2>5, <2>6, <2>7, <2>8
<1>9. Answers(n, conn[n], {})'
  <2> DEFINE e == conn'[n]
             T == AckNumbers(n)
             W == AckNumbers(n)'
             Q == Pool(n)'
             S == Sequenced(d.tx)
  <2>1. e.outq = d.outq /\ e.tx = {} /\ Sequenced(e.tx) = {} /\ e.lastacksent = d.lastacksent
    BY <1>2 DEF Sequenced
  <2>2. W \subseteq T /\ Q = Pool(n) \cup S
    BY <1>6, <1>7
  <2>3. Sending(e, Q) = Sending(d, Pool(n))
    BY <2>1, <2>2 DEF Sending
  <2>4. e.lastacksent \in AckNumbers(p)'
    BY <1>1 DEF AckNumbers
  <2>5. seen'[p] = seen[p] /\ procSess'[n] = procSess[n]
    OBVIOUS
  <2> HIDE DEF e, T, W, Q, p
  <2>6. \A t \in W \cup NumbersOf(Q \cup Sequenced(e.tx)) : AtMost(e.outq, procSess[n], t)
    <3>1. Q \cup Sequenced(e.tx) = Pool(n) \cup S
      BY <2>1, <2>2
    <3>2. \A t \in T \cup NumbersOf(Pool(n) \cup S) : AtMost(d.outq, procSess[n], t)
      BY <1>5 DEF T
    <3> QED
      BY <2>1, <2>2, <3>1, <3>2
  <2>7. \A f \in Sending(e, Q) : Settled(f, W, seen[p])
    <3>1. \A f \in Sending(d, Pool(n)) : Settled(f, T, seen[p])
      BY <1>5 DEF T
    <3> QED
      BY <2>2, <2>3, <3>1 DEF Settled
  <2>8. {e.lastacksent} \cup NumbersOf(e.tx \ Sequenced(e.tx)) \subseteq AckNumbers(p)' \cup {}
    BY <2>1, <2>4 DEF NumbersOf
  <2> QED
    BY <1>5, <2>1, <2>5, <2>6, <2>7, <2>8, Zenon DEF Answers, e, W, Q, p
<1>10. Answers(p, conn[p], {})'
  <2>1. conn'[p] = conn[p] /\ procSess'[p] = procSess[p]
    BY <1>2
  <2>2. seen[Peer(p)] \subseteq seen'[Peer(p)] /\ X \subseteq NumbersOf(Pool(p))
    BY <1>1
  <2>3. \A f \in Sending(conn[p], Pool(p)) : Settled(f, X, seen'[Peer(p)])
    BY <1>1
  <2> HIDE DEF p
  <2> QED
    BY <1>1, <1>4, <1>6, <1>8, <2>1, <2>2, <2>3, LessAnswers
<1>11. acked'[n] \subseteq seen'[p] /\ acked'[p] \subseteq seen'[n]
  BY <1>4
<1>12. \A m \in Node : m = n \/ m = p
  BY <1>1 DEF Node
<1> HIDE DEF p
<1> QED
  BY <1>1, <1>9, <1>10, <1>11, <1>12, Zenon DEF Answered, p


\* An action that takes nothing but framesets off the network changes nothing here.
LEMMA FewerAnswers ==
  ASSUME IInv, Flows, Answered, procSess' = procSess, toack' = toack, acked' = acked, seen' = seen,
         \A n \in Node : /\ conn'[n].outq = conn[n].outq /\ conn'[n].tx = conn[n].tx
                         /\ conn'[n].inq = conn[n].inq
                         /\ conn'[n].lastacksent = conn[n].lastacksent
                         /\ net'[n] \subseteq net[n]
  PROVE  Answered'
<1> DEFINE X == {}
<1>1. ASSUME NEW n \in Node
      PROVE  Answers(n, conn[n], {})' /\ (acked'[n] \subseteq seen'[Peer(n)])
  <2> DEFINE p == Peer(n)
  <2>1. p \in Node /\ Answers(n, conn[n], {}) /\ acked[n] \subseteq seen[p] /\ conn[n].tx = {}
    BY PeerType, Zenon DEF Answered, Flows, Flow
  <2>2. net'[p] \subseteq net[p] /\ net'[n] \subseteq net[n] /\ conn'[p].inq = conn[p].inq
        /\ conn'[p].lastacksent = conn[p].lastacksent
    BY <2>1
  <2>3. Pool(n)' \subseteq Pool(n)
    <3>1. Pool(n)' = Sequenced(net'[p]) \cup Held(conn'[p].inq)
      BY DEF Pool
    <3>2. Pool(n) = Sequenced(net[p]) \cup Held(conn[p].inq)
      BY DEF Pool
    <3> HIDE DEF p
    <3>3. Sequenced(net'[p]) \subseteq Sequenced(net[p])
      BY <2>2 DEF Sequenced
    <3> QED
      BY <2>2, <3>1, <3>2, <3>3
  <2>4. AckNumbers(n)' \subseteq AckNumbers(n) \cup X
    <3>1. AckNumbers(n) = {NoSeqno, conn[p].lastacksent} \cup {toack[p][i] : i \in DOMAIN toack[p]}
                            \cup NumbersOf(net[n] \ Sequenced(net[n]))
      BY DEF AckNumbers
    <3>2. AckNumbers(n)' = {NoSeqno, conn'[p].lastacksent}
                             \cup {toack'[p][i] : i \in DOMAIN toack'[p]}
                             \cup NumbersOf(net'[n] \ Sequenced(net'[n]))
      BY DEF AckNumbers
    <3> HIDE DEF p
    <3>3. net'[n] \ Sequenced(net'[n]) \subseteq net[n] \ Sequenced(net[n])
      BY <2>2 DEF Sequenced
    <3>4. NumbersOf(net'[n] \ Sequenced(net'[n])) \subseteq NumbersOf(net[n] \ Sequenced(net[n]))
      BY <3>3 DEF NumbersOf
    <3> QED
      BY <2>2, <3>1, <3>2, <3>4
  <2>5. \A f \in Sending(conn[n], Pool(n)) : Settled(f, X, seen'[p])
    <3>1. \A f \in Sending(conn[n], Pool(n)) : Settled(f, AckNumbers(n), seen[p])
      BY <2>1, Zenon DEF Answers
    <3> QED
      BY <3>1 DEF Settled
  <2>6. X \subseteq NumbersOf(Pool(n)) /\ seen[p] \subseteq seen'[p]
    OBVIOUS
  <2>7. conn'[n].outq = conn[n].outq /\ conn'[n].tx = conn[n].tx
        /\ conn'[n].lastacksent = conn[n].lastacksent /\ procSess'[n] = procSess[n]
    OBVIOUS
  <2> HIDE DEF X
  <2>8. Answers(n, conn[n], {})'
    BY <2>1, <2>3, <2>4, <2>5, <2>6, <2>7, LessAnswers
  <2> QED
    BY <2>1, <2>8
<1> QED
  BY <1>1, Zenon DEF Answered

\* The session id of a restarted process is later than all it sent, and what it has
\* read before it will not acknowledge any more.
LEMMA RestartAnswers ==
  ASSUME IInv, Flows, Answered, NEW n \in Node, Restart(n)
  PROVE  Answered'
<1> DEFINE p == Peer(n)
           k == procSess[n] + SessStep
           c == conn[n]
           d == conn'[n]
           e == <<>>
           X == {}
<1>1. p \in Node /\ p # n /\ Peer(p) = n /\ Flow(n) /\ Flow(p)
  BY PeerType, Zenon DEF Flows
<1>2. /\ conn \in [Node -> Conn] /\ procSess \in [Node -> Nat] /\ procSess[n] \in Nat
      /\ SessStep \in Nat /\ c \in Conn /\ toack \in [Node -> Seq(Seqno)]
  BY <1>1, TimerAssumption DEF IInv, TypeOK
<1>3. /\ conn' = [conn EXCEPT ![n] = NoConn]
      /\ procSess' = [procSess EXCEPT ![n] = k]
      /\ toack' = [toack EXCEPT ![n] = e]
      /\ net' = net /\ acked' = acked /\ seen' = seen
  BY Zenon DEF Restart
<1>4. /\ Answers(n, c, {}) /\ Answers(p, conn[p], {})
      /\ acked[n] \subseteq seen[p] /\ acked[p] \subseteq seen[n]
      /\ conn[p].tx = {}
      /\ c.outq.sess < procSess[n] + SessStep
  BY <1>1, Zenon DEF Answered, Flow
<1>5. DOMAIN e = {}
  OBVIOUS
<1>6. c.outq.sess < k /\ procSess[n] <= k
  BY <1>2, <1>4
<1> HIDE DEF k, p, e
<1>7. /\ d = NoConn /\ conn'[p] = conn[p] /\ procSess'[n] = k /\ procSess'[p] = procSess[p]
      /\ toack'[n] = e /\ toack'[p] = toack[p]
  BY <1>1, <1>2, <1>3
<1>8. d.tx = {} /\ d.outq = EmptyQueue /\ d.inq = EmptyQueue /\ d.lastacksent = NoSeqno
  BY <1>7 DEF NoConn, NewConn
<1>9. Held(EmptyQueue) = {} /\ EmptyQueue.sess = 0 /\ EmptyQueue.q = <<>>
  BY DEF Held, EmptyQueue
<1>10. Pool(n)' = Pool(n) /\ Pool(p)' \subseteq Pool(p)
  <2>1. Pool(n)' = Sequenced(net'[p]) \cup Held(conn'[p].inq)
    BY DEF Pool, p
  <2>2. Pool(n) = Sequenced(net[p]) \cup Held(conn[p].inq)
    BY DEF Pool, p
  <2>3. Pool(p)' = Sequenced(net'[n]) \cup Held(conn'[n].inq)
    BY <1>1 DEF Pool, p
  <2>4. Pool(p) = Sequenced(net[n]) \cup Held(conn[n].inq)
    BY <1>1 DEF Pool
  <2> QED
    BY <1>3, <1>7, <1>8, <1>9, <2>1, <2>2, <2>3, <2>4
<1>11. AckNumbers(n)' = AckNumbers(n)
  <2>1. AckNumbers(n) = {NoSeqno, conn[p].lastacksent} \cup {toack[p][i] : i \in DOMAIN toack[p]}
                          \cup NumbersOf(net[n] \ Sequenced(net[n]))
    BY DEF AckNumbers, p
  <2>2. AckNumbers(n)' = {NoSeqno, conn'[p].lastacksent}
                           \cup {toack'[p][i] : i \in DOMAIN toack'[p]}
                           \cup NumbersOf(net'[n] \ Sequenced(net'[n]))
    BY DEF AckNumbers, p
  <2> QED
    BY <1>3, <1>7, <2>1, <2>2
<1>12. AckNumbers(p)' \subseteq AckNumbers(p) \cup X
  <2>1. AckNumbers(p) = {NoSeqno, conn[n].lastacksent} \cup {toack[n][i] : i \in DOMAIN toack[n]}
                          \cup NumbersOf(net[p] \ Sequenced(net[p]))
    BY <1>1 DEF AckNumbers
  <2>2. AckNumbers(p)' = {NoSeqno, conn'[n].lastacksent}
                           \cup {toack'[n][i] : i \in DOMAIN toack'[n]}
                           \cup NumbersOf(net'[p] \ Sequenced(net'[p]))
    BY <1>1 DEF AckNumbers
  <2>3. {toack'[n][i] : i \in DOMAIN toack'[n]} = {}
    BY <1>5, <1>7
  <2> QED
    BY <1>3, <1>8, <2>1, <2>2, <2>3
<1>13. /\ InRun(c.outq)
       /\ \A t \in AckNumbers(n) \cup NumbersOf(Pool(n) \cup Sequenced(c.tx)) :
            AtMost(c.outq, procSess[n], t)
       /\ \A f \in Sending(c, Pool(n)) : Settled(f, AckNumbers(n), seen[p])
  BY <1>4, Zenon DEF Answers, p
<1>14. Sequenced(d.tx) = {} /\ Sending(d, Pool(n)) = Pool(n)
       /\ Pool(n) \subseteq Sending(c, Pool(n))
  BY <1>8, <1>9 DEF Sending, Sequenced
<1>15. \A t \in AckNumbers(n) \cup NumbersOf(Pool(n)) : AtMost(d.outq, k, t)
  <2> SUFFICES ASSUME NEW t \in AckNumbers(n) \cup NumbersOf(Pool(n))
               PROVE  AtMost(d.outq, k, t)
    OBVIOUS
  <2>1. t \in Seqno
    BY AckNumbersType, NumbersType, PoolType
  <2>2. AtMost(c.outq, procSess[n], t)
    BY <1>13 DEF NumbersOf
  <2>3. t[1] \in Nat /\ c.outq \in Queue /\ c.outq.sess \in Nat /\ k \in Nat
    <3>1. t[1] \in Nat
      BY <2>1 DEF Seqno
    <3>2. c.outq \in Queue
      BY <1>2 DEF Conn
    <3>3. c.outq.sess \in Nat
      BY <3>2 DEF Queue
    <3>4. k \in Nat
      BY <1>2, TimerAssumption DEF k
    <3> QED
      BY <3>1, <3>2, <3>3, <3>4
  <2>4. t[1] < k
    <3>1. CASE c.outq.q = <<>>
      BY <1>2, <1>6, <2>2, <2>3, <3>1 DEF AtMost, Before, Top
    <3>2. CASE c.outq.q # <<>>
      <4> DEFINE h == Head(c.outq.q)
      <4>1. h \in Held(c.outq) /\ ~Before(SeqnoOf(h), t)
        BY <1>13, <2>2, <2>3, <3>2, HeadIsLeast DEF AtMost
      <4> HIDE DEF h
      <4>2. h.sess = c.outq.sess
        BY <1>13, <4>1 DEF InRun, OneSession
      <4> QED
        BY <1>6, <2>3, <4>1, <4>2 DEF Before, SeqnoOf
    <3> QED
      BY <3>1, <3>2
  <2> QED
    BY <1>8, <1>9, <2>4 DEF AtMost
<1>16. Answers(n, conn[n], {})'
  <2>1. InRun(d.outq)
    BY <1>8, <1>9, EmptyInRun
  <2>2. \A t \in AckNumbers(n) \cup NumbersOf(Pool(n) \cup Sequenced(d.tx)) : AtMost(d.outq, k, t)
    <3>1. Pool(n) \cup Sequenced(d.tx) = Pool(n)
      BY <1>14
    <3> QED
      BY <1>15, <3>1
  <2>3. \A f \in Sending(d, Pool(n)) : Settled(f, AckNumbers(n), seen[p])
    BY <1>13, <1>14
  <2>4. {d.lastacksent} \cup NumbersOf(d.tx \ Sequenced(d.tx)) \subseteq AckNumbers(p)' \cup {}
    <3>1. NoSeqno \in AckNumbers(p)'
      BY DEF AckNumbers
    <3> QED
      BY <1>8, <3>1 DEF NumbersOf
  <2> HIDE DEF d
  <2> QED
    BY <1>3, <1>7, <1>10, <1>11, <2>1, <2>2, <2>3, <2>4, Zenon DEF Answers, p, d
<1>17. Answers(p, conn[p], {})'
  <2>1. X \subseteq NumbersOf(Pool(p)) /\ seen[Peer(p)] \subseteq seen'[Peer(p)]
    BY <1>3
  <2>2. \A f \in Sending(conn[p], Pool(p)) : Settled(f, X, seen'[Peer(p)])
    <3>1. \A f \in Sending(conn[p], Pool(p)) : Settled(f, AckNumbers(p), seen[Peer(p)])
      BY <1>4, Zenon DEF Answers
    <3> QED
      BY <3>1 DEF Settled
  <2>3. /\ conn'[p].outq = conn[p].outq /\ conn'[p].tx = conn[p].tx
        /\ conn'[p].lastacksent = conn[p].lastacksent
    BY <1>7
  <2> HIDE DEF X
  <2> QED
    BY <1>1, <1>4, <1>7, <1>10, <1>12, <2>1, <2>2, <2>3, LessAnswers
<1>18. \A m \in Node : m = n \/ m = p
  BY <1>1 DEF Node, p
<1> QED
  BY <1>1, <1>3, <1>4, <1>16, <1>17, <1>18, Zenon DEF Answered, p


\* A step in which the application reads and acknowledges nothing.
LEMMA PlainStepAnswers ==
  ASSUME IInv, IInv', Flows, Answered, NEW n \in Node, NEW d, Sound(d), NEW received,
         Step(n, d, received), NEW h, Moves(n, d, h), NEW X, X = {}, Answers(n, d, X),
         procSess' = procSess, toack' = toack, acked' = acked, seen' = seen
  PROVE  Answered'
<1> DEFINE p == Peer(n)
<1>1. p \in Node /\ Peer(p) = n
  BY PeerType
<1>2. Answers(p, conn[p], {}) /\ acked[n] \subseteq seen[p]
  BY <1>1, Zenon DEF Answered
<1>3. \A f \in Sending(conn[p], Pool(p)) : Settled(f, AckNumbers(p), seen[n])
  BY <1>1, <1>2, Zenon DEF Answers
<1> HIDE DEF p
<1>4. \A f \in Sending(conn[p], Pool(p)) : Settled(f, X, seen'[n])
  BY <1>3 DEF Settled
<1>5. /\ toack'[p] = toack[p] /\ seen'[p] = seen[p] /\ acked'[p] = acked[p]
      /\ \A i \in DOMAIN toack'[n] : toack'[n][i] \in {toack[n][j] : j \in DOMAIN toack[n]} \cup X
      /\ seen[n] \subseteq seen'[n] /\ acked'[n] \subseteq seen[p]
      /\ X \subseteq NumbersOf(Pool(p))
  BY <1>2
<1> QED
  BY <1>4, <1>5, StepAnswers DEF p

\* What is transmitted anew, or shut down, acknowledges nothing new.
LEMMA SilentAnswers ==
  ASSUME Window <= 2, IInv, NEW n \in Node, NEW c \in Conn, NEW d \in Conn, NEW X, X = {},
         NEW K, K = {NoSeqno}, Answers(n, c, X), Quiet(c, d, K)
  PROVE  Answers(n, d, X)
<1>1. K \subseteq AckNumbers(Peer(n)) \cup X /\ X \subseteq Seqno
  BY DEF AckNumbers
<1> QED
  BY <1>1, QuietAnswers

\* What an end has when nothing is being done.
LEMMA CurrentAnswers ==
  ASSUME IInv, Flows, Answered, NEW n \in Node
  PROVE  /\ Answers(n, conn[n], {}) /\ acked[n] \subseteq seen[Peer(n)]
         /\ procSess[n] > 0 /\ procSess[n] \in Nat /\ NoSeqno \in Seqno
         /\ Peer(n) \in Node /\ Peer(n) # n /\ Peer(Peer(n)) = n
<1>1. procSess[n] > 0
  BY Zenon DEF Flows, Flow
<1>2. procSess[n] \in Nat
  BY DEF IInv, TypeOK
<1> QED
  BY <1>1, <1>2, PeerType, SmallTypes DEF Answered

\* In the beginning nothing was sent and nothing read.
LEMMA InitAnswered == Init => Answered
<1> SUFFICES ASSUME Init, NEW n \in Node
             PROVE  Answers(n, conn[n], {}) /\ acked[n] \subseteq seen[Peer(n)]
  BY Zenon DEF Answered
<1> DEFINE p == Peer(n)
           c == conn[n]
<1>1. p \in Node /\ Peer(p) = n
  BY PeerType
<1>2. /\ c = NoConn /\ conn[p] = NoConn /\ net[p] = {} /\ net[n] = {} /\ procSess[n] = 1
      /\ toack[p] = <<>> /\ acked[n] = {}
  BY <1>1 DEF Init
<1>3. /\ c.tx = {} /\ c.outq = EmptyQueue /\ c.lastacksent = NoSeqno
      /\ conn[p].inq = EmptyQueue /\ conn[p].lastacksent = NoSeqno
  BY <1>2 DEF NoConn, NewConn
<1>4. Held(EmptyQueue) = {} /\ EmptyQueue.sess = 0 /\ EmptyQueue.q = <<>>
  BY DEF Held, EmptyQueue
<1>5. Pool(n) = {} /\ Sequenced(c.tx) = {}
  BY <1>2, <1>3, <1>4 DEF Pool, Sequenced
<1>6. Sending(c, Pool(n)) = {}
  BY <1>3, <1>4, <1>5 DEF Sending
<1>7. AckNumbers(n) = {NoSeqno}
  <2>1. NumbersOf(net[n] \ Sequenced(net[n])) = {}
    BY <1>2 DEF NumbersOf
  <2>2. {toack[p][i] : i \in DOMAIN toack[p]} = {}
    BY <1>2
  <2> QED
    BY <1>3, <2>1, <2>2 DEF AckNumbers
<1>8. InRun(c.outq)
  BY <1>3, <1>4, EmptyInRun
<1>9. \A t \in AckNumbers(n) \cup NumbersOf(Pool(n) \cup Sequenced(c.tx)) :
        AtMost(c.outq, procSess[n], t)
  <2>1. NumbersOf(Pool(n) \cup Sequenced(c.tx)) = {}
    BY <1>5 DEF NumbersOf
  <2>2. NoSeqno[1] = 0
    BY DEF NoSeqno
  <2> QED
    BY <1>2, <1>3, <1>4, <1>7, <2>1, <2>2 DEF AtMost
<1>10. {c.lastacksent} \cup NumbersOf(c.tx \ Sequenced(c.tx)) \subseteq AckNumbers(p) \cup {}
  BY <1>3 DEF AckNumbers, NumbersOf
<1> HIDE DEF p, c
<1> QED
  BY <1>2, <1>6, <1>8, <1>9, <1>10 DEF Answers, p, c


\* What is read settles the framesets that carry the number of the one read.
LEMMA ReadSettles ==
  ASSUME IInv, Flows, Answered, NEW n \in Node, Readable(conn[n].inq), conn[n].inq.q # <<>>,
         NEW S, seen[n] \subseteq S,
         Head(conn[n].inq.q).kind = "data" => Head(conn[n].inq.q).val \in S
  PROVE  LET p == Peer(n)
             X == {SeqnoOf(Head(conn[n].inq.q))}
         IN  /\ X \subseteq NumbersOf(Pool(p)) /\ X \subseteq Seqno
             /\ \A f \in Sending(conn[p], Pool(p)) : Settled(f, X, S)
<1> DEFINE p == Peer(n)
           fs == Head(conn[n].inq.q)
           X == {SeqnoOf(fs)}
<1>1. p \in Node /\ Peer(p) = n /\ Answers(p, conn[p], {})
  BY PeerType, Zenon DEF Answered
<1>2. \A f \in Sending(conn[p], Pool(p)) : Settled(f, AckNumbers(p), seen[n])
  BY <1>1, Zenon DEF Answers
<1>3. fs \in Held(conn[n].inq)
  <2>1. conn[n].inq.q \in Seq(FrameSet)
    BY DEF IInv, TypeOK, Conn, Queue
  <2>2. 1 \in DOMAIN conn[n].inq.q /\ fs = conn[n].inq.q[1]
    BY <2>1
  <2> QED
    BY <2>2 DEF Held
<1>4. fs \in Pool(p)
  BY <1>1, <1>3 DEF Pool
<1>5. \A f \in Sending(conn[p], Pool(p)) : SeqnoOf(f) = SeqnoOf(fs) => f = fs
  <2>1. Numbered(conn[p], Pool(p), procSess[p], handed[p])
    BY <1>1, Zenon DEF Flows, Flow
  <2>2. fs \in Sending(conn[p], Pool(p))
    BY <1>4 DEF Sending
  <2> HIDE DEF fs
  <2> QED
    BY <2>1, <2>2, Zenon DEF Numbered
<1>6. X \subseteq NumbersOf(Pool(p)) /\ X \subseteq Seqno
  <2>1. X \subseteq NumbersOf(Pool(p))
    BY <1>4 DEF NumbersOf
  <2>2. Pool(p) \subseteq FrameSet
    BY <1>1, PoolType
  <2> QED
    BY <2>1, <2>2, NumbersType
<1>7. \A f \in Sending(conn[p], Pool(p)) : Settled(f, X, S)
  <2> SUFFICES ASSUME NEW f \in Sending(conn[p], Pool(p)) PROVE Settled(f, X, S)
    OBVIOUS
  <2>1. Settled(f, AckNumbers(p), seen[n]) /\ (SeqnoOf(f) \in X => f = fs)
    BY <1>2, <1>5
  <2> HIDE DEF p, X
  <2> QED
    BY <2>1 DEF Settled
<1> QED
  BY <1>6, <1>7

\* The calls of the application keep what is acknowledged right.
LEMMA CallsAnswered ==
  ASSUME Window <= 2, IInv, IInv', Flows, Answered, Stay, NEW n \in Node, Calls(n)
  PROVE  Answered'
<1> DEFINE p == Peer(n)
           X == {}
           K == {NoSeqno}
<1>1. /\ procSess[n] \in Nat /\ handed \in [Node -> Nat] /\ handed[n] \in Nat
      /\ toack \in [Node -> Seq(Seqno)] /\ toack[n] \in Seq(Seqno)
      /\ seen \in [Node -> SUBSET Nat] /\ seen[n] \subseteq Nat
      /\ Sound(conn[n]) \/ Gone(conn[n])
  BY DEF IInv, ConnInv, TypeOK
<1>2. Sound(AddConn(conn[n])) /\ Moves(n, AddConn(conn[n]), handed[n])
  BY AddConnMoves
<1>3. ASSUME conn[n].present PROVE Sound(conn[n]) /\ Moves(n, conn[n], handed[n])
  BY <1>3, CurrentMoves
<1>4. /\ Answers(n, conn[n], X) /\ acked[n] \subseteq seen[p]
      /\ procSess[n] > 0 /\ NoSeqno \in Seqno /\ p \in Node /\ p # n /\ Peer(p) = n
  BY CurrentAnswers
<1>5. Answers(n, AddConn(conn[n]), X)
  BY AddConnAnswers
<1>6. "data" \in Kinds /\ "data" # "ack" /\ X \subseteq Seqno /\ X = {} /\ K = {NoSeqno}
      /\ NoSeqno \in K
  BY DEF Kinds
<1> HIDE DEF X, K
<1>7. CASE Send(n)
  <2> DEFINE k == handed[n] + 1
             d == Send1(AddConn(conn[n]), "data", k, procSess[n])
  <2>1. handed' = [handed EXCEPT ![n] = k]
    BY <1>7, Zenon DEF Send
  <2>2. k \in Nat /\ handed[n] <= k /\ handed[n] < k /\ k <= k
    BY <1>1
  <2> HIDE DEF k
  <2>3. handed'[n] = k
    BY <1>1, <2>1
  <2>4. Step(n, d, {}) /\ procSess' = procSess /\ toack' = toack /\ acked' = acked /\ seen' = seen
    BY <1>7, <2>3, Zenon DEF Send
  <2>5. Sound(d)
    BY <1>1, <1>2, <1>6, <2>2, Send1Sound
  <2>6. Moves(n, d, k)
    BY <1>2, <1>4, <1>6, <2>2, Send1Moves
  <2>7. Answers(n, d, X)
    BY <1>2, <1>4, <1>5, <1>6, <2>2, Send1Answers
  <2> HIDE DEF d
  <2> QED
    BY <1>6, <2>4, <2>5, <2>6, <2>7, PlainStepAnswers
<1>8. CASE SendList(n)
  <2> DEFINE i == handed[n] + 1
             k == handed[n] + 2
             first == Send1(AddConn(conn[n]), "data", i, procSess[n])
             both == Send1(first, "data", k, procSess[n])
             d == XmitIfWeCan(both)
  <2>1. handed' = [handed EXCEPT ![n] = k]
    BY <1>8, Zenon DEF SendList
  <2>2. k \in Nat /\ i \in Nat /\ handed[n] <= i /\ handed[n] < i /\ i <= i /\ i <= k /\ i < k /\ k <= k
    BY <1>1
  <2>3. handed'[n] = k
    BY <1>1, <2>1
  <2>4. Step(n, d, {}) /\ procSess' = procSess /\ toack' = toack /\ acked' = acked /\ seen' = seen
    BY <1>8, <2>3, Zenon DEF SendList
  <2> HIDE DEF k, i
  <2>5. Sound(first) /\ Moves(n, first, i)
    BY <1>1, <1>2, <1>4, <1>6, <2>2, Send1Sound, Send1Moves
  <2>6. Answers(n, first, X)
    BY <1>2, <1>4, <1>5, <1>6, <2>2, Send1Answers
  <2> HIDE DEF first
  <2>7. Sound(both) /\ Moves(n, both, k)
    BY <1>1, <1>4, <1>6, <2>2, <2>5, Send1Sound, Send1Moves
  <2>8. Answers(n, both, X)
    BY <1>4, <1>6, <2>2, <2>5, <2>6, Send1Answers
  <2> HIDE DEF both
  <2>9. Sound(d)
    BY <2>7, XmitSound
  <2>10. Quiet(both, d, K)
    BY <1>6, <2>7, XmitQuiet
  <2> HIDE DEF d
  <2>11. both \in Conn /\ d \in Conn
    BY <2>7, <2>9 DEF Sound
  <2>12. Moves(n, d, k)
    BY <2>7, <2>10, <2>11, QuietMoves
  <2>13. Answers(n, d, X)
    BY <1>6, <2>8, <2>10, <2>11, SilentAnswers
  <2> QED
    BY <1>6, <2>4, <2>9, <2>12, <2>13, PlainStepAnswers
<1>9. CASE Read(n)
  <2> DEFINE c == conn[n]
             d == ReadOne(c, procSess[n])
             fs == Head(c.inq.q)
             s == SeqnoOf(fs)
             Y == {s}
             S == IF fs.kind = "data" THEN seen[n] \cup {fs.val} ELSE seen[n]
  <2>1. c.inq.q # <<>> /\ Readable(c.inq)
    BY <1>9, Zenon DEF Read, Readable
  <2>2. Sound(c)
    BY <1>1, <2>1, Zenon DEF Gone
  <2>3. Moves(n, c, handed[n])
    BY <1>3, <2>2, Zenon DEF Sound
  <2>4. Step(n, d, {}) /\ procSess' = procSess /\ handed' = handed /\ acked' = acked
    BY <1>9, Zenon DEF Read
  <2>5. seen' = [seen EXCEPT ![n] = S]
    BY <1>9, Zenon DEF Read
  <2>6. toack' = [toack EXCEPT ![n] = Append(toack[n], s)]
    BY <1>9, Zenon DEF Read
  <2>7. Sound(d) /\ Moves(n, d, handed[n])
    BY <1>1, <1>4, <2>1, <2>2, <2>3, ReadOneSound, ReadOneMoves
  <2>8. Answers(n, d, Y)
    <3>1. Answers(n, c, {})
      BY <1>4, <1>6
    <3> QED
      BY <1>4, <2>1, <2>2, <3>1, ReadOneAnswers
  <2>9. seen[n] \subseteq S /\ (fs.kind = "data" => fs.val \in S)
    OBVIOUS
  <2> HIDE DEF S
  <2>10. /\ Y \subseteq NumbersOf(Pool(p)) /\ Y \subseteq Seqno
         /\ \A f \in Sending(conn[p], Pool(p)) : Settled(f, Y, S)
    BY <2>1, <2>9, ReadSettles
  <2> HIDE DEF d, s, fs
  <2>11. seen'[n] = S /\ seen'[p] = seen[p]
    BY <1>1, <1>4, <2>5
  <2> HIDE DEF c, p
  <2>12. toack'[n] = Append(toack[n], s) /\ toack'[p] = toack[p]
    BY <1>1, <1>4, <2>6
  <2>13. s \in Seqno
    BY <2>10
  <2>14. \A i \in DOMAIN toack'[n] : toack'[n][i] \in {toack[n][j] : j \in DOMAIN toack[n]} \cup Y
    <3> DEFINE e == toack[n]
    <3>1. e \in Seq(Seqno)
      BY <1>1
    <3> HIDE DEF e
    <3>2. \A i \in DOMAIN Append(e, s) : \/ i \in DOMAIN e /\ Append(e, s)[i] = e[i]
                                         \/ Append(e, s)[i] = s
      BY <2>13, <3>1
    <3> QED
      BY <2>12, <3>2 DEF e
  <2>15. acked'[p] = acked[p] /\ acked'[n] \subseteq seen[p] /\ seen[n] \subseteq seen'[n]
         /\ \A f \in Sending(conn[p], Pool(p)) : Settled(f, Y, seen'[n])
    BY <1>4, <2>4, <2>9, <2>10, <2>11
  <2>16. Y \subseteq NumbersOf(Pool(p))
    BY <2>10
  <2> HIDE DEF Y
  <2> QED
    BY <2>4, <2>7, <2>8, <2>11, <2>12, <2>14, <2>15, <2>16, StepAnswers DEF p
<1>10. CASE AckMessage(n)
  <2> DEFINE s == Head(toack[n])
             d == AckSeqno(conn[n], s)
             N == {s}
  <2>1. toack[n] # <<>> /\ conn[n].present
    BY <1>10 DEF AckMessage
  <2>2. s \in Seqno /\ s = toack[n][1] /\ 1 \in DOMAIN toack[n]
    BY <1>1, <2>1, HeadTailProperties
  <2>3. Sound(conn[n]) /\ Moves(n, conn[n], handed[n])
    BY <1>3, <2>1
  <2>4. Step(n, d, {}) /\ procSess' = procSess /\ handed' = handed /\ acked' = acked /\ seen' = seen
        /\ toack' = [toack EXCEPT ![n] = Tail(toack[n])]
    BY <1>10, Zenon DEF AckMessage
  <2>5. s \in AckNumbers(p)
    BY <1>4, <2>2 DEF AckNumbers
  <2> HIDE DEF s
  <2>6. Sound(d)
    BY <2>2, <2>3, AckSeqnoSound
  <2>7. Quiet(conn[n], d, N)
    BY <2>3, AckSeqnoQuiet DEF Sound
  <2> HIDE DEF d
  <2>8. d \in Conn /\ conn[n] \in Conn
    BY <2>3, <2>6 DEF Sound
  <2>9. Moves(n, d, handed[n])
    BY <2>3, <2>7, <2>8, QuietMoves
  <2>10. N \subseteq AckNumbers(p) \cup X
    BY <2>5
  <2> HIDE DEF N
  <2>11. Answers(n, d, X)
    BY <1>4, <1>6, <2>7, <2>8, <2>10, QuietAnswers
  <2>12. toack'[n] = Tail(toack[n]) /\ toack'[p] = toack[p]
    BY <1>1, <1>4, <2>4
  <2>13. \A i \in DOMAIN toack'[n] : toack'[n][i] \in {toack[n][j] : j \in DOMAIN toack[n]} \cup X
    <3> DEFINE e == toack[n]
    <3>1. e \in Seq(Seqno) /\ e # <<>>
      BY <1>1, <2>1
    <3> HIDE DEF e
    <3>2. \A i \in DOMAIN Tail(e) : i + 1 \in DOMAIN e /\ Tail(e)[i] = e[i + 1]
      BY <3>1
    <3> QED
      BY <2>12, <3>2 DEF e
  <2>14. seen'[p] = seen[p] /\ acked'[p] = acked[p] /\ acked'[n] \subseteq seen[p]
         /\ seen[n] \subseteq seen'[n]
    BY <1>4, <2>4
  <2>15. \A f \in Sending(conn[p], Pool(p)) : Settled(f, X, seen'[n])
    <3>1. \A f \in Sending(conn[p], Pool(p)) : Settled(f, AckNumbers(p), seen[n])
      BY <1>4, CurrentAnswers, Zenon DEF Answers
    <3> QED
      BY <1>6, <2>4, <3>1 DEF Settled
  <2>16. X \subseteq NumbersOf(Pool(p))
    BY <1>6
  <2> QED
    BY <2>4, <2>6, <2>9, <2>11, <2>12, <2>13, <2>14, <2>15, <2>16, StepAnswers
<1>11. CASE CloseConn(n)
  <2> DEFINE d == Fsa(conn[n], "REQSHUTDOWN", NoSeqno, procSess[n])
  <2>1. conn[n].present /\ Step(n, d, {}) /\ procSess' = procSess /\ toack' = toack
        /\ acked' = acked /\ seen' = seen
    BY <1>11, Zenon DEF CloseConn
  <2>2. Sound(conn[n]) /\ Moves(n, conn[n], handed[n])
    BY <1>3, <2>1
  <2>3. Sound(d)
    BY <1>1, <1>4, <2>2, CloseSound
  <2>4. Moves(n, d, handed[n])
    BY <1>4, <2>2, <2>3, FsaMoves
  <2>5. NoSeqno \in AckNumbers(p) \cup X
    BY DEF AckNumbers
  <2>6. Answers(n, d, X)
    BY <1>4, <1>6, <2>2, <2>3, <2>5, FsaAnswers
  <2> HIDE DEF d
  <2> QED
    BY <1>6, <2>1, <2>3, <2>4, <2>6, PlainStepAnswers
<1>12. CASE CloseAll(n)
  <2>1. conn[n].present /\ Step(n, Destroy(conn[n]), {}) /\ procSess' = procSess
    BY <1>12, Zenon DEF CloseAll
  <2>2. Sound(conn[n])
    BY <1>3, <2>1
  <2> QED
    BY <2>1, <2>2, DestroyLeaves
<1>13. CASE CountIdle(n)
  <2> DEFINE c == conn[n]
             no == FALSE
             d == [c EXCEPT !.shutdown_complete = no]
  <2>1. c.present /\ Step(n, d, {}) /\ procSess' = procSess /\ toack' = toack
        /\ acked' = acked /\ seen' = seen
    BY <1>13, Zenon DEF CountIdle
  <2>2. Sound(c) /\ Moves(n, c, handed[n]) /\ no \in BOOLEAN /\ Answers(n, c, X)
    BY <1>3, <1>4, <2>1
  <2> HIDE DEF c, no
  <2>3. c \in Conn
    BY <2>2 DEF Sound
  <2>4. d \in Conn
    BY <2>2, <2>3 DEF Conn
  <2>5. /\ d.present = c.present /\ d.state = c.state /\ d.outq = c.outq
        /\ d.unacked = c.unacked /\ d.shuttimer = c.shuttimer /\ d.complained = c.complained
        /\ d.inq = c.inq /\ d.got = c.got /\ d.lastacksent = c.lastacksent /\ d.tx = c.tx
    BY <2>3 DEF Conn
  <2> HIDE DEF d
  <2>6. Sound(d)
    BY <2>2, <2>4, <2>5, SoundKept, Zenon
  <2>7. Quiet(c, d, K)
    BY <2>5, QuietFields, Zenon
  <2>8. Moves(n, d, handed[n])
    BY <2>2, <2>3, <2>4, <2>7, QuietMoves
  <2>9. Answers(n, d, X)
    BY <2>2, <2>5, SameAnswers, Zenon
  <2> QED
    BY <1>6, <2>1, <2>6, <2>8, <2>9, PlainStepAnswers
<1> QED
  BY <1>7, <1>8, <1>9, <1>10, <1>11, <1>12, <1>13 DEF Calls


\* Receiving a frameset keeps what is acknowledged right.
LEMMA DeliverAnswered ==
  ASSUME Window <= 2, IInv, IInv', Flows, Answered, NEW n \in Node,
         NEW kind \in Kinds, Deliver(n, kind)
  PROVE  Answered'
<1> DEFINE p == Peer(n)
           c == AddConn(conn[n])
           X == {}
<1>1. PICK fs \in net[n] : /\ Receive(n, fs)
                           /\ UNCHANGED <<procSess, toack, handed, seen, used>>
  BY Zenon DEF Deliver
<1>2. net[n] \subseteq FrameSet /\ fs \in FrameSet
  BY DEF IInv, TypeOK
<1>3. Sound(c) /\ Moves(n, c, handed[n])
  BY AddConnMoves
<1>4. procSess' = procSess /\ toack' = toack /\ seen' = seen
  BY <1>1
<1>5. Answers(n, c, X)
  BY AddConnAnswers
<1>6. X \subseteq Seqno /\ X = {}
  OBVIOUS
<1>7. p \in Node /\ p # n /\ Peer(p) = n /\ acked[n] \subseteq seen[p] /\ Answers(p, conn[p], X)
  BY CurrentAnswers, PeerType
<1> HIDE DEF c, X
<1>8. CASE fs.kind = "ack"
  <2> DEFINE s == SeqnoOf(fs)
             d == ReceiveAck(c, s)
             V == IF AckRefused(c.outq, s) THEN {}
                  ELSE {c.outq.q[i].val : i \in DOMAIN c.outq.q \ Unacked(c.outq, s)} \ {0}
             a == acked[n] \cup V
  <2>1. Step(n, d, {fs})
    BY <1>1, <1>8, Zenon DEF Receive, c
  <2>2. acked' = [acked EXCEPT ![n] = a]
    BY <1>1, <1>8, Zenon DEF Receive, c
  <2>3. s \in AckNumbers(n)
    BY <1>8 DEF AckNumbers, NumbersOf, Sequenced
  <2>4. s \in Seqno
    BY <2>3, AckNumbersType
  <2> HIDE DEF s
  <2>5. Sound(d) /\ Moves(n, d, handed[n])
    BY <1>3, <2>4, ReceiveAckSound, ReceiveAckMoves
  <2>6. Answers(n, d, X)
    BY <1>3, <1>5, <1>6, <2>3, ReceiveAckAnswers
  <2>7. V \subseteq seen[p]
    BY <1>3, <1>5, <1>6, <2>3, ReceiveAckAnswers
  <2> HIDE DEF d, V
  <2>8. a \subseteq seen[p]
    BY <1>7, <2>7
  <2> HIDE DEF a
  <2>9. acked'[n] = a /\ acked'[p] = acked[p]
    BY <1>7, <2>2 DEF IInv, TypeOK
  <2>10. \A f \in Sending(conn[p], Pool(p)) : Settled(f, X, seen'[n])
    <3>1. \A f \in Sending(conn[p], Pool(p)) : Settled(f, AckNumbers(p), seen[n])
      BY <1>7, Zenon DEF Answers
    <3> QED
      BY <1>4, <1>6, <3>1 DEF Settled
  <2>11. /\ toack'[p] = toack[p] /\ seen'[p] = seen[p] /\ seen[n] \subseteq seen'[n]
         /\ \A i \in DOMAIN toack'[n] : toack'[n][i] \in {toack[n][j] : j \in DOMAIN toack[n]} \cup X
         /\ X \subseteq NumbersOf(Pool(p)) /\ acked'[n] \subseteq seen[p]
    BY <1>4, <1>6, <2>8, <2>9
  <2> QED
    BY <1>4, <2>1, <2>5, <2>6, <2>9, <2>10, <2>11, StepAnswers
<1>9. CASE fs.kind # "ack"
  <2> DEFINE d == ReceiveSequenced(c, fs)
  <2>1. Step(n, d, {fs}) /\ acked' = acked
    BY <1>1, <1>9, Zenon DEF Receive, c
  <2>2. fs \in Pool(p)
    BY <1>7, <1>9 DEF Pool, Sequenced
  <2>3. fs.sess > 0
    <3>1. fs \in Sending(conn[p], Pool(p))
      BY <2>2 DEF Sending
    <3>2. Numbered(conn[p], Pool(p), procSess[p], handed[p])
      BY <1>7, Zenon DEF Flows, Flow
    <3> QED
      BY <3>1, <3>2, Zenon DEF Numbered
  <2>4. Sound(d) /\ Moves(n, d, handed[n])
    BY <1>2, <1>3, <2>2, <2>3, ReceiveSequencedSound, ReceiveSequencedMoves
  <2>5. Answers(n, d, X)
    BY <1>2, <1>3, <1>5, <1>6, ReceiveSequencedAnswers
  <2> HIDE DEF d
  <2> QED
    BY <1>4, <1>6, <2>1, <2>4, <2>5, PlainStepAnswers
<1> QED
  BY <1>8, <1>9

\* The timers keep what is acknowledged right.
LEMMA TimersAnswered ==
  ASSUME Window <= 2, IInv, IInv', Flows, Answered, Stay, NEW n \in Node, Timers(n)
  PROVE  Answered'
<1> DEFINE c == conn[n]
           X == {}
           K == {NoSeqno}
<1>1. /\ Sound(c) \/ Gone(c)
      /\ conn \in [Node -> Conn] /\ net \in [Node -> SUBSET FrameSet] /\ c \in Conn
  BY DEF IInv, ConnInv, TypeOK
<1>2. ASSUME c.present PROVE Sound(c) /\ Moves(n, c, handed[n])
  BY <1>2, CurrentMoves
<1>3. Answers(n, c, X)
  BY CurrentAnswers
<1>4. X = {} /\ K = {NoSeqno} /\ NoSeqno \in K
  OBVIOUS
<1> HIDE DEF X, K
<1>5. CASE RexmitDue(n)
  <2> DEFINE r == "due"
             d == [c EXCEPT !.rexmit = r]
  <2>1. /\ conn' = [conn EXCEPT ![n] = d] /\ net' = net
        /\ procSess' = procSess /\ toack' = toack /\ acked' = acked /\ seen' = seen
    BY <1>5, Zenon DEF RexmitDue
  <2> HIDE DEF c, r
  <2>2. d.outq = c.outq /\ d.inq = c.inq /\ d.lastacksent = c.lastacksent /\ d.tx = c.tx
    BY <1>1 DEF Conn
  <2> HIDE DEF d
  <2>3. \A m \in Node : conn'[m] = IF m = n THEN d ELSE conn[m]
    BY <1>1, <2>1
  <2>4. \A m \in Node : /\ conn'[m].outq = conn[m].outq /\ conn'[m].tx = conn[m].tx
                        /\ conn'[m].inq = conn[m].inq
                        /\ conn'[m].lastacksent = conn[m].lastacksent
                        /\ net'[m] \subseteq net[m]
    BY <2>1, <2>2, <2>3 DEF c
  <2> QED
    BY <2>1, <2>4, FewerAnswers
<1>6. CASE Timeout(n)
  <2> DEFINE d == XmitIfWeCan(c)
  <2>1. Step(n, d, {}) /\ procSess' = procSess /\ toack' = toack /\ acked' = acked
        /\ seen' = seen /\ c.rexmit # "off"
    BY <1>6, Zenon DEF Timeout
  <2>2. Sound(c)
    BY <1>1, <2>1, Zenon DEF Gone
  <2>3. Moves(n, c, handed[n])
    BY <1>2, <2>2, Zenon DEF Sound
  <2>4. Sound(d) /\ Quiet(c, d, K)
    BY <1>4, <2>2, XmitSound, XmitQuiet
  <2>5. d \in Conn
    BY <2>4, Zenon DEF Sound
  <2> HIDE DEF d
  <2>6. Moves(n, d, handed[n]) /\ Answers(n, d, X)
    BY <1>1, <1>3, <1>4, <2>3, <2>4, <2>5, QuietMoves, SilentAnswers
  <2> QED
    BY <1>4, <2>1, <2>4, <2>6, PlainStepAnswers
<1>7. CASE ShutTimeout(n)
  <2> DEFINE d == FsaQuiet(c, "SHUT_TO")
  <2>1. Step(n, d, {}) /\ procSess' = procSess /\ toack' = toack /\ acked' = acked
        /\ seen' = seen /\ c.shuttimer
    BY <1>7, Zenon DEF ShutTimeout
  <2>2. Sound(c)
    BY <1>1, <2>1, Zenon DEF Gone
  <2>3. Moves(n, c, handed[n])
    BY <1>2, <2>2, Zenon DEF Sound
  <2>4. Sound(d)
    BY <2>1, <2>2, ShutTimeoutSound
  <2>5. Quiet(c, d, K)
    BY <1>1, <1>4, FinishQuiet DEF FsaQuiet
  <2>6. d \in Conn
    BY <2>4, Zenon DEF Sound
  <2> HIDE DEF d
  <2>7. Moves(n, d, handed[n]) /\ Answers(n, d, X)
    BY <1>1, <1>3, <1>4, <2>3, <2>5, <2>6, QuietMoves, SilentAnswers
  <2> QED
    BY <1>4, <2>1, <2>4, <2>7, PlainStepAnswers
<1>8. CASE FinalizeTimeout(n)
  <2> DEFINE no == FALSE
             d == [c EXCEPT !.finalizetimer = no]
  <2>1. procSess' = procSess /\ toack' = toack /\ acked' = acked /\ seen' = seen /\ c.finalizetimer
    BY <1>8, Zenon DEF FinalizeTimeout
  <2>2. Step(n, d, {}) \/ Step(n, Destroy(c), {})
    BY <1>8, Zenon DEF FinalizeTimeout
  <2>3. Sound(c)
    BY <1>1, <2>1, Zenon DEF Gone
  <2>4. Moves(n, c, handed[n])
    BY <1>2, <2>3, Zenon DEF Sound
  <2>5. ~Step(n, Destroy(c), {})
    BY <2>1, <2>3, DestroyLeaves
  <2>6. no \in BOOLEAN
    OBVIOUS
  <2> HIDE DEF c, no
  <2>7. d \in Conn
    BY <1>1, <2>6 DEF Conn
  <2>8. /\ d.present = c.present /\ d.state = c.state /\ d.outq = c.outq
        /\ d.unacked = c.unacked /\ d.shuttimer = c.shuttimer /\ d.complained = c.complained
        /\ d.inq = c.inq /\ d.got = c.got /\ d.lastacksent = c.lastacksent /\ d.tx = c.tx
    BY <1>1 DEF Conn
  <2> HIDE DEF d
  <2>9. Sound(d)
    BY <2>3, <2>7, <2>8, SoundKept, Zenon
  <2>10. Quiet(c, d, K)
    BY <2>8, QuietFields, Zenon
  <2>11. Moves(n, d, handed[n])
    BY <1>1, <2>4, <2>7, <2>10, QuietMoves
  <2>12. Answers(n, d, X)
    BY <1>3, <2>8, SameAnswers, Zenon
  <2> QED
    BY <1>4, <2>1, <2>2, <2>5, <2>9, <2>11, <2>12, PlainStepAnswers
<1> QED
  BY <1>5, <1>6, <1>7, <1>8 DEF Timers

\* Every step that destroys no connection keeps what is acknowledged right.
LEMMA NextAnswered ==
  ASSUME Window <= 2, IInv, IInv', Flows, Answered, Stay, [Next]_vars
  PROVE  Answered'
<1>1. CASE UNCHANGED vars
  <2>1. conn' = conn /\ net' = net /\ procSess' = procSess /\ toack' = toack
        /\ acked' = acked /\ seen' = seen
    BY <1>1, Zenon DEF vars
  <2> QED
    BY <2>1, FewerAnswers
<1>2. CASE Next
  <2>1. PICK n \in Node : \/ Calls(n) \/ Timers(n) \/ Restart(n) \/ Lose(n)
                          \/ \E kind \in Kinds : Deliver(n, kind)
    BY <1>2, Zenon DEF Next
  <2>2. CASE Lose(n)
    <3>1. PICK fs \in net[n] : net' = [net EXCEPT ![n] = net[n] \ {fs}]
      BY <2>2, Zenon DEF Lose
    <3>2. conn' = conn /\ procSess' = procSess /\ toack' = toack /\ acked' = acked /\ seen' = seen
      BY <2>2, Zenon DEF Lose
    <3>3. net \in [Node -> SUBSET FrameSet]
      BY DEF IInv, TypeOK
    <3>4. \A m \in Node : net'[m] \subseteq net[m]
      BY <3>1, <3>3
    <3> QED
      BY <3>2, <3>4, FewerAnswers
  <2> QED
    BY <2>1, <2>2, CallsAnswered, TimersAnswered, RestartAnswers, DeliverAnswered, Zenon
<1> QED
  BY <1>1, <1>2

\* So it holds in every state.
LEMMA AnsweredInvariance ==
  ASSUME Window <= 2
  PROVE  Spec /\ ConnectionsStay => []Answered
<1>1. Init => Answered
  BY InitAnswered
<1>2. IInv /\ IInv' /\ Flows /\ Answered /\ [Next]_vars /\ [Stay]_vars => Answered'
  <2>1. CASE UNCHANGED vars
    <3>1. conn' = conn
      BY <2>1, Zenon DEF vars
    <3>2. Stay
      BY <3>1, Zenon DEF Stay
    <3> QED
      BY <3>2, NextAnswered
  <2>2. CASE Stay
    BY <2>2, NextAnswered
  <2> QED
    BY <2>1, <2>2
<1> QED
  BY <1>1, <1>2, Invariance, FlowInvariance, PTL DEF Spec, ConnectionsStay

\* With the window the code has, what an end drops as acknowledged has been read by
\* the application of its peer, whatever is lost, repeated, reset or restarted, as
\* long as no run of a process destroys a connection.
THEOREM AcksAreForRead ==
  ASSUME Window <= 2
  PROVE  Spec /\ ConnectionsStay => []AckedWasRead
<1>1. Answered => AckedWasRead
  BY Zenon DEF Answered, AckedWasRead
<1> QED
  BY <1>1, AnsweredInvariance, PTL

-------------------------------------------------------------------------------
(* What the application is shown.  Where the receiving end of a connection is   *)
(* not reset, the data it has read is what it was ever shown, and the flow puts *)
(* everything it can still read after that.                                    *)

\* The data in g is what was read, unless the connection was reset.
Shows(d, g) == \/ d.got = g
               \/ d.inq = EmptyQueue /\ d.got = <<>>

Shown == \A n \in Node : seen[n] \subseteq {conn[n].got[i] : i \in DOMAIN conn[n].got}

\* Nothing is shown, or data from the queue of input.
ShowStep(n) ==
  \/ conn'[n].got = conn[n].got /\ seen'[n] = seen[n]
  \/ \E f \in Held(conn[n].inq) :
       f.kind = "data" /\ conn'[n].got = Append(conn[n].got, f.val)
                       /\ seen'[n] = seen[n] \cup {f.val}

Keep == \A n \in Node : conn[n].inq.sess # 0 => conn'[n].inq.sess # 0

\* No end that has received something is reset, destroyed or restarted.
ReceptionStays == [][Keep]_vars

\* One after another, functions that leave the input alone or reset it.
LEMMA InputTrans ==
  ASSUME NEW c, NEW d, NEW e, InputKept(c, d), InputKept(d, e)
  PROVE  InputKept(c, e)
BY Zenon DEF InputKept

\* Sending does not touch the input, unless it gives up.
LEMMA Send1Input ==
  ASSUME NEW c0, Sound(c0), NEW kind \in Kinds, NEW val \in Nat, NEW sess \in Nat
  PROVE  InputKept(c0, Send1(c0, kind, val, sess))
<1>1. CASE InShutdown(c0.state)
  BY <1>1, Zenon DEF Send1, InputKept
<1>2. CASE ~InShutdown(c0.state)
  <2> DEFINE c == FsaQuiet(c0, "REQSEND")
             K == {NoSeqno}
  <2>1. PICK d : /\ Send1(c0, kind, val, sess) = XmitIfWeCan(d)
                 /\ Sound(c) /\ c.outq = c0.outq /\ Sound(d)
                 /\ d.outq = Enq(c.outq, kind, val, sess)
                 /\ d.tx = c.tx /\ d.inq = c.inq /\ d.got = c.got
                 /\ d.lastacksent = c.lastacksent
                 /\ d.isready = c.isready /\ d.ipend = c.ipend
    BY <1>2, Send1Queues, Zenon
  <2>2. Quiet(c0, c, K)
    BY FinishQuiet DEF FsaQuiet, Sound
  <2>3. Quiet(d, XmitIfWeCan(d), K)
    BY <2>1, XmitQuiet
  <2> HIDE DEF c, K
  <2>4. InputKept(c0, c) /\ InputKept(c, d) /\ InputKept(d, XmitIfWeCan(d))
    BY <2>1, <2>2, <2>3, Zenon DEF Quiet, InputKept
  <2> QED
    BY <2>1, <2>4, InputTrans
<1> QED
  BY <1>1, <1>2

\* Nor does the automaton, unless it closes the connection.
LEMMA FsaInput ==
  ASSUME NEW c, Sound(c), NEW input, NEW s \in Seqno, NEW sess \in Nat,
         Sound(Fsa(c, input, s, sess))
  PROVE  InputKept(c, Fsa(c, input, s, sess))
<1> DEFINE acts == Actions[c.state][input]
           acked1 == IF "ACKME" \in acts THEN AckSeqno(c, s) ELSE c
           shut == IF "SNDSHUT" \in acts THEN Send1(acked1, "connshut", 0, sess) ELSE acked1
           d == FsaFinish(shut, c.state, input)
           K == {NoSeqno, s}
<1>1. Fsa(c, input, s, sess) = d
  BY Zenon DEF Fsa
<1>2. c \in Conn
  BY DEF Sound
<1>3. Sound(acked1) /\ InputKept(c, acked1)
  <2>1. Sound(AckSeqno(c, s)) /\ Quiet(c, AckSeqno(c, s), K)
    BY <1>2, AckSeqnoSound, AckSeqnoQuiet
  <2> QED
    BY <2>1, Zenon DEF Quiet, InputKept
<1> HIDE DEF acked1
<1>4. Sound(shut) /\ InputKept(acked1, shut)
  <2>1. "connshut" \in Kinds /\ 0 \in Nat
    BY DEF Kinds
  <2>2. /\ Sound(Send1(acked1, "connshut", 0, sess))
        /\ InputKept(acked1, Send1(acked1, "connshut", 0, sess))
    BY <1>3, <2>1, Send1Sound, Send1Input
  <2> QED
    BY <1>3, <2>2, Zenon DEF InputKept
<1> HIDE DEF shut
<1>5. Quiet(shut, d, K)
  BY <1>4, FinishQuiet DEF Sound
<1>6. InputKept(shut, d)
  BY <1>5, Zenon DEF Quiet
<1> HIDE DEF d, K
<1> QED
  BY <1>1, <1>3, <1>4, <1>6, InputTrans

\* An ACK has nothing to do with the input.
LEMMA ReceiveAckInput ==
  ASSUME NEW c, Sound(c), NEW s \in Seqno
  PROVE  InputKept(c, ReceiveAck(c, s))
<1> DEFINE left == AckThrough(c.outq, s)
           z == 0
           popped == [c EXCEPT !.outq = left, !.tries = z]
           u == Remove(popped.unacked)
           off == "off"
           idle == [popped EXCEPT !.unacked = u, !.rexmit = off]
           K == {NoSeqno}
<1>1. ReceiveAck(c, s) =
        CASE AckRefused(c.outq, s) -> c
          [] ~AckRefused(c.outq, s) /\ left.q # <<>> -> XmitIfWeCan(popped)
          [] OTHER -> IF c.outq.q = <<>> THEN idle ELSE FsaQuiet(idle, "OUTALLDONE")
  BY Zenon DEF ReceiveAck
<1>2. c \in Conn /\ c.outq \in Queue /\ c.unacked \in Nat
  BY DEF Sound, Conn
<1>3. left \in Queue /\ (c.outq.q = <<>> => left.q = <<>>)
  BY <1>2, AckThroughType
<1>4. z \in 0..AckTries /\ off \in Rexmit
  BY SmallTypes
<1> HIDE DEF left, z, off
<1>5. popped \in Conn
  BY <1>2, <1>3, <1>4 DEF Conn
<1>6. /\ popped.present = c.present /\ popped.state = c.state /\ popped.outq = left
      /\ popped.unacked = c.unacked /\ popped.shuttimer = c.shuttimer
      /\ popped.complained = c.complained /\ popped.inq = c.inq /\ popped.got = c.got
  BY <1>2 DEF Conn
<1> HIDE DEF popped
<1>7. u \in Nat
  BY <1>2, <1>6, RemoveType
<1> HIDE DEF u
<1>8. idle \in Conn /\ idle.inq = popped.inq /\ idle.got = popped.got
  BY <1>4, <1>5, <1>7 DEF Conn
<1> HIDE DEF idle
<1>9. CASE AckRefused(c.outq, s)
  BY <1>1, <1>9, Zenon DEF InputKept
<1>10. CASE ~AckRefused(c.outq, s) /\ left.q # <<>>
  <2>1. Sound(popped)
    <3>1. c.outq.q # <<>> /\ Listed(popped)
      BY <1>3, <1>6, <1>10 DEF Sound, Listed
    <3> QED
      BY <1>5, <1>6, <1>10, <3>1, Zenon DEF Sound
  <2>2. Quiet(popped, XmitIfWeCan(popped), K)
    BY <2>1, XmitQuiet
  <2>3. ReceiveAck(c, s) = XmitIfWeCan(popped)
    BY <1>1, <1>10, Zenon
  <2> QED
    BY <1>6, <2>2, <2>3, Zenon DEF Quiet, InputKept
<1>11. CASE ~AckRefused(c.outq, s) /\ left.q = <<>>
  <2>1. ReceiveAck(c, s) \in {idle, FsaQuiet(idle, "OUTALLDONE")}
    BY <1>1, <1>11, Zenon
  <2>2. Quiet(idle, FsaQuiet(idle, "OUTALLDONE"), K)
    BY <1>8, FinishQuiet DEF FsaQuiet
  <2> QED
    BY <1>6, <1>8, <2>1, <2>2, Zenon DEF Quiet, InputKept
<1> QED
  BY <1>9, <1>10, <1>11

\* A frameset that is received is not shown yet.
LEMMA ReceiveSequencedShows ==
  ASSUME NEW c, Sound(c), NEW fs \in FrameSet
  PROVE  Shows(ReceiveSequenced(c, fs), c.got)
<1> DEFINE q == InqSorted(c.inq, fs)
           sorted == [c EXCEPT !.inq = q]
           filed == CASE InqRefused(c.inq, fs) -> AckAgain(sorted, fs)
                      [] ~InqRefused(c.inq, fs) /\ fs.seq = 1 -> FsaQuiet(sorted, "GOTSTART")
                      [] OTHER -> sorted
           marked == MarkReady(filed, fs)
           K == {NoSeqno, c.lastacksent}
<1>1. ReceiveSequenced(c, fs) = XmitIfWeCan(marked)
  BY Zenon DEF ReceiveSequenced
<1>2. c \in Conn /\ c.inq \in Queue
  BY DEF Sound, Conn
<1>3. q \in Queue
  BY <1>2, InqSortedType
<1> HIDE DEF q
<1>4. sorted \in Conn
  BY <1>2, <1>3 DEF Conn
<1>5. /\ sorted.present = c.present /\ sorted.state = c.state /\ sorted.outq = c.outq
      /\ sorted.unacked = c.unacked /\ sorted.shuttimer = c.shuttimer
      /\ sorted.complained = c.complained /\ sorted.got = c.got
      /\ sorted.lastacksent = c.lastacksent
  BY <1>2 DEF Conn
<1> HIDE DEF sorted
<1>6. Sound(sorted)
  BY <1>4, <1>5, SoundKept, Zenon
<1>7. Sound(AckAgain(sorted, fs)) /\ Sound(FsaQuiet(sorted, "GOTSTART"))
  BY <1>6, AckAgainSound, StartSound, Zenon
<1>8. Quiet(sorted, AckAgain(sorted, fs), K) /\ Quiet(sorted, FsaQuiet(sorted, "GOTSTART"), K)
  BY <1>4, <1>5, AckAgainQuiet, FinishQuiet DEF FsaQuiet
<1>9. Sound(filed) /\ Quiet(sorted, filed, K)
  BY <1>6, <1>7, <1>8, QuietSame, Zenon
<1> HIDE DEF filed
<1>10. Sound(marked) /\ Quiet(filed, marked, K)
  BY <1>9, MarkReadySound, MarkReadyQuiet DEF Sound
<1> HIDE DEF marked
<1>11. Quiet(marked, XmitIfWeCan(marked), K)
  BY <1>10, XmitQuiet
<1> HIDE DEF K
<1>12. InputKept(sorted, XmitIfWeCan(marked))
  BY <1>9, <1>10, <1>11, InputTrans, Zenon DEF Quiet
<1> QED
  BY <1>1, <1>5, <1>12, Zenon DEF InputKept, Shows

\* Reading shows the head of the queue if it is data.
LEMMA ReadOneShows ==
  ASSUME NEW c, Sound(c), NEW sess \in Nat, Readable(c.inq)
  PROVE  LET fs == Head(c.inq.q)
         IN  Shows(ReadOne(c, sess), IF fs.kind = "data" THEN Append(c.got, fs.val) ELSE c.got)
<1> DEFINE fs == Head(c.inq.q)
           rest == Deq(c.inq)
           more == Readable(rest)
           i == IF more THEN c.ipend ELSE Remove(c.ipend)
           g == IF fs.kind = "data" THEN Append(c.got, fs.val) ELSE c.got
           taken == [c EXCEPT !.inq = rest, !.isready = more, !.ipend = i, !.got = g]
           told == Fsa(taken, "RCVSHUTDOWN", SeqnoOf(fs), sess)
           d == IF fs.kind = "connshut" THEN told ELSE taken
           K == {NoSeqno}
<1>1. ReadOne(c, sess) = XmitIfWeCan(d)
  BY Zenon DEF ReadOne
<1>2. c \in Conn /\ c.inq \in Queue /\ c.ipend \in Nat /\ c.got \in Seq(Nat) /\ c.inq.q # <<>>
  BY DEF Sound, Conn, Readable
<1>3. rest \in Queue /\ fs \in FrameSet
  BY <1>2, DeqType
<1>4. fs.val \in Nat /\ SeqnoOf(fs) \in Seqno
  BY <1>3 DEF FrameSet, SeqnoOf, Seqno
<1>5. more \in BOOLEAN
  BY Zenon DEF Readable
<1>6. i \in Nat
  BY <1>2, RemoveType
<1>7. g \in Seq(Nat)
  BY <1>2, <1>4, AppendProperties
<1>8. g = IF Head(c.inq.q).kind = "data" THEN Append(c.got, Head(c.inq.q).val) ELSE c.got
  OBVIOUS
<1> HIDE DEF rest, more, i, g, fs
<1>9. Sound(taken)
  BY <1>3, <1>5, <1>6, <1>7, InputSound, Zenon
<1>10. taken.got = g
  BY <1>2 DEF Conn
<1> HIDE DEF taken
<1>11. Sound(told)
  BY <1>4, <1>9, PeerClosesSound
<1>12. InputKept(taken, told)
  BY <1>4, <1>9, <1>11, FsaInput
<1> HIDE DEF told
<1>13. Sound(d) /\ InputKept(taken, d)
  BY <1>9, <1>11, <1>12, Zenon DEF InputKept
<1> HIDE DEF d
<1>14. Quiet(d, XmitIfWeCan(d), K)
  BY <1>13, XmitQuiet
<1>15. InputKept(taken, XmitIfWeCan(d))
  BY <1>13, <1>14, InputTrans, Zenon DEF Quiet
<1>16. Shows(ReadOne(c, sess), g)
  BY <1>1, <1>10, <1>15, Zenon DEF InputKept, Shows
<1> QED
  BY <1>8, <1>16

\* Where reception stays, a reset has nothing to forget.
LEMMA StepShows ==
  ASSUME IInv, Flows, Keep, NEW n \in Node, NEW d, Sound(d), NEW received,
         Step(n, d, received), NEW g, Shows(d, g),
         g = conn[n].got \/ conn[n].inq.sess # 0
  PROVE  conn'[n].got = g /\ conn'[Peer(n)].got = conn[Peer(n)].got
<1>1. /\ conn'[Peer(n)] = conn[Peer(n)] /\ conn'[n].inq = d.inq /\ conn'[n].got = d.got
  BY StepConn
<1>2. CASE d.inq = EmptyQueue /\ d.got = <<>>
  <2>1. conn'[n].inq.sess = 0
    BY <1>1, <1>2 DEF EmptyQueue
  <2>2. conn[n].inq.sess = 0
    BY <2>1 DEF Keep
  <2>3. conn[n].got = <<>>
    BY <2>2, Zenon DEF Flows, Flow, InOrder
  <2> QED
    BY <1>1, <1>2, <2>2, <2>3
<1> QED
  BY <1>1, <1>2 DEF Shows

\* Nor has a connection that is destroyed.
LEMMA DestroyShows ==
  ASSUME IInv, Flows, Keep, NEW n \in Node, NEW received,
         Step(n, Destroy(conn[n]), received), seen' = seen
  PROVE  \A m \in Node : ShowStep(m)
<1> DEFINE p == Peer(n)
           e == [Destroy(conn[n]) EXCEPT !.tx = {}]
           i == Reinit(conn[n]).ipend
           u == Reinit(conn[n]).unacked
           g == [NoConn EXCEPT !.ipend = i, !.unacked = u]
<1>1. p \in Node /\ p # n /\ \A m \in Node : m = n \/ m = p
  BY PeerType DEF Node, Peer
<1>2. conn \in [Node -> Conn]
  BY DEF IInv, TypeOK
<1>3. conn' = [conn EXCEPT ![n] = e]
  BY Zenon DEF Step
<1>4. Destroy(conn[n]) = g
  BY Zenon DEF Destroy
<1>5. g.inq = EmptyQueue /\ g.got = <<>> /\ g = [NoConn EXCEPT !.ipend = i, !.unacked = u]
  BY DEF NoConn, NewConn
<1>6. e.inq = EmptyQueue /\ e.got = <<>>
  <2> HIDE DEF i, u
  <2> QED
    BY <1>4 DEF NoConn, NewConn
<1> HIDE DEF e, p
<1>7. conn'[n] = e /\ conn'[p] = conn[p]
  BY <1>1, <1>2, <1>3
<1>8. conn[n].inq.sess = 0
  BY <1>6, <1>7 DEF Keep, EmptyQueue
<1>9. conn[n].got = <<>>
  BY <1>8, Zenon DEF Flows, Flow, InOrder
<1> QED
  BY <1>1, <1>6, <1>7, <1>9 DEF ShowStep

\* Only reading shows anything, and it shows one frameset.
LEMMA CallsShow ==
  ASSUME IInv, Flows, Keep, NEW n \in Node, Calls(n)
  PROVE  \A m \in Node : ShowStep(m)
<1> DEFINE p == Peer(n)
           c == conn[n]
           a == AddConn(c)
           K == {NoSeqno}
<1>1. /\ procSess[n] \in Nat /\ handed[n] \in Nat /\ c.got \in Seq(Nat)
      /\ toack[n] \in Seq(Seqno) /\ seen \in [Node -> SUBSET Nat]
      /\ Sound(c) \/ Gone(c)
  BY DEF IInv, ConnInv, TypeOK, Conn
<1>2. Sound(a) /\ a.inq = c.inq /\ Shows(a, c.got)
  <2>1. CASE c.present
    BY <2>1, AddConnMoves, Zenon DEF AddConn, Shows
  <2>2. CASE ~c.present
    <3>1. c.inq = EmptyQueue /\ c.got = <<>>
      BY <2>2, Zenon DEF Flows, Flow
    <3>2. a.got = <<>>
      <4> DEFINE i == c.ipend  u == c.unacked  e == [NewConn EXCEPT !.ipend = i, !.unacked = u]
      <4>1. a = e
        BY <2>2, Zenon DEF AddConn
      <4>2. e.got = <<>>
        BY DEF NewConn
      <4> QED
        BY <4>1, <4>2, Zenon
    <3> QED
      BY <3>1, <3>2, AddConnMoves DEF Shows
  <2> QED
    BY <2>1, <2>2
<1>3. ASSUME c.present PROVE Sound(c)
  BY <1>3, CurrentMoves
<1>4. "data" \in Kinds /\ NoSeqno \in Seqno
  BY SmallTypes DEF Kinds
<1>5. p \in Node /\ p # n /\ \A m \in Node : m = n \/ m = p
  BY PeerType DEF Node, Peer
<1>6. ASSUME NEW d, Sound(d), Step(n, d, {}), seen' = seen,
             Shows(d, c.got) \/ InputKept(a, d) \/ InputKept(c, d)
      PROVE  \A m \in Node : ShowStep(m)
  <2>1. Shows(d, c.got)
    BY <1>2, <1>6, Zenon DEF Shows, InputKept
  <2>2. conn'[n].got = c.got /\ conn'[p].got = conn[p].got
    BY <1>6, <2>1, StepShows
  <2> QED
    BY <1>5, <1>6, <2>2 DEF ShowStep
<1> HIDE DEF a
<1>7. CASE Send(n)
  <2> DEFINE k == handed[n] + 1
             d == Send1(a, "data", handed'[n], procSess[n])
  <2>1. handed' = [handed EXCEPT ![n] = k] /\ Step(n, d, {}) /\ seen' = seen
    BY <1>7, Zenon DEF Send, a
  <2>2. handed'[n] \in Nat
    BY <1>1, <2>1 DEF IInv, TypeOK
  <2>3. Sound(d) /\ InputKept(a, d)
    BY <1>1, <1>2, <1>4, <2>2, Send1Sound, Send1Input
  <2> HIDE DEF d
  <2> QED
    BY <1>6, <2>1, <2>3
<1>8. CASE SendList(n)
  <2> DEFINE i == handed[n] + 1
             k == handed[n] + 2
             first == Send1(a, "data", i, procSess[n])
             both == Send1(first, "data", handed'[n], procSess[n])
             d == XmitIfWeCan(both)
  <2>1. handed' = [handed EXCEPT ![n] = k] /\ Step(n, d, {}) /\ seen' = seen
    BY <1>8, Zenon DEF SendList, a
  <2>2. handed'[n] \in Nat /\ i \in Nat
    BY <1>1, <2>1 DEF IInv, TypeOK
  <2> HIDE DEF i
  <2>3. Sound(first) /\ InputKept(a, first)
    BY <1>1, <1>2, <1>4, <2>2, Send1Sound, Send1Input
  <2> HIDE DEF first
  <2>4. Sound(both) /\ InputKept(first, both)
    BY <1>1, <1>4, <2>2, <2>3, Send1Sound, Send1Input
  <2> HIDE DEF both
  <2>5. Sound(d) /\ Quiet(both, d, K)
    BY <2>4, XmitSound, XmitQuiet
  <2> HIDE DEF d, K
  <2>6. InputKept(a, d)
    BY <2>3, <2>4, <2>5, InputTrans, Zenon DEF Quiet
  <2> QED
    BY <1>6, <2>1, <2>5, <2>6
<1>9. CASE Read(n)
  <2> DEFINE fs == Head(c.inq.q)
             d == ReadOne(c, procSess[n])
             g == IF fs.kind = "data" THEN Append(c.got, fs.val) ELSE c.got
             S == IF fs.kind = "data" THEN seen[n] \cup {fs.val} ELSE seen[n]
  <2>1. c.inq.q # <<>> /\ Readable(c.inq)
    BY <1>9, Zenon DEF Read, Readable
  <2>2. Sound(c)
    BY <1>1, <2>1, Zenon DEF Gone
  <2>3. Step(n, d, {}) /\ seen' = [seen EXCEPT ![n] = S]
    BY <1>9, Zenon DEF Read
  <2>4. Sound(d) /\ Shows(d, g)
    BY <1>1, <2>1, <2>2, ReadOneSound, ReadOneShows
  <2>5. c.inq.sess # 0 /\ fs \in Held(c.inq)
    <3>1. c.inq \in Queue /\ OneSession(c.inq)
      <4>1. OneSession(c.inq)
        BY Zenon DEF Flows, Flow, InOrder
      <4>2. c \in Conn
        BY <2>2 DEF Sound
      <4> QED
        BY <4>1, <4>2 DEF Conn
    <3>2. fs \in Held(c.inq)
      <4>1. 1 \in DOMAIN c.inq.q /\ fs = c.inq.q[1]
        BY <2>1, <3>1 DEF Queue
      <4> QED
        BY <4>1 DEF Held
    <3> QED
      BY <3>1, <3>2 DEF OneSession
  <2> HIDE DEF d
  <2>7. conn'[n].got = g /\ conn'[p].got = conn[p].got
    BY <2>3, <2>4, <2>5, StepShows
  <2>8. seen'[n] = S /\ seen'[p] = seen[p]
    BY <1>1, <1>5, <2>3
  <2>9. ShowStep(n)
    <3>1. CASE fs.kind = "data"
      BY <2>5, <2>7, <2>8, <3>1 DEF ShowStep
    <3>2. CASE fs.kind # "data"
      BY <2>7, <2>8, <3>2 DEF ShowStep
    <3> QED
      BY <3>1, <3>2
  <2>10. ShowStep(p)
    BY <2>7, <2>8 DEF ShowStep
  <2> QED
    BY <1>5, <2>9, <2>10
<1>10. CASE AckMessage(n)
  <2> DEFINE s == Head(toack[n])
             d == AckSeqno(c, s)
             N == {s}
  <2>1. toack[n] # <<>> /\ c.present /\ Step(n, d, {}) /\ seen' = seen
    BY <1>10, Zenon DEF AckMessage
  <2>2. s \in Seqno
    BY <1>1, <2>1, HeadTailProperties
  <2> HIDE DEF s
  <2>3. Sound(c) /\ Sound(d)
    BY <1>3, <2>1, <2>2, AckSeqnoSound
  <2>4. Quiet(c, d, N)
    BY <2>3, AckSeqnoQuiet DEF Sound
  <2> HIDE DEF d, N
  <2>5. InputKept(c, d)
    BY <2>4, Zenon DEF Quiet
  <2> QED
    BY <1>6, <2>1, <2>3, <2>5
<1>11. CASE CloseConn(n)
  <2> DEFINE d == Fsa(c, "REQSHUTDOWN", NoSeqno, procSess[n])
  <2>1. c.present /\ Step(n, d, {}) /\ seen' = seen
    BY <1>11, Zenon DEF CloseConn
  <2>2. Sound(c) /\ Sound(d)
    BY <1>1, <1>3, <1>4, <2>1, CloseSound
  <2>3. InputKept(c, d)
    BY <1>1, <1>4, <2>2, FsaInput
  <2> HIDE DEF d
  <2> QED
    BY <1>6, <2>1, <2>2, <2>3
<1>12. CASE CloseAll(n)
  <2>1. Step(n, Destroy(c), {}) /\ seen' = seen
    BY <1>12, Zenon DEF CloseAll
  <2> QED
    BY <1>5, <2>1, DestroyShows
<1>13. CASE CountIdle(n)
  <2> DEFINE no == FALSE
             d == [c EXCEPT !.shutdown_complete = no]
  <2>1. c.present /\ Step(n, d, {}) /\ seen' = seen
    BY <1>13, Zenon DEF CountIdle
  <2>2. Sound(c) /\ no \in BOOLEAN
    BY <1>3, <2>1
  <2> HIDE DEF c, no
  <2>3. c \in Conn
    BY <2>2 DEF Sound
  <2>4. d \in Conn
    BY <2>2, <2>3 DEF Conn
  <2>5. /\ d.present = c.present /\ d.state = c.state /\ d.outq = c.outq
        /\ d.unacked = c.unacked /\ d.shuttimer = c.shuttimer /\ d.complained = c.complained
        /\ d.inq = c.inq /\ d.got = c.got
    BY <2>3 DEF Conn
  <2> HIDE DEF d
  <2>6. Sound(d)
    BY <2>2, <2>4, <2>5, SoundKept, Zenon
  <2>7. InputKept(c, d)
    BY <2>5, Zenon DEF InputKept
  <2> QED
    BY <1>6, <2>1, <2>6, <2>7
<1> QED
  BY <1>7, <1>8, <1>9, <1>10, <1>11, <1>12, <1>13 DEF Calls

\* Receiving a frameset shows nothing.
LEMMA DeliverShows ==
  ASSUME IInv, Flows, Keep, NEW n \in Node, NEW kind \in Kinds, Deliver(n, kind)
  PROVE  \A m \in Node : ShowStep(m)
<1> DEFINE p == Peer(n)
           c == AddConn(conn[n])
           g == conn[n].got
<1>1. PICK fs \in net[n] : /\ Receive(n, fs)
                           /\ UNCHANGED <<procSess, toack, handed, seen, used>>
  BY Zenon DEF Deliver
<1>2. fs \in FrameSet
  BY DEF IInv, TypeOK
<1>3. SeqnoOf(fs) \in Seqno
  BY <1>2 DEF FrameSet, SeqnoOf, Seqno
<1>4. p \in Node /\ p # n /\ \A m \in Node : m = n \/ m = p
  BY PeerType DEF Node, Peer
<1>5. Sound(c) /\ c.got = g
  <2>1. CASE conn[n].present
    BY <2>1, AddConnMoves, Zenon DEF AddConn
  <2>2. CASE ~conn[n].present
    <3> DEFINE i == conn[n].ipend
               u == conn[n].unacked
               e == [NewConn EXCEPT !.ipend = i, !.unacked = u]
    <3>1. g = <<>>
      BY <2>2, Zenon DEF Flows, Flow
    <3>2. c = e
      BY <2>2, Zenon DEF AddConn
    <3>3. e.got = <<>>
      BY DEF NewConn
    <3> HIDE DEF e
    <3> QED
      BY <3>1, <3>2, <3>3, AddConnMoves, Zenon
  <2> QED
    BY <2>1, <2>2
<1> HIDE DEF c
<1>6. PICK d : Sound(d) /\ Step(n, d, {fs}) /\ Shows(d, c.got)
  <2>1. CASE fs.kind = "ack"
    <3>1. Step(n, ReceiveAck(c, SeqnoOf(fs)), {fs})
      BY <1>1, <2>1, Zenon DEF Receive, c
    <3>2. Sound(ReceiveAck(c, SeqnoOf(fs))) /\ InputKept(c, ReceiveAck(c, SeqnoOf(fs)))
      BY <1>3, <1>5, ReceiveAckSound, ReceiveAckInput
    <3>3. Shows(ReceiveAck(c, SeqnoOf(fs)), c.got)
      BY <3>2, Zenon DEF InputKept, Shows
    <3> QED
      BY <3>1, <3>2, <3>3
  <2>2. CASE fs.kind # "ack"
    <3>1. Step(n, ReceiveSequenced(c, fs), {fs})
      BY <1>1, <2>2, Zenon DEF Receive, c
    <3>2. Sound(ReceiveSequenced(c, fs)) /\ Shows(ReceiveSequenced(c, fs), c.got)
      BY <1>2, <1>5, ReceiveSequencedSound, ReceiveSequencedShows
    <3> QED
      BY <3>1, <3>2
  <2> QED
    BY <2>1, <2>2
<1>7. conn'[n].got = g /\ conn'[p].got = conn[p].got
  BY <1>5, <1>6, StepShows
<1>8. seen' = seen
  BY <1>1
<1> QED
  BY <1>4, <1>7, <1>8 DEF ShowStep

\* Nor do the timers.
LEMMA TimersShow ==
  ASSUME IInv, Flows, Keep, NEW n \in Node, Timers(n)
  PROVE  \A m \in Node : ShowStep(m)
<1> DEFINE p == Peer(n)
           c == conn[n]
           K == {NoSeqno}
<1>1. /\ Sound(c) \/ Gone(c)
      /\ conn \in [Node -> Conn] /\ c \in Conn
  BY DEF IInv, ConnInv, TypeOK
<1>2. p \in Node /\ p # n /\ \A m \in Node : m = n \/ m = p
  BY PeerType DEF Node, Peer
<1>3. ASSUME NEW d, Sound(d), Step(n, d, {}), seen' = seen, Quiet(c, d, K)
      PROVE  \A m \in Node : ShowStep(m)
  <2>1. Shows(d, c.got)
    BY <1>3, Zenon DEF Quiet, InputKept, Shows
  <2>2. conn'[n].got = c.got /\ conn'[p].got = conn[p].got
    BY <1>3, <2>1, StepShows
  <2> QED
    BY <1>2, <1>3, <2>2 DEF ShowStep
<1>4. CASE RexmitDue(n)
  <2> DEFINE r == "due"
             d == [c EXCEPT !.rexmit = r]
  <2>1. conn' = [conn EXCEPT ![n] = d] /\ seen' = seen
    BY <1>4, Zenon DEF RexmitDue
  <2> HIDE DEF c, r
  <2>2. d.got = c.got
    BY <1>1 DEF Conn
  <2> HIDE DEF d, p
  <2>3. conn'[n] = d /\ conn'[p] = conn[p]
    BY <1>1, <1>2, <2>1
  <2> QED
    BY <1>2, <2>1, <2>2, <2>3 DEF ShowStep, c
<1>5. CASE Timeout(n)
  <2>1. Step(n, XmitIfWeCan(c), {}) /\ seen' = seen /\ c.rexmit # "off"
    BY <1>5, Zenon DEF Timeout
  <2>2. Sound(c)
    BY <1>1, <2>1, Zenon DEF Gone
  <2>3. Sound(XmitIfWeCan(c)) /\ Quiet(c, XmitIfWeCan(c), K)
    BY <2>2, XmitSound, XmitQuiet
  <2> QED
    BY <1>3, <2>1, <2>3
<1>6. CASE ShutTimeout(n)
  <2> DEFINE d == FsaQuiet(c, "SHUT_TO")
  <2>1. Step(n, d, {}) /\ seen' = seen /\ c.shuttimer
    BY <1>6, Zenon DEF ShutTimeout
  <2>2. Sound(c)
    BY <1>1, <2>1, Zenon DEF Gone
  <2>3. Sound(d)
    BY <2>1, <2>2, ShutTimeoutSound
  <2>4. Quiet(c, d, K)
    BY <1>1, FinishQuiet DEF FsaQuiet
  <2> HIDE DEF d
  <2> QED
    BY <1>3, <2>1, <2>3, <2>4
<1>7. CASE FinalizeTimeout(n)
  <2> DEFINE no == FALSE
             d == [c EXCEPT !.finalizetimer = no]
  <2>1. c.finalizetimer /\ seen' = seen
    BY <1>7, Zenon DEF FinalizeTimeout
  <2>2. Step(n, d, {}) \/ Step(n, Destroy(c), {})
    BY <1>7, Zenon DEF FinalizeTimeout
  <2>3. Sound(c)
    BY <1>1, <2>1, Zenon DEF Gone
  <2>4. CASE Step(n, Destroy(c), {})
    BY <2>1, <2>4, DestroyShows
  <2>5. CASE Step(n, d, {})
    <3>1. no \in BOOLEAN
      OBVIOUS
    <3> HIDE DEF c, no
    <3>2. d \in Conn
      BY <1>1, <3>1 DEF Conn
    <3>3. /\ d.present = c.present /\ d.state = c.state /\ d.outq = c.outq
          /\ d.unacked = c.unacked /\ d.shuttimer = c.shuttimer /\ d.complained = c.complained
          /\ d.inq = c.inq /\ d.got = c.got /\ d.lastacksent = c.lastacksent /\ d.tx = c.tx
      BY <1>1 DEF Conn
    <3> HIDE DEF d
    <3>4. Sound(d) /\ Quiet(c, d, K)
      BY <2>3, <3>2, <3>3, SoundKept, QuietFields, Zenon
    <3> QED
      BY <1>3, <2>1, <2>5, <3>4
  <2> QED
    BY <2>2, <2>4, <2>5
<1> QED
  BY <1>4, <1>5, <1>6, <1>7 DEF Timers

\* Nor does a process that dies, or the network.
LEMMA NextShows ==
  ASSUME IInv, Flows, [Next]_vars, [Keep]_vars
  PROVE  \A m \in Node : ShowStep(m)
<1>1. CASE UNCHANGED vars
  <2>1. conn' = conn /\ seen' = seen
    BY <1>1, Zenon DEF vars
  <2> QED
    BY <2>1 DEF ShowStep
<1>2. CASE Next /\ Keep
  <2>1. PICK n \in Node : \/ Calls(n) \/ Timers(n) \/ Restart(n) \/ Lose(n)
                          \/ \E kind \in Kinds : Deliver(n, kind)
    BY <1>2, Zenon DEF Next
  <2>2. CASE Lose(n)
    <3>1. conn' = conn /\ seen' = seen
      BY <2>2, Zenon DEF Lose
    <3> QED
      BY <3>1 DEF ShowStep
  <2>3. CASE Restart(n)
    <3>1. conn' = [conn EXCEPT ![n] = NoConn] /\ seen' = seen
      BY <2>3, Zenon DEF Restart
    <3>2. conn \in [Node -> Conn]
      BY DEF IInv, TypeOK
    <3>3. NoConn.inq.sess = 0 /\ NoConn.got = <<>>
      BY DEF NoConn, NewConn, EmptyQueue
    <3>4. conn'[n] = NoConn /\ \A m \in Node : m # n => conn'[m] = conn[m]
      BY <3>1, <3>2
    <3>5. conn[n].inq.sess = 0
      BY <1>2, <3>3, <3>4 DEF Keep
    <3>6. conn[n].got = <<>>
      BY <3>5, Zenon DEF Flows, Flow, InOrder
    <3> QED
      BY <3>1, <3>3, <3>4, <3>6 DEF ShowStep
  <2> QED
    BY <1>2, <2>1, <2>2, <2>3, CallsShow, TimersShow, DeliverShows, Zenon
<1> QED
  BY <1>1, <1>2

\* So what an application was shown is what it has read.
LEMMA ShownInvariance == Spec /\ ConnectionsStay /\ ReceptionStays => []Shown
<1>1. Init => Shown
  <2> SUFFICES ASSUME Init, NEW n \in Node
               PROVE  seen[n] \subseteq {conn[n].got[i] : i \in DOMAIN conn[n].got}
    BY Zenon DEF Shown
  <2> QED
    BY DEF Init
<1>2. IInv /\ Flows /\ Shown /\ [Next]_vars /\ [Keep]_vars => Shown'
  <2> SUFFICES ASSUME IInv, Flows, Shown, [Next]_vars, [Keep]_vars, NEW n \in Node
               PROVE  seen'[n] \subseteq {conn'[n].got[i] : i \in DOMAIN conn'[n].got}
    BY Zenon DEF Shown
  <2>1. ShowStep(n) /\ seen[n] \subseteq {conn[n].got[i] : i \in DOMAIN conn[n].got}
        /\ conn[n].got \in Seq(Nat)
    BY NextShows DEF Shown, IInv, TypeOK, Conn
  <2>2. CASE conn'[n].got = conn[n].got /\ seen'[n] = seen[n]
    BY <2>1, <2>2
  <2>3. ASSUME NEW v, conn'[n].got = Append(conn[n].got, v), seen'[n] = seen[n] \cup {v}
        PROVE  seen'[n] \subseteq {conn'[n].got[i] : i \in DOMAIN conn'[n].got}
    <3> DEFINE g == conn[n].got
               e == Append(g, v)
    <3>1. /\ \A i \in DOMAIN g : i \in DOMAIN e /\ e[i] = g[i]
          /\ Len(g) + 1 \in DOMAIN e /\ e[Len(g) + 1] = v
      BY <2>1
    <3> QED
      BY <2>1, <2>3, <3>1
  <2> QED
    BY <2>1, <2>2, <2>3 DEF ShowStep
<1> QED
  BY <1>1, <1>2, Invariance, FlowInvariance, PTL DEF Spec, ReceptionStays

\* An application is never shown a frameset again, whatever the network repeats and
\* whatever happens to the sender, as long as its own end keeps its connection.
THEOREM NothingIsShownAgain ==
  Spec /\ ConnectionsStay /\ ReceptionStays => NotShownAgain
<1>1. IInv /\ Flows /\ Flows' /\ Shown /\ [Next]_vars /\ [Keep]_vars =>
        \A n \in Node : Len(conn'[n].got) > Len(conn[n].got) =>
          conn'[n].got[Len(conn'[n].got)] \notin seen[n]
  <2> SUFFICES ASSUME IInv, Flows, Flows', Shown, [Next]_vars, [Keep]_vars, NEW n \in Node,
                      Len(conn'[n].got) > Len(conn[n].got)
               PROVE  conn'[n].got[Len(conn'[n].got)] \notin seen[n]
    OBVIOUS
  <2> DEFINE g == conn[n].got
             e == conn'[n].got
  <2>1. ShowStep(n) /\ seen[n] \subseteq {g[i] : i \in DOMAIN g} /\ g \in Seq(Nat)
    BY NextShows DEF Shown, IInv, TypeOK, Conn
  <2>2. \A i, j \in DOMAIN e : i < j => e[i] < e[j]
    BY Zenon DEF Flows, Flow, InOrder
  <2>3. PICK v : e = Append(g, v)
    <3>1. Len(g) \in Nat
      BY <2>1
    <3> HIDE DEF g, e
    <3>2. e # g
      BY <3>1 DEF g, e
    <3> QED
      BY <2>1, <3>2 DEF ShowStep, g, e
  <2> HIDE DEF g, e
  <2>4. /\ Len(g) \in Nat /\ Len(e) = Len(g) + 1 /\ Len(e) \in DOMAIN e
        /\ \A i \in DOMAIN g : i \in DOMAIN e /\ e[i] = g[i] /\ i < Len(e) /\ g[i] \in Nat
    BY <2>1, <2>3
  <2>5. \A i \in DOMAIN g : g[i] < e[Len(e)] /\ g[i] \in Nat
    BY <2>2, <2>4
  <2>6. \A i \in DOMAIN g : g[i] # e[Len(e)]
    BY <2>5
  <2> QED
    BY <2>1, <2>6 DEF e
<1> QED
  BY <1>1, Invariance, FlowInvariance, ShownInvariance, PTL
     DEF Spec, ReceptionStays, NotShownAgain

-------------------------------------------------------------------------------
(* The connection from A to B as a ReliableChannel.  What the channel may lose  *)
(* is what leaves the queue of output without having been read: A keeps its     *)
(* output but for what was read, or gives it all up.                            *)

Vals(fq) == {f.val : f \in Held(fq)}

\* But for the values in N, d has the output of c or none.
Remains(c, d, N) ==
  \/ Vals(c.outq) \ N \subseteq Vals(d.outq) /\ Vals(d.outq) \subseteq Vals(c.outq) \cup N
  \/ Vals(d.outq) \subseteq N

\* One after another, functions that keep all output or none.
LEMMA RemainsTrans ==
  ASSUME NEW c, NEW d, NEW e, NEW N, Remains(c, d, N), Remains(d, e, N)
  PROVE  Remains(c, e, N)
BY DEF Remains

\* Something quiet keeps all output or none.
LEMMA QuietRemains ==
  ASSUME NEW c, NEW d, NEW N, OutputKept(c, d)
  PROVE  Remains(c, d, N)
<1>1. CASE d.outq = c.outq
  BY <1>1 DEF Remains
<1>2. CASE d.outq.q = <<>>
  <2>1. Vals(d.outq) = {}
    BY <1>2 DEF Vals, Held
  <2> QED
    BY <2>1 DEF Remains
<1> QED
  BY <1>1, <1>2 DEF OutputKept

\* Queueing a frameset adds its value at most.
LEMMA EnqRemains ==
  ASSUME NEW c \in Conn, NEW d, NEW kind \in Kinds, NEW val \in Nat, NEW sess \in Nat,
         d.outq = Enq(c.outq, kind, val, sess), NEW N, val \in N
  PROVE  Remains(c, d, N)
<1> DEFINE e == Added(c.outq, kind, val, sess)
<1>1. c.outq \in Queue
  BY DEF Conn
<1>2. d.outq = c.outq \/ Held(d.outq) = Held(c.outq) \cup {e}
  BY <1>1, EnqHeld
<1>3. e.val = val
  BY DEF Added
<1> HIDE DEF e
<1>4. Vals(c.outq) \subseteq Vals(d.outq) /\ Vals(d.outq) \subseteq Vals(c.outq) \cup {val}
  BY <1>2, <1>3 DEF Vals
<1> QED
  BY <1>4 DEF Remains

\* So does send1, which may give up on what was queued before.
LEMMA Send1Remains ==
  ASSUME NEW c0, Sound(c0), NEW kind \in Kinds, NEW val \in Nat, NEW sess \in Nat,
         NEW N, val \in N
  PROVE  Remains(c0, Send1(c0, kind, val, sess), N)
<1>1. CASE InShutdown(c0.state)
  BY <1>1, Zenon DEF Send1, Remains
<1>2. CASE ~InShutdown(c0.state)
  <2> DEFINE c == FsaQuiet(c0, "REQSEND")
             K == {NoSeqno}
  <2>1. PICK d : /\ Send1(c0, kind, val, sess) = XmitIfWeCan(d)
                 /\ Sound(c) /\ c.outq = c0.outq /\ Sound(d)
                 /\ d.outq = Enq(c.outq, kind, val, sess)
                 /\ d.tx = c.tx /\ d.inq = c.inq /\ d.got = c.got
                 /\ d.lastacksent = c.lastacksent
                 /\ d.isready = c.isready /\ d.ipend = c.ipend
    BY <1>2, Send1Queues, Zenon
  <2>2. Remains(c0, d, N)
    <3>1. c0 \in Conn /\ d.outq = Enq(c0.outq, kind, val, sess)
      BY <2>1 DEF Sound
    <3> QED
      BY <3>1, EnqRemains
  <2>3. Quiet(d, XmitIfWeCan(d), K)
    BY <2>1, XmitQuiet
  <2> HIDE DEF c, K
  <2>4. OutputKept(d, XmitIfWeCan(d))
    BY <2>3, Zenon DEF Quiet
  <2>5. Remains(d, XmitIfWeCan(d), N)
    BY <2>4, QuietRemains
  <2> QED
    BY <2>1, <2>2, <2>5, RemainsTrans
<1> QED
  BY <1>1, <1>2

\* The automaton queues a CONNSHUT at most.
LEMMA FsaRemains ==
  ASSUME NEW c, Sound(c), NEW input, NEW s \in Seqno, NEW sess \in Nat, NEW N, 0 \in N
  PROVE  Remains(c, Fsa(c, input, s, sess), N)
<1> DEFINE acts == Actions[c.state][input]
           acked1 == IF "ACKME" \in acts THEN AckSeqno(c, s) ELSE c
           shut == IF "SNDSHUT" \in acts THEN Send1(acked1, "connshut", 0, sess) ELSE acked1
           d == FsaFinish(shut, c.state, input)
           K == {NoSeqno, s}
<1>1. Fsa(c, input, s, sess) = d
  BY Zenon DEF Fsa
<1>2. c \in Conn
  BY DEF Sound
<1>3. Sound(acked1) /\ OutputKept(c, acked1)
  <2>1. Sound(AckSeqno(c, s)) /\ Quiet(c, AckSeqno(c, s), K)
    BY <1>2, AckSeqnoSound, AckSeqnoQuiet
  <2> QED
    BY <2>1, Zenon DEF Quiet, OutputKept
<1> HIDE DEF acked1
<1>4. Sound(shut) /\ Remains(acked1, shut, N)
  <2>1. "connshut" \in Kinds /\ 0 \in Nat
    BY DEF Kinds
  <2>2. /\ Sound(Send1(acked1, "connshut", 0, sess))
        /\ Remains(acked1, Send1(acked1, "connshut", 0, sess), N)
    BY <1>3, <2>1, Send1Sound, Send1Remains
  <2>3. Remains(acked1, acked1, N)
    BY QuietRemains DEF OutputKept
  <2> QED
    BY <1>3, <2>2, <2>3, Zenon
<1> HIDE DEF shut
<1>5. Quiet(shut, d, K)
  BY <1>4, FinishQuiet DEF Sound
<1>6. OutputKept(shut, d)
  BY <1>5, Zenon DEF Quiet
<1> HIDE DEF d, K
<1>7. Remains(c, acked1, N) /\ Remains(shut, d, N)
  BY <1>3, <1>6, QuietRemains
<1> QED
  BY <1>1, <1>4, <1>7, RemainsTrans

\* An ACK takes the framesets it acknowledges off the queue.
LEMMA ReceiveAckRemains ==
  ASSUME NEW c, Sound(c), NEW s \in Seqno, NEW N, 0 \in N,
         ~AckRefused(c.outq, s) =>
           {c.outq.q[i].val : i \in DOMAIN c.outq.q \ Unacked(c.outq, s)} \ {0} \subseteq N
  PROVE  Remains(c, ReceiveAck(c, s), N)
<1> DEFINE left == AckThrough(c.outq, s)
           z == 0
           popped == [c EXCEPT !.outq = left, !.tries = z]
           u == Remove(popped.unacked)
           off == "off"
           idle == [popped EXCEPT !.unacked = u, !.rexmit = off]
           K == {NoSeqno}
<1>1. ReceiveAck(c, s) =
        CASE AckRefused(c.outq, s) -> c
          [] ~AckRefused(c.outq, s) /\ left.q # <<>> -> XmitIfWeCan(popped)
          [] OTHER -> IF c.outq.q = <<>> THEN idle ELSE FsaQuiet(idle, "OUTALLDONE")
  BY Zenon DEF ReceiveAck
<1>2. c \in Conn /\ c.outq \in Queue /\ c.unacked \in Nat
  BY DEF Sound, Conn
<1>3. left \in Queue /\ (c.outq.q = <<>> => left.q = <<>>)
  BY <1>2, AckThroughType
<1>4. z \in 0..AckTries /\ off \in Rexmit
  BY SmallTypes
<1>5. Held(left) \subseteq Held(c.outq) /\ \A i \in Unacked(c.outq, s) : c.outq.q[i] \in Held(left)
  BY <1>2, AckThroughHeld, AckThroughKeeps
<1> HIDE DEF left, z, off
<1>6. popped \in Conn
  BY <1>2, <1>3, <1>4 DEF Conn
<1>7. /\ popped.present = c.present /\ popped.state = c.state /\ popped.outq = left
      /\ popped.unacked = c.unacked /\ popped.shuttimer = c.shuttimer
      /\ popped.complained = c.complained
  BY <1>2 DEF Conn
<1> HIDE DEF popped
<1>8. u \in Nat
  BY <1>2, <1>7, RemoveType
<1> HIDE DEF u
<1>9. idle \in Conn /\ idle.outq = popped.outq
  BY <1>4, <1>6, <1>8 DEF Conn
<1> HIDE DEF idle
<1>10. CASE AckRefused(c.outq, s)
  <2>1. ReceiveAck(c, s) = c
    BY <1>1, <1>10, Zenon
  <2> QED
    BY <2>1, QuietRemains DEF OutputKept
<1>11. ASSUME ~AckRefused(c.outq, s)
       PROVE  Remains(c, popped, N) /\ Remains(c, idle, N)
  <2>1. Vals(left) \subseteq Vals(c.outq)
    BY <1>5 DEF Vals
  <2>2. ASSUME NEW i \in DOMAIN c.outq.q, c.outq.q[i].val \notin N
        PROVE  c.outq.q[i].val \in Vals(left)
    <3>1. i \in Unacked(c.outq, s)
      BY <1>11, <2>2
    <3> QED
      BY <1>5, <3>1 DEF Vals
  <2>3. Vals(c.outq) \ N \subseteq Vals(left)
    BY <2>2 DEF Vals, Held
  <2> QED
    BY <1>7, <1>9, <2>1, <2>3 DEF Remains
<1>12. CASE ~AckRefused(c.outq, s) /\ left.q # <<>>
  <2>1. Sound(popped)
    <3>1. c.outq.q # <<>> /\ Listed(popped)
      BY <1>3, <1>7, <1>12 DEF Sound, Listed
    <3> QED
      BY <1>6, <1>7, <1>12, <3>1, Zenon DEF Sound
  <2>2. Quiet(popped, XmitIfWeCan(popped), K)
    BY <2>1, XmitQuiet
  <2>3. ReceiveAck(c, s) = XmitIfWeCan(popped)
    BY <1>1, <1>12, Zenon
  <2>4. Remains(popped, XmitIfWeCan(popped), N)
    BY <2>2, QuietRemains DEF Quiet
  <2> QED
    BY <1>11, <1>12, <2>3, <2>4, RemainsTrans
<1>13. CASE ~AckRefused(c.outq, s) /\ left.q = <<>>
  <2>1. ReceiveAck(c, s) \in {idle, FsaQuiet(idle, "OUTALLDONE")}
    BY <1>1, <1>13, Zenon
  <2>2. Quiet(idle, FsaQuiet(idle, "OUTALLDONE"), K)
    BY <1>9, FinishQuiet DEF FsaQuiet
  <2>3. Remains(idle, FsaQuiet(idle, "OUTALLDONE"), N)
    BY <2>2, QuietRemains DEF Quiet
  <2> QED
    BY <1>11, <1>13, <2>1, <2>3, RemainsTrans
<1> QED
  BY <1>10, <1>12, <1>13

\* Receiving a sequenced frameset leaves the output alone.
LEMMA ReceiveSequencedRemains ==
  ASSUME NEW c, Sound(c), NEW fs \in FrameSet, NEW N
  PROVE  Remains(c, ReceiveSequenced(c, fs), N)
<1> DEFINE q == InqSorted(c.inq, fs)
           sorted == [c EXCEPT !.inq = q]
           filed == CASE InqRefused(c.inq, fs) -> AckAgain(sorted, fs)
                      [] ~InqRefused(c.inq, fs) /\ fs.seq = 1 -> FsaQuiet(sorted, "GOTSTART")
                      [] OTHER -> sorted
           marked == MarkReady(filed, fs)
           K == {NoSeqno, c.lastacksent}
<1>1. ReceiveSequenced(c, fs) = XmitIfWeCan(marked)
  BY Zenon DEF ReceiveSequenced
<1>2. c \in Conn /\ c.inq \in Queue
  BY DEF Sound, Conn
<1>3. q \in Queue
  BY <1>2, InqSortedType
<1> HIDE DEF q
<1>4. sorted \in Conn
  BY <1>2, <1>3 DEF Conn
<1>5. /\ sorted.present = c.present /\ sorted.state = c.state /\ sorted.outq = c.outq
      /\ sorted.unacked = c.unacked /\ sorted.shuttimer = c.shuttimer
      /\ sorted.complained = c.complained /\ sorted.lastacksent = c.lastacksent
  BY <1>2 DEF Conn
<1> HIDE DEF sorted
<1>6. Sound(sorted)
  BY <1>4, <1>5, SoundKept, Zenon
<1>7. Sound(AckAgain(sorted, fs)) /\ Sound(FsaQuiet(sorted, "GOTSTART"))
  BY <1>6, AckAgainSound, StartSound, Zenon
<1>8. Quiet(sorted, AckAgain(sorted, fs), K) /\ Quiet(sorted, FsaQuiet(sorted, "GOTSTART"), K)
  BY <1>4, <1>5, AckAgainQuiet, FinishQuiet DEF FsaQuiet
<1>9. Sound(filed) /\ Quiet(sorted, filed, K)
  BY <1>6, <1>7, <1>8, QuietSame, Zenon
<1> HIDE DEF filed
<1>10. Sound(marked) /\ Quiet(filed, marked, K)
  BY <1>9, MarkReadySound, MarkReadyQuiet DEF Sound
<1> HIDE DEF marked
<1>11. Quiet(marked, XmitIfWeCan(marked), K)
  BY <1>10, XmitQuiet
<1> HIDE DEF K
<1>12. /\ Remains(c, sorted, N) /\ Remains(sorted, filed, N) /\ Remains(filed, marked, N)
       /\ Remains(marked, XmitIfWeCan(marked), N)
  <2>1. OutputKept(c, sorted)
    BY <1>5 DEF OutputKept
  <2> QED
    BY <1>9, <1>10, <1>11, <2>1, QuietRemains DEF Quiet
<1>13. Remains(c, filed, N)
  BY <1>12, RemainsTrans
<1>14. Remains(c, marked, N)
  BY <1>12, <1>13, RemainsTrans
<1> QED
  BY <1>1, <1>12, <1>14, RemainsTrans

\* Reading queues a CONNSHUT at most.
LEMMA ReadOneRemains ==
  ASSUME NEW c, Sound(c), NEW sess \in Nat, Readable(c.inq), NEW N, 0 \in N
  PROVE  Remains(c, ReadOne(c, sess), N)
<1> DEFINE fs == Head(c.inq.q)
           rest == Deq(c.inq)
           more == Readable(rest)
           i == IF more THEN c.ipend ELSE Remove(c.ipend)
           g == IF fs.kind = "data" THEN Append(c.got, fs.val) ELSE c.got
           taken == [c EXCEPT !.inq = rest, !.isready = more, !.ipend = i, !.got = g]
           told == Fsa(taken, "RCVSHUTDOWN", SeqnoOf(fs), sess)
           d == IF fs.kind = "connshut" THEN told ELSE taken
           K == {NoSeqno}
<1>1. ReadOne(c, sess) = XmitIfWeCan(d)
  BY Zenon DEF ReadOne
<1>2. c \in Conn /\ c.inq \in Queue /\ c.ipend \in Nat /\ c.got \in Seq(Nat) /\ c.inq.q # <<>>
  BY DEF Sound, Conn, Readable
<1>3. rest \in Queue /\ fs \in FrameSet
  BY <1>2, DeqType
<1>4. fs.val \in Nat /\ SeqnoOf(fs) \in Seqno
  BY <1>3 DEF FrameSet, SeqnoOf, Seqno
<1>5. more \in BOOLEAN
  BY Zenon DEF Readable
<1>6. i \in Nat
  BY <1>2, RemoveType
<1>7. g \in Seq(Nat)
  BY <1>2, <1>4, AppendProperties
<1> HIDE DEF rest, more, i, g, fs
<1>8. Sound(taken)
  BY <1>3, <1>5, <1>6, <1>7, InputSound, Zenon
<1>9. taken.outq = c.outq
  BY <1>2 DEF Conn
<1> HIDE DEF taken
<1>10. Sound(told)
  BY <1>4, <1>8, PeerClosesSound
<1>11. Remains(taken, told, N)
  BY <1>4, <1>8, FsaRemains
<1> HIDE DEF told
<1>12. Remains(c, taken, N) /\ Remains(taken, taken, N)
  BY <1>9, QuietRemains DEF OutputKept
<1>13. Sound(d) /\ Remains(taken, d, N)
  BY <1>8, <1>10, <1>11, <1>12, Zenon
<1> HIDE DEF d
<1>14. Quiet(d, XmitIfWeCan(d), K)
  BY <1>13, XmitQuiet
<1>15. Remains(d, XmitIfWeCan(d), N)
  BY <1>14, QuietRemains DEF Quiet
<1>16. Remains(c, d, N)
  BY <1>12, <1>13, RemainsTrans
<1> QED
  BY <1>1, <1>15, <1>16, RemainsTrans

\* What a step of n may do to its output, having been handed k framesets.
KeepsOutput(n, k) ==
  LET p == Peer(n)
  IN  /\ handed'[n] = handed[n] + k /\ handed'[p] = handed[p]
      /\ conn'[p] = conn[p]
      /\ Remains(conn[n], conn'[n], {0} \cup seen[p] \cup (handed[n] + 1)..(handed[n] + k))

\* The connection that an action has made is the one that is stored.
LEMMA StepOutput ==
  ASSUME IInv, NEW n \in Node, NEW c, c.outq = conn[n].outq, NEW d, Sound(d),
         NEW received, Step(n, d, received), NEW k \in Nat,
         handed'[n] = handed[n] + k, handed'[Peer(n)] = handed[Peer(n)],
         Remains(c, d, {0} \cup seen[Peer(n)] \cup (handed[n] + 1)..(handed[n] + k))
  PROVE  KeepsOutput(n, k)
<1> DEFINE p == Peer(n)
           N == {0} \cup seen[p] \cup (handed[n] + 1)..(handed[n] + k)
<1>1. conn'[p] = conn[p] /\ conn'[n].outq = d.outq
  BY StepConn
<1>2. Remains(c, d, N)
  OBVIOUS
<1> HIDE DEF N, p
<1>3. Remains(conn[n], conn'[n], N)
  BY <1>1, <1>2, Zenon DEF Remains
<1> QED
  BY <1>1, <1>3 DEF KeepsOutput, N, p

\* For an action that hands over nothing.
LEMMA StepKeepsOutput ==
  ASSUME IInv, NEW n \in Node, NEW c, c.outq = conn[n].outq, NEW d, Sound(d),
         NEW received, Step(n, d, received), handed' = handed,
         NEW N, N = {0} \cup seen[Peer(n)], Remains(c, d, N)
  PROVE  KeepsOutput(n, 0)
<1> DEFINE h == handed[n]
<1>1. h \in Nat
  BY DEF IInv, TypeOK
<1>2. h + 0 = h /\ (h + 1)..(h + 0) = {}
  BY <1>1
<1>3. N = {0} \cup seen[Peer(n)] \cup (h + 1)..(h + 0)
  BY <1>2
<1>4. handed'[n] = h + 0
  BY <1>2
<1> HIDE DEF h
<1>5. handed'[n] = handed[n] + 0 /\ handed'[Peer(n)] = handed[Peer(n)]
  BY <1>4 DEF h
<1>6. Remains(c, d, {0} \cup seen[Peer(n)] \cup (handed[n] + 1)..(handed[n] + 0))
  BY <1>3 DEF h
<1> QED
  BY <1>5, <1>6, StepOutput

\* An application hands over two framesets at most, and keeps the rest of its output.
LEMMA CallsKeepOutput ==
  ASSUME IInv, Flows, Stay, NEW n \in Node, Calls(n)
  PROVE  \E k \in 0..2 : KeepsOutput(n, k)
<1> DEFINE p == Peer(n)
           c == conn[n]
           a == AddConn(c)
           M == {0} \cup seen[p]
           h == handed[n]
<1>1. /\ procSess[n] \in Nat /\ h \in Nat /\ handed \in [Node -> Nat]
      /\ toack[n] \in Seq(Seqno)
      /\ Sound(c) \/ Gone(c)
  BY DEF IInv, ConnInv, TypeOK
<1>2. Sound(a) /\ a.outq = c.outq
  BY AddConnMoves
<1>3. ASSUME c.present PROVE Sound(c)
  BY <1>3, CurrentMoves
<1>4. "data" \in Kinds /\ NoSeqno \in Seqno /\ 0 \in M
  BY SmallTypes DEF Kinds
<1>5. p \in Node /\ p # n
  BY PeerType
<1>6. ASSUME NEW d, Sound(d), Step(n, d, {}), handed' = handed, Remains(c, d, M)
      PROVE  \E k \in 0..2 : KeepsOutput(n, k)
  <2>1. KeepsOutput(n, 0)
    BY <1>6, StepKeepsOutput
  <2> QED
    BY <2>1
<1> HIDE DEF a
<1>7. CASE Send(n)
  <2> DEFINE k == h + 1
             d == Send1(a, "data", handed'[n], procSess[n])
             N == {0} \cup seen[p] \cup (h + 1)..(h + 1)
  <2>1. handed' = [handed EXCEPT ![n] = k] /\ Step(n, d, {})
    BY <1>7, Zenon DEF Send, a
  <2>2. k \in Nat /\ k \in (h + 1)..(h + 1)
    BY <1>1
  <2>3. k \in N
    BY <2>2
  <2> HIDE DEF k, N
  <2>4. handed'[n] = k /\ handed'[p] = handed[p]
    BY <1>1, <1>5, <2>1
  <2>5. Sound(d) /\ Remains(a, d, N)
    BY <1>1, <1>2, <1>4, <2>2, <2>3, <2>4, Send1Sound, Send1Remains
  <2> HIDE DEF d
  <2>6. KeepsOutput(n, 1)
    BY <1>2, <2>1, <2>4, <2>5, StepOutput DEF k, N
  <2> QED
    BY <2>6
<1>8. CASE SendList(n)
  <2> DEFINE i == h + 1
             k == h + 2
             K == {NoSeqno}
             first == Send1(a, "data", i, procSess[n])
             both == Send1(first, "data", handed'[n], procSess[n])
             d == XmitIfWeCan(both)
             N == {0} \cup seen[p] \cup (h + 1)..(h + 2)
  <2>1. handed' = [handed EXCEPT ![n] = k] /\ Step(n, d, {})
    BY <1>8, Zenon DEF SendList, a
  <2>2. k \in Nat /\ i \in Nat /\ {i, k} \subseteq (h + 1)..(h + 2)
    BY <1>1
  <2>3. k \in N /\ i \in N
    BY <2>2
  <2> HIDE DEF i, k, N
  <2>4. handed'[n] = k /\ handed'[p] = handed[p]
    BY <1>1, <1>5, <2>1
  <2>5. Sound(first) /\ Remains(a, first, N)
    BY <1>1, <1>2, <1>4, <2>2, <2>3, Send1Sound, Send1Remains
  <2> HIDE DEF first
  <2>6. Sound(both) /\ Remains(first, both, N)
    BY <1>1, <1>4, <2>2, <2>3, <2>4, <2>5, Send1Sound, Send1Remains
  <2> HIDE DEF both
  <2>7. Sound(d) /\ Quiet(both, d, K)
    BY <2>6, XmitSound, XmitQuiet
  <2> HIDE DEF d, K
  <2>8. Remains(both, d, N)
    BY <2>7, QuietRemains DEF Quiet
  <2>9. Remains(a, d, N)
    BY <2>5, <2>6, <2>8, RemainsTrans
  <2>10. KeepsOutput(n, 2)
    BY <1>2, <2>1, <2>4, <2>7, <2>9, StepOutput DEF k, N
  <2> QED
    BY <2>10
<1> HIDE DEF M, h
<1>9. CASE Read(n)
  <2> DEFINE d == ReadOne(c, procSess[n])
  <2>1. c.inq.q # <<>> /\ Readable(c.inq)
    BY <1>9, Zenon DEF Read, Readable
  <2>2. Sound(c)
    BY <1>1, <2>1, Zenon DEF Gone
  <2>3. Step(n, d, {}) /\ handed' = handed
    BY <1>9, Zenon DEF Read
  <2>4. Sound(d) /\ Remains(c, d, M)
    BY <1>1, <1>4, <2>1, <2>2, ReadOneSound, ReadOneRemains
  <2> HIDE DEF d
  <2> QED
    BY <1>6, <2>3, <2>4
<1>10. CASE AckMessage(n)
  <2> DEFINE s == Head(toack[n])
             d == AckSeqno(c, s)
             N == {s}
  <2>1. toack[n] # <<>> /\ c.present /\ Step(n, d, {}) /\ handed' = handed
    BY <1>10, Zenon DEF AckMessage
  <2>2. s \in Seqno
    BY <1>1, <2>1, HeadTailProperties
  <2> HIDE DEF s
  <2>3. Sound(c) /\ Sound(d)
    BY <1>3, <2>1, <2>2, AckSeqnoSound
  <2>4. Quiet(c, d, N)
    BY <2>3, AckSeqnoQuiet DEF Sound
  <2> HIDE DEF d, N
  <2>5. Remains(c, d, M)
    BY <2>4, QuietRemains DEF Quiet
  <2> QED
    BY <1>6, <2>1, <2>3, <2>5
<1>11. CASE CloseConn(n)
  <2> DEFINE d == Fsa(c, "REQSHUTDOWN", NoSeqno, procSess[n])
  <2>1. c.present /\ Step(n, d, {}) /\ handed' = handed
    BY <1>11, Zenon DEF CloseConn
  <2>2. Sound(c) /\ Sound(d)
    BY <1>1, <1>3, <1>4, <2>1, CloseSound
  <2>3. Remains(c, d, M)
    BY <1>1, <1>4, <2>2, FsaRemains
  <2> HIDE DEF d
  <2> QED
    BY <1>6, <2>1, <2>2, <2>3
<1>12. CASE CloseAll(n)
  <2>1. c.present /\ Step(n, Destroy(c), {}) /\ procSess' = procSess
    BY <1>12, Zenon DEF CloseAll
  <2> QED
    BY <1>3, <2>1, DestroyLeaves
<1>13. CASE CountIdle(n)
  <2> DEFINE no == FALSE
             d == [c EXCEPT !.shutdown_complete = no]
  <2>1. c.present /\ Step(n, d, {}) /\ handed' = handed
    BY <1>13, Zenon DEF CountIdle
  <2>2. Sound(c) /\ no \in BOOLEAN
    BY <1>3, <2>1
  <2> HIDE DEF c, no
  <2>3. c \in Conn
    BY <2>2 DEF Sound
  <2>4. d \in Conn
    BY <2>2, <2>3 DEF Conn
  <2>5. /\ d.present = c.present /\ d.state = c.state /\ d.outq = c.outq
        /\ d.unacked = c.unacked /\ d.shuttimer = c.shuttimer /\ d.complained = c.complained
    BY <2>3 DEF Conn
  <2> HIDE DEF d
  <2>6. Sound(d)
    BY <2>2, <2>4, <2>5, SoundKept, Zenon
  <2>7. Remains(c, d, M)
    BY <2>5, QuietRemains DEF OutputKept
  <2> QED
    BY <1>6, <2>1, <2>6, <2>7
<1> QED
  BY <1>7, <1>8, <1>9, <1>10, <1>11, <1>12, <1>13 DEF Calls

\* What an ACK takes off the output has been read.
LEMMA DeliverKeepsOutput ==
  ASSUME Window <= 2, IInv, Flows, Answered, NEW n \in Node, NEW kind \in Kinds,
         Deliver(n, kind)
  PROVE  KeepsOutput(n, 0)
<1> DEFINE p == Peer(n)
           c == AddConn(conn[n])
           N == {0} \cup seen[p]
<1>1. PICK fs \in net[n] : /\ Receive(n, fs)
                           /\ UNCHANGED <<procSess, toack, handed, seen, used>>
  BY Zenon DEF Deliver
<1>2. fs \in FrameSet /\ fs \in net[n]
  BY DEF IInv, TypeOK
<1>3. SeqnoOf(fs) \in Seqno
  BY <1>2 DEF FrameSet, SeqnoOf, Seqno
<1>4. Sound(c) /\ c.outq = conn[n].outq
  BY AddConnMoves
<1>5. Answers(n, c, {})
  BY AddConnAnswers
<1>6. 0 \in N /\ handed' = handed
  BY <1>1
<1> HIDE DEF c
<1>7. CASE fs.kind = "ack"
  <2> DEFINE s == SeqnoOf(fs)
             d == ReceiveAck(c, s)
             X == {}
             T == {c.outq.q[i].val : i \in DOMAIN c.outq.q \ Unacked(c.outq, s)}
  <2>1. Step(n, d, {fs})
    BY <1>1, <1>7, Zenon DEF Receive, c
  <2>2. s \in AckNumbers(n)
    BY <1>2, <1>7 DEF AckNumbers, NumbersOf, Sequenced
  <2>3. X \subseteq Seqno /\ Answers(n, c, X)
    BY <1>5
  <2> HIDE DEF s, X
  <2>4. ~AckRefused(c.outq, s) => T \ {0} \subseteq seen[p]
    BY <1>4, <2>2, <2>3, ReceiveAckAnswers
  <2>5. ~AckRefused(c.outq, s) => T \ {0} \subseteq N
    BY <2>4
  <2>6. Sound(d) /\ s \in Seqno
    BY <1>3, <1>4, ReceiveAckSound DEF s
  <2> HIDE DEF N
  <2>7. Remains(c, d, N)
    BY <1>4, <1>6, <2>5, <2>6, ReceiveAckRemains
  <2> HIDE DEF d
  <2> QED
    BY <1>4, <1>6, <2>1, <2>6, <2>7, StepKeepsOutput DEF N
<1>8. CASE fs.kind # "ack"
  <2> DEFINE d == ReceiveSequenced(c, fs)
  <2>1. Step(n, d, {fs})
    BY <1>1, <1>8, Zenon DEF Receive, c
  <2>2. Sound(d) /\ Remains(c, d, N)
    BY <1>2, <1>4, ReceiveSequencedSound, ReceiveSequencedRemains
  <2> HIDE DEF d
  <2> QED
    BY <1>4, <1>6, <2>1, <2>2, StepKeepsOutput
<1> QED
  BY <1>7, <1>8

\* The timers may make an end give up.
LEMMA TimersKeepOutput ==
  ASSUME IInv, Flows, Stay, NEW n \in Node, Timers(n)
  PROVE  KeepsOutput(n, 0)
<1> DEFINE p == Peer(n)
           c == conn[n]
           K == {NoSeqno}
           N == {0} \cup seen[p]
<1>1. /\ Sound(c) \/ Gone(c)
      /\ conn \in [Node -> Conn] /\ c \in Conn /\ handed[n] \in Nat
  BY DEF IInv, ConnInv, TypeOK
<1>2. p \in Node /\ p # n
  BY PeerType
<1>3. ASSUME NEW d, Sound(d), Step(n, d, {}), handed' = handed, OutputKept(c, d)
      PROVE  KeepsOutput(n, 0)
  <2>1. Remains(c, d, N)
    BY <1>3, QuietRemains
  <2> QED
    BY <1>3, <2>1, StepKeepsOutput
<1>4. CASE RexmitDue(n)
  <2> DEFINE r == "due"
             d == [c EXCEPT !.rexmit = r]
             M == {0} \cup seen[p] \cup (handed[n] + 1)..(handed[n] + 0)
  <2>1. conn' = [conn EXCEPT ![n] = d] /\ handed' = handed
    BY <1>4, Zenon DEF RexmitDue
  <2> HIDE DEF c, r
  <2>2. d.outq = c.outq
    BY <1>1 DEF Conn
  <2> HIDE DEF d, p
  <2>3. conn'[n] = d /\ conn'[p] = conn[p]
    BY <1>1, <1>2, <2>1
  <2>4. Remains(conn[n], conn'[n], M)
    BY <2>2, <2>3, QuietRemains DEF OutputKept, c
  <2>5. handed'[n] = handed[n] + 0 /\ handed'[p] = handed[p]
    BY <1>1, <2>1
  <2> QED
    BY <2>3, <2>4, <2>5 DEF KeepsOutput, p
<1>5. CASE Timeout(n)
  <2>1. Step(n, XmitIfWeCan(c), {}) /\ handed' = handed /\ c.rexmit # "off"
    BY <1>5, Zenon DEF Timeout
  <2>2. Sound(c)
    BY <1>1, <2>1, Zenon DEF Gone
  <2>3. Sound(XmitIfWeCan(c)) /\ Quiet(c, XmitIfWeCan(c), K)
    BY <2>2, XmitSound, XmitQuiet
  <2> QED
    BY <1>3, <2>1, <2>3 DEF Quiet
<1>6. CASE ShutTimeout(n)
  <2> DEFINE d == FsaQuiet(c, "SHUT_TO")
  <2>1. Step(n, d, {}) /\ handed' = handed /\ c.shuttimer
    BY <1>6, Zenon DEF ShutTimeout
  <2>2. Sound(c)
    BY <1>1, <2>1, Zenon DEF Gone
  <2>3. Sound(d)
    BY <2>1, <2>2, ShutTimeoutSound
  <2>4. Quiet(c, d, K)
    BY <1>1, FinishQuiet DEF FsaQuiet
  <2> HIDE DEF d
  <2> QED
    BY <1>3, <2>1, <2>3, <2>4 DEF Quiet
<1>7. CASE FinalizeTimeout(n)
  <2> DEFINE no == FALSE
             d == [c EXCEPT !.finalizetimer = no]
  <2>1. c.finalizetimer /\ handed' = handed /\ procSess' = procSess
    BY <1>7, Zenon DEF FinalizeTimeout
  <2>2. Step(n, d, {}) \/ Step(n, Destroy(c), {})
    BY <1>7, Zenon DEF FinalizeTimeout
  <2>3. Sound(c)
    BY <1>1, <2>1, Zenon DEF Gone
  <2>4. CASE Step(n, Destroy(c), {})
    BY <2>1, <2>3, <2>4, DestroyLeaves
  <2>5. CASE Step(n, d, {})
    <3>1. no \in BOOLEAN
      OBVIOUS
    <3> HIDE DEF c, no
    <3>2. d \in Conn
      BY <1>1, <3>1 DEF Conn
    <3>3. /\ d.present = c.present /\ d.state = c.state /\ d.outq = c.outq
          /\ d.unacked = c.unacked /\ d.shuttimer = c.shuttimer /\ d.complained = c.complained
      BY <1>1 DEF Conn
    <3> HIDE DEF d
    <3>4. Sound(d) /\ OutputKept(c, d)
      BY <2>3, <3>2, <3>3, SoundKept, Zenon DEF OutputKept
    <3> QED
      BY <1>3, <2>1, <2>5, <3>4
  <2> QED
    BY <2>2, <2>4, <2>5
<1> QED
  BY <1>4, <1>5, <1>6, <1>7 DEF Timers

\* Every step keeps the output of the one end and leaves the other end alone.
LEMMA NextKeepsOutput ==
  ASSUME Window <= 2, IInv, Flows, Answered, [Next]_vars, [Stay]_vars
  PROVE  \E n \in Node : \E k \in 0..2 : KeepsOutput(n, k)
<1> DEFINE Plain(n, N) == /\ handed' = handed /\ conn'[Peer(n)] = conn[Peer(n)]
                          /\ Remains(conn[n], conn'[n], N)
<1>1. ASSUME NEW n \in Node, \A N : Plain(n, N) PROVE \E k \in 0..2 : KeepsOutput(n, k)
  <2> DEFINE N == {0} \cup seen[Peer(n)] \cup (handed[n] + 1)..(handed[n] + 0)
  <2>1. Plain(n, N)
    BY <1>1
  <2>2. handed[n] \in Nat
    BY DEF IInv, TypeOK
  <2>3. handed'[n] = handed[n] + 0
    BY <2>1, <2>2
  <2>4. KeepsOutput(n, 0)
    BY <2>1, <2>3 DEF KeepsOutput
  <2> QED
    BY <2>4
<1>2. ASSUME conn' = conn, handed' = handed, NEW n \in Node PROVE \A N : Plain(n, N)
  BY <1>2, QuietRemains DEF OutputKept
<1>3. CASE UNCHANGED vars
  <2>1. conn' = conn /\ handed' = handed /\ A \in Node
    BY <1>3, Zenon DEF vars, Node
  <2> QED
    BY <1>1, <1>2, <2>1
<1>4. CASE Next /\ Stay
  <2>1. PICK n \in Node : \/ Calls(n) \/ Timers(n) \/ Restart(n) \/ Lose(n)
                          \/ \E kind \in Kinds : Deliver(n, kind)
    BY <1>4, Zenon DEF Next
  <2>2. CASE Lose(n)
    <3>1. conn' = conn /\ handed' = handed
      BY <2>2, Zenon DEF Lose
    <3> QED
      BY <1>1, <1>2, <3>1
  <2>3. CASE Restart(n)
    <3>1. conn' = [conn EXCEPT ![n] = NoConn] /\ handed' = handed
      BY <2>3, Zenon DEF Restart
    <3>2. conn \in [Node -> Conn]
      BY DEF IInv, TypeOK
    <3>3. NoConn.outq.q = <<>>
      BY DEF NoConn, NewConn, EmptyQueue
    <3>4. conn'[n] = NoConn /\ conn'[Peer(n)] = conn[Peer(n)]
      BY <3>1, <3>2, PeerType
    <3>5. Vals(conn'[n].outq) = {}
      BY <3>3, <3>4 DEF Vals, Held
    <3>6. \A N : Plain(n, N)
      BY <3>1, <3>4, <3>5 DEF Remains
    <3> QED
      BY <1>1, <3>6
  <2>4. CASE \E kind \in Kinds : Deliver(n, kind)
    <3>1. KeepsOutput(n, 0)
      BY <2>4, DeliverKeepsOutput
    <3> QED
      BY <3>1
  <2>5. CASE Timers(n)
    <3>1. KeepsOutput(n, 0)
      BY <1>4, <2>5, TimersKeepOutput
    <3> QED
      BY <3>1
  <2> QED
    BY <1>4, <2>1, <2>2, <2>3, <2>4, <2>5, CallsKeepOutput
<1> QED
  BY <1>3, <1>4

\* The framesets after L, up to h, of which those in V are not lost.
Pipe(L, h, V) == [i \in 1..(h - L) |-> [val |-> L + i, lost |-> L + i \notin V]]

\* The next k framesets.
Fresh(h, k, W) == [i \in 1..k |-> [val |-> h + i, lost |-> h + i \notin W]]

Lengthened(L, h, k, V, W) == Pipe(L, h, V) \o Fresh(h, k, W)

Shortened(p, i) == SubSeq(p, i + 1, Len(p))

\* A sequence is its first part followed by the rest.
LEMMA SplitSeq ==
  ASSUME NEW S, NEW F \in [Nat -> S], NEW a \in Nat, NEW b \in Nat
  PROVE  [j \in 1..(a + b) |-> F[j]] = [j \in 1..a |-> F[j]] \o [i \in 1..b |-> F[a + i]]
OBVIOUS

\* What is handed over lengthens the pipe.
LEMMA PipeGrows ==
  ASSUME NEW L \in Nat, NEW h \in Nat, L <= h, NEW k \in Nat, NEW m \in Nat, m = h + k,
         NEW V, NEW W, \A x \in (L + 1)..h : x \in W <=> x \in V
  PROVE  Pipe(L, m, W) = Lengthened(L, h, k, V, W)
<1> DEFINE new == Fresh(h, k, W)
           E(j) == [val |-> L + j, lost |-> L + j \notin W]
           old == Pipe(L, h, V)
           all == Pipe(L, m, W)
<1>1. h - L \in Nat /\ m - L = (h - L) + k
  OBVIOUS
<1>2. old = [j \in 1..(h - L) |-> E(j)]
  <2>1. ASSUME NEW j \in 1..(h - L)
        PROVE  [val |-> L + j, lost |-> L + j \notin V] = E(j)
    <3>1. L + j \in (L + 1)..h
      OBVIOUS
    <3> QED
      BY <3>1
  <2> QED
    BY <2>1, Zenon DEF Pipe
<1>3. new = [i \in 1..k |-> E(h - L + i)]
  <2>1. ASSUME NEW i \in 1..k PROVE [val |-> h + i, lost |-> h + i \notin W] = E(h - L + i)
    <3>1. L + (h - L + i) = h + i
      OBVIOUS
    <3> QED
      BY <3>1, Zenon
  <2> QED
    BY <2>1, Zenon DEF Fresh
<1>4. all = [j \in 1..((h - L) + k) |-> E(j)]
  BY <1>1, Zenon DEF Pipe
<1> HIDE DEF E, old, new, all
<1> DEFINE F == [j \in Nat |-> E(j)]
           S == {E(j) : j \in Nat}
           a == h - L
<1>5. F \in [Nat -> S] /\ a \in Nat /\ \A j \in Nat : F[j] = E(j)
  BY <1>1
<1> HIDE DEF F, S, a
<1>6. /\ old = [j \in 1..a |-> F[j]] /\ new = [i \in 1..k |-> F[a + i]]
      /\ all = [j \in 1..(a + k) |-> F[j]]
  <2>1. (\A j \in 1..a : E(j) = F[j]) /\ (\A j \in 1..(a + k) : E(j) = F[j])
        /\ \A i \in 1..k : E(a + i) = F[a + i]
    BY <1>5
  <2>2. a = h - L
    BY DEF a
  <2> QED
    BY <1>2, <1>3, <1>4, <2>1, <2>2, Zenon
<1>7. all = old \o new
  BY <1>5, <1>6, SplitSeq
<1> QED
  BY <1>7 DEF all, old, new, Lengthened

\* Only what was lost of the pipe matters.
LEMMA PipeSame ==
  ASSUME NEW L \in Nat, NEW h \in Nat, NEW V, NEW W,
         \A x \in (L + 1)..h : x \in W <=> x \in V
  PROVE  Pipe(L, h, W) = Pipe(L, h, V)
<1>1. ASSUME NEW i \in 1..(h - L)
      PROVE  [val |-> L + i, lost |-> L + i \notin W] = [val |-> L + i, lost |-> L + i \notin V]
  <2>1. L + i \in (L + 1)..h
    OBVIOUS
  <2> QED
    BY <2>1
<1> QED
  BY <1>1, Zenon DEF Pipe

\* Giving up loses what is in the pipe.
LEMMA PipeLost ==
  ASSUME NEW L, NEW h, NEW V
  PROVE  Channel!LoseAll(Pipe(L, h, V)) = Pipe(L, h, {})
<1> DEFINE p == Pipe(L, h, V)
<1>1. DOMAIN p = 1..(h - L)
  BY DEF Pipe
<1>2. ASSUME NEW i \in 1..(h - L)
      PROVE  [p[i] EXCEPT !.lost = TRUE] = [val |-> L + i, lost |-> L + i \notin {}]
  <2>1. p[i] = [val |-> L + i, lost |-> L + i \notin V]
    BY DEF Pipe
  <2> DEFINE x == L + i
             y == x \notin V
             z == TRUE
             r == [val |-> x, lost |-> y]
  <2>2. (x \notin {}) = z
    OBVIOUS
  <2> HIDE DEF x, y, z, p
  <2>3. [r EXCEPT !.lost = z] = [val |-> x, lost |-> z]
    OBVIOUS
  <2> QED
    BY <2>1, <2>2, <2>3, Zenon DEF x, y, z
<1> HIDE DEF p
<1>3. Channel!LoseAll(p) = [i \in 1..(h - L) |-> [p[i] EXCEPT !.lost = TRUE]]
  BY <1>1, Zenon DEF Channel!LoseAll
<1>4. Channel!LoseAll(p) = Pipe(L, h, {})
  BY <1>2, <1>3, Zenon DEF Pipe
<1> QED
  BY <1>4 DEF p

\* Reading shortens the pipe.
LEMMA PipeRead ==
  ASSUME NEW L \in Nat, NEW h \in Nat, NEW v \in (L + 1)..h, NEW i \in Nat, i = v - L, NEW V
  PROVE  /\ Pipe(v, h, V) = Shortened(Pipe(L, h, V), i)
         /\ i \in DOMAIN Pipe(L, h, V) /\ Pipe(L, h, V)[i].val = v
         /\ \A j \in 1..(i - 1) : L + j \notin V => Pipe(L, h, V)[j].lost
<1> DEFINE E(j) == [val |-> L + j, lost |-> L + j \notin V]
           p == Pipe(L, h, V)
           r == Pipe(v, h, V)
<1>1. p = [j \in 1..(h - L) |-> E(j)] /\ h - L \in Nat
  BY DEF Pipe
<1>2. r = [j \in 1..(h - v) |-> E(j + (v - L))] /\ h - v \in Nat
  <2>1. ASSUME NEW j \in 1..(h - v)
        PROVE  [val |-> v + j, lost |-> v + j \notin V] = E(j + (v - L))
    <3>1. L + (j + (v - L)) = v + j
      OBVIOUS
    <3> QED
      BY <3>1, Zenon
  <2>2. h - v \in Nat
    OBVIOUS
  <2> QED
    BY <2>1, <2>2, Zenon DEF Pipe
<1>3. \A j \in 1..(h - L) : p[j].val = L + j /\ p[j].lost = (L + j \notin V)
  BY <1>1
<1> HIDE DEF E, p, r
<1>4. Len(p) = h - L /\ p \in Seq({E(j) : j \in Nat})
  BY <1>1
<1>5. r = SubSeq(p, i + 1, Len(p))
  BY <1>1, <1>2, <1>4
<1>6. i \in DOMAIN p /\ p[i].val = v /\ 1..(i - 1) \subseteq 1..(h - L)
  BY <1>1, <1>3
<1>7. \A j \in 1..(i - 1) : L + j \notin V => p[j].lost
  BY <1>3, <1>6, Zenon
<1> QED
  BY <1>5, <1>6, <1>7 DEF p, r, Shortened

\* How far B has read, and what it has been shown.
LEMMA ReadSoFar ==
  ASSUME IInv, Flows, Shown
  PROVE  /\ LastRead \in Nat /\ handed[A] \in Nat /\ LastRead <= handed[A]
         /\ \A x \in seen[B] : x \in Nat /\ x <= LastRead
<1> DEFINE g == conn[B].got
<1>1. A \in Node /\ B \in Node /\ Peer(B) = A
  BY NodeAssumption DEF Node, Peer
<1>2. g \in Seq(Nat) /\ handed[A] \in Nat /\ seen[B] \subseteq {g[i] : i \in DOMAIN g}
  BY <1>1 DEF IInv, TypeOK, Conn, Shown
<1>3. /\ \A i \in DOMAIN g : g[i] <= handed[A]
      /\ \A i, j \in DOMAIN g : i < j => g[i] < g[j]
  BY <1>1, Zenon DEF Flows, Flow, InOrder
<1>4. LastRead = IF g = <<>> THEN 0 ELSE g[Len(g)]
  BY Zenon DEF LastRead
<1> HIDE DEF g
<1>5. CASE g = <<>>
  BY <1>2, <1>4, <1>5
<1>6. CASE g # <<>>
  <2>1. Len(g) \in DOMAIN g /\ LastRead = g[Len(g)]
    BY <1>2, <1>4, <1>6
  <2>2. ASSUME NEW i \in DOMAIN g PROVE g[i] \in Nat /\ g[i] <= LastRead
    <3>1. i \in Nat /\ i <= Len(g) /\ g[i] \in Nat /\ g[Len(g)] \in Nat /\ Len(g) \in Nat
      BY <1>2, <2>1
    <3>2. i = Len(g) \/ i < Len(g)
      BY <3>1
    <3>3. g[i] = g[Len(g)] \/ g[i] < g[Len(g)]
      BY <1>3, <2>1, <3>2
    <3> QED
      BY <2>1, <3>1, <3>3
  <2>3. LastRead \in Nat /\ LastRead <= handed[A]
    BY <1>3, <2>1, <2>2
  <2> QED
    BY <1>2, <2>2, <2>3
<1> QED
  BY <1>5, <1>6

\* The pipe of the connection.
LEMMA InPipeIs == InPipe = Pipe(LastRead, handed[A], Vals(conn[A].outq))
<1>1. OutVals(A) = Vals(conn[A].outq)
  BY DEF OutVals, Vals, Held
<1> QED
  BY <1>1 DEF InPipe, Pipe

\* What A does sends, gives up, or does not show in the channel.
LEMMA SenderMaps ==
  ASSUME IInv, Flows, Shown, NEW k \in 0..2, KeepsOutput(A, k)
  PROVE  [Channel!Next]_Channel!vars
<1> DEFINE L == LastRead
           h == handed[A]
           V == Vals(conn[A].outq)
           W == Vals(conn'[A].outq)
           N == {0} \cup seen[B] \cup (h + 1)..(h + k)
           Z == {}
           new == Fresh(h, k, W)
           m == h + k
<1>1. /\ L \in Nat /\ h \in Nat /\ L <= h /\ k \in Nat
      /\ \A x \in seen[B] : x \in Nat /\ x <= L
  BY ReadSoFar
<1>2. Peer(A) = B
  BY DEF Peer
<1>3. /\ handed'[A] = h + k /\ conn'[B] = conn[B]
      /\ \/ V \ N \subseteq W /\ W \subseteq V \cup N
         \/ W \subseteq N
  BY <1>2 DEF KeepsOutput, Remains
<1>4. LastRead' = L /\ conn'[B].got = conn[B].got
  BY <1>3 DEF LastRead
<1>5. InPipe = Pipe(L, h, V)
  BY InPipeIs
<1>6. InPipe' = Pipe(L, m, W)
  <2>1. (OutVals(A))' = W
    BY DEF OutVals, Vals, Held
  <2> QED
    BY <1>3, <1>4, <2>1 DEF InPipe, Pipe
<1>7. \A x \in (L + 1)..h : x \notin N
  <2> SUFFICES ASSUME NEW x \in (L + 1)..h, x \in seen[B] PROVE FALSE
    BY <1>1
  <2>1. x <= L
    BY <1>1
  <2> QED
    BY <1>1, <2>1
<1> HIDE DEF N
<1>8. \/ \A x \in (L + 1)..h : x \in W <=> x \in V
      \/ \A x \in (L + 1)..h : x \in W <=> x \in Z
  BY <1>3, <1>7
<1>9. PICK before \in {InPipe, Channel!LoseAll(InPipe)} :
        InPipe' = before \o new
  <2>1. CASE \A x \in (L + 1)..h : x \in W <=> x \in V
    <3>1. m = h + k /\ m \in Nat
      BY <1>1
    <3> HIDE DEF L, h, V, W, m
    <3>2. Pipe(L, m, W) = Lengthened(L, h, k, V, W)
      BY <1>1, <2>1, <3>1, PipeGrows
    <3> QED
      BY <1>5, <1>6, <3>2, Zenon DEF Lengthened
  <2>2. CASE \A x \in (L + 1)..h : x \in W <=> x \in Z
    <3>1. Z = {} /\ m = h + k /\ m \in Nat
      BY <1>1
    <3> HIDE DEF L, h, V, W, Z, m
    <3>2. Pipe(L, m, W) = Lengthened(L, h, k, Z, W)
      BY <1>1, <2>2, <3>1, PipeGrows
    <3>3. Channel!LoseAll(InPipe) = Pipe(L, h, {})
      BY <1>5, PipeLost
    <3> QED
      BY <1>6, <3>1, <3>2, <3>3, Zenon DEF Lengthened
  <2> QED
    BY <1>8, <2>1, <2>2
<1>10. CASE k = 0
  <2>1. InPipe' = Pipe(L, h, W) /\ handed'[A] = h
    <3>1. h + k = h
      BY <1>1, <1>10
    <3> QED
      BY <1>3, <1>6, <3>1
  <2>2. CASE \A x \in (L + 1)..h : x \in W <=> x \in V
    <3> HIDE DEF h, L, V, W
    <3>1. Pipe(L, h, W) = Pipe(L, h, V)
      BY <1>1, <2>2, PipeSame
    <3>2. InPipe' = InPipe
      BY <1>5, <2>1, <3>1, Zenon
    <3> QED
      BY <1>4, <2>1, <3>2 DEF Channel!vars, h
  <2>3. CASE \A x \in (L + 1)..h : x \in W <=> x \in Z
    <3>1. Z = {}
      OBVIOUS
    <3> HIDE DEF h, L, V, W, Z
    <3>2. Pipe(L, h, W) = Pipe(L, h, Z)
      BY <1>1, <2>3, PipeSame
    <3>3. InPipe' = Channel!LoseAll(InPipe)
      BY <1>5, <2>1, <3>1, <3>2, PipeLost
    <3> QED
      BY <1>4, <2>1, <3>3 DEF Channel!GiveUp, Channel!Next, h
  <2> QED
    BY <1>8, <2>2, <2>3
<1>11. CASE k \in 1..2
  <2>1. DEFINE lost == [i \in 1..k |-> h + i \notin W]
  <2>2. lost \in [1..k -> BOOLEAN]
    OBVIOUS
  <2>3. new = [i \in 1..k |-> [val |-> h + i, lost |-> lost[i]]]
    BY DEF Fresh
  <2> HIDE DEF new, lost
  <2>4. Channel!Send
    BY <1>3, <1>4, <1>9, <1>11, <2>2, <2>3 DEF Channel!Send
  <2> QED
    BY <2>4 DEF Channel!Next
<1> QED
  BY <1>10, <1>11

\* What B reads is the first frameset of the pipe that is not lost, or a lost one
\* before it.
LEMMA ReaderMaps ==
  ASSUME IInv, Flows, Flows', Answered, Shown, NEW f \in Held(conn[B].inq), f.kind = "data",
         conn'[B].got = Append(conn[B].got, f.val),
         conn'[A] = conn[A], handed'[A] = handed[A]
  PROVE  Channel!Read
<1> DEFINE L == LastRead
           h == handed[A]
           v == f.val
           fq == conn[A].outq
           V == Vals(fq)
           g == conn[B].got
           P == Pool(A)
           S == Sending(conn[A], P)
<1>1. L \in Nat /\ h \in Nat /\ L <= h
  BY ReadSoFar
<1>2. A \in Node /\ B \in Node /\ Peer(A) = B /\ Peer(B) = A
  BY NodeAssumption DEF Node, Peer
<1>3. conn[A] \in Conn /\ conn[B] \in Conn /\ g \in Seq(Nat) /\ fq \in Queue
      /\ procSess[A] \in Nat
  BY <1>2 DEF IInv, TypeOK, Conn
<1>4. f \in P /\ P \in SUBSET FrameSet
  BY <1>2, PoolType DEF Pool
<1>5. f \in S /\ S \subseteq FrameSet /\ Held(fq) \subseteq S
  BY <1>3, <1>4, SendingType DEF Sending
<1>6. v \in Nat /\ f.sess \in Nat /\ f.seq \in Nat
  BY <1>5 DEF FrameSet
<1>7. /\ 0 < v /\ v <= h
      /\ \A x, y \in S : SeqnoOf(x) = SeqnoOf(y) => x = y
      /\ \A x, y \in S : x.kind = "data" /\ y.kind = "data" /\ Before(SeqnoOf(x), SeqnoOf(y))
                           => x.val < y.val
  <2>1. Numbered(conn[A], P, procSess[A], h)
    BY <1>2, Zenon DEF Flows, Flow
  <2> QED
    BY <1>5, <2>1, Zenon DEF Numbered
<1>8. LastRead' = v
  <2> DEFINE e == Append(g, v)
  <2>1. conn'[B].got = e
    OBVIOUS
  <2> HIDE DEF g, v
  <2>2. e # <<>> /\ Len(e) = Len(g) + 1 /\ e[Len(g) + 1] = v
    <3>1. g \in Seq(Nat) /\ v \in Nat
      BY <1>3, <1>6
    <3>2. e # <<>> /\ Len(e) = Len(g) + 1
      BY <3>1
    <3>3. e[Len(g) + 1] = v
      BY <3>1
    <3> QED
      BY <3>2, <3>3
  <2>3. e # <<>> /\ e[Len(e)] = v
    BY <2>2, Zenon
  <2> HIDE DEF e
  <2> QED
    BY <2>1, <2>3, Zenon DEF LastRead
<1>9. L < v
  <2>1. CASE g = <<>>
    BY <1>7, <2>1 DEF LastRead
  <2>2. CASE g # <<>>
    <3> DEFINE e == Append(g, v)
    <3>1. \A i, j \in DOMAIN e : i < j => e[i] < e[j]
      BY <1>2, Zenon DEF Flows, Flow, InOrder
    <3>2. /\ Len(g) \in DOMAIN e /\ Len(g) + 1 \in DOMAIN e /\ Len(g) < Len(g) + 1
          /\ e[Len(g)] = g[Len(g)] /\ e[Len(g) + 1] = v
      BY <1>3, <1>6, <2>2
    <3> HIDE DEF e
    <3>3. g[Len(g)] < v
      BY <3>1, <3>2
    <3> QED
      BY <2>2, <3>3 DEF LastRead
  <2> QED
    BY <2>1, <2>2
<1>10. ASSUME NEW y \in Held(fq) PROVE y.val = 0 \/ v <= y.val
  <2>1. /\ InRun(fq) /\ AtMost(fq, procSess[A], SeqnoOf(f))
        /\ Settled(y, AckNumbers(A), seen[B])
    <3>1. SeqnoOf(f) \in NumbersOf(P \cup Sequenced(conn[A].tx))
      BY <1>4 DEF NumbersOf
    <3>2. Answers(A, conn[A], {})
      BY <1>2, Zenon DEF Answered
    <3> QED
      BY <1>2, <1>5, <3>1, <3>2 DEF Answers
  <2>2. fq.q # <<>>
    BY DEF Held
  <2>3. y \in S /\ y.val \in Nat /\ y.sess \in Nat /\ y.seq \in Nat
    BY <1>5 DEF FrameSet
  <2>4. /\ Head(fq.q).seq <= y.seq /\ Head(fq.q).sess = y.sess
        /\ Head(fq.q).seq \in Nat
    <3>1. Head(fq.q) \in Held(fq) /\ Head(fq.q).seq <= y.seq
      BY <1>3, <2>1, <2>2, HeadIsLeast
    <3>2. Head(fq.q) \in FrameSet
      BY <1>5, <3>1
    <3> QED
      BY <2>1, <3>1, <3>2 DEF InRun, OneSession, FrameSet
  <2>5. ~Before(SeqnoOf(Head(fq.q)), SeqnoOf(f))
    BY <2>1, <2>2 DEF AtMost
  <2>6. SeqnoOf(f) = SeqnoOf(y) \/ Before(SeqnoOf(f), SeqnoOf(y))
    BY <1>6, <2>3, <2>4, <2>5 DEF Before, SeqnoOf
  <2>7. CASE y.kind = "data"
    <3>1. f = y \/ v < y.val
      BY <1>5, <1>7, <2>3, <2>6, <2>7
    <3> QED
      BY <1>6, <2>3, <3>1
  <2>8. CASE y.kind # "data"
    BY <2>1, <2>8 DEF Settled
  <2> QED
    BY <2>7, <2>8
<1>11. InPipe = Pipe(L, h, V)
  BY InPipeIs
<1>12. InPipe' = Pipe(v, h, V)
  <2>1. (OutVals(A))' = V
    BY DEF OutVals, Vals, Held
  <2> QED
    BY <1>8, <2>1 DEF InPipe, Pipe
<1>13. v \in (L + 1)..h
  BY <1>1, <1>6, <1>7, <1>9
<1>14. \A j \in 1..(v - L - 1) : L + j \notin V
  <2> SUFFICES ASSUME NEW j \in 1..(v - L - 1), NEW y \in Held(fq), y.val = L + j PROVE FALSE
    BY DEF Vals
  <2>1. y.val = 0 \/ v <= y.val
    BY <1>10
  <2> HIDE DEF L, v
  <2> QED
    BY <1>1, <1>6, <2>1
<1> DEFINE i == v - L
           p == Pipe(L, h, V)
<1>15. i = v - L /\ i \in Nat
  BY <1>1, <1>6, <1>9
<1>16. \A j \in 1..(i - 1) : L + j \notin V
  BY <1>14
<1> HIDE DEF L, h, V, v, i
<1>17. /\ Pipe(v, h, V) = Shortened(p, i) /\ i \in DOMAIN p /\ p[i].val = v
       /\ \A j \in 1..(i - 1) : L + j \notin V => p[j].lost
  BY <1>1, <1>13, <1>15, PipeRead
<1>18. InPipe = p
  BY <1>11
<1> HIDE DEF p
<1>19. /\ InPipe' = SubSeq(InPipe, i + 1, Len(InPipe))
       /\ i \in DOMAIN InPipe /\ InPipe[i].val = v
       /\ \A j \in 1..(i - 1) : InPipe[j].lost
  BY <1>12, <1>16, <1>17, <1>18, Zenon DEF Shortened
<1> QED
  BY <1>8, <1>19 DEF Channel!Read, v

\* Every step of the protocol maps to a step of the channel or to none.
LEMMA NextMaps ==
  ASSUME Window <= 2, IInv, Flows, Flows', Answered, Shown,
         [Next]_vars, [Stay]_vars, [Keep]_vars
  PROVE  [Channel!Next]_Channel!vars
<1>1. A \in Node /\ B \in Node /\ Peer(A) = B /\ Peer(B) = A /\ \A n \in Node : n = A \/ n = B
  BY NodeAssumption DEF Node, Peer
<1>2. PICK n \in Node : \E k \in 0..2 : KeepsOutput(n, k)
  BY NextKeepsOutput
<1>3. CASE n = A
  BY <1>2, <1>3, SenderMaps
<1>4. CASE n = B
  <2>1. conn'[A] = conn[A] /\ handed'[A] = handed[A]
    BY <1>1, <1>2, <1>4 DEF KeepsOutput
  <2>2. ShowStep(B)
    BY <1>1, NextShows
  <2>3. CASE conn'[B].got = conn[B].got
    <3>1. LastRead' = LastRead /\ (OutVals(A))' = OutVals(A)
      BY <2>1, <2>3 DEF LastRead, OutVals
    <3>2. InPipe' = InPipe
      BY <2>1, <3>1 DEF InPipe
    <3> QED
      BY <2>1, <2>3, <3>2 DEF Channel!vars
  <2>4. ASSUME NEW f \in Held(conn[B].inq), f.kind = "data",
               conn'[B].got = Append(conn[B].got, f.val)
        PROVE  Channel!Read
    BY <2>1, <2>4, ReaderMaps
  <2> QED
    BY <2>2, <2>3, <2>4 DEF ShowStep, Channel!Next
<1> QED
  BY <1>1, <1>3, <1>4

\* The connection from A to B is a reliable channel: with the window the code has,
\* and as long as B keeps its end and no connection is destroyed, what A sends is
\* read in order, once, and without gaps but for what A gave up, whatever the network
\* does, and whether A's end is reset or its process restarted.
THEOREM ConnectionIsReliable ==
  ASSUME Window <= 2
  PROVE  Spec /\ ConnectionsStay /\ ReceptionStays => IsReliableChannel
<1>1. Init => Channel!Init
  <2> SUFFICES ASSUME Init PROVE Channel!Init
    OBVIOUS
  <2>1. A \in Node /\ B \in Node
    BY DEF Node
  <2>2. handed[A] = 0 /\ conn[B].got = <<>>
    BY <2>1 DEF Init, NoConn, NewConn
  <2>3. LastRead = 0
    BY <2>2 DEF LastRead
  <2>4. InPipe = <<>>
    BY <2>2, <2>3 DEF InPipe
  <2> QED
    BY <2>2, <2>4 DEF Channel!Init
<1>2. IInv /\ Flows /\ Flows' /\ Answered /\ Shown /\ [Next]_vars /\ [Stay]_vars /\ [Keep]_vars
        => [Channel!Next]_Channel!vars
  BY NextMaps
<1> QED
  BY <1>1, <1>2, Invariance, FlowInvariance, AnsweredInvariance, ShownInvariance, PTL
     DEF Spec, ReceptionStays, ConnectionsStay, IsReliableChannel, Channel!Spec

-------------------------------------------------------------------------------
(* The mark of a connection whose next frameset can be read.  First, that every *)
(* function but the two that file and read a frameset leaves it right.          *)

\* The mark and the list of connections with input say what the queue says.
Ready(c) ==
  /\ c.isready <=> Readable(c.inq)
  /\ c.ipend = IF c.isready THEN 1 ELSE 0

\* A function that touches none of the three leaves the mark right.
LEMMA FieldsReady ==
  ASSUME NEW c, NEW d, Ready(c), d.inq = c.inq, d.isready = c.isready, d.ipend = c.ipend
  PROVE  Ready(d)
BY Zenon DEF Ready

\* reinit takes the mark away with the input.
LEMMA ReinitReady ==
  ASSUME NEW c \in Conn, Ready(c)
  PROVE  Ready(Reinit(c))
<1> DEFINE o == [q |-> <<>>, next |-> 1, sess |-> IF c.outq.sess = 0 THEN 0 ELSE c.outq.sess + 1]
           u == IF c.outq.q = <<>> THEN c.unacked ELSE Remove(c.unacked)
           i == IF c.inq.q = <<>> THEN c.ipend ELSE Remove(c.ipend)
           r == IF c.inq.q = <<>> THEN c.isready ELSE FALSE
           eq == EmptyQueue
           ns == NoSeqno  none == "NONE"  off == "off"  zero == 0  no == FALSE  empty == <<>>
           d == [c EXCEPT !.state = none, !.outq = o, !.unacked = u, !.inq = eq,
                          !.ipend = i, !.isready = r, !.lastacksent = ns,
                          !.lastseqsent = ns, !.rexmit = off, !.tries = zero,
                          !.shuttimer = no, !.finalizetimer = no,
                          !.shutdown_complete = no, !.got = empty]
<1>1. Reinit(c) = d
  BY Zenon DEF Reinit
<1>2. c.isready \in BOOLEAN /\ c.ipend \in Nat
  BY DEF Conn
<1>3. ~r /\ i = 0
  BY <1>2 DEF Ready, Readable, Remove
<1>4. ~Readable(eq)
  BY DEF Readable, EmptyQueue
<1> HIDE DEF o, u, i, r, eq, ns, none, off, zero, no, empty
<1>5. d.inq = eq /\ d.isready = r /\ d.ipend = i
  BY DEF Conn
<1> HIDE DEF d
<1> QED
  BY <1>1, <1>3, <1>4, <1>5, Zenon DEF Ready

\* So does the automaton, which may close the connection.
LEMMA FinishReady ==
  ASSUME NEW c \in Conn, NEW state, NEW input, Ready(c)
  PROVE  Ready(FsaFinish(c, state, input))
<1> DEFINE acts == Actions[state][input]
           next == NextState[state][input]
           t == (c.shuttimer \/ "TIMER" \in acts) /\ ~("NOTIME" \in acts)
           timed == [c EXCEPT !.shuttimer = t]
           r == Reinit(timed)
           yes == TRUE
           shut == [r EXCEPT !.shutdown_complete = yes, !.finalizetimer = yes]
           closed == IF "CLOSE" \in acts THEN shut ELSE timed
           w == \/ closed.complained
                \/ "OOPS" \in acts
                \/ next = "NONE" /\ state # "NONE" /\ closed.outq.q # <<>>
           d == [closed EXCEPT !.state = next, !.complained = w]
<1>1. FsaFinish(c, state, input) = d
  BY Zenon DEF FsaFinish
<1>2. t \in BOOLEAN /\ yes \in BOOLEAN
  BY Zenon
<1> HIDE DEF t, yes
<1>3. /\ timed \in Conn /\ timed.inq = c.inq /\ timed.isready = c.isready
      /\ timed.ipend = c.ipend
  BY <1>2 DEF Conn
<1> HIDE DEF timed
<1>4. Ready(timed)
  BY <1>3, FieldsReady, Zenon
<1>5. r \in Conn /\ Ready(r)
  BY <1>3, <1>4, ReinitReady, ReinitType
<1> HIDE DEF r
<1>6. shut \in Conn /\ shut.inq = r.inq /\ shut.isready = r.isready /\ shut.ipend = r.ipend
  BY <1>2, <1>5 DEF Conn
<1> HIDE DEF shut
<1>7. Ready(shut)
  BY <1>5, <1>6, FieldsReady, Zenon
<1>8. closed \in Conn /\ Ready(closed)
  BY <1>3, <1>4, <1>6, <1>7, Zenon
<1> HIDE DEF closed, w, next
<1>9. d.inq = closed.inq /\ d.isready = closed.isready /\ d.ipend = closed.ipend
  BY <1>8 DEF Conn
<1> HIDE DEF d
<1> QED
  BY <1>1, <1>8, <1>9, FieldsReady, Zenon

\* xmitifwecan closes the connection at most.
LEMMA XmitReady ==
  ASSUME NEW c0, Sound(c0), Ready(c0)
  PROVE  Ready(XmitIfWeCan(c0))
<1> DEFINE c == SendNew(c0)
           on == "armed"  no == "off"
           armed == [c EXCEPT !.rexmit = on]
           off == [c EXCEPT !.rexmit = no]
<1>1. XmitIfWeCan(c0) =
        CASE c.rexmit = "off" /\ c.outq.q # <<>> -> armed
          [] c.rexmit = "due" /\ c.outq.q # <<>> -> Retransmit(c)
          [] c.rexmit = "due" /\ c.outq.q = <<>> -> off
          [] OTHER                               -> c
  BY Zenon DEF XmitIfWeCan
<1>2. Sound(c)
  BY SendNewSound
<1>3. Ready(c)
  <2> DEFINE x == c0.tx \cup {c0.outq.q[i] : i \in Unsent(c0)}
             s == SeqnoOf(c0.outq.q[Len(c0.outq.q)])
             d == [c0 EXCEPT !.tx = x, !.lastseqsent = s]
  <2>1. c = d \/ c = c0
    BY Zenon DEF SendNew
  <2>2. c0 \in Conn
    BY DEF Sound
  <2> HIDE DEF x, s, c
  <2>3. d.inq = c0.inq /\ d.isready = c0.isready /\ d.ipend = c0.ipend
    BY <2>2 DEF Conn
  <2> HIDE DEF d
  <2> QED
    BY <2>1, <2>3, FieldsReady, Zenon
<1> HIDE DEF c, on, no
<1>4. c \in Conn
  BY <1>2 DEF Sound
<1>5. /\ armed.inq = c.inq /\ armed.isready = c.isready /\ armed.ipend = c.ipend
      /\ off.inq = c.inq /\ off.isready = c.isready /\ off.ipend = c.ipend
  BY <1>4 DEF Conn
<1> HIDE DEF armed, off
<1>6. Ready(armed) /\ Ready(off)
  BY <1>3, <1>5, FieldsReady, Zenon
<1>7. ASSUME c.outq.q # <<>> PROVE Ready(Retransmit(c))
  <2> DEFINE x == c.tx \cup {Head(c.outq.q)}
             r == "armed"
             again == [c EXCEPT !.tx = x, !.rexmit = r]
             e == FsaQuiet(again, "ACKTIMEOUT")
             z == 0
             k == again.tries + 1
             one == [again EXCEPT !.tries = k]
             all == [e EXCEPT !.tries = z]
  <2>1. Retransmit(c) = IF c.tries < AckTries THEN one ELSE all
    BY Zenon DEF Retransmit
  <2>2. c.tx \in SUBSET FrameSet /\ c.state # "NONE"
    BY <1>2, <1>4, <1>7 DEF Sound, Conn
  <2>3. x \in SUBSET FrameSet /\ r \in Rexmit
    BY <1>4, <1>7, <2>2, OutputType, SmallTypes
  <2> HIDE DEF x, r
  <2>4. again \in Conn
    BY <1>4, <2>3 DEF Conn
  <2>5. /\ again.outq = c.outq /\ again.inq = c.inq
        /\ again.isready = c.isready /\ again.ipend = c.ipend
        /\ again.present = c.present /\ again.state = c.state
        /\ again.unacked = c.unacked /\ again.shuttimer = c.shuttimer
        /\ again.complained = c.complained
    BY <1>4 DEF Conn
  <2> HIDE DEF again
  <2>6. Ready(again) /\ Sound(again)
    BY <1>2, <1>3, <2>4, <2>5, FieldsReady, SoundKept, Zenon
  <2>7. Sound(e) /\ Ready(e)
    <3>1. Sound(e)
      BY <1>7, <2>2, <2>5, <2>6, GiveUpSound, Zenon
    <3>2. Ready(e)
      BY <2>4, <2>6, FinishReady, Zenon DEF FsaQuiet
    <3> QED
      BY <3>1, <3>2
  <2>8. e \in Conn
    BY <2>7 DEF Sound
  <2> HIDE DEF e, k, z
  <2>9. /\ one.inq = again.inq /\ one.isready = again.isready /\ one.ipend = again.ipend
        /\ all.inq = e.inq /\ all.isready = e.isready /\ all.ipend = e.ipend
    BY <2>4, <2>8 DEF Conn
  <2> HIDE DEF one, all
  <2> QED
    BY <2>1, <2>6, <2>7, <2>9, FieldsReady, Zenon
<1> QED
  BY <1>1, <1>3, <1>6, <1>7, Zenon

\* So does send1.
LEMMA Send1Ready ==
  ASSUME NEW c0, Sound(c0), NEW kind \in Kinds, NEW val \in Nat, NEW sess \in Nat, Ready(c0)
  PROVE  Ready(Send1(c0, kind, val, sess))
<1>1. CASE InShutdown(c0.state)
  BY <1>1, Zenon DEF Send1
<1>2. CASE ~InShutdown(c0.state)
  <2> DEFINE c == FsaQuiet(c0, "REQSEND")
  <2>1. PICK d : /\ Send1(c0, kind, val, sess) = XmitIfWeCan(d)
                 /\ Sound(c) /\ c.outq = c0.outq /\ Sound(d)
                 /\ d.outq = Enq(c.outq, kind, val, sess)
                 /\ d.tx = c.tx /\ d.inq = c.inq /\ d.got = c.got
                 /\ d.lastacksent = c.lastacksent
                 /\ d.isready = c.isready /\ d.ipend = c.ipend
    BY <1>2, Send1Queues, Zenon
  <2>2. c0 \in Conn
    BY DEF Sound
  <2>3. Ready(c)
    BY <2>2, FinishReady DEF FsaQuiet
  <2> HIDE DEF c
  <2> QED
    BY <2>1, <2>3, FieldsReady, XmitReady, Zenon
<1> QED
  BY <1>1, <1>2

\* An ACK has nothing to do with the mark.
LEMMA AckSeqnoReady ==
  ASSUME NEW c \in Conn, NEW s, Ready(c)
  PROVE  Ready(AckSeqno(c, s))
<1> DEFINE x == c.tx \cup {AckFrameSet(s)}
           l == IF Before(c.lastacksent, s) THEN s ELSE c.lastacksent
           d == [c EXCEPT !.tx = x, !.lastacksent = l]
<1>1. AckSeqno(c, s) = IF c.inq.sess \notin {0, s[1]} THEN c ELSE d
  BY Zenon DEF AckSeqno
<1> HIDE DEF x, l
<1>2. d.inq = c.inq /\ d.isready = c.isready /\ d.ipend = c.ipend
  BY DEF Conn
<1> HIDE DEF d
<1> QED
  BY <1>1, <1>2, FieldsReady, Zenon

\* The automaton on any input leaves the mark right.
LEMMA FsaReady ==
  ASSUME NEW c, Sound(c), NEW input, NEW s \in Seqno, NEW sess \in Nat, Ready(c)
  PROVE  Ready(Fsa(c, input, s, sess))
<1> DEFINE acts == Actions[c.state][input]
           acked1 == IF "ACKME" \in acts THEN AckSeqno(c, s) ELSE c
           shut == IF "SNDSHUT" \in acts THEN Send1(acked1, "connshut", 0, sess) ELSE acked1
           d == FsaFinish(shut, c.state, input)
<1>1. Fsa(c, input, s, sess) = d
  BY Zenon DEF Fsa
<1>2. c \in Conn
  BY DEF Sound
<1>3. Sound(acked1) /\ Ready(acked1)
  <2>1. Sound(AckSeqno(c, s)) /\ Ready(AckSeqno(c, s))
    BY <1>2, AckSeqnoSound, AckSeqnoReady
  <2> QED
    BY <2>1, Zenon
<1> HIDE DEF acked1
<1>4. Sound(shut) /\ Ready(shut)
  <2>1. "connshut" \in Kinds /\ 0 \in Nat
    BY DEF Kinds
  <2>2. /\ Sound(Send1(acked1, "connshut", 0, sess))
        /\ Ready(Send1(acked1, "connshut", 0, sess))
    BY <1>3, <2>1, Send1Sound, Send1Ready
  <2> QED
    BY <1>3, <2>2, Zenon
<1> HIDE DEF shut
<1>5. Ready(d)
  BY <1>4, FinishReady DEF Sound
<1> QED
  BY <1>1, <1>5

\* So does receiving an ACK.
LEMMA ReceiveAckReady ==
  ASSUME NEW c, Sound(c), NEW s \in Seqno, Ready(c)
  PROVE  Ready(ReceiveAck(c, s))
<1> DEFINE left == AckThrough(c.outq, s)
           z == 0
           popped == [c EXCEPT !.outq = left, !.tries = z]
           u == Remove(popped.unacked)
           off == "off"
           idle == [popped EXCEPT !.unacked = u, !.rexmit = off]
<1>1. ReceiveAck(c, s) =
        CASE AckRefused(c.outq, s) -> c
          [] ~AckRefused(c.outq, s) /\ left.q # <<>> -> XmitIfWeCan(popped)
          [] OTHER -> IF c.outq.q = <<>> THEN idle ELSE FsaQuiet(idle, "OUTALLDONE")
  BY Zenon DEF ReceiveAck
<1>2. c \in Conn /\ c.outq \in Queue /\ c.unacked \in Nat
  BY DEF Sound, Conn
<1>3. left \in Queue /\ (c.outq.q = <<>> => left.q = <<>>)
  BY <1>2, AckThroughType
<1>4. z \in 0..AckTries /\ off \in Rexmit
  BY SmallTypes
<1> HIDE DEF left, z, off
<1>5. popped \in Conn
  BY <1>2, <1>3, <1>4 DEF Conn
<1>6. /\ popped.present = c.present /\ popped.state = c.state /\ popped.outq = left
      /\ popped.unacked = c.unacked /\ popped.shuttimer = c.shuttimer
      /\ popped.complained = c.complained
      /\ popped.inq = c.inq /\ popped.isready = c.isready /\ popped.ipend = c.ipend
  BY <1>2 DEF Conn
<1> HIDE DEF popped
<1>7. u \in Nat
  BY <1>2, <1>6, RemoveType
<1> HIDE DEF u
<1>8. /\ idle \in Conn /\ idle.inq = popped.inq /\ idle.isready = popped.isready
      /\ idle.ipend = popped.ipend
  BY <1>4, <1>5, <1>7 DEF Conn
<1> HIDE DEF idle
<1>9. Ready(popped) /\ Ready(idle)
  BY <1>6, <1>8, FieldsReady, Zenon
<1>10. Ready(FsaQuiet(idle, "OUTALLDONE"))
  BY <1>8, <1>9, FinishReady DEF FsaQuiet
<1>11. ASSUME left.q # <<>> PROVE Ready(XmitIfWeCan(popped))
  <2>1. Sound(popped)
    <3>1. c.outq.q # <<>> /\ Listed(popped)
      BY <1>3, <1>6, <1>11 DEF Sound, Listed
    <3> QED
      BY <1>5, <1>6, <1>11, <3>1, Zenon DEF Sound
  <2> QED
    BY <1>9, <2>1, XmitReady
<1> QED
  BY <1>1, <1>9, <1>10, <1>11, Zenon

-------------------------------------------------------------------------------
(* Where no end that has sent or received anything is reset, destroyed or       *)
(* restarted, the way from n to its peer is Steady: the numbers of what is      *)
(* queued have no gap, what is under way was awaited when it was sent, and the  *)
(* peer awaits one frameset at a time.  Outgoing and Incoming are what the two  *)
(* sides of a connection may be while an action of n runs.                      *)

\* An end gives out one session id, that of its process.
OutputStay ==
  \A n \in Node : conn'[n].outq.sess # conn[n].outq.sess =>
                    conn[n].outq.sess = 0 /\ conn'[n].outq.sess = procSess[n]

\* No end that has sent something is reset, destroyed or restarted.
OutputStays == [][OutputStay]_vars

\* A frameset of the session, up to number k.
Within(f, sess, k) == f.sess > 0 /\ f.sess = sess /\ 1 <= f.seq /\ f.seq <= k

\* Framesets of that session arrive in a queue of input, one at a time.
Arrives(fq, sess) ==
  /\ 1 <= fq.next /\ fq.sess \in {0, sess}
  /\ fq.sess = 0 => fq.next = 1 /\ fq.q = <<>>
  /\ Awaits(fq)

\* A queue of output without a gap, whose head the peer awaits or has read.
Leaves(fq, k) ==
  /\ Gapless(fq) /\ Base(fq) <= k
  /\ \A f \in Held(fq) : f.kind # "ack" /\ f.sess > 0 /\ f.sess = fq.sess

Steady(n) ==
  LET o == conn[n].outq
      c == conn[Peer(n)]
  IN  /\ procSess[n] > 0
      /\ Leaves(o, c.inq.next)
      /\ Arrives(c.inq, o.sess)
      /\ \A f \in Pool(n) : Within(f, o.sess, c.inq.next)
      /\ \A t \in AckNumbers(n) : t[2] < c.inq.next

\* A connection where nothing is being done.
Settles(c) ==
  /\ c.tx = {} /\ Ready(c)
  /\ ~c.present => c.outq = EmptyQueue /\ c.inq = EmptyQueue /\ c.lastacksent = NoSeqno

SteadyState == \A n \in Node : Steady(n) /\ Settles(conn[n])

Outgoing(n, c) ==
  LET k == conn[Peer(n)].inq.next
  IN  /\ c.outq.sess \in {conn[n].outq.sess, EnqSession(conn[n].outq, procSess[n])}
      /\ Leaves(c.outq, k)
      /\ \A f \in Sequenced(c.tx) : Within(f, c.outq.sess, k)

Incoming(n, c) ==
  LET s == conn[Peer(n)].outq.sess
  IN  /\ conn[n].inq.next <= c.inq.next
      /\ conn[n].inq.sess = 0 => c.inq.next = 1
      /\ Arrives(c.inq, s)
      /\ \A f \in Held(c.inq) : Within(f, s, c.inq.next)
      /\ \A t \in {c.lastacksent} \cup NumbersOf(c.tx \ Sequenced(c.tx)) : t[2] < c.inq.next

\* The connection was reset after it had sent, or after it had received, something.
GaveUp(n, c) == c.outq.sess > EnqSession(conn[n].outq, procSess[n])
Forgot(n, c) == conn[n].inq.sess # 0 /\ c.inq.sess = 0

Tracks(n, c) == GaveUp(n, c) \/ Forgot(n, c) \/ (Outgoing(n, c) /\ Incoming(n, c))

\* The numbers and session ids that these speak of are natural numbers.
LEMMA SteadyTypes ==
  ASSUME IInv, NEW n \in Node
  PROVE  LET p == Peer(n)
         IN  /\ p \in Node /\ p # n /\ Peer(p) = n
             /\ conn[n] \in Conn /\ conn[p] \in Conn /\ procSess[n] \in Nat
             /\ conn[n].outq \in Queue /\ conn[p].outq \in Queue
             /\ conn[n].inq \in Queue /\ conn[p].inq \in Queue
             /\ conn[n].outq.sess \in Nat /\ conn[p].outq.sess \in Nat
             /\ conn[n].inq.sess \in Nat /\ conn[p].inq.sess \in Nat
             /\ conn[n].inq.next \in Nat /\ conn[p].inq.next \in Nat
             /\ EnqSession(conn[n].outq, procSess[n]) \in Nat
<1> DEFINE p == Peer(n)
<1>1. p \in Node /\ p # n /\ Peer(p) = n
  BY PeerType
<1> HIDE DEF p
<1>2. conn[n] \in Conn /\ conn[p] \in Conn /\ procSess[n] \in Nat
  BY <1>1 DEF IInv, TypeOK
<1>3. /\ conn[n].outq \in Queue /\ conn[p].outq \in Queue
      /\ conn[n].inq \in Queue /\ conn[p].inq \in Queue
  BY <1>2 DEF Conn
<1>4. /\ conn[n].outq.sess \in Nat /\ conn[p].outq.sess \in Nat
      /\ conn[n].inq.sess \in Nat /\ conn[p].inq.sess \in Nat
      /\ conn[n].inq.next \in Nat /\ conn[p].inq.next \in Nat
  BY <1>3 DEF Queue
<1>5. EnqSession(conn[n].outq, procSess[n]) \in Nat
  BY <1>2, <1>4 DEF EnqSession
<1> QED
  BY <1>1, <1>2, <1>3, <1>4, <1>5 DEF p

\* What is quiet keeps the output, or gives up on it.
LEMMA QuietOutgoing ==
  ASSUME Window <= 2, IInv, SteadyState, NEW n \in Node, NEW c \in Conn, NEW d \in Conn, NEW K,
         Quiet(c, d, K), Outgoing(n, c)
  PROVE  GaveUp(n, d) \/ Outgoing(n, d)
<1> DEFINE s0 == conn[n].outq.sess
           s1 == EnqSession(conn[n].outq, procSess[n])
           k == conn[Peer(n)].inq.next
<1>1. /\ s0 \in Nat /\ s1 \in Nat /\ k \in Nat /\ procSess[n] \in Nat
      /\ c.outq \in Queue /\ d.outq \in Queue /\ c.outq.sess \in Nat /\ d.outq.sess \in Nat
  BY SteadyTypes DEF Conn, Queue
<1>2. s0 # 0 => s1 = s0
  BY DEF EnqSession
<1>3. 1 <= k
  BY SteadyTypes DEF SteadyState, Steady, Arrives
<1>4. /\ c.outq.sess \in {s0, s1} /\ Leaves(c.outq, k)
      /\ \A f \in Sequenced(c.tx) : Within(f, c.outq.sess, k)
  BY Zenon DEF Outgoing
<1>5. OutputKept(c, d) /\ d.tx \subseteq c.tx \cup Due(c.outq) \cup Acks(K)
  BY Zenon DEF Quiet
<1>6. Sequenced(Acks(K)) = {}
  BY DEF Sequenced, Acks, AckFrameSet
<1>7. Sequenced(d.tx) \subseteq Sequenced(c.tx) \cup Due(c.outq)
  BY <1>5, <1>6 DEF Sequenced
<1>8. GaveUp(n, d) <=> d.outq.sess > s1
  BY DEF GaveUp
<1>9. Outgoing(n, d) <=> /\ d.outq.sess \in {s0, s1} /\ Leaves(d.outq, k)
                         /\ \A f \in Sequenced(d.tx) : Within(f, d.outq.sess, k)
  BY Zenon DEF Outgoing
<1> HIDE DEF s0, s1, k
<1>10. ASSUME NEW f \in Due(c.outq) PROVE f \in Held(c.outq) /\ Within(f, c.outq.sess, k)
  <2>1. PICK i \in DOMAIN c.outq.q : f = c.outq.q[i] /\ (i = 1 \/ Window > 2)
    BY <1>10 DEF Due
  <2>2. i = 1 /\ f \in Held(c.outq) /\ c.outq.q # <<>>
    BY <2>1, WindowAssumption DEF Held
  <2>3. Gapless(c.outq) /\ Base(c.outq) <= k /\ f.sess > 0 /\ f.sess = c.outq.sess
    BY <1>4, <2>2 DEF Leaves
  <2>4. f.seq = Base(c.outq) /\ 1 <= Base(c.outq) /\ Base(c.outq) \in Nat
    BY <1>1, <2>1, <2>2, <2>3, GaplessPositive
  <2> QED
    BY <2>2, <2>3, <2>4 DEF Within
<1>11. CASE d.outq = c.outq
  <2>1. \A f \in Sequenced(d.tx) : Within(f, d.outq.sess, k)
    BY <1>4, <1>7, <1>10, <1>11, Zenon
  <2> QED
    BY <1>4, <1>9, <1>11, <2>1, Zenon
<1>12. CASE d.outq.q = <<>> /\ d.outq.next = 1 /\ c.outq.sess = 0 /\ d.outq.sess = 0
  <2>1. \A f : ~Within(f, c.outq.sess, k)
    BY <1>12 DEF Within
  <2>2. Sequenced(d.tx) = {}
    BY <1>4, <1>7, <1>10, <2>1, Zenon
  <2>3. Gapless(d.outq) /\ Base(d.outq) = 1 /\ Held(d.outq) = {}
    BY <1>12, ResetGapless DEF Held
  <2>4. Leaves(d.outq, k)
    BY <1>3, <2>3 DEF Leaves
  <2>5. d.outq.sess \in {s0, s1}
    BY <1>4, <1>12
  <2> QED
    BY <1>9, <2>2, <2>4, <2>5, Zenon
<1>13. CASE c.outq.sess # 0 /\ d.outq.sess > c.outq.sess
  <2>1. c.outq.sess = s1
    BY <1>1, <1>2, <1>4, <1>13
  <2> QED
    BY <1>8, <1>13, <2>1
<1> QED
  BY <1>5, <1>11, <1>12, <1>13 DEF OutputKept

\* What is quiet keeps the input, or forgets it.
LEMMA QuietIncoming ==
  ASSUME IInv, SteadyState, NEW n \in Node, NEW c \in Conn, NEW d \in Conn, NEW K,
         Quiet(c, d, K), Outgoing(n, c), Incoming(n, c), \A t \in K : t[2] < c.inq.next
  PROVE  Forgot(n, d) \/ Incoming(n, d)
<1> DEFINE s == conn[Peer(n)].outq.sess
           T(e) == {e.lastacksent} \cup NumbersOf(e.tx \ Sequenced(e.tx))
<1>1. /\ conn[n].inq.next \in Nat /\ conn[n].inq.sess \in Nat /\ s \in Nat
      /\ c.inq \in Queue /\ d.inq \in Queue /\ c.inq.next \in Nat
  BY SteadyTypes DEF Conn, Queue
<1>2. /\ conn[n].inq.next <= c.inq.next
      /\ conn[n].inq.sess = 0 => c.inq.next = 1
      /\ Arrives(c.inq, s)
      /\ \A f \in Held(c.inq) : Within(f, s, c.inq.next)
      /\ \A t \in T(c) : t[2] < c.inq.next
  BY Zenon DEF Incoming
<1>3. /\ InputKept(c, d) /\ d.lastacksent \in {c.lastacksent} \cup K
      /\ d.tx \subseteq c.tx \cup Due(c.outq) \cup Acks(K)
  BY Zenon DEF Quiet
<1>4. \A f \in Due(c.outq) : f.kind # "ack"
  <2>1. Due(c.outq) \subseteq Held(c.outq)
    BY DEF Due, Held
  <2> QED
    BY <2>1, Zenon DEF Outgoing, Leaves
<1>5. \A f \in Acks(K) : \E t \in K : SeqnoOf(f)[2] = t[2]
  BY DEF Acks, AckFrameSet, SeqnoOf
<1>6. \A t \in T(d) : t[2] < c.inq.next
  <2>1. ASSUME NEW f \in d.tx \ Sequenced(d.tx) PROVE SeqnoOf(f)[2] < c.inq.next
    <3>1. f.kind = "ack"
      BY <2>1 DEF Sequenced
    <3>2. f \in c.tx \/ f \in Acks(K)
      BY <1>3, <1>4, <2>1, <3>1
    <3>3. CASE f \in c.tx
      <4>1. SeqnoOf(f) \in T(c)
        BY <3>1, <3>3 DEF Sequenced, NumbersOf
      <4> QED
        BY <1>2, <4>1, Zenon
    <3>4. CASE f \in Acks(K)
      BY <1>5, <3>4
    <3> QED
      BY <3>2, <3>3, <3>4
  <2>2. d.lastacksent[2] < c.inq.next
    BY <1>2, <1>3
  <2> QED
    BY <2>1, <2>2 DEF NumbersOf
<1>7. Incoming(n, d) <=>
      /\ conn[n].inq.next <= d.inq.next
      /\ conn[n].inq.sess = 0 => d.inq.next = 1
      /\ Arrives(d.inq, s)
      /\ \A f \in Held(d.inq) : Within(f, s, d.inq.next)
      /\ \A t \in T(d) : t[2] < d.inq.next
  BY Zenon DEF Incoming
<1> HIDE DEF T, s
<1>8. CASE d.inq = c.inq
  BY <1>2, <1>6, <1>7, <1>8, Zenon
<1>9. CASE d.inq = EmptyQueue /\ conn[n].inq.sess # 0
  BY <1>9 DEF Forgot, EmptyQueue
<1>10. CASE d.inq = EmptyQueue /\ conn[n].inq.sess = 0
  <2>1. d.inq.next = 1 /\ d.inq.sess = 0 /\ d.inq.q = <<>> /\ Held(d.inq) = {}
    BY <1>10 DEF EmptyQueue, Held
  <2>2. Arrives(d.inq, s)
    BY <2>1 DEF Arrives, Awaits
  <2>3. c.inq.next = 1 /\ conn[n].inq.next <= d.inq.next
    BY <1>2, <1>10, <2>1
  <2>4. \A t \in T(d) : t[2] < d.inq.next
    BY <1>6, <2>1, <2>3
  <2> QED
    BY <1>7, <2>1, <2>2, <2>3, <2>4, Zenon
<1> QED
  BY <1>3, <1>8, <1>9, <1>10 DEF InputKept

\* Something quiet keeps what an action may have, if it acknowledges what was read.
LEMMA QuietTracks ==
  ASSUME Window <= 2, IInv, SteadyState, NEW n \in Node, NEW c \in Conn, NEW d \in Conn, NEW K,
         Quiet(c, d, K), Tracks(n, c), Incoming(n, c) => \A t \in K : t[2] < c.inq.next
  PROVE  Tracks(n, d)
<1>1. OutputKept(c, d) /\ InputKept(c, d)
  BY Zenon DEF Quiet
<1>2. CASE GaveUp(n, c)
  <2>1. /\ c.outq.sess \in Nat /\ d.outq.sess \in Nat
        /\ EnqSession(conn[n].outq, procSess[n]) \in Nat
    BY SteadyTypes DEF Conn, Queue
  <2>2. GaveUp(n, d)
    BY <1>1, <1>2, <2>1 DEF OutputKept, GaveUp
  <2> QED
    BY <2>2 DEF Tracks
<1>3. CASE Forgot(n, c)
  BY <1>1, <1>3 DEF InputKept, Forgot, EmptyQueue, Tracks
<1>4. CASE Outgoing(n, c) /\ Incoming(n, c)
  <2>1. GaveUp(n, d) \/ Outgoing(n, d)
    BY <1>4, QuietOutgoing
  <2>2. Forgot(n, d) \/ Incoming(n, d)
    BY <1>4, QuietIncoming
  <2> QED
    BY <2>1, <2>2 DEF Tracks
<1> QED
  BY <1>2, <1>3, <1>4 DEF Tracks

\* The same, for what acknowledges nothing new.
LEMMA SilentTracks ==
  ASSUME Window <= 2, IInv, SteadyState, NEW n \in Node, NEW c \in Conn, NEW d \in Conn,
         NEW K, K = {NoSeqno}, Quiet(c, d, K), Tracks(n, c)
  PROVE  Tracks(n, d)
<1>1. c.inq.next \in Nat
  BY DEF Conn, Queue
<1>2. Incoming(n, c) => \A t \in K : t[2] < c.inq.next
  BY <1>1 DEF Incoming, Arrives, NoSeqno
<1> QED
  BY <1>2, QuietTracks

\* A connection with the same input and acknowledgements receives as well.
LEMMA SameIncoming ==
  ASSUME NEW n, NEW c, NEW d, d.inq = c.inq, d.tx = c.tx, d.lastacksent = c.lastacksent
  PROVE  /\ Incoming(n, c) => Incoming(n, d)
         /\ Forgot(n, c) => Forgot(n, d)
BY Zenon DEF Incoming, Forgot

\* A frameset that is queued gets the next number, of the session of the process.
LEMMA EnqTracks ==
  ASSUME IInv, SteadyState, NEW n \in Node, NEW c \in Conn, NEW d \in Conn, Tracks(n, c),
         NEW kind \in Kinds, kind # "ack", NEW val \in Nat,
         d.outq = Enq(c.outq, kind, val, procSess[n]),
         d.tx = c.tx, d.inq = c.inq, d.lastacksent = c.lastacksent
  PROVE  Tracks(n, d)
<1> DEFINE s0 == conn[n].outq.sess
           ps == procSess[n]
           s1 == EnqSession(conn[n].outq, ps)
           k == conn[Peer(n)].inq.next
           e == Added(c.outq, kind, val, ps)
           s == EnqSession(c.outq, ps)
<1>1. /\ s0 \in Nat /\ s1 \in Nat /\ k \in Nat /\ ps \in Nat
      /\ c.outq \in Queue /\ d.outq \in Queue /\ c.outq.sess \in Nat /\ d.outq.sess \in Nat
      /\ c.outq.next \in Nat
  BY SteadyTypes DEF Conn, Queue
<1>2. ps > 0
  BY DEF SteadyState, Steady
<1>3. s1 = IF s0 = 0 THEN ps ELSE s0
  BY DEF EnqSession
<1>4. s = IF c.outq.sess = 0 THEN ps ELSE c.outq.sess
  BY DEF EnqSession
<1>5. /\ Incoming(n, c) => Incoming(n, d)
      /\ Forgot(n, c) => Forgot(n, d)
  BY SameIncoming
<1>6. /\ e.kind = kind /\ e.sess = s
  BY DEF Added
<1>7. d.outq = Enq(c.outq, kind, val, ps)
  OBVIOUS
<1>8. /\ GaveUp(n, c) <=> c.outq.sess > s1
      /\ GaveUp(n, d) <=> d.outq.sess > s1
  BY DEF GaveUp
<1>9. /\ Outgoing(n, c) => /\ c.outq.sess \in {s0, s1} /\ Leaves(c.outq, k)
                           /\ \A f \in Sequenced(c.tx) : Within(f, c.outq.sess, k)
      /\ (/\ d.outq.sess \in {s0, s1} /\ Leaves(d.outq, k)
          /\ \A f \in Sequenced(d.tx) : Within(f, d.outq.sess, k)) => Outgoing(n, d)
  BY Zenon DEF Outgoing
<1> HIDE DEF s0, s1, k, ps, s, e
<1>10. \/ d.outq = c.outq
       \/ /\ Held(d.outq) = Held(c.outq) \cup {e}
          /\ Top(d.outq) = <<s, c.outq.next + 1>>
  <2>1. \/ Enq(c.outq, kind, val, ps) = c.outq
        \/ /\ Held(Enq(c.outq, kind, val, ps)) = Held(c.outq) \cup {Added(c.outq, kind, val, ps)}
           /\ Enq(c.outq, kind, val, ps).q = Append(c.outq.q, Added(c.outq, kind, val, ps))
           /\ Top(Enq(c.outq, kind, val, ps)) = <<EnqSession(c.outq, ps), c.outq.next + 1>>
           /\ Added(c.outq, kind, val, ps) \in FrameSet
    BY <1>1, EnqHeld, Zenon
  <2> QED
    BY <1>7, <2>1 DEF e, s
<1>11. d.outq = c.outq \/ d.outq.sess = s
  BY <1>10 DEF Top
<1>12. ASSUME GaveUp(n, c) PROVE GaveUp(n, d)
  BY <1>1, <1>4, <1>8, <1>11, <1>12
<1>13. ASSUME Outgoing(n, c) PROVE Outgoing(n, d)
  <2>1. /\ c.outq.sess \in {s0, s1} /\ Leaves(c.outq, k)
        /\ \A f \in Sequenced(c.tx) : Within(f, c.outq.sess, k)
    BY <1>9, <1>13
  <2>2. CASE d.outq = c.outq
    BY <1>9, <2>1, <2>2, Zenon
  <2>3. CASE /\ Held(d.outq) = Held(c.outq) \cup {e}
             /\ Top(d.outq) = <<s, c.outq.next + 1>>
    <3>1. d.outq.sess = s
      BY <2>3 DEF Top
    <3>2. d.outq.sess \in {s0, s1} /\ s > 0
      BY <1>1, <1>2, <1>3, <1>4, <2>1, <3>1
    <3>3. Gapless(c.outq) /\ Base(c.outq) <= k
      BY <2>1 DEF Leaves
    <3>4. Gapless(d.outq) /\ Base(d.outq) = Base(c.outq)
      <4>1. Gapless(Enq(c.outq, kind, val, ps)) /\ Base(Enq(c.outq, kind, val, ps)) = Base(c.outq)
        BY <1>1, <3>3, EnqGapless
      <4> QED
        BY <1>7, <4>1
    <3>5. ASSUME NEW f \in Held(d.outq)
          PROVE  f.kind # "ack" /\ f.sess > 0 /\ f.sess = d.outq.sess
      <4>1. CASE f = e
        BY <1>6, <3>1, <3>2, <4>1
      <4>2. CASE f \in Held(c.outq)
        <5>1. f.kind # "ack" /\ f.sess > 0 /\ f.sess = c.outq.sess
          BY <2>1, <4>2, Zenon DEF Leaves
        <5>2. f.sess = d.outq.sess
          BY <1>1, <1>4, <3>1, <5>1
        <5> QED
          BY <5>1, <5>2
      <4> QED
        BY <2>3, <4>1, <4>2
    <3>6. Leaves(d.outq, k)
      BY <3>3, <3>4, <3>5, Zenon DEF Leaves
    <3>7. ASSUME NEW f \in Sequenced(d.tx) PROVE Within(f, d.outq.sess, k)
      <4>1. Within(f, c.outq.sess, k)
        BY <2>1
      <4>2. d.outq.sess = c.outq.sess
        BY <1>1, <1>4, <3>1, <4>1 DEF Within
      <4> QED
        BY <4>1, <4>2
    <3> QED
      BY <1>9, <3>2, <3>6, <3>7, Zenon
  <2> QED
    BY <1>10, <2>2, <2>3
<1> QED
  BY <1>5, <1>12, <1>13, Zenon DEF Tracks

\* send1 queues one more frameset, or drops it.
LEMMA Send1Tracks ==
  ASSUME Window <= 2, IInv, SteadyState, NEW n \in Node, NEW c0, Sound(c0), Tracks(n, c0),
         NEW kind \in Kinds, kind # "ack", NEW val \in Nat
  PROVE  Tracks(n, Send1(c0, kind, val, procSess[n]))
<1>1. c0 \in Conn /\ procSess[n] \in Nat
  BY DEF Sound, IInv, TypeOK
<1>2. CASE InShutdown(c0.state)
  BY <1>2, Zenon DEF Send1
<1>3. CASE ~InShutdown(c0.state)
  <2> DEFINE c == FsaQuiet(c0, "REQSEND")
             K == {NoSeqno}
  <2>1. PICK d : /\ Send1(c0, kind, val, procSess[n]) = XmitIfWeCan(d)
                 /\ Sound(c) /\ c.outq = c0.outq /\ Sound(d)
                 /\ d.outq = Enq(c.outq, kind, val, procSess[n])
                 /\ d.tx = c.tx /\ d.inq = c.inq /\ d.got = c.got
                 /\ d.lastacksent = c.lastacksent
                 /\ d.isready = c.isready /\ d.ipend = c.ipend
    BY <1>1, <1>3, Send1Queues, Zenon
  <2>2. Quiet(c0, c, K)
    BY <1>1, FinishQuiet DEF FsaQuiet
  <2>3. Quiet(d, XmitIfWeCan(d), K)
    BY <2>1, XmitQuiet
  <2>4. XmitIfWeCan(d) \in Conn
    BY <2>1, XmitSound DEF Sound
  <2>5. K = {NoSeqno}
    OBVIOUS
  <2> HIDE DEF c, K
  <2>6. c \in Conn /\ d \in Conn
    BY <2>1 DEF Sound
  <2>7. Tracks(n, c)
    BY <1>1, <2>2, <2>5, <2>6, SilentTracks
  <2>8. Tracks(n, d)
    BY <2>1, <2>6, <2>7, EnqTracks
  <2>9. Tracks(n, XmitIfWeCan(d))
    BY <2>3, <2>4, <2>5, <2>6, <2>8, SilentTracks
  <2> QED
    BY <2>1, <2>9
<1> QED
  BY <1>2, <1>3

\* The automaton acknowledges what was read, and may send a CONNSHUT.
LEMMA FsaTracks ==
  ASSUME Window <= 2, IInv, SteadyState, NEW n \in Node, NEW c, Sound(c), Tracks(n, c),
         NEW input, NEW s \in Seqno, Incoming(n, c) => s[2] < c.inq.next,
         Sound(Fsa(c, input, s, procSess[n]))
  PROVE  Tracks(n, Fsa(c, input, s, procSess[n]))
<1> DEFINE acts == Actions[c.state][input]
           acked1 == IF "ACKME" \in acts THEN AckSeqno(c, s) ELSE c
           shut == IF "SNDSHUT" \in acts THEN Send1(acked1, "connshut", 0, procSess[n]) ELSE acked1
           d == FsaFinish(shut, c.state, input)
           K == {s}
           L == {NoSeqno}
<1>1. Fsa(c, input, s, procSess[n]) = d
  BY Zenon DEF Fsa
<1>2. c \in Conn /\ procSess[n] \in Nat
  BY DEF Sound, IInv, TypeOK
<1>3. Sound(acked1) /\ Tracks(n, acked1)
  <2>1. Sound(AckSeqno(c, s)) /\ Quiet(c, AckSeqno(c, s), K)
    BY <1>2, AckSeqnoSound, AckSeqnoQuiet
  <2>2. AckSeqno(c, s) \in Conn
    BY <2>1 DEF Sound
  <2>3. Incoming(n, c) => \A t \in K : t[2] < c.inq.next
    OBVIOUS
  <2> HIDE DEF K
  <2>4. Tracks(n, AckSeqno(c, s))
    BY <1>2, <2>1, <2>2, <2>3, QuietTracks
  <2> QED
    BY <2>1, <2>4, Zenon
<1> HIDE DEF acked1
<1>4. Sound(shut) /\ Tracks(n, shut)
  <2>1. "connshut" \in Kinds /\ "connshut" # "ack" /\ 0 \in Nat
    BY DEF Kinds
  <2>2. /\ Sound(Send1(acked1, "connshut", 0, procSess[n]))
        /\ Tracks(n, Send1(acked1, "connshut", 0, procSess[n]))
    BY <1>2, <1>3, <2>1, Send1Sound, Send1Tracks
  <2> QED
    BY <1>3, <2>2, Zenon
<1> HIDE DEF shut
<1>5. shut \in Conn /\ d \in Conn
  <2>1. Sound(d)
    BY <1>1
  <2> QED
    BY <1>4, <2>1 DEF Sound
<1>6. Quiet(shut, d, L) /\ L = {NoSeqno}
  BY <1>5, FinishQuiet
<1> HIDE DEF d, L
<1>7. Tracks(n, d)
  BY <1>4, <1>5, <1>6, SilentTracks
<1> QED
  BY <1>1, <1>7

\* An ACK takes off the output what the peer has read.
LEMMA ReceiveAckTracks ==
  ASSUME Window <= 2, IInv, SteadyState, NEW n \in Node, NEW c, Sound(c), Tracks(n, c),
         NEW s \in AckNumbers(n), s \in Seqno
  PROVE  Tracks(n, ReceiveAck(c, s))
<1> DEFINE left == AckThrough(c.outq, s)
           z == 0
           popped == [c EXCEPT !.outq = left, !.tries = z]
           u == Remove(popped.unacked)
           off == "off"
           idle == [popped EXCEPT !.unacked = u, !.rexmit = off]
           K == {NoSeqno}
           k == conn[Peer(n)].inq.next
<1>1. ReceiveAck(c, s) =
        CASE AckRefused(c.outq, s) -> c
          [] ~AckRefused(c.outq, s) /\ left.q # <<>> -> XmitIfWeCan(popped)
          [] OTHER -> IF c.outq.q = <<>> THEN idle ELSE FsaQuiet(idle, "OUTALLDONE")
  BY Zenon DEF ReceiveAck
<1>2. Sound(ReceiveAck(c, s))
  BY ReceiveAckSound
<1>3. c \in Conn /\ c.outq \in Queue /\ c.unacked \in Nat /\ c.outq.next \in Nat
  BY DEF Sound, Conn, Queue
<1>4. /\ left \in Queue /\ (c.outq.q = <<>> => left.q = <<>>)
      /\ Held(left) \subseteq Held(c.outq) /\ left.sess = c.outq.sess
  BY <1>3, AckThroughType, AckThroughHeld DEF Top
<1>5. ASSUME ~AckRefused(c.outq, s), Leaves(c.outq, k) PROVE Leaves(left, k)
  <2>1. s[2] < k
    BY DEF SteadyState, Steady
  <2>2. k \in Nat /\ s[2] \in Nat
    BY SteadyTypes DEF Seqno
  <2>3. s[2] < c.outq.next
    BY <1>3, <1>5, <2>2 DEF AckRefused
  <2>4. Gapless(c.outq) /\ Base(c.outq) <= k
    BY <1>5 DEF Leaves
  <2> HIDE DEF k
  <2>5. Gapless(AckThrough(c.outq, s)) /\ Base(AckThrough(c.outq, s)) <= k
    BY <1>3, <2>1, <2>2, <2>3, <2>4, AckThroughGapless
  <2>6. left = AckThrough(c.outq, s)
    OBVIOUS
  <2> HIDE DEF left
  <2> QED
    BY <1>4, <1>5, <2>5, <2>6 DEF Leaves
<1>6. z \in 0..AckTries /\ off \in Rexmit
  BY SmallTypes
<1> HIDE DEF left, z, off, k
<1>7. popped \in Conn
  BY <1>3, <1>4, <1>6 DEF Conn
<1>8. /\ popped.present = c.present /\ popped.state = c.state /\ popped.outq = left
      /\ popped.unacked = c.unacked /\ popped.shuttimer = c.shuttimer
      /\ popped.complained = c.complained /\ popped.inq = c.inq
      /\ popped.tx = c.tx /\ popped.lastacksent = c.lastacksent
  BY <1>3 DEF Conn
<1> HIDE DEF popped
<1>9. ASSUME ~AckRefused(c.outq, s) PROVE Tracks(n, popped)
  <2>1. GaveUp(n, c) => GaveUp(n, popped)
    BY <1>4, <1>8, Zenon DEF GaveUp
  <2>2. /\ Incoming(n, c) => Incoming(n, popped)
        /\ Forgot(n, c) => Forgot(n, popped)
    BY <1>8, SameIncoming
  <2>3. Outgoing(n, c) => Outgoing(n, popped)
    <3>1. Leaves(c.outq, k) => Leaves(popped.outq, k)
      BY <1>5, <1>8, <1>9
    <3>2. popped.outq.sess = c.outq.sess
      BY <1>4, <1>8
    <3> QED
      BY <1>8, <3>1, <3>2, Zenon DEF Outgoing, k
  <2> QED
    BY <2>1, <2>2, <2>3, Zenon DEF Tracks
<1>10. u \in Nat
  BY <1>3, <1>8, RemoveType
<1> HIDE DEF u
<1>11. /\ idle \in Conn /\ idle.outq = popped.outq /\ idle.inq = popped.inq
       /\ idle.tx = popped.tx /\ idle.lastacksent = popped.lastacksent /\ idle.got = popped.got
  BY <1>6, <1>7, <1>10 DEF Conn
<1> HIDE DEF idle
<1>12. K = {NoSeqno}
  OBVIOUS
<1>13. CASE AckRefused(c.outq, s)
  BY <1>1, <1>13, Zenon
<1>14. CASE ~AckRefused(c.outq, s) /\ left.q # <<>>
  <2>1. Sound(popped)
    <3>1. c.outq.q # <<>> /\ Listed(popped)
      BY <1>4, <1>8, <1>14 DEF Sound, Listed
    <3> QED
      BY <1>7, <1>8, <1>14, <3>1, Zenon DEF Sound
  <2>2. Quiet(popped, XmitIfWeCan(popped), K)
    BY <2>1, XmitQuiet
  <2>3. ReceiveAck(c, s) = XmitIfWeCan(popped)
    BY <1>1, <1>14, Zenon
  <2>4. XmitIfWeCan(popped) \in Conn
    BY <1>2, <2>3 DEF Sound
  <2> HIDE DEF K
  <2>5. Tracks(n, XmitIfWeCan(popped))
    BY <1>7, <1>9, <1>12, <1>14, <2>2, <2>4, SilentTracks
  <2> QED
    BY <2>3, <2>5
<1>15. CASE ~AckRefused(c.outq, s) /\ left.q = <<>>
  <2>1. Quiet(popped, idle, K)
    BY <1>11, QuietFields
  <2>2. Quiet(idle, FsaQuiet(idle, "OUTALLDONE"), K)
    BY <1>11, FinishQuiet DEF FsaQuiet
  <2> HIDE DEF K
  <2>3. Tracks(n, idle)
    BY <1>7, <1>9, <1>11, <1>12, <1>15, <2>1, SilentTracks
  <2>4. CASE c.outq.q = <<>>
    BY <1>1, <1>15, <2>3, <2>4, Zenon
  <2>5. CASE c.outq.q # <<>>
    <3>1. ReceiveAck(c, s) = FsaQuiet(idle, "OUTALLDONE")
      BY <1>1, <1>15, <2>5, Zenon
    <3>2. FsaQuiet(idle, "OUTALLDONE") \in Conn
      BY <1>2, <3>1 DEF Sound
    <3>3. Tracks(n, FsaQuiet(idle, "OUTALLDONE"))
      BY <1>11, <1>12, <2>2, <2>3, <3>2, SilentTracks
    <3> QED
      BY <3>1, <3>3
  <2> QED
    BY <2>4, <2>5
<1> QED
  BY <1>13, <1>14, <1>15

\* What an action starts from: the connection that is there, or a new one.
LEMMA StartTracks ==
  ASSUME IInv, SteadyState, NEW n \in Node
  PROVE  LET c == AddConn(conn[n])
         IN  /\ Sound(c) /\ Tracks(n, c) /\ Ready(c)
             /\ c.inq = conn[n].inq /\ c.outq = conn[n].outq
             /\ conn[n].present => c = conn[n]
<1> DEFINE p == Peer(n)
           o == conn[n]
           i == o.ipend
           u == o.unacked
           new == [NewConn EXCEPT !.ipend = i, !.unacked = u]
           c == AddConn(o)
<1>1. c = IF o.present THEN o ELSE new
  BY Zenon DEF AddConn
<1>2. Sound(c)
  BY AddConnSound DEF IInv, ConnInv
<1>3. /\ o.tx = {} /\ Ready(o)
      /\ ~o.present => o.outq = EmptyQueue /\ o.inq = EmptyQueue /\ o.lastacksent = NoSeqno
  BY Zenon DEF SteadyState, Settles
<1>4. p \in Node /\ Peer(p) = n
  BY PeerType
<1>5. Steady(n) /\ Steady(p)
  BY <1>4, Zenon DEF SteadyState
<1> HIDE DEF i, u
<1>6. /\ new.outq = EmptyQueue /\ new.inq = EmptyQueue /\ new.lastacksent = NoSeqno
      /\ new.tx = {} /\ new.isready = FALSE /\ new.ipend = i
  BY DEF NewConn
<1> HIDE DEF new
<1>7. ~o.present => ~Readable(EmptyQueue) /\ ~o.isready
  BY <1>3 DEF Ready, Readable, EmptyQueue
<1>8. ~o.present => i = 0 /\ Ready(new)
  <2>1. ~o.present => i = 0
    BY <1>3, <1>7, Zenon DEF Ready, i
  <2> QED
    BY <1>6, <1>7, <2>1, Zenon DEF Ready
<1>9. /\ c.outq = o.outq /\ c.inq = o.inq /\ c.lastacksent = o.lastacksent /\ c.tx = {}
      /\ Ready(c)
      /\ o.present => c = o
  BY <1>1, <1>3, <1>6, <1>8, Zenon
<1> HIDE DEF c, o
<1>10. Sequenced(c.tx) = {} /\ NumbersOf(c.tx \ Sequenced(c.tx)) = {}
  BY <1>9 DEF Sequenced, NumbersOf
<1>11. Outgoing(n, c)
  <2>1. Leaves(o.outq, conn[p].inq.next)
    BY <1>5, Zenon DEF Steady, o, p
  <2> QED
    BY <1>9, <1>10, <2>1, Zenon DEF Outgoing, o, p
<1>12. Incoming(n, c)
  <2>1. /\ Arrives(conn[n].inq, conn[p].outq.sess)
        /\ \A f \in Pool(p) : Within(f, conn[p].outq.sess, conn[n].inq.next)
        /\ \A t \in AckNumbers(p) : t[2] < conn[n].inq.next
    BY <1>4, <1>5, Zenon DEF Steady
  <2>2. Held(conn[n].inq) \subseteq Pool(p) /\ conn[n].lastacksent \in AckNumbers(p)
    BY <1>4 DEF Pool, AckNumbers
  <2>3. conn[n].inq.next \in Nat
    BY SteadyTypes
  <2>4. /\ conn[n].inq.next <= c.inq.next
        /\ conn[n].inq.sess = 0 => c.inq.next = 1
    BY <1>9, <2>1, <2>3 DEF Arrives, o
  <2>5. \A t \in {c.lastacksent} \cup NumbersOf(c.tx \ Sequenced(c.tx)) : t[2] < c.inq.next
    BY <1>9, <1>10, <2>1, <2>2, Zenon DEF o
  <2> QED
    BY <1>9, <2>1, <2>2, <2>4, <2>5, Zenon DEF Incoming, o, p
<1>13. Tracks(n, c)
  BY <1>11, <1>12, Zenon DEF Tracks
<1> QED
  BY <1>2, <1>9, <1>13, Zenon DEF o, c

\* A sequenced frameset under way was awaited when it was sent: it is stored as the
\* one that comes next, or refused; the mark is set when it can be read.
LEMMA ReceiveSequencedTracks ==
  ASSUME Window <= 2, IInv, SteadyState, NEW n \in Node,
         NEW c, Sound(c), Tracks(n, c), Ready(c), c.inq = conn[n].inq,
         NEW fs \in FrameSet, fs \in Pool(Peer(n))
  PROVE  /\ Tracks(n, ReceiveSequenced(c, fs)) /\ Ready(ReceiveSequenced(c, fs))
<1> DEFINE q == InqSorted(c.inq, fs)
           sorted == [c EXCEPT !.inq = q]
           again == AckAgain(sorted, fs)
           start == FsaQuiet(sorted, "GOTSTART")
           filed == CASE InqRefused(c.inq, fs) -> again
                      [] ~InqRefused(c.inq, fs) /\ fs.seq = 1 -> start
                      [] OTHER -> sorted
           marked == MarkReady(filed, fs)
           p == Peer(n)
           s0 == conn[p].outq.sess
           K == {c.lastacksent}
           L == {NoSeqno}
<1>1. ReceiveSequenced(c, fs) = XmitIfWeCan(marked)
  BY Zenon DEF ReceiveSequenced
<1>2. c \in Conn /\ c.inq \in Queue /\ c.inq.next \in Nat /\ c.inq.sess \in Nat
  BY DEF Sound, Conn, Queue
<1>3. q \in Queue
  BY <1>2, InqSortedType
<1>4. p \in Node /\ Peer(p) = n
  BY PeerType
<1>5. /\ Arrives(c.inq, s0)
      /\ \A f \in Pool(p) : Within(f, s0, c.inq.next)
      /\ Held(c.inq) \subseteq Pool(p)
  <2>1. Steady(p)
    BY <1>4, Zenon DEF SteadyState
  <2>2. Held(conn[n].inq) \subseteq Pool(p)
    BY <1>4 DEF Pool
  <2> QED
    BY <1>4, <2>1, <2>2, Zenon DEF Steady
<1>6. /\ fs.sess > 0 /\ fs.sess = s0 /\ 1 <= fs.seq /\ fs.seq <= c.inq.next
      /\ \A f \in Held(c.inq) : f.sess = fs.sess
      /\ fs.sess \in Nat /\ fs.seq \in Nat
  BY <1>5 DEF Within, FrameSet
<1>7. /\ 1 <= c.inq.next /\ c.inq.sess \in {0, fs.sess} /\ Awaits(c.inq)
      /\ c.inq.sess = 0 => c.inq.next = 1 /\ c.inq.q = <<>>
  BY <1>5, <1>6 DEF Arrives
<1>8. /\ Awaits(q) /\ q.next = c.inq.next /\ q.sess = fs.sess
      /\ Readable(q) <=> (Readable(c.inq) \/ fs.seq = c.inq.next)
  BY <1>2, <1>6, <1>7, InqSortedAwaits
<1>9. Held(q) \subseteq Held(c.inq) \cup {fs}
  <2>1. OneSession(c.inq)
    BY <1>6, <1>7 DEF OneSession, Held
  <2> QED
    BY <1>2, <1>6, <2>1, InqSortedKeeps
<1>10. Arrives(q, s0) /\ \A f \in Held(q) : Within(f, s0, q.next)
  <2>1. Arrives(q, s0)
    BY <1>6, <1>7, <1>8 DEF Arrives
  <2>2. \A f \in Held(q) : f \in Pool(p)
    BY <1>5, <1>9
  <2> QED
    BY <1>5, <1>8, <2>1, <2>2, Zenon
<1> HIDE DEF q
<1>11. sorted \in Conn
  BY <1>2, <1>3 DEF Conn
<1>12. /\ sorted.present = c.present /\ sorted.state = c.state /\ sorted.outq = c.outq
       /\ sorted.unacked = c.unacked /\ sorted.shuttimer = c.shuttimer
       /\ sorted.complained = c.complained /\ sorted.lastacksent = c.lastacksent
       /\ sorted.tx = c.tx /\ sorted.inq = q
       /\ sorted.isready = c.isready /\ sorted.ipend = c.ipend
  BY <1>2 DEF Conn
<1> HIDE DEF sorted
<1>13. Sound(sorted)
  BY <1>11, <1>12, SoundKept, Zenon
<1>14. Tracks(n, sorted)
  <2>1. GaveUp(n, c) => GaveUp(n, sorted)
    BY <1>12, Zenon DEF GaveUp
  <2>2. ~Forgot(n, c)
    BY DEF Forgot
  <2>3. Outgoing(n, c) => Outgoing(n, sorted)
    BY <1>12, Zenon DEF Outgoing
  <2>4. Incoming(n, c) => Incoming(n, sorted)
    <3>1. sorted.inq.next = c.inq.next
      BY <1>8, <1>12
    <3> QED
      BY <1>10, <1>12, <3>1, Zenon DEF Incoming, s0, p
  <2> QED
    BY <2>1, <2>2, <2>3, <2>4, Zenon DEF Tracks
<1> HIDE DEF s0, p
<1>15. Sound(again) /\ Quiet(sorted, again, K)
  BY <1>11, <1>12, <1>13, AckAgainSound, AckAgainQuiet
<1>16. /\ again.inq = sorted.inq /\ again.isready = sorted.isready /\ again.ipend = sorted.ipend
       /\ Tracks(n, again)
  <2>1. again = sorted \/ again = AckSeqno(sorted, c.lastacksent)
    BY <1>12, Zenon DEF AckAgain
  <2>2. /\ AckSeqno(sorted, c.lastacksent).inq = sorted.inq
        /\ AckSeqno(sorted, c.lastacksent).isready = sorted.isready
        /\ AckSeqno(sorted, c.lastacksent).ipend = sorted.ipend
    <3> DEFINE s == c.lastacksent
               x == sorted.tx \cup {AckFrameSet(s)}
               m == IF Before(sorted.lastacksent, s) THEN s ELSE sorted.lastacksent
    <3>1. AckSeqno(sorted, s) = IF sorted.inq.sess \notin {0, s[1]} THEN sorted
                                ELSE [sorted EXCEPT !.tx = x, !.lastacksent = m]
      BY Zenon DEF AckSeqno
    <3> HIDE DEF s, x, m
    <3> QED
      BY <1>11, <3>1 DEF Conn, s
  <2>3. Incoming(n, sorted) => \A t \in K : t[2] < sorted.inq.next
    BY <1>12, Zenon DEF Incoming
  <2>4. again \in Conn
    BY <1>15 DEF Sound
  <2> HIDE DEF again, K
  <2>5. Tracks(n, again)
    BY <1>11, <1>14, <1>15, <2>3, <2>4, QuietTracks
  <2> QED
    BY <2>1, <2>2, <2>5
<1>17. /\ Sound(start) /\ Tracks(n, start)
       /\ start.inq = sorted.inq /\ start.isready = sorted.isready /\ start.ipend = sorted.ipend
  <2>1. Sound(start)
    BY <1>13, StartSound
  <2>2. Quiet(sorted, start, L)
    BY <1>11, FinishQuiet DEF FsaQuiet
  <2>3. start \in Conn /\ L = {NoSeqno}
    BY <2>1 DEF Sound
  <2> HIDE DEF L
  <2>4. Tracks(n, start)
    <3> HIDE DEF start
    <3> QED
      BY <1>11, <1>14, <2>2, <2>3, SilentTracks
  <2>5. start.inq = sorted.inq /\ start.isready = sorted.isready /\ start.ipend = sorted.ipend
    <3>1. sorted.state \in FsProtoState
      BY <1>11 DEF Conn
    <3>2. Actions[sorted.state]["GOTSTART"] = {}
      BY <3>1, TableStart
    <3> DEFINE acts == Actions[sorted.state]["GOTSTART"]
               next == NextState[sorted.state]["GOTSTART"]
               t == (sorted.shuttimer \/ "TIMER" \in acts) /\ ~("NOTIME" \in acts)
               timed == [sorted EXCEPT !.shuttimer = t]
               w == \/ timed.complained
                    \/ "OOPS" \in acts
                    \/ next = "NONE" /\ sorted.state # "NONE" /\ timed.outq.q # <<>>
    <3>3. start = [timed EXCEPT !.state = next, !.complained = w]
      BY <3>2, Zenon DEF FsaQuiet, FsaFinish
    <3> HIDE DEF start, next, t, w
    <3> QED
      BY <1>11, <3>3 DEF Conn
  <2> QED
    BY <2>1, <2>4, <2>5
<1> HIDE DEF again, start
<1>18. /\ Sound(filed) /\ Tracks(n, filed)
       /\ filed.inq = q /\ filed.isready = c.isready /\ filed.ipend = c.ipend
  BY <1>12, <1>13, <1>14, <1>15, <1>16, <1>17, Zenon
<1> HIDE DEF filed
<1>19. Sound(marked) /\ Quiet(filed, marked, L) /\ filed \in Conn /\ marked \in Conn
  BY <1>18, MarkReadySound, MarkReadyQuiet DEF Sound
<1>20. L = {NoSeqno}
  OBVIOUS
<1>21. Ready(marked)
  <2> DEFINE i == filed.ipend + 1
             yes == TRUE
             d == [filed EXCEPT !.ipend = i, !.isready = yes]
  <2>1. marked = IF ~filed.isready /\ fs.seq = filed.inq.next THEN d ELSE filed
    BY Zenon DEF MarkReady
  <2>2. filed.isready <=> Readable(c.inq)
    BY <1>18 DEF Ready
  <2>3. filed.ipend = IF filed.isready THEN 1 ELSE 0
    BY <1>18, Zenon DEF Ready
  <2> HIDE DEF i, yes
  <2>4. d.inq = filed.inq /\ d.isready = yes /\ d.ipend = i
    BY <1>19 DEF Conn
  <2>5. CASE ~filed.isready /\ fs.seq = filed.inq.next
    <3>1. marked.inq = q /\ marked.isready /\ marked.ipend = 1
      BY <1>18, <2>1, <2>3, <2>4, <2>5 DEF i, yes
    <3>2. Readable(q)
      BY <1>8, <1>18, <2>5
    <3> QED
      BY <3>1, <3>2 DEF Ready
  <2>6. CASE ~(~filed.isready /\ fs.seq = filed.inq.next)
    <3>1. marked = filed
      BY <2>1, <2>6
    <3>2. filed.isready <=> Readable(q)
      BY <1>8, <1>18, <2>2, <2>6
    <3> QED
      BY <1>18, <2>3, <3>1, <3>2, Zenon DEF Ready
  <2> QED
    BY <2>5, <2>6
<1> HIDE DEF marked, L
<1>22. Tracks(n, marked)
  BY <1>18, <1>19, <1>20, SilentTracks
<1>23. /\ Sound(XmitIfWeCan(marked)) /\ Quiet(marked, XmitIfWeCan(marked), L)
       /\ Ready(XmitIfWeCan(marked))
  <2>1. Quiet(marked, XmitIfWeCan(marked), L)
    BY <1>19, XmitQuiet DEF L
  <2>2. Sound(XmitIfWeCan(marked)) /\ Ready(XmitIfWeCan(marked))
    BY <1>19, <1>21, XmitSound, XmitReady
  <2> QED
    BY <2>1, <2>2
<1>24. XmitIfWeCan(marked) \in Conn
  BY <1>23 DEF Sound
<1>25. Tracks(n, XmitIfWeCan(marked))
  BY <1>19, <1>20, <1>22, <1>23, <1>24, SilentTracks
<1> QED
  BY <1>1, <1>23, <1>25

\* deq moves on to the next number of the same session.
LEMMA DeqFields ==
  ASSUME NEW fq \in Queue
  PROVE  Deq(fq).next = fq.next + 1 /\ Deq(fq).sess = fq.sess
<1> DEFINE t == Tail(fq.q)  k == fq.next + 1  d == [fq EXCEPT !.q = t, !.next = k]
<1>1. Deq(fq) = d
  BY Zenon DEF Deq
<1>2. k = fq.next + 1
  OBVIOUS
<1> HIDE DEF t, k
<1>3. d.next = k /\ d.sess = fq.sess
  BY DEF Queue
<1> QED
  BY <1>1, <1>2, <1>3

\* Reading takes the only frameset there is, and with it the mark.
LEMMA ReadOneTracks ==
  ASSUME Window <= 2, IInv, SteadyState, NEW n \in Node,
         NEW c, c = conn[n], Sound(c), Readable(c.inq)
  PROVE  LET d == ReadOne(c, procSess[n])
             fs == Head(c.inq.q)
         IN  Tracks(n, d) /\ Ready(d) /\ (Forgot(n, d) \/ fs.seq < d.inq.next)
<1> DEFINE fs == Head(c.inq.q)
           rest == Deq(c.inq)
           more == Readable(rest)
           i == IF more THEN c.ipend ELSE Remove(c.ipend)
           g == IF fs.kind = "data" THEN Append(c.got, fs.val) ELSE c.got
           taken == [c EXCEPT !.inq = rest, !.isready = more, !.ipend = i, !.got = g]
           told == Fsa(taken, "RCVSHUTDOWN", SeqnoOf(fs), procSess[n])
           d == IF fs.kind = "connshut" THEN told ELSE taken
           p == Peer(n)
           s0 == conn[p].outq.sess
           K == {NoSeqno}
<1>1. ReadOne(c, procSess[n]) = XmitIfWeCan(d)
  BY Zenon DEF ReadOne
<1>2. c \in Conn /\ c.inq \in Queue /\ c.ipend \in Nat /\ c.got \in Seq(Nat) /\ c.inq.q # <<>>
      /\ procSess[n] \in Nat /\ c.inq.next \in Nat /\ c.inq.sess \in Nat
  BY DEF Sound, Conn, Readable, IInv, TypeOK, Queue
<1>3. rest \in Queue /\ fs \in FrameSet
  BY <1>2, DeqType
<1>4. fs.val \in Nat /\ SeqnoOf(fs) \in Seqno /\ SeqnoOf(fs)[2] = fs.seq /\ fs.seq \in Nat
  BY <1>3 DEF FrameSet, SeqnoOf, Seqno
<1>5. more \in BOOLEAN
  BY Zenon DEF Readable
<1>6. i \in Nat
  BY <1>2, RemoveType
<1>7. g \in Seq(Nat)
  BY <1>2, <1>4, AppendProperties
<1>8. Tracks(n, c) /\ Ready(c)
  <2>1. c.present
    BY DEF Sound
  <2> QED
    BY <2>1, StartTracks
<1>9. Arrives(c.inq, s0) /\ Arrives(conn[n].inq, s0)
  <2>1. p \in Node /\ Peer(p) = n
    BY PeerType
  <2> QED
    BY <2>1, Zenon DEF SteadyState, Steady
<1>10. /\ rest.q = <<>> /\ fs.seq = c.inq.next
       /\ rest.next = c.inq.next + 1 /\ rest.sess = c.inq.sess
  BY <1>2, <1>9, DeqAwaits, DeqFields DEF Arrives
<1>11. ~more
  BY <1>10 DEF Readable
<1>12. i = 0
  <2>1. c.ipend = 1
    BY <1>8 DEF Ready
  <2> QED
    BY <1>11, <2>1 DEF Remove
<1> HIDE DEF rest, more, i, g, fs
<1>13. Sound(taken)
  BY <1>3, <1>5, <1>6, <1>7, InputSound, Zenon
<1>14. /\ taken.inq = rest /\ taken.outq = c.outq /\ taken.tx = c.tx
       /\ taken.lastacksent = c.lastacksent /\ taken.isready = more /\ taken.ipend = i
  BY <1>2 DEF Conn
<1> HIDE DEF taken
<1>15. Ready(taken)
  BY <1>10, <1>11, <1>12, <1>14 DEF Ready, Readable
<1>16. Incoming(n, c) => Incoming(n, taken)
  <2> DEFINE T == {taken.lastacksent} \cup NumbersOf(taken.tx \ Sequenced(taken.tx))
  <2>1. Incoming(n, c) => \A t \in T : t[2] < c.inq.next
    BY <1>14, Zenon DEF Incoming
  <2>2. \A t \in T : t \in Seqno
    <3>1. taken.tx \subseteq FrameSet /\ taken.lastacksent \in Seqno
      BY <1>13 DEF Sound, Conn
    <3>2. NumbersOf(taken.tx \ Sequenced(taken.tx)) \subseteq Seqno
      BY <3>1 DEF NumbersOf, FrameSet, SeqnoOf, Seqno
    <3> QED
      BY <3>1, <3>2
  <2>3. Incoming(n, taken) <=>
          /\ conn[n].inq.next <= taken.inq.next
          /\ conn[n].inq.sess = 0 => taken.inq.next = 1
          /\ Arrives(taken.inq, s0)
          /\ \A f \in Held(taken.inq) : Within(f, s0, taken.inq.next)
          /\ \A t \in T : t[2] < taken.inq.next
    BY Zenon DEF Incoming
  <2> HIDE DEF T, s0
  <2>4. taken.inq.next = c.inq.next + 1 /\ Held(taken.inq) = {}
    BY <1>10, <1>14 DEF Held
  <2>5. c.inq.sess # 0 /\ conn[n].inq.sess # 0 /\ Arrives(taken.inq, s0)
    BY <1>2, <1>9, <1>10, <1>14 DEF Arrives, Awaits
  <2>6. conn[n].inq.next <= taken.inq.next
    BY <1>2, <2>4
  <2>7. Incoming(n, c) => \A t \in T : t[2] < taken.inq.next
    <3> SUFFICES ASSUME Incoming(n, c), NEW t \in T PROVE t[2] < taken.inq.next
      OBVIOUS
    <3>1. t[2] < c.inq.next /\ t[2] \in Nat
      BY <2>1, <2>2 DEF Seqno
    <3> QED
      BY <1>2, <2>4, <3>1
  <2> QED
    BY <2>3, <2>4, <2>5, <2>6, <2>7
<1>17. Tracks(n, taken)
  <2>1. GaveUp(n, c) => GaveUp(n, taken)
    BY <1>14, Zenon DEF GaveUp
  <2>2. Outgoing(n, c) => Outgoing(n, taken)
    BY <1>14, Zenon DEF Outgoing
  <2>3. ~Forgot(n, c)
    BY DEF Forgot
  <2> QED
    BY <1>8, <1>16, <2>1, <2>2, <2>3, Zenon DEF Tracks
<1>18. SeqnoOf(fs)[2] < taken.inq.next
  BY <1>2, <1>4, <1>10, <1>14
<1>19. Sound(told)
  BY <1>2, <1>4, <1>13, PeerClosesSound
<1>20. InputKept(taken, told) /\ Tracks(n, told) /\ Ready(told)
  <2>1. Tracks(n, told)
    BY <1>4, <1>13, <1>17, <1>18, <1>19, FsaTracks
  <2>2. InputKept(taken, told)
    BY <1>2, <1>4, <1>13, <1>19, FsaInput
  <2>3. Ready(told)
    BY <1>2, <1>4, <1>13, <1>15, FsaReady
  <2> QED
    BY <2>1, <2>2, <2>3
<1> HIDE DEF told
<1>21. Sound(d) /\ InputKept(taken, d) /\ Tracks(n, d) /\ Ready(d)
  BY <1>13, <1>15, <1>17, <1>19, <1>20, Zenon DEF InputKept
<1> HIDE DEF d
<1> DEFINE e == XmitIfWeCan(d)
<1>22. Quiet(d, e, K) /\ Sound(e) /\ Ready(e) /\ K = {NoSeqno}
  <2>1. Quiet(d, e, K)
    BY <1>21, XmitQuiet
  <2>2. Sound(e) /\ Ready(e)
    BY <1>21, XmitSound, XmitReady
  <2> QED
    BY <2>1, <2>2
<1>23. d \in Conn /\ e \in Conn
  BY <1>21, <1>22 DEF Sound
<1> HIDE DEF e, K
<1>24. Tracks(n, e)
  BY <1>21, <1>22, <1>23, SilentTracks
<1>25. InputKept(taken, e)
  BY <1>21, <1>22, InputTrans, Zenon DEF Quiet
<1>26. Forgot(n, e) \/ fs.seq < e.inq.next
  <2>1. CASE e.inq = taken.inq
    BY <1>4, <1>18, <2>1
  <2>2. CASE e.inq = EmptyQueue
    BY <1>2, <1>9, <2>2 DEF Forgot, EmptyQueue, Arrives
  <2> QED
    BY <1>25, <2>1, <2>2 DEF InputKept
<1> QED
  BY <1>1, <1>22, <1>24, <1>26 DEF e, fs

\* Nothing else is on its way, and nothing else is acknowledged, than what was or
\* what the step has made.
LEMMA StepFlow ==
  ASSUME IInv, NEW n \in Node, NEW d, Sound(d), NEW received, Step(n, d, received),
         toack'[Peer(n)] = toack[Peer(n)],
         NEW X, \A i \in DOMAIN toack'[n] : toack'[n][i] \in {toack[n][j] : j \in DOMAIN toack[n]} \cup X
  PROVE  LET p == Peer(n)
         IN  /\ Pool(n)' = Pool(n) \cup Sequenced(d.tx)
             /\ Pool(p)' \subseteq Pool(p) \cup Held(d.inq)
             /\ AckNumbers(n)' \subseteq AckNumbers(n)
             /\ AckNumbers(p)' \subseteq AckNumbers(p) \cup X \cup {d.lastacksent}
                                           \cup NumbersOf(d.tx \ Sequenced(d.tx))
<1> DEFINE p == Peer(n)
<1>1. p \in Node /\ p # n /\ Peer(p) = n
  BY PeerType
<1>2. /\ conn'[p] = conn[p]
      /\ conn'[n].outq = d.outq /\ conn'[n].inq = d.inq
      /\ conn'[n].lastacksent = d.lastacksent /\ conn'[n].tx = {}
      /\ net'[p] = net[p] \cup d.tx /\ net'[n] \subseteq net[n]
  BY StepConn
<1>3. /\ Pool(n) = Sequenced(net[p]) \cup Held(conn[p].inq)
      /\ Pool(n)' = Sequenced(net'[p]) \cup Held(conn'[p].inq)
      /\ Pool(p)' = Sequenced(net'[n]) \cup Held(conn'[n].inq)
      /\ Pool(p) = Sequenced(net[n]) \cup Held(conn[n].inq)
  BY <1>1 DEF Pool
<1>4. /\ Sequenced(net'[p]) = Sequenced(net[p]) \cup Sequenced(d.tx)
      /\ Sequenced(net'[n]) \subseteq Sequenced(net[n])
      /\ net'[n] \ Sequenced(net'[n]) \subseteq net[n] \ Sequenced(net[n])
      /\ net'[p] \ Sequenced(net'[p]) \subseteq (net[p] \ Sequenced(net[p])) \cup (d.tx \ Sequenced(d.tx))
  BY <1>2 DEF Sequenced
<1>5. /\ AckNumbers(n) = {NoSeqno, conn[p].lastacksent} \cup {toack[p][i] : i \in DOMAIN toack[p]}
                           \cup NumbersOf(net[n] \ Sequenced(net[n]))
      /\ AckNumbers(n)' = {NoSeqno, conn'[p].lastacksent}
                            \cup {toack'[p][i] : i \in DOMAIN toack'[p]}
                            \cup NumbersOf(net'[n] \ Sequenced(net'[n]))
  BY DEF AckNumbers
<1>6. /\ AckNumbers(p) = {NoSeqno, conn[n].lastacksent} \cup {toack[n][i] : i \in DOMAIN toack[n]}
                           \cup NumbersOf(net[p] \ Sequenced(net[p]))
      /\ AckNumbers(p)' = {NoSeqno, conn'[n].lastacksent}
                            \cup {toack'[n][i] : i \in DOMAIN toack'[n]}
                            \cup NumbersOf(net'[p] \ Sequenced(net'[p]))
  BY <1>1 DEF AckNumbers
<1>7. /\ NumbersOf(net'[n] \ Sequenced(net'[n])) \subseteq NumbersOf(net[n] \ Sequenced(net[n]))
      /\ NumbersOf(net'[p] \ Sequenced(net'[p])) \subseteq
           NumbersOf(net[p] \ Sequenced(net[p])) \cup NumbersOf(d.tx \ Sequenced(d.tx))
  BY <1>4 DEF NumbersOf
<1>8. toack'[p] = toack[p]
  OBVIOUS
<1>9. {toack'[n][i] : i \in DOMAIN toack'[n]} \subseteq {toack[n][j] : j \in DOMAIN toack[n]} \cup X
  OBVIOUS
<1> HIDE DEF p
<1>10. Pool(n)' = Pool(n) \cup Sequenced(d.tx) /\ Pool(p)' \subseteq Pool(p) \cup Held(d.inq)
  BY <1>2, <1>3, <1>4
<1>11. AckNumbers(n)' \subseteq AckNumbers(n)
  BY <1>2, <1>5, <1>7, <1>8
<1>12. AckNumbers(p)' \subseteq AckNumbers(p) \cup X \cup {d.lastacksent}
                                  \cup NumbersOf(d.tx \ Sequenced(d.tx))
  BY <1>2, <1>6, <1>7, <1>9
<1> QED
  BY <1>10, <1>11, <1>12 DEF p

\* What an action has made of a connection is as steady as what it found, if it
\* did not reset a connection that had been used.
LEMMA StepSteady ==
  ASSUME IInv, SteadyState, Keep, OutputStay, NEW n \in Node, NEW d, Sound(d),
         NEW received, Step(n, d, received), Tracks(n, d), Ready(d),
         procSess' = procSess, toack'[Peer(n)] = toack[Peer(n)],
         NEW X, \A i \in DOMAIN toack'[n] : toack'[n][i] \in {toack[n][j] : j \in DOMAIN toack[n]} \cup X,
         Forgot(n, d) \/ \A t \in X : t[2] < d.inq.next
  PROVE  SteadyState'
<1> DEFINE p == Peer(n)
           c == conn[n]
           e == conn'[n]
           o == conn[p]
           ps == procSess[n]
<1>1. p \in Node /\ p # n /\ Peer(p) = n /\ \A m \in Node : m = n \/ m = p
  BY PeerType DEF Node, Peer
<1>2. /\ conn'[p] = o /\ e.outq = d.outq /\ e.inq = d.inq /\ e.lastacksent = d.lastacksent
      /\ e.isready = d.isready /\ e.ipend = d.ipend /\ e.present = d.present /\ e.tx = {}
  BY StepConn
<1>3. /\ Pool(n)' = Pool(n) \cup Sequenced(d.tx)
      /\ Pool(p)' \subseteq Pool(p) \cup Held(d.inq)
      /\ AckNumbers(n)' \subseteq AckNumbers(n)
      /\ AckNumbers(p)' \subseteq AckNumbers(p) \cup X \cup {d.lastacksent}
                                    \cup NumbersOf(d.tx \ Sequenced(d.tx))
  BY StepFlow
<1>4. /\ c.outq.sess \in Nat /\ o.outq.sess \in Nat /\ ps \in Nat
      /\ c.inq.sess \in Nat /\ o.inq.sess \in Nat /\ c.inq.next \in Nat /\ o.inq.next \in Nat
      /\ d.outq.sess \in Nat /\ d.inq.next \in Nat
  BY SteadyTypes DEF Sound, Conn, Queue
<1>5. /\ ps > 0 /\ procSess[p] > 0
      /\ Leaves(c.outq, o.inq.next) /\ Leaves(o.outq, c.inq.next)
      /\ Arrives(o.inq, c.outq.sess) /\ Arrives(c.inq, o.outq.sess)
      /\ \A f \in Pool(n) : Within(f, c.outq.sess, o.inq.next)
      /\ \A f \in Pool(p) : Within(f, o.outq.sess, c.inq.next)
      /\ \A t \in AckNumbers(n) : t[2] < o.inq.next
      /\ \A t \in AckNumbers(p) : t[2] < c.inq.next
      /\ Settles(o)
  BY <1>1, Zenon DEF SteadyState, Steady
<1>6. ~Forgot(n, d)
  BY <1>2 DEF Keep, Forgot
<1>7. ~GaveUp(n, d)
  <2>1. d.outq.sess # c.outq.sess => c.outq.sess = 0 /\ d.outq.sess = ps
    BY <1>2 DEF OutputStay
  <2>2. EnqSession(c.outq, ps) = IF c.outq.sess = 0 THEN ps ELSE c.outq.sess
    BY DEF EnqSession
  <2>3. GaveUp(n, d) <=> d.outq.sess > EnqSession(c.outq, ps)
    BY DEF GaveUp
  <2> HIDE DEF c, ps
  <2> QED
    BY <1>4, <2>1, <2>2, <2>3
<1>8. Outgoing(n, d) /\ Incoming(n, d)
  BY <1>6, <1>7 DEF Tracks
<1>9. /\ Leaves(d.outq, o.inq.next)
      /\ \A f \in Sequenced(d.tx) : Within(f, d.outq.sess, o.inq.next)
  BY <1>8, Zenon DEF Outgoing
<1>10. /\ c.inq.next <= d.inq.next /\ Arrives(d.inq, o.outq.sess)
       /\ \A f \in Held(d.inq) : Within(f, o.outq.sess, d.inq.next)
       /\ \A t \in {d.lastacksent} \cup NumbersOf(d.tx \ Sequenced(d.tx)) : t[2] < d.inq.next
  BY <1>8, Zenon DEF Incoming
<1>11. d.outq.sess = c.outq.sess \/ c.outq.sess = 0
  BY <1>2 DEF OutputStay
<1>12. \A f \in Pool(n) \cup Sequenced(d.tx) : Within(f, d.outq.sess, o.inq.next)
  <2> SUFFICES ASSUME NEW f \in Pool(n) PROVE Within(f, d.outq.sess, o.inq.next)
    BY <1>9
  <2>1. Within(f, c.outq.sess, o.inq.next)
    BY <1>5
  <2>2. c.outq.sess # 0
    BY <2>1 DEF Within
  <2> QED
    BY <1>11, <2>1, <2>2
<1>13. Arrives(o.inq, d.outq.sess)
  BY <1>4, <1>5, <1>11 DEF Arrives
<1>14. \A f \in Pool(p) \cup Held(d.inq) : Within(f, o.outq.sess, d.inq.next)
  <2> SUFFICES ASSUME NEW f \in Pool(p) PROVE Within(f, o.outq.sess, d.inq.next)
    BY <1>10
  <2>1. Within(f, o.outq.sess, c.inq.next) /\ f \in FrameSet
    BY <1>1, <1>5, PoolType
  <2> QED
    BY <1>4, <1>10, <2>1 DEF Within, FrameSet
<1>15. \A t \in AckNumbers(p) \cup X \cup {d.lastacksent} \cup NumbersOf(d.tx \ Sequenced(d.tx)) :
         t[2] < d.inq.next
  <2>1. ASSUME NEW t \in AckNumbers(p) PROVE t[2] < d.inq.next
    <3>1. t \in Seqno /\ t[2] < c.inq.next
      BY <1>1, <1>5, <2>1, AckNumbersType
    <3> QED
      BY <1>4, <1>10, <3>1 DEF Seqno
  <2> QED
    BY <1>6, <1>10, <2>1
<1>16. Leaves(o.outq, d.inq.next)
  <2>1. o.outq \in Queue
    BY SteadyTypes
  <2>2. Base(o.outq) \in Int
    BY <2>1, BaseType
  <2>3. Gapless(o.outq) /\ Base(o.outq) <= c.inq.next
        /\ \A f \in Held(o.outq) : f.kind # "ack" /\ f.sess > 0 /\ f.sess = o.outq.sess
    BY <1>5, Zenon DEF Leaves
  <2>4. Base(o.outq) <= d.inq.next
    <3> HIDE DEF c, o
    <3> QED
      BY <1>4, <1>10, <2>2, <2>3
  <2> QED
    BY <2>3, <2>4, Zenon DEF Leaves
<1>17. Steady(n)'
  <2>1. Steady(n)' <=> /\ procSess'[n] > 0
                       /\ Leaves(e.outq, conn'[p].inq.next)
                       /\ Arrives(conn'[p].inq, e.outq.sess)
                       /\ \A f \in Pool(n)' : Within(f, e.outq.sess, conn'[p].inq.next)
                       /\ \A t \in AckNumbers(n)' : t[2] < conn'[p].inq.next
    BY DEF Steady
  <2> HIDE DEF e, o, p
  <2> QED
    BY <1>2, <1>3, <1>5, <1>9, <1>12, <1>13, <2>1
<1>18. Steady(p)'
  <2>1. Steady(p)' <=> /\ procSess'[p] > 0
                       /\ Leaves(conn'[p].outq, e.inq.next)
                       /\ Arrives(e.inq, conn'[p].outq.sess)
                       /\ \A f \in Pool(p)' : Within(f, conn'[p].outq.sess, e.inq.next)
                       /\ \A t \in AckNumbers(p)' : t[2] < e.inq.next
    BY <1>1 DEF Steady
  <2> HIDE DEF e, o, p
  <2> QED
    BY <1>2, <1>3, <1>5, <1>10, <1>14, <1>15, <1>16, <2>1
<1>19. Settles(e) /\ Settles(conn'[p])
  <2>1. e.present
    BY <1>2 DEF Sound
  <2>2. Ready(e)
    BY <1>2, FieldsReady
  <2> QED
    BY <1>2, <1>5, <2>1, <2>2 DEF Settles
<1> QED
  BY <1>1, <1>17, <1>18, <1>19 DEF SteadyState

\* Where nothing is added, nothing more is under way or acknowledged.
LEMMA FewerOnTheWay ==
  ASSUME NEW n \in Node,
         \A m \in Node : /\ net'[m] \subseteq net[m]
                         /\ Held(conn'[m].inq) \subseteq Held(conn[m].inq)
                         /\ conn'[m].lastacksent \in {NoSeqno, conn[m].lastacksent}
                         /\ {toack'[m][i] : i \in DOMAIN toack'[m]} \subseteq
                              {toack[m][i] : i \in DOMAIN toack[m]}
  PROVE  Pool(n)' \subseteq Pool(n) /\ AckNumbers(n)' \subseteq AckNumbers(n)
<1> DEFINE p == Peer(n)
<1>1. p \in Node
  BY PeerType
<1>2. /\ net'[p] \subseteq net[p] /\ net'[n] \subseteq net[n]
      /\ Held(conn'[p].inq) \subseteq Held(conn[p].inq)
      /\ conn'[p].lastacksent \in {NoSeqno, conn[p].lastacksent}
      /\ {toack'[p][i] : i \in DOMAIN toack'[p]} \subseteq {toack[p][i] : i \in DOMAIN toack[p]}
  BY <1>1
<1>3. /\ Pool(n) = Sequenced(net[p]) \cup Held(conn[p].inq)
      /\ Pool(n)' = Sequenced(net'[p]) \cup Held(conn'[p].inq)
  BY DEF Pool
<1>4. /\ AckNumbers(n) = {NoSeqno, conn[p].lastacksent} \cup {toack[p][i] : i \in DOMAIN toack[p]}
                           \cup NumbersOf(net[n] \ Sequenced(net[n]))
      /\ AckNumbers(n)' = {NoSeqno, conn'[p].lastacksent}
                            \cup {toack'[p][i] : i \in DOMAIN toack'[p]}
                            \cup NumbersOf(net'[n] \ Sequenced(net'[n]))
  BY DEF AckNumbers
<1>5. /\ Sequenced(net'[p]) \subseteq Sequenced(net[p])
      /\ net'[n] \ Sequenced(net'[n]) \subseteq net[n] \ Sequenced(net[n])
  BY <1>2 DEF Sequenced
<1>6. NumbersOf(net'[n] \ Sequenced(net'[n])) \subseteq NumbersOf(net[n] \ Sequenced(net[n]))
  BY <1>5 DEF NumbersOf
<1> HIDE DEF p
<1> QED
  BY <1>2, <1>3, <1>4, <1>5, <1>6

\* A step that touches neither queue nor mark of any end, and adds no frameset.
LEMMA SameSteady ==
  ASSUME SteadyState, procSess' = procSess, toack' = toack,
         \A m \in Node : /\ net'[m] \subseteq net[m]
                         /\ conn'[m].outq = conn[m].outq /\ conn'[m].inq = conn[m].inq
                         /\ conn'[m].lastacksent = conn[m].lastacksent
                         /\ conn'[m].isready = conn[m].isready /\ conn'[m].ipend = conn[m].ipend
                         /\ conn'[m].present = conn[m].present /\ conn'[m].tx = conn[m].tx
  PROVE  SteadyState'
<1> SUFFICES ASSUME NEW n \in Node PROVE Steady(n)' /\ Settles(conn'[n])
  BY DEF SteadyState
<1> DEFINE p == Peer(n)
<1>1. p \in Node
  BY PeerType
<1>2. Steady(n) /\ Settles(conn[n])
  BY DEF SteadyState
<1>3. Pool(n)' \subseteq Pool(n) /\ AckNumbers(n)' \subseteq AckNumbers(n)
  BY FewerOnTheWay
<1>4. Steady(n)'
  <2>1. /\ conn'[n].outq = conn[n].outq /\ conn'[p].inq = conn[p].inq
        /\ procSess'[n] = procSess[n]
    BY <1>1
  <2>2. /\ procSess[n] > 0
        /\ Leaves(conn[n].outq, conn[p].inq.next)
        /\ Arrives(conn[p].inq, conn[n].outq.sess)
        /\ \A f \in Pool(n) : Within(f, conn[n].outq.sess, conn[p].inq.next)
        /\ \A t \in AckNumbers(n) : t[2] < conn[p].inq.next
    BY <1>2, Zenon DEF Steady
  <2>3. Steady(n)' <=> /\ procSess'[n] > 0
                       /\ Leaves(conn'[n].outq, conn'[p].inq.next)
                       /\ Arrives(conn'[p].inq, conn'[n].outq.sess)
                       /\ \A f \in Pool(n)' : Within(f, conn'[n].outq.sess, conn'[p].inq.next)
                       /\ \A t \in AckNumbers(n)' : t[2] < conn'[p].inq.next
    BY DEF Steady
  <2> HIDE DEF p
  <2> QED
    BY <1>3, <2>1, <2>2, <2>3
<1>5. Settles(conn'[n])
  <2>1. Ready(conn[n]) => Ready(conn'[n])
    BY FieldsReady
  <2> QED
    BY <1>2, <2>1 DEF Settles
<1> QED
  BY <1>4, <1>5

\* What an end that is restarted or has destroyed its connection is left with.
Blank(c) ==
  /\ ~c.present /\ c.outq = EmptyQueue /\ c.inq = EmptyQueue /\ c.lastacksent = NoSeqno
  /\ c.tx = {} /\ ~c.isready /\ c.ipend = 0

\* Only an end that has sent and received nothing is restarted, or destroys its
\* connection, and nothing of it is under way.
LEMMA GoneSteady ==
  ASSUME IInv, SteadyState, Keep, OutputStay, NEW n \in Node, Blank(conn'[n]),
         conn'[Peer(n)] = conn[Peer(n)], \A m \in Node : net'[m] \subseteq net[m],
         procSess'[n] > 0, procSess'[Peer(n)] = procSess[Peer(n)],
         toack'[Peer(n)] = toack[Peer(n)], toack'[n] \in {toack[n], <<>>}
  PROVE  SteadyState'
<1> DEFINE p == Peer(n)
           c == conn[n]
           e == conn'[n]
           o == conn[p]
           k == o.inq.next
<1>1. p \in Node /\ p # n /\ Peer(p) = n /\ \A m \in Node : m = n \/ m = p
  BY PeerType DEF Node, Peer
<1>2. /\ ~e.present /\ e.outq = EmptyQueue /\ e.inq = EmptyQueue /\ e.lastacksent = NoSeqno
      /\ e.tx = {} /\ ~e.isready /\ e.ipend = 0
  BY Zenon DEF Blank
<1>3. /\ e.outq.sess = 0 /\ e.outq.next = 1 /\ e.outq.q = <<>> /\ Held(e.outq) = {}
      /\ e.inq.sess = 0 /\ e.inq.next = 1 /\ e.inq.q = <<>> /\ Held(e.inq) = {}
  BY <1>2 DEF EmptyQueue, Held
<1>4. c.inq.sess = 0 /\ c.outq.sess = 0
  BY <1>3 DEF Keep, OutputStay
<1>5. /\ procSess[n] > 0 /\ procSess[p] > 0
      /\ Leaves(c.outq, k) /\ Leaves(o.outq, c.inq.next)
      /\ Arrives(o.inq, c.outq.sess) /\ Arrives(c.inq, o.outq.sess)
      /\ \A f \in Pool(n) : Within(f, c.outq.sess, k)
      /\ \A f \in Pool(p) : Within(f, o.outq.sess, c.inq.next)
      /\ \A t \in AckNumbers(n) : t[2] < k
      /\ \A t \in AckNumbers(p) : t[2] < c.inq.next
      /\ Settles(o)
  BY <1>1, Zenon DEF SteadyState, Steady
<1>6. \A m \in Node : /\ net'[m] \subseteq net[m]
                      /\ Held(conn'[m].inq) \subseteq Held(conn[m].inq)
                      /\ conn'[m].lastacksent \in {NoSeqno, conn[m].lastacksent}
                      /\ {toack'[m][i] : i \in DOMAIN toack'[m]} \subseteq
                           {toack[m][i] : i \in DOMAIN toack[m]}
  <2>1. {toack'[n][i] : i \in DOMAIN toack'[n]} \subseteq {toack[n][i] : i \in DOMAIN toack[n]}
    <3> DEFINE z == <<>>
    <3>1. DOMAIN z = {} /\ (toack'[n] = toack[n] \/ toack'[n] = z)
      OBVIOUS
    <3> HIDE DEF z
    <3> QED
      BY <3>1
  <2> QED
    BY <1>1, <1>2, <1>3, <2>1
<1>7. Pool(n)' \subseteq Pool(n) /\ Pool(p)' \subseteq Pool(p)
      /\ AckNumbers(n)' \subseteq AckNumbers(n) /\ AckNumbers(p)' \subseteq AckNumbers(p)
  BY <1>1, <1>6, FewerOnTheWay
<1>8. c.inq.next = 1 /\ 1 <= k
  BY <1>4, <1>5 DEF Arrives
<1>9. Leaves(e.outq, k)
  BY <1>3, <1>8, ResetGapless DEF Leaves
<1>10. Arrives(e.inq, o.outq.sess)
  BY <1>3 DEF Arrives, Awaits
<1>11. Steady(n)'
  <2>1. Steady(n)' <=> /\ procSess'[n] > 0
                       /\ Leaves(e.outq, conn'[p].inq.next)
                       /\ Arrives(conn'[p].inq, e.outq.sess)
                       /\ \A f \in Pool(n)' : Within(f, e.outq.sess, conn'[p].inq.next)
                       /\ \A t \in AckNumbers(n)' : t[2] < conn'[p].inq.next
    BY DEF Steady
  <2>2. conn'[p] = o
    OBVIOUS
  <2> HIDE DEF c, e, o, p
  <2> QED
    BY <1>3, <1>4, <1>5, <1>7, <1>9, <2>1, <2>2 DEF k
<1>12. Steady(p)'
  <2>1. Steady(p)' <=> /\ procSess'[p] > 0
                       /\ Leaves(conn'[p].outq, e.inq.next)
                       /\ Arrives(e.inq, conn'[p].outq.sess)
                       /\ \A f \in Pool(p)' : Within(f, conn'[p].outq.sess, e.inq.next)
                       /\ \A t \in AckNumbers(p)' : t[2] < e.inq.next
    BY <1>1 DEF Steady
  <2>2. conn'[p] = o /\ procSess'[p] = procSess[p] /\ e.inq.next = c.inq.next
    BY <1>3, <1>8
  <2> HIDE DEF c, e, o, p
  <2> QED
    BY <1>5, <1>7, <1>10, <2>1, <2>2
<1>13. Settles(e) /\ Settles(conn'[p])
  <2>1. Ready(e)
    BY <1>2, <1>3 DEF Ready, Readable
  <2> QED
    BY <1>2, <1>5, <2>1 DEF Settles
<1> QED
  BY <1>1, <1>11, <1>12, <1>13 DEF SteadyState

\* So is destroying a connection.
LEMMA DestroySteady ==
  ASSUME IInv, SteadyState, Keep, OutputStay, NEW n \in Node, Sound(conn[n]), NEW received,
         Step(n, Destroy(conn[n]), received), procSess' = procSess, toack' = toack
  PROVE  SteadyState'
<1> DEFINE p == Peer(n)
           c == conn[n]
           i == Reinit(c).ipend
           u == Reinit(c).unacked
           g == [NoConn EXCEPT !.ipend = i, !.unacked = u]
           e == [Destroy(c) EXCEPT !.tx = {}]
           a == net[p] \cup Destroy(c).tx
           net1 == [net EXCEPT ![p] = a]
           b == IF Duplicates THEN net[n] ELSE net[n] \ received
<1>1. p \in Node /\ p # n
  BY PeerType
<1>2. conn \in [Node -> Conn] /\ net \in [Node -> SUBSET FrameSet] /\ procSess \in [Node -> Nat]
  BY DEF IInv, TypeOK
<1>3. conn' = [conn EXCEPT ![n] = e] /\ net' = [net1 EXCEPT ![n] = b]
  BY Zenon DEF Step
<1>4. Destroy(c) = g
  BY Zenon DEF Destroy
<1>5. i = 0
  <2>1. c \in Conn /\ Ready(c) /\ c \in Conn
    BY DEF Sound, SteadyState, Settles
  <2>2. Ready(Reinit(c))
    BY <2>1, ReinitReady
  <2>3. Reinit(c).inq.q = <<>>
    BY <2>1, ReinitType
  <2>4. ~Readable(Reinit(c).inq)
    BY <2>3 DEF Readable
  <2> QED
    BY <2>2, <2>4 DEF Ready
<1> HIDE DEF i, u, c
<1>6. /\ ~g.present /\ g.outq = EmptyQueue /\ g.inq = EmptyQueue /\ g.lastacksent = NoSeqno
      /\ g.tx = {} /\ ~g.isready /\ g.ipend = i
  BY DEF NoConn, NewConn
<1>7. Blank(e)
  <2>1. e = [g EXCEPT !.tx = {}]
    BY <1>4
  <2>2. /\ ~e.present /\ e.outq = EmptyQueue /\ e.inq = EmptyQueue /\ e.lastacksent = NoSeqno
        /\ e.tx = {} /\ ~e.isready /\ e.ipend = i
    <3> HIDE DEF e
    <3> QED
      BY <2>1 DEF NoConn, NewConn
  <2> QED
    BY <1>5, <2>2 DEF Blank
<1>8. a = net[p]
  BY <1>4, <1>6
<1> HIDE DEF e, p, g
<1>9. conn'[n] = e /\ conn'[p] = conn[p]
  BY <1>1, <1>2, <1>3
<1>10. b \subseteq net[n]
  OBVIOUS
<1> HIDE DEF a, b
<1>11. net1 \in [Node -> SUBSET FrameSet] /\ \A m \in Node : net1[m] = net[m]
  BY <1>1, <1>2, <1>8
<1> HIDE DEF net1
<1>12. \A m \in Node : net'[m] \subseteq net[m]
  BY <1>3, <1>10, <1>11
<1>13. procSess'[n] > 0 /\ procSess'[p] = procSess[p]
  BY DEF SteadyState, Steady
<1> QED
  BY <1>7, <1>9, <1>12, <1>13, GoneSteady DEF p

\* Before anything is sent.
LEMMA InitSteady == Init => SteadyState
<1> SUFFICES ASSUME Init, NEW n \in Node PROVE Steady(n) /\ Settles(conn[n])
  BY DEF SteadyState
<1> DEFINE p == Peer(n)
<1>1. p \in Node
  BY PeerType
<1>2. /\ conn[n] = NoConn /\ conn[p] = NoConn /\ net[n] = {} /\ net[p] = {}
      /\ toack[p] = <<>> /\ procSess[n] = 1
  BY <1>1 DEF Init
<1>3. /\ NoConn.outq = EmptyQueue /\ NoConn.inq = EmptyQueue /\ NoConn.lastacksent = NoSeqno
      /\ NoConn.tx = {} /\ NoConn.isready = FALSE /\ NoConn.ipend = 0 /\ NoConn.present = FALSE
  BY DEF NoConn, NewConn
<1>4. /\ EmptyQueue.q = <<>> /\ EmptyQueue.next = 1 /\ EmptyQueue.sess = 0
      /\ Held(EmptyQueue) = {}
  BY DEF EmptyQueue, Held
<1>5. Leaves(EmptyQueue, 1) /\ Arrives(EmptyQueue, 0)
  BY <1>4, ResetGapless DEF Leaves, Arrives, Awaits
<1>6. Pool(n) = {}
  BY <1>2, <1>3, <1>4 DEF Pool, Sequenced
<1>7. AckNumbers(n) = {NoSeqno}
  BY <1>2, <1>3 DEF AckNumbers, NumbersOf, Sequenced
<1>8. Steady(n)
  BY <1>2, <1>3, <1>4, <1>5, <1>6, <1>7 DEF Steady, NoSeqno
<1>9. Settles(conn[n])
  BY <1>2, <1>3, <1>4 DEF Settles, Ready, Readable
<1> QED
  BY <1>8, <1>9

\* A step that leaves alone what waits for an acknowledgement.
LEMMA PlainStepSteady ==
  ASSUME IInv, SteadyState, Keep, OutputStay, NEW n \in Node, NEW d, Sound(d),
         NEW received, Step(n, d, received), Tracks(n, d), Ready(d),
         procSess' = procSess, toack' = toack
  PROVE  SteadyState'
<1> DEFINE X == {}
<1>1. /\ \A i \in DOMAIN toack'[n] : toack'[n][i] \in {toack[n][j] : j \in DOMAIN toack[n]} \cup X
      /\ \A t \in X : t[2] < d.inq.next
      /\ toack'[Peer(n)] = toack[Peer(n)]
  OBVIOUS
<1> HIDE DEF X
<1> QED
  BY <1>1, StepSteady

\* The calls of the application.
LEMMA CallsSteady ==
  ASSUME Window <= 2, IInv, SteadyState, Keep, OutputStay, NEW n \in Node, Calls(n)
  PROVE  SteadyState'
<1> DEFINE p == Peer(n)
           c == conn[n]
           a == AddConn(c)
           K == {NoSeqno}
<1>1. /\ procSess[n] \in Nat /\ handed \in [Node -> Nat] /\ handed[n] \in Nat
      /\ toack \in [Node -> Seq(Seqno)] /\ toack[n] \in Seq(Seqno)
      /\ Sound(c) \/ Gone(c)
  BY DEF IInv, ConnInv, TypeOK
<1>2. Sound(a) /\ Tracks(n, a) /\ Ready(a)
  BY StartTracks
<1>3. ASSUME c.present PROVE Sound(c) /\ Tracks(n, c) /\ Ready(c)
  BY <1>3, StartTracks
<1>4. "data" \in Kinds /\ "data" # "ack" /\ K = {NoSeqno} /\ NoSeqno \in Seqno /\ NoSeqno[2] = 0
  BY SmallTypes DEF Kinds, NoSeqno
<1>5. p \in Node /\ p # n /\ Peer(p) = n
  BY PeerType
<1> HIDE DEF a, K
<1>6. CASE Send(n)
  <2> DEFINE k == handed[n] + 1
             d == Send1(a, "data", k, procSess[n])
  <2>1. handed' = [handed EXCEPT ![n] = k]
    BY <1>6, Zenon DEF Send
  <2>2. k \in Nat
    BY <1>1
  <2> HIDE DEF k
  <2>3. handed'[n] = k
    BY <1>1, <2>1
  <2>4. Step(n, d, {}) /\ procSess' = procSess /\ toack' = toack
    BY <1>6, <2>3, Zenon DEF Send, a
  <2>5. Sound(d) /\ Ready(d)
    BY <1>1, <1>2, <1>4, <2>2, Send1Sound, Send1Ready
  <2>6. Tracks(n, d)
    BY <1>2, <1>4, <2>2, Send1Tracks
  <2> HIDE DEF d
  <2> QED
    BY <2>4, <2>5, <2>6, PlainStepSteady
<1>7. CASE SendList(n)
  <2> DEFINE i == handed[n] + 1
             k == handed[n] + 2
             first == Send1(a, "data", i, procSess[n])
             both == Send1(first, "data", k, procSess[n])
             d == XmitIfWeCan(both)
  <2>1. handed' = [handed EXCEPT ![n] = k]
    BY <1>7, Zenon DEF SendList
  <2>2. k \in Nat /\ i \in Nat
    BY <1>1
  <2>3. handed'[n] = k
    BY <1>1, <2>1
  <2>4. Step(n, d, {}) /\ procSess' = procSess /\ toack' = toack
    BY <1>7, <2>3, Zenon DEF SendList, a
  <2> HIDE DEF k, i
  <2>5. Sound(first) /\ Ready(first)
    BY <1>1, <1>2, <1>4, <2>2, Send1Sound, Send1Ready
  <2>6. Tracks(n, first)
    BY <1>2, <1>4, <2>2, Send1Tracks
  <2> HIDE DEF first
  <2>7. Sound(both) /\ Ready(both)
    BY <1>1, <1>4, <2>2, <2>5, Send1Sound, Send1Ready
  <2>8. Tracks(n, both)
    BY <1>4, <2>2, <2>5, <2>6, Send1Tracks
  <2> HIDE DEF both
  <2>9. Quiet(both, d, K)
    BY <1>4, <2>7, XmitQuiet
  <2>10. Sound(d) /\ Ready(d)
    BY <2>7, XmitSound, XmitReady
  <2> HIDE DEF d
  <2>11. both \in Conn /\ d \in Conn
    BY <2>7, <2>10 DEF Sound
  <2>12. Tracks(n, d)
    BY <1>4, <2>8, <2>9, <2>11, SilentTracks
  <2> QED
    BY <2>4, <2>10, <2>12, PlainStepSteady
<1>8. CASE Read(n)
  <2> DEFINE d == ReadOne(c, procSess[n])
             fs == Head(c.inq.q)
             s == SeqnoOf(fs)
             Y == {s}
  <2>1. c.inq.q # <<>> /\ Readable(c.inq)
    BY <1>8, Zenon DEF Read, Readable
  <2>2. Sound(c)
    BY <1>1, <2>1, Zenon DEF Gone
  <2>3. Step(n, d, {}) /\ procSess' = procSess
    BY <1>8, Zenon DEF Read
  <2>4. toack' = [toack EXCEPT ![n] = Append(toack[n], s)]
    BY <1>8, Zenon DEF Read
  <2>5. Sound(d)
    BY <1>1, <2>1, <2>2, ReadOneSound
  <2>6. Tracks(n, d) /\ Ready(d) /\ (Forgot(n, d) \/ fs.seq < d.inq.next)
    BY <2>1, <2>2, ReadOneTracks
  <2>7. fs \in FrameSet
    BY <2>1, <2>2, DeqType DEF Sound, Conn
  <2>8. s \in Seqno /\ s[2] = fs.seq
    BY <2>7 DEF SeqnoOf, Seqno, FrameSet
  <2> HIDE DEF d, s, fs
  <2>9. Forgot(n, d) \/ \A t \in Y : t[2] < d.inq.next
    BY <2>6, <2>8
  <2> HIDE DEF c, p
  <2>10. toack'[n] = Append(toack[n], s) /\ toack'[p] = toack[p]
    BY <1>1, <1>5, <2>4
  <2>11. \A i \in DOMAIN toack'[n] : toack'[n][i] \in {toack[n][j] : j \in DOMAIN toack[n]} \cup Y
    <3> DEFINE e == toack[n]
    <3>1. e \in Seq(Seqno)
      BY <1>1
    <3> HIDE DEF e
    <3>2. \A i \in DOMAIN Append(e, s) : \/ i \in DOMAIN e /\ Append(e, s)[i] = e[i]
                                         \/ Append(e, s)[i] = s
      BY <2>8, <3>1
    <3> QED
      BY <2>10, <3>2 DEF e
  <2> HIDE DEF Y
  <2> QED
    BY <2>3, <2>5, <2>6, <2>9, <2>10, <2>11, StepSteady DEF p
<1>9. CASE AckMessage(n)
  <2> DEFINE s == Head(toack[n])
             d == AckSeqno(c, s)
             N == {s}
             X == {}
  <2>1. toack[n] # <<>> /\ c.present
    BY <1>9 DEF AckMessage
  <2>2. s \in Seqno /\ s = toack[n][1] /\ 1 \in DOMAIN toack[n]
    BY <1>1, <2>1, HeadTailProperties
  <2>3. Sound(c) /\ Tracks(n, c) /\ Ready(c)
    BY <1>3, <2>1
  <2>4. Step(n, d, {}) /\ procSess' = procSess /\ toack' = [toack EXCEPT ![n] = Tail(toack[n])]
    BY <1>9, Zenon DEF AckMessage
  <2>5. s[2] < c.inq.next
    <3>1. s \in AckNumbers(p)
      BY <1>5, <2>2 DEF AckNumbers
    <3>2. \A t \in AckNumbers(p) : t[2] < c.inq.next
      BY <1>5, Zenon DEF SteadyState, Steady
    <3> QED
      BY <3>1, <3>2
  <2> HIDE DEF s
  <2>6. Sound(d) /\ Ready(d)
    BY <2>2, <2>3, AckSeqnoSound, AckSeqnoReady DEF Sound
  <2>7. Quiet(c, d, N)
    BY <2>3, AckSeqnoQuiet DEF Sound
  <2>8. \A t \in N : t[2] < c.inq.next
    BY <2>5
  <2> HIDE DEF d, N
  <2>9. d \in Conn /\ c \in Conn
    BY <2>3, <2>6 DEF Sound
  <2>10. Tracks(n, d)
    BY <2>3, <2>7, <2>8, <2>9, QuietTracks
  <2> HIDE DEF c, p
  <2>11. toack'[n] = Tail(toack[n]) /\ toack'[p] = toack[p]
    BY <1>1, <1>5, <2>4
  <2>12. \A i \in DOMAIN toack'[n] : toack'[n][i] \in {toack[n][j] : j \in DOMAIN toack[n]} \cup X
    <3> DEFINE e == toack[n]
    <3>1. e \in Seq(Seqno) /\ e # <<>>
      BY <1>1, <2>1
    <3> HIDE DEF e
    <3>2. \A i \in DOMAIN Tail(e) : i + 1 \in DOMAIN e /\ Tail(e)[i] = e[i + 1]
      BY <3>1
    <3> QED
      BY <2>11, <3>2 DEF e
  <2>13. \A t \in X : t[2] < d.inq.next
    OBVIOUS
  <2> HIDE DEF X
  <2> QED
    BY <2>4, <2>6, <2>10, <2>11, <2>12, <2>13, StepSteady DEF p
<1>10. CASE CloseConn(n)
  <2> DEFINE d == Fsa(c, "REQSHUTDOWN", NoSeqno, procSess[n])
  <2>1. c.present /\ Step(n, d, {}) /\ procSess' = procSess /\ toack' = toack
    BY <1>10, Zenon DEF CloseConn
  <2>2. Sound(c) /\ Tracks(n, c) /\ Ready(c)
    BY <1>3, <2>1
  <2>3. Sound(d) /\ Ready(d)
    BY <1>1, <1>4, <2>2, CloseSound, FsaReady
  <2>4. c.inq.next \in Nat
    BY <2>2 DEF Sound, Conn, Queue
  <2>5. Incoming(n, c) => NoSeqno[2] < c.inq.next
    BY <1>4, <2>4 DEF Incoming, Arrives
  <2>6. Tracks(n, d)
    BY <1>4, <2>2, <2>3, <2>5, FsaTracks
  <2> HIDE DEF d
  <2> QED
    BY <2>1, <2>3, <2>6, PlainStepSteady
<1>11. CASE CloseAll(n)
  <2>1. c.present /\ Step(n, Destroy(c), {}) /\ procSess' = procSess /\ toack' = toack
    BY <1>11, Zenon DEF CloseAll
  <2> QED
    BY <1>3, <2>1, DestroySteady
<1>12. CASE CountIdle(n)
  <2> DEFINE no == FALSE
             d == [c EXCEPT !.shutdown_complete = no]
  <2>1. c.present /\ Step(n, d, {}) /\ procSess' = procSess /\ toack' = toack
    BY <1>12, Zenon DEF CountIdle
  <2>2. Sound(c) /\ Tracks(n, c) /\ Ready(c) /\ no \in BOOLEAN
    BY <1>3, <2>1
  <2> HIDE DEF c, no
  <2>3. c \in Conn
    BY <2>2 DEF Sound
  <2>4. d \in Conn
    BY <2>2, <2>3 DEF Conn
  <2>5. /\ d.present = c.present /\ d.state = c.state /\ d.outq = c.outq
        /\ d.unacked = c.unacked /\ d.shuttimer = c.shuttimer /\ d.complained = c.complained
        /\ d.inq = c.inq /\ d.got = c.got /\ d.lastacksent = c.lastacksent /\ d.tx = c.tx
        /\ d.isready = c.isready /\ d.ipend = c.ipend
    BY <2>3 DEF Conn
  <2> HIDE DEF d
  <2>6. Sound(d) /\ Ready(d)
    BY <2>2, <2>4, <2>5, SoundKept, FieldsReady, Zenon
  <2>7. Quiet(c, d, K)
    BY <2>5, QuietFields, Zenon
  <2>8. Tracks(n, d)
    BY <1>4, <2>2, <2>3, <2>4, <2>7, SilentTracks
  <2> QED
    BY <2>1, <2>6, <2>8, PlainStepSteady
<1> QED
  BY <1>6, <1>7, <1>8, <1>9, <1>10, <1>11, <1>12 DEF Calls

\* Receiving a frameset.
LEMMA DeliverSteady ==
  ASSUME Window <= 2, IInv, SteadyState, Keep, OutputStay, NEW n \in Node,
         NEW kind \in Kinds, Deliver(n, kind)
  PROVE  SteadyState'
<1> DEFINE c == AddConn(conn[n])
<1>1. PICK fs \in net[n] : /\ Receive(n, fs)
                           /\ UNCHANGED <<procSess, toack, handed, seen, used>>
  BY Zenon DEF Deliver
<1>2. net[n] \subseteq FrameSet /\ fs \in FrameSet
  BY DEF IInv, TypeOK
<1>3. Sound(c) /\ Tracks(n, c) /\ Ready(c) /\ c.inq = conn[n].inq
  BY StartTracks
<1>4. procSess' = procSess /\ toack' = toack
  BY <1>1
<1> HIDE DEF c
<1>5. CASE fs.kind = "ack"
  <2> DEFINE s == SeqnoOf(fs)
             d == ReceiveAck(c, s)
  <2>1. Step(n, d, {fs})
    BY <1>1, <1>5, Zenon DEF Receive, c
  <2>2. s \in AckNumbers(n)
    BY <1>5 DEF AckNumbers, NumbersOf, Sequenced
  <2>3. s \in Seqno
    BY <2>2, AckNumbersType
  <2> HIDE DEF s
  <2>4. Sound(d) /\ Ready(d)
    BY <1>3, <2>3, ReceiveAckSound, ReceiveAckReady
  <2>5. Tracks(n, d)
    BY <1>3, <2>2, <2>3, ReceiveAckTracks
  <2> HIDE DEF d
  <2> QED
    BY <1>4, <2>1, <2>4, <2>5, PlainStepSteady
<1>6. CASE fs.kind # "ack"
  <2> DEFINE d == ReceiveSequenced(c, fs)
  <2>1. Step(n, d, {fs})
    BY <1>1, <1>6, Zenon DEF Receive, c
  <2>2. fs \in Pool(Peer(n))
    BY <1>6, PeerType DEF Pool, Sequenced
  <2>3. Sound(d)
    BY <1>2, <1>3, ReceiveSequencedSound
  <2>4. Tracks(n, d) /\ Ready(d)
    BY <1>2, <1>3, <2>2, ReceiveSequencedTracks
  <2> HIDE DEF d
  <2> QED
    BY <1>4, <2>1, <2>3, <2>4, PlainStepSteady
<1> QED
  BY <1>5, <1>6

\* The timers.
LEMMA TimersSteady ==
  ASSUME Window <= 2, IInv, SteadyState, Keep, OutputStay, NEW n \in Node, Timers(n)
  PROVE  SteadyState'
<1> DEFINE c == conn[n]
           K == {NoSeqno}
<1>1. /\ Sound(c) \/ Gone(c)
      /\ conn \in [Node -> Conn] /\ net \in [Node -> SUBSET FrameSet] /\ c \in Conn
  BY DEF IInv, ConnInv, TypeOK
<1>2. ASSUME Sound(c) PROVE Tracks(n, c) /\ Ready(c)
  BY <1>2, StartTracks DEF Sound
<1>3. K = {NoSeqno}
  OBVIOUS
<1>4. CASE RexmitDue(n)
  <2> DEFINE r == "due"
             d == [c EXCEPT !.rexmit = r]
  <2>1. conn' = [conn EXCEPT ![n] = d] /\ net' = net /\ procSess' = procSess /\ toack' = toack
    BY <1>4, Zenon DEF RexmitDue
  <2> HIDE DEF c, r
  <2>2. /\ d.outq = c.outq /\ d.inq = c.inq /\ d.lastacksent = c.lastacksent /\ d.tx = c.tx
        /\ d.isready = c.isready /\ d.ipend = c.ipend /\ d.present = c.present
    BY <1>1 DEF Conn
  <2> HIDE DEF d
  <2>3. \A m \in Node : conn'[m] = IF m = n THEN d ELSE conn[m]
    BY <1>1, <2>1
  <2>4. \A m \in Node : /\ net'[m] \subseteq net[m]
                        /\ conn'[m].outq = conn[m].outq /\ conn'[m].inq = conn[m].inq
                        /\ conn'[m].lastacksent = conn[m].lastacksent
                        /\ conn'[m].isready = conn[m].isready /\ conn'[m].ipend = conn[m].ipend
                        /\ conn'[m].present = conn[m].present /\ conn'[m].tx = conn[m].tx
    BY <2>1, <2>2, <2>3 DEF c
  <2> QED
    BY <2>1, <2>4, SameSteady
<1>5. CASE Timeout(n)
  <2> DEFINE d == XmitIfWeCan(c)
  <2>1. Step(n, d, {}) /\ procSess' = procSess /\ toack' = toack /\ c.rexmit # "off"
    BY <1>5, Zenon DEF Timeout
  <2>2. Sound(c)
    BY <1>1, <2>1, Zenon DEF Gone
  <2>3. Sound(d) /\ Ready(d)
    BY <1>2, <2>2, XmitSound, XmitReady
  <2>4. Quiet(c, d, K)
    BY <1>3, <2>2, XmitQuiet
  <2>5. d \in Conn
    BY <2>3, Zenon DEF Sound
  <2> HIDE DEF d, K
  <2>6. Tracks(n, d)
    BY <1>1, <1>2, <1>3, <2>2, <2>4, <2>5, SilentTracks
  <2> QED
    BY <2>1, <2>3, <2>6, PlainStepSteady
<1>6. CASE ShutTimeout(n)
  <2> DEFINE d == FsaQuiet(c, "SHUT_TO")
  <2>1. Step(n, d, {}) /\ procSess' = procSess /\ toack' = toack /\ c.shuttimer
    BY <1>6, Zenon DEF ShutTimeout
  <2>2. Sound(c)
    BY <1>1, <2>1, Zenon DEF Gone
  <2>3. Sound(d)
    BY <2>1, <2>2, ShutTimeoutSound
  <2>4. Ready(d)
    BY <1>1, <1>2, <2>2, FinishReady DEF FsaQuiet
  <2>5. Quiet(c, d, K)
    BY <1>1, <1>3, FinishQuiet DEF FsaQuiet
  <2>6. d \in Conn
    BY <2>3, Zenon DEF Sound
  <2> HIDE DEF d, K
  <2>7. Tracks(n, d)
    BY <1>1, <1>2, <1>3, <2>2, <2>5, <2>6, SilentTracks
  <2> QED
    BY <2>1, <2>3, <2>4, <2>7, PlainStepSteady
<1>7. CASE FinalizeTimeout(n)
  <2> DEFINE no == FALSE
             d == [c EXCEPT !.finalizetimer = no]
  <2>1. procSess' = procSess /\ toack' = toack /\ c.finalizetimer
    BY <1>7, Zenon DEF FinalizeTimeout
  <2>2. Step(n, d, {}) \/ Step(n, Destroy(c), {})
    BY <1>7, Zenon DEF FinalizeTimeout
  <2>3. Sound(c)
    BY <1>1, <2>1, Zenon DEF Gone
  <2>4. CASE Step(n, Destroy(c), {})
    BY <2>1, <2>3, <2>4, DestroySteady
  <2>5. CASE Step(n, d, {})
    <3>1. no \in BOOLEAN /\ Tracks(n, c) /\ Ready(c)
      BY <1>2, <2>3
    <3> HIDE DEF c, no
    <3>2. d \in Conn
      BY <1>1, <3>1 DEF Conn
    <3>3. /\ d.present = c.present /\ d.state = c.state /\ d.outq = c.outq
          /\ d.unacked = c.unacked /\ d.shuttimer = c.shuttimer /\ d.complained = c.complained
          /\ d.inq = c.inq /\ d.got = c.got /\ d.lastacksent = c.lastacksent /\ d.tx = c.tx
          /\ d.isready = c.isready /\ d.ipend = c.ipend
      BY <1>1 DEF Conn
    <3> HIDE DEF d
    <3>4. Sound(d) /\ Ready(d)
      BY <2>3, <3>1, <3>2, <3>3, SoundKept, FieldsReady, Zenon
    <3>5. Quiet(c, d, K)
      BY <3>3, QuietFields, Zenon
    <3> HIDE DEF K
    <3>6. Tracks(n, d)
      BY <1>1, <1>3, <3>1, <3>2, <3>5, SilentTracks
    <3> QED
      BY <2>1, <2>5, <3>4, <3>6, PlainStepSteady
  <2> QED
    BY <2>2, <2>4, <2>5
<1> QED
  BY <1>4, <1>5, <1>6, <1>7 DEF Timers

\* A process that is restarted has its connection forgotten.
LEMMA RestartSteady ==
  ASSUME IInv, SteadyState, Keep, OutputStay, NEW n \in Node, Restart(n)
  PROVE  SteadyState'
<1> DEFINE p == Peer(n)
           k == procSess[n] + SessStep
           e == <<>>
<1>1. p \in Node /\ p # n
  BY PeerType
<1>2. /\ conn \in [Node -> Conn] /\ procSess \in [Node -> Nat] /\ procSess[n] \in Nat
      /\ SessStep \in Nat /\ toack \in [Node -> Seq(Seqno)] /\ procSess[n] > 0
  BY <1>1, TimerAssumption DEF IInv, TypeOK, SteadyState, Steady
<1>3. /\ conn' = [conn EXCEPT ![n] = NoConn]
      /\ procSess' = [procSess EXCEPT ![n] = k]
      /\ toack' = [toack EXCEPT ![n] = e]
      /\ net' = net
  BY Zenon DEF Restart
<1>4. k > 0
  BY <1>2
<1> HIDE DEF k, e, p
<1>5. /\ conn'[n] = NoConn /\ conn'[p] = conn[p] /\ procSess'[n] = k
      /\ procSess'[p] = procSess[p] /\ toack'[n] = e /\ toack'[p] = toack[p]
  BY <1>1, <1>2, <1>3
<1>6. Blank(NoConn)
  BY DEF Blank, NoConn, NewConn
<1> QED
  BY <1>3, <1>4, <1>5, <1>6, GoneSteady DEF e, p

\* Every step that resets, destroys and restarts no end that was used.
LEMMA NextSteady ==
  ASSUME Window <= 2, IInv, SteadyState, [Next]_vars, [Keep]_vars, [OutputStay]_vars
  PROVE  SteadyState'
<1>1. CASE UNCHANGED vars
  <2>1. conn' = conn /\ net' = net /\ procSess' = procSess /\ toack' = toack
    BY <1>1, Zenon DEF vars
  <2> QED
    BY <2>1, SameSteady
<1>2. CASE Next /\ Keep /\ OutputStay
  <2>1. PICK n \in Node : \/ Calls(n) \/ Timers(n) \/ Restart(n) \/ Lose(n)
                          \/ \E kind \in Kinds : Deliver(n, kind)
    BY <1>2, Zenon DEF Next
  <2>2. CASE Lose(n)
    <3>1. PICK fs \in net[n] : net' = [net EXCEPT ![n] = net[n] \ {fs}]
      BY <2>2, Zenon DEF Lose
    <3>2. conn' = conn /\ procSess' = procSess /\ toack' = toack
      BY <2>2, Zenon DEF Lose
    <3>3. net \in [Node -> SUBSET FrameSet]
      BY DEF IInv, TypeOK
    <3>4. \A m \in Node : net'[m] \subseteq net[m]
      BY <3>1, <3>3
    <3> QED
      BY <3>2, <3>4, SameSteady
  <2> QED
    BY <1>2, <2>1, <2>2, CallsSteady, TimersSteady, RestartSteady, DeliverSteady, Zenon
<1> QED
  BY <1>1, <1>2

\* With the window the code has, a connection is marked ready, and listed among those
\* with input, exactly when its next frameset can be read, whatever is lost, repeated
\* or delayed, as long as no end that has been used is reset, destroyed or restarted.
THEOREM MarkIsRight ==
  ASSUME Window <= 2
  PROVE  Spec /\ ReceptionStays /\ OutputStays => []ReadyAudit
<1>1. Init => SteadyState
  BY InitSteady
<1>2. IInv /\ SteadyState /\ [Next]_vars /\ [Keep]_vars /\ [OutputStay]_vars => SteadyState'
  BY NextSteady
<1>3. IInv /\ SteadyState => ReadyAudit
  <2> SUFFICES ASSUME IInv, SteadyState, NEW n \in Node
               PROVE  /\ conn[n].isready = Readable(conn[n].inq)
                      /\ conn[n].ipend = IF conn[n].isready THEN 1 ELSE 0
    BY Zenon DEF ReadyAudit
  <2>1. Ready(conn[n])
    BY Zenon DEF SteadyState, Settles
  <2>2. conn[n].isready \in BOOLEAN
    BY DEF IInv, TypeOK, Conn
  <2>3. Readable(conn[n].inq) \in BOOLEAN
    BY Zenon DEF Readable
  <2>4. conn[n].isready <=> Readable(conn[n].inq)
    BY <2>1, Zenon DEF Ready
  <2>5. conn[n].isready = Readable(conn[n].inq)
    BY <2>2, <2>4 DEF Readable
  <2> QED
    BY <2>1, <2>5, Zenon DEF Ready
<1> QED
  BY <1>1, <1>2, <1>3, Invariance, PTL DEF Spec, ReceptionStays, OutputStays

===============================================================================
