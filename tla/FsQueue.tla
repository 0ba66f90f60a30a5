------------------------------- MODULE FsQueue -------------------------------
(***************************************************************************)
(* The queue of framesets of clientlib/fsqueue.c with the sequence number   *)
(* of clientlib/seqnoframe.c, as operators on a queue record.  FsProtocol   *)
(* keeps one queue for output and one for input per connection.             *)
(*                                                                         *)
(*   q     the framesets in the queue, head first        (_q)               *)
(*   next  next sequence number to give out or to read   (_nextseqno)       *)
(*   sess  session of the queue, 0 before its first use  (_sessionid)       *)
(*                                                                         *)
(* Only sequenced framesets are modelled: an unsequenced one (a heartbeat)  *)
(* bypasses the numbering and goes to the head of the input queue.          *)
(***************************************************************************)
EXTENDS Integers, Sequences

CONSTANT MaxQLen        \* DEFAULT_FSQMAX: framesets a queue may hold

ASSUME MaxQLenAssumption == MaxQLen \in Nat \ {0}

Kinds == {"data", "connshut", "ack"}

\* A frameset with its sequence number frame; val is what the application
\* put in it and is 0 in a CONNSHUT and in an ACK.
FrameSet == [kind : Kinds, sess : Nat, seq : Nat, val : Nat]

Queue == [q : Seq(FrameSet), next : Nat, sess : Nat]

(***************************************************************************)
(* Sequence numbers: <<session, request id>>, ordered by session first.     *)
(* NoSeqno stands for a NULL pointer and comes before every real one.       *)
(***************************************************************************)
Seqno == Nat \X Nat

NoSeqno == <<0, 0>>

SeqnoOf(fs) == <<fs.sess, fs.seq>>

Before(s, t) == \/ s[1] < t[1]
                \/ s[1] = t[1] /\ s[2] < t[2]

EmptyQueue == [q |-> <<>>, next |-> 1, sess |-> 0]

(***************************************************************************)
(* Output side.  A new queue takes the session id of the process (procSess),*)
(* a queue that was reset keeps its own.  A full queue drops the frameset.  *)
(***************************************************************************)
HasQSpace1(fq) == Len(fq.q) < MaxQLen

\* As the code has it: the bound and the length are on the wrong sides.
HasQSpace(fq, desired) == MaxQLen + desired >= Len(fq.q)

EnqSession(fq, procSess) == IF fq.sess = 0 THEN procSess ELSE fq.sess

Enq(fq, kind, val, procSess) ==
  IF ~HasQSpace1(fq)
  THEN fq
  ELSE LET s == EnqSession(fq, procSess)
       IN  [q    |-> Append(fq.q, [kind |-> kind, sess |-> s, seq |-> fq.next, val |-> val]),
            next |-> fq.next + 1,
            sess |-> s]

\* Mutant: the session of an ACK is not looked at.
AckRefusedAnySession(fq, s) == s[2] >= fq.next

\* An ACK for another session, or for what was never sent, is refused.
AckRefused(fq, s) == s[1] # fq.sess \/ s[2] >= fq.next

\* The acknowledged framesets are at the head, in ascending order.
First(S) == CHOOSE i \in S : \A j \in S : i <= j

Unacked(fq, s) == {i \in DOMAIN fq.q : fq.q[i].seq > s[2]}

AckThrough(fq, s) ==
  [fq EXCEPT !.q = IF Unacked(fq, s) = {} THEN <<>>
                   ELSE SubSeq(@, First(Unacked(fq, s)), Len(@))]

Flush(fq) == [fq EXCEPT !.q = <<>>]

(***************************************************************************)
(* Input side.  A frameset of the first or of a newer session restarts the  *)
(* queue; one of an older session, one already read and one that does not   *)
(* fit are refused; a copy of one in the queue is accepted and not kept.    *)
(***************************************************************************)
NextSession(fq, fs) ==
  IF fq.sess = 0
  THEN [fq EXCEPT !.sess = fs.sess, !.next = IF fs.seq >= 2 THEN fs.seq ELSE @]
  ELSE IF fs.sess > fq.sess
       THEN [Flush(fq) EXCEPT !.sess = fs.sess, !.next = 1]
       ELSE fq

\* Mutant: framesets of older sessions get in.
InqRefusedAnySession(fq, fs) ==
  \/ fs.seq < NextSession(fq, fs).next
  \/ ~HasQSpace1(NextSession(fq, fs))

InqRefused(fq, fs) ==
  \/ fq.sess # 0 /\ fs.sess < fq.sess
  \/ fs.seq < NextSession(fq, fs).next
  \/ ~HasQSpace1(NextSession(fq, fs))

Later(q, fs) == {i \in DOMAIN q : Before(SeqnoOf(fs), SeqnoOf(q[i]))}

InsertSorted(q, fs) ==
  LET place == IF Later(q, fs) = {} THEN Len(q) + 1 ELSE First(Later(q, fs))
  IN  IF \E i \in DOMAIN q : SeqnoOf(q[i]) = SeqnoOf(fs)
      THEN q
      ELSE SubSeq(q, 1, place - 1) \o <<fs>> \o SubSeq(q, place, Len(q))

InqSorted(fq, fs) ==
  IF InqRefused(fq, fs)
  THEN NextSession(fq, fs)
  ELSE [NextSession(fq, fs) EXCEPT !.q = InsertSorted(@, fs)]

\* A frameset can be read when it is the next one in sequence.
Readable(fq) == fq.q # <<>> /\ Head(fq.q).seq = fq.next

\* Mutant: the next sequence number stays where it was.
DeqSameNext(fq) == [fq EXCEPT !.q = Tail(@)]

Deq(fq) == [fq EXCEPT !.q = Tail(@), !.next = @ + 1]

==============================================================================
