---------------------------- MODULE FsQueue_proofs ----------------------------
(***************************************************************************)
(* What the queue operations preserve: each of them turns a queue into a    *)
(* queue, and the ones on the output side treat emptiness as FsProtocol     *)
(* expects; what is held in a queue after each of them; and in what order   *)
(* the numbers of a queue of output are given out.                          *)
(***************************************************************************)
EXTENDS FsQueue, SequenceTheorems, WellFoundedInduction, TLAPS

\* First names a member of a set of positions, and none comes before it.
LEMMA FirstIsLeast ==
  ASSUME NEW S \in SUBSET Nat, S # {}
  PROVE  First(S) \in S /\ \A j \in S : First(S) <= j
<1> DEFINE Less == {ss \in Nat \X Nat : ss[1] < ss[2]}
<1>1. IsWellFoundedOn(Less, Nat)
  BY NatLessThanWellFounded, Zenon DEF OpToRel
<1> HIDE DEF Less
<1>2. \E i \in S : \A j \in S : ~(<<j, i>> \in Less)
  BY <1>1, WFMin, Zenon
<1>3. PICK i \in S : \A j \in S : ~(<<j, i>> \in Less)
  BY <1>2
<1>4. ASSUME NEW j \in S PROVE i <= j
  <2>1. <<j, i>> \in Nat \X Nat /\ <<j, i>>[1] = j /\ <<j, i>>[2] = i
    OBVIOUS
  <2>2. ~(j < i)
    BY <1>3, <2>1 DEF Less
  <2> QED
    BY <2>2
<1> QED
  BY <1>4 DEF First

\* A new queue is a queue.
LEMMA EmptyQueueType == EmptyQueue \in Queue
BY DEF EmptyQueue, Queue

\* enq returns a queue; it never empties one, and never fails on an empty one.
LEMMA EnqType ==
  ASSUME NEW fq \in Queue, NEW kind \in Kinds, NEW val \in Nat, NEW s \in Nat
  PROVE  /\ Enq(fq, kind, val, s) \in Queue
         /\ Enq(fq, kind, val, s).q # <<>>
<1>1. CASE ~HasQSpace1(fq)
  <2>1. fq.q # <<>>
    BY <1>1, MaxQLenAssumption DEF HasQSpace1
  <2> QED
    BY <1>1, <2>1 DEF Enq
<1>2. CASE HasQSpace1(fq)
  <2> DEFINE fs == [kind |-> kind, sess |-> EnqSession(fq, s), seq |-> fq.next, val |-> val]
  <2>1. EnqSession(fq, s) \in Nat
    BY DEF EnqSession, Queue
  <2>2. fs \in FrameSet
    BY <2>1 DEF FrameSet, Queue
  <2>3. fq.q \in Seq(FrameSet)
    BY DEF Queue
  <2>4. Append(fq.q, fs) \in Seq(FrameSet) /\ Append(fq.q, fs) # <<>>
    BY <2>2, <2>3, AppendProperties
  <2>5. Enq(fq, kind, val, s) = [q |-> Append(fq.q, fs), next |-> fq.next + 1,
                                 sess |-> EnqSession(fq, s)]
    BY <1>2 DEF Enq
  <2> HIDE DEF fs
  <2> QED
    BY <2>1, <2>4, <2>5 DEF Queue
<1> QED
  BY <1>1, <1>2

\* ackthrough returns a queue, and leaves an empty one empty.
LEMMA AckThroughType ==
  ASSUME NEW fq \in Queue, NEW s \in Seqno
  PROVE  /\ AckThrough(fq, s) \in Queue
         /\ fq.q = <<>> => AckThrough(fq, s).q = <<>>
<1>1. fq.q \in Seq(FrameSet)
  BY DEF Queue
<1>2. CASE Unacked(fq, s) = {}
  BY <1>1, <1>2, EmptySeq DEF AckThrough, Queue
<1>3. CASE Unacked(fq, s) # {}
  <2>1. Unacked(fq, s) \in SUBSET Nat /\ fq.q # <<>> /\ Unacked(fq, s) \subseteq 1..Len(fq.q)
    BY <1>1, <1>3 DEF Unacked
  <2>2. First(Unacked(fq, s)) \in 1..Len(fq.q)
    BY <2>1, <1>3, FirstIsLeast
  <2>3. SubSeq(fq.q, First(Unacked(fq, s)), Len(fq.q)) \in Seq(FrameSet)
    BY <1>1, <2>2, SubSeqProperties
  <2> QED
    BY <1>3, <2>1, <2>3 DEF AckThrough, Queue
<1> QED
  BY <1>2, <1>3

\* A frameset that leaves by flush leaves a queue behind.
LEMMA FlushType ==
  ASSUME NEW fq \in Queue
  PROVE  Flush(fq) \in Queue
BY EmptySeq DEF Flush, Queue

\* The session check of inqsorted returns a queue.
LEMMA NextSessionType ==
  ASSUME NEW fq \in Queue, NEW fs \in FrameSet
  PROVE  NextSession(fq, fs) \in Queue
<1>1. fs.sess \in Nat /\ fs.seq \in Nat
  BY DEF FrameSet
<1>2. CASE fq.sess = 0
  <2> DEFINE next == IF fs.seq >= 2 THEN fs.seq ELSE fq.next
             sess == fs.sess
  <2>1. next \in Nat /\ sess \in Nat
    BY <1>1 DEF Queue
  <2>2. NextSession(fq, fs) = [fq EXCEPT !.sess = sess, !.next = next]
    BY <1>2, Zenon DEF NextSession
  <2> HIDE DEF next, sess
  <2> QED
    BY <2>1, <2>2 DEF Queue
<1>3. CASE fq.sess # 0 /\ fs.sess > fq.sess
  BY <1>1, <1>3, FlushType DEF NextSession, Queue
<1>4. CASE fq.sess # 0 /\ ~(fs.sess > fq.sess)
  BY <1>4 DEF NextSession
<1> QED
  BY <1>2, <1>3, <1>4

\* Sorting a frameset in keeps a sequence of framesets.
LEMMA InsertSortedType ==
  ASSUME NEW q \in Seq(FrameSet), NEW fs \in FrameSet
  PROVE  InsertSorted(q, fs) \in Seq(FrameSet)
<1> DEFINE place == IF Later(q, fs) = {} THEN Len(q) + 1 ELSE First(Later(q, fs))
<1>1. place \in 1..(Len(q) + 1)
  <2>1. Later(q, fs) \subseteq 1..Len(q) /\ Later(q, fs) \in SUBSET Nat
    BY DEF Later
  <2> QED
    BY <2>1, FirstIsLeast
<1>2. InsertSorted(q, fs) = IF \E i \in DOMAIN q : SeqnoOf(q[i]) = SeqnoOf(fs)
                            THEN q
                            ELSE SubSeq(q, 1, place - 1) \o <<fs>> \o SubSeq(q, place, Len(q))
  BY Zenon DEF InsertSorted
<1> HIDE DEF place
<1>3. SubSeq(q, 1, place - 1) \in Seq(FrameSet) /\ SubSeq(q, place, Len(q)) \in Seq(FrameSet)
  BY <1>1, SubSeqProperties
<1>4. <<fs>> \in Seq(FrameSet)
  OBVIOUS
<1>5. SubSeq(q, 1, place - 1) \o <<fs>> \in Seq(FrameSet)
  BY <1>3, <1>4, ConcatProperties
<1>6. SubSeq(q, 1, place - 1) \o <<fs>> \o SubSeq(q, place, Len(q)) \in Seq(FrameSet)
  BY <1>3, <1>5, ConcatProperties
<1> QED
  BY <1>2, <1>6

\* inqsorted returns a queue.
LEMMA InqSortedType ==
  ASSUME NEW fq \in Queue, NEW fs \in FrameSet
  PROVE  InqSorted(fq, fs) \in Queue
<1>1. NextSession(fq, fs) \in Queue
  BY NextSessionType
<1>2. NextSession(fq, fs).q \in Seq(FrameSet)
  BY <1>1 DEF Queue
<1>3. InsertSorted(NextSession(fq, fs).q, fs) \in Seq(FrameSet)
  BY <1>2, InsertSortedType
<1> QED
  BY <1>1, <1>3 DEF InqSorted, Queue

\* deq returns a queue.
LEMMA DeqType ==
  ASSUME NEW fq \in Queue, fq.q # <<>>
  PROVE  Deq(fq) \in Queue /\ Head(fq.q) \in FrameSet
<1>1. fq.q \in Seq(FrameSet)
  BY DEF Queue
<1>2. Tail(fq.q) \in Seq(FrameSet) /\ Head(fq.q) \in FrameSet
  BY <1>1, HeadTailProperties
<1> DEFINE rest == Tail(fq.q)
           next == fq.next + 1
<1>3. next \in Nat
  BY DEF Queue
<1>4. Deq(fq) = [fq EXCEPT !.q = rest, !.next = next]
  BY Zenon DEF Deq
<1> HIDE DEF rest, next
<1>5. rest \in Seq(FrameSet)
  BY <1>2 DEF rest
<1> QED
  BY <1>2, <1>3, <1>4, <1>5 DEF Queue

-------------------------------------------------------------------------------
(* What is in a queue after an operation.                                      *)

Held(fq) == {fq.q[i] : i \in DOMAIN fq.q}

Top(fq) == <<fq.sess, fq.next>>

\* The frameset that enq adds.
Added(fq, kind, val, s) ==
  [kind |-> kind, sess |-> EnqSession(fq, s), seq |-> fq.next, val |-> val]

\* What is in a queue are framesets, and their numbers are pairs of naturals.
LEMMA HeldType ==
  ASSUME NEW fq \in Queue
  PROVE  Held(fq) \subseteq FrameSet /\ Top(fq) \in Seqno
<1>1. fq.q \in Seq(FrameSet) /\ fq.sess \in Nat /\ fq.next \in Nat
  BY DEF Queue
<1> QED
  BY <1>1 DEF Held, Top, Seqno

\* enq adds its frameset at the end, or changes nothing because the queue is full.
LEMMA EnqHeld ==
  ASSUME NEW fq \in Queue, NEW kind \in Kinds, NEW val \in Nat, NEW s \in Nat
  PROVE  \/ Enq(fq, kind, val, s) = fq
         \/ /\ Held(Enq(fq, kind, val, s)) = Held(fq) \cup {Added(fq, kind, val, s)}
            /\ Enq(fq, kind, val, s).q = Append(fq.q, Added(fq, kind, val, s))
            /\ Top(Enq(fq, kind, val, s)) = <<EnqSession(fq, s), fq.next + 1>>
            /\ Added(fq, kind, val, s) \in FrameSet
<1>1. CASE ~HasQSpace1(fq)
  BY <1>1, Zenon DEF Enq
<1>2. CASE HasQSpace1(fq)
  <2> DEFINE f == Added(fq, kind, val, s)
             q == Append(fq.q, f)
             t == EnqSession(fq, s)
             d == [q |-> q, next |-> fq.next + 1, sess |-> t]
  <2>1. Enq(fq, kind, val, s) = d
    BY <1>2, Zenon DEF Enq, Added
  <2>2. fq.q \in Seq(FrameSet) /\ fq.sess \in Nat /\ fq.next \in Nat
    BY DEF Queue
  <2>3. f \in FrameSet
    BY <2>2 DEF Added, FrameSet, EnqSession
  <2>4. t = EnqSession(fq, s)
    OBVIOUS
  <2> HIDE DEF f, t
  <2>5. /\ q \in Seq(FrameSet) /\ Len(q) = Len(fq.q) + 1
        /\ \A i \in 1..Len(fq.q) : q[i] = fq.q[i]
        /\ q[Len(fq.q) + 1] = f
    BY <2>2, <2>3, AppendProperties
  <2>6. q = Append(fq.q, f)
    OBVIOUS
  <2> HIDE DEF q
  <2>7. d.q = q /\ d.next = fq.next + 1 /\ d.sess = t
    OBVIOUS
  <2> HIDE DEF d
  <2>8. {q[i] : i \in DOMAIN q} = {fq.q[i] : i \in DOMAIN fq.q} \cup {f}
    <3>1. DOMAIN q = 1..(Len(fq.q) + 1) /\ DOMAIN fq.q = 1..Len(fq.q) /\ Len(fq.q) \in Nat
      BY <2>2, <2>5
    <3>2. ASSUME NEW i \in DOMAIN q PROVE q[i] \in {fq.q[j] : j \in DOMAIN fq.q} \cup {f}
      <4>1. CASE i = Len(fq.q) + 1
        BY <2>5, <4>1
      <4>2. CASE i \in 1..Len(fq.q)
        BY <2>5, <3>1, <4>2
      <4> QED
        BY <3>1, <4>1, <4>2
    <3>3. ASSUME NEW i \in DOMAIN fq.q PROVE \E j \in DOMAIN q : q[j] = fq.q[i]
      <4>1. i \in DOMAIN q /\ q[i] = fq.q[i]
        BY <2>5, <3>1
      <4> QED
        BY <4>1
    <3>4. \E j \in DOMAIN q : q[j] = f
      <4>1. Len(fq.q) + 1 \in DOMAIN q
        BY <3>1
      <4> QED
        BY <2>5, <4>1
    <3> QED
      BY <3>2, <3>3, <3>4
  <2>9. Held(d) = Held(fq) \cup {f}
    BY <2>7, <2>8 DEF Held
  <2>10. Top(d) = <<t, fq.next + 1>>
    BY <2>7 DEF Top
  <2>11. d.q = Append(fq.q, f)
    BY <2>6, <2>7
  <2> QED
    BY <2>1, <2>3, <2>4, <2>9, <2>10, <2>11, Zenon DEF f
<1> QED
  BY <1>1, <1>2

\* ackthrough only takes framesets off, and leaves the numbering alone.
LEMMA AckThroughHeld ==
  ASSUME NEW fq \in Queue, NEW s \in Seqno
  PROVE  /\ Held(AckThrough(fq, s)) \subseteq Held(fq)
         /\ Top(AckThrough(fq, s)) = Top(fq)
<1> DEFINE U == Unacked(fq, s)
           q == IF U = {} THEN <<>> ELSE SubSeq(fq.q, First(U), Len(fq.q))
           d == [fq EXCEPT !.q = q]
<1>1. AckThrough(fq, s) = d
  BY Zenon DEF AckThrough
<1>2. fq.q \in Seq(FrameSet)
  BY DEF Queue
<1>3. ASSUME NEW i \in DOMAIN q PROVE \E j \in DOMAIN fq.q : q[i] = fq.q[j]
  <2>1. CASE U = {}
    BY <2>1
  <2>2. CASE U # {}
    <3>1. U \in SUBSET Nat /\ U \subseteq 1..Len(fq.q) /\ Len(fq.q) \in Nat
      BY <1>2 DEF Unacked
    <3> DEFINE a == First(U)
    <3>2. a \in 1..Len(fq.q)
      BY <2>2, <3>1, FirstIsLeast
    <3> HIDE DEF a, U
    <3> DEFINE p == SubSeq(fq.q, a, Len(fq.q))
    <3>3. /\ p \in Seq(FrameSet) /\ Len(p) = Len(fq.q) - a + 1
          /\ \A k \in 1..(Len(fq.q) - a + 1) : p[k] = fq.q[a + k - 1]
      BY <1>2, <3>1, <3>2, SubSeqProperties
    <3>4. q = p
      BY <2>2 DEF a
    <3> HIDE DEF p, q
    <3>5. i \in 1..(Len(fq.q) - a + 1)
      BY <3>3, <3>4
    <3>6. a + i - 1 \in DOMAIN fq.q
      BY <1>2, <3>1, <3>2, <3>5
    <3> QED
      BY <3>3, <3>4, <3>5, <3>6
  <2> QED
    BY <2>1, <2>2
<1> HIDE DEF q
<1>4. d.q = q /\ d.next = fq.next /\ d.sess = fq.sess
  BY DEF Queue
<1> HIDE DEF d
<1> QED
  BY <1>1, <1>3, <1>4 DEF Held, Top

\* ackthrough keeps what is not acknowledged.
LEMMA AckThroughKeeps ==
  ASSUME NEW fq \in Queue, NEW s \in Seqno, NEW i \in Unacked(fq, s)
  PROVE  fq.q[i] \in Held(AckThrough(fq, s))
<1> DEFINE U == Unacked(fq, s)
           q == SubSeq(fq.q, First(U), Len(fq.q))
           d == [fq EXCEPT !.q = q]
<1>1. AckThrough(fq, s) = d
  BY Zenon DEF AckThrough
<1>2. fq.q \in Seq(FrameSet)
  BY DEF Queue
<1>3. U \subseteq 1..Len(fq.q) /\ U \in SUBSET Nat /\ i \in U
  BY <1>2 DEF Unacked
<1>4. First(U) \in U /\ First(U) <= i
  BY <1>3, FirstIsLeast
<1> DEFINE a == First(U)
<1>5. a \in 1..Len(fq.q) /\ i \in a..Len(fq.q)
  BY <1>2, <1>3, <1>4
<1> HIDE DEF a, U
<1>6. q = SubSeq(fq.q, a, Len(fq.q))
  BY DEF a
<1>7. i - a + 1 \in DOMAIN q /\ q[i - a + 1] = fq.q[i]
  BY <1>2, <1>5, <1>6
<1>8. d.q = q
  BY DEF Queue
<1> HIDE DEF d, q
<1> QED
  BY <1>1, <1>7, <1>8 DEF Held

\* Sorting a frameset in adds it, or changes nothing because it is there.
LEMMA InsertSortedHeld ==
  ASSUME NEW q \in Seq(FrameSet), NEW fs \in FrameSet, NEW i \in DOMAIN InsertSorted(q, fs)
  PROVE  \/ InsertSorted(q, fs)[i] = fs
         \/ \E j \in DOMAIN q : InsertSorted(q, fs)[i] = q[j]
<1> DEFINE place == IF Later(q, fs) = {} THEN Len(q) + 1 ELSE First(Later(q, fs))
           l == SubSeq(q, 1, place - 1)
           m == <<fs>>
           r == SubSeq(q, place, Len(q))
           all == l \o m \o r
<1>1. place \in 1..(Len(q) + 1)
  <2>1. Later(q, fs) \subseteq 1..Len(q) /\ Later(q, fs) \in SUBSET Nat
    BY DEF Later
  <2> QED
    BY <2>1, FirstIsLeast
<1>2. InsertSorted(q, fs) = IF \E k \in DOMAIN q : SeqnoOf(q[k]) = SeqnoOf(fs)
                            THEN q ELSE all
  BY Zenon DEF InsertSorted
<1> HIDE DEF place
<1>3. /\ l \in Seq(FrameSet) /\ Len(l) = place - 1
      /\ \A k \in 1..(place - 1) : l[k] = q[k]
  BY <1>1, SubSeqProperties
<1>4. /\ r \in Seq(FrameSet) /\ Len(r) = Len(q) - place + 1
      /\ \A k \in 1..(Len(q) - place + 1) : r[k] = q[place + k - 1]
  BY <1>1, SubSeqProperties
<1>5. m \in Seq(FrameSet) /\ Len(m) = 1 /\ m[1] = fs
  OBVIOUS
<1> HIDE DEF l, m, r
<1> DEFINE lm == l \o m
<1>6. /\ lm \in Seq(FrameSet) /\ Len(lm) = Len(l) + 1
      /\ \A k \in 1..(Len(l) + 1) : lm[k] = IF k <= Len(l) THEN l[k] ELSE m[k - Len(l)]
  <2>1. /\ lm \in Seq(FrameSet) /\ Len(lm) = Len(l) + Len(m)
        /\ \A k \in 1..(Len(l) + Len(m)) : lm[k] = IF k <= Len(l) THEN l[k] ELSE m[k - Len(l)]
    BY <1>3, <1>5, ConcatProperties
  <2> HIDE DEF lm
  <2> QED
    BY <1>5, <2>1
<1> HIDE DEF lm
<1>7. /\ all \in Seq(FrameSet) /\ Len(all) = Len(lm) + Len(r)
      /\ \A k \in 1..(Len(lm) + Len(r)) :
            all[k] = IF k <= Len(lm) THEN lm[k] ELSE r[k - Len(lm)]
  <2>1. all = lm \o r
    BY DEF lm
  <2> HIDE DEF all
  <2> QED
    BY <1>4, <1>6, <2>1, ConcatProperties
<1> HIDE DEF all
<1>8. CASE InsertSorted(q, fs) = q
  BY <1>8
<1>9. CASE InsertSorted(q, fs) = all
  <2>1. i \in 1..(Len(lm) + Len(r)) /\ Len(q) \in Nat
    BY <1>7, <1>9
  <2>2. CASE i <= Len(l)
    <3>1. all[i] = q[i] /\ i \in DOMAIN q
      BY <1>1, <1>3, <1>6, <1>7, <2>1, <2>2
    <3> QED
      BY <1>9, <3>1
  <2>3. CASE i = Len(l) + 1
    <3>1. all[i] = lm[i] /\ lm[i] = m[1]
      BY <1>3, <1>1, <1>6, <1>7, <2>1, <2>3
    <3> QED
      BY <1>5, <1>9, <3>1
  <2>4. CASE i > Len(l) + 1
    <3> DEFINE k == i - Len(lm)
    <3>1. k \in 1..(Len(q) - place + 1) /\ all[i] = r[k]
      BY <1>1, <1>3, <1>4, <1>6, <1>7, <2>1, <2>4
    <3>2. place + k - 1 \in DOMAIN q
      BY <1>1, <2>1, <3>1
    <3> QED
      BY <1>4, <1>9, <3>1, <3>2
  <2> QED
    BY <2>1, <2>2, <2>3, <2>4, <1>1, <1>3
<1> QED
  BY <1>2, <1>8, <1>9

\* The framesets in a queue of input are of its session.
OneSession(fq) == \A f \in Held(fq) : f.sess > 0 /\ f.sess = fq.sess

\* The session check of inqsorted: a frameset of a newer session replaces the queue,
\* so that the numbering never goes back once it has begun.
LEMMA NextSessionKeeps ==
  ASSUME NEW fq \in Queue, NEW fs \in FrameSet, fs.sess > 0, OneSession(fq)
  PROVE  LET d == NextSession(fq, fs)
         IN  /\ Held(d) \subseteq Held(fq)
             /\ OneSession(d)
             /\ d.sess > 0
             /\ d.sess = fs.sess \/ fs.sess < d.sess
             /\ fq.sess # 0 => ~Before(Top(d), Top(fq))
<1>1. fs.sess \in Nat /\ fs.seq \in Nat /\ fq.sess \in Nat /\ fq.next \in Nat
  BY DEF FrameSet, Queue
<1>2. CASE fq.sess = 0
  <2> DEFINE next == IF fs.seq >= 2 THEN fs.seq ELSE fq.next
             sess == fs.sess
             e == [fq EXCEPT !.sess = sess, !.next = next]
  <2>1. NextSession(fq, fs) = e
    BY <1>2, Zenon DEF NextSession
  <2>2. sess = fs.sess
    OBVIOUS
  <2> HIDE DEF next, sess
  <2>3. e.q = fq.q /\ e.sess = sess
    BY DEF Queue
  <2> HIDE DEF e
  <2>4. Held(fq) = {}
    BY <1>2 DEF OneSession
  <2>5. Held(e) = {}
    BY <2>3, <2>4 DEF Held
  <2> QED
    BY <1>1, <1>2, <2>1, <2>2, <2>3, <2>5 DEF OneSession
<1>3. CASE fq.sess # 0 /\ fs.sess > fq.sess
  <2> DEFINE sess == fs.sess
             next == 1
             none == <<>>
             flushed == [fq EXCEPT !.q = none]
             e == [flushed EXCEPT !.sess = sess, !.next = next]
  <2>1. NextSession(fq, fs) = e
    BY <1>3, Zenon DEF NextSession, Flush
  <2>2. sess = fs.sess /\ none = <<>>
    OBVIOUS
  <2> HIDE DEF next, sess, none
  <2>3. e.q = none /\ e.sess = sess
    BY DEF Queue
  <2> HIDE DEF e, flushed
  <2>4. Held(e) = {}
    BY <2>2, <2>3 DEF Held
  <2>5. ~Before(Top(e), Top(fq))
    BY <1>1, <1>3, <2>2, <2>3 DEF Before, Top
  <2> QED
    BY <1>1, <1>3, <2>1, <2>2, <2>3, <2>4, <2>5 DEF OneSession
<1>4. CASE fq.sess # 0 /\ ~(fs.sess > fq.sess)
  <2>1. NextSession(fq, fs) = fq
    BY <1>4 DEF NextSession
  <2>2. ~Before(Top(fq), Top(fq))
    BY <1>1 DEF Before, Top
  <2> QED
    BY <1>1, <1>4, <2>1, <2>2
<1> QED
  BY <1>1, <1>2, <1>3, <1>4

\* inqsorted: the queue gets the frameset at most, stays in one session, and its
\* numbering never goes back once it has begun.
LEMMA InqSortedKeeps ==
  ASSUME NEW fq \in Queue, NEW fs \in FrameSet, fs.sess > 0, OneSession(fq)
  PROVE  LET d == InqSorted(fq, fs)
         IN  /\ Held(d) \subseteq Held(fq) \cup {fs}
             /\ OneSession(d)
             /\ d.sess > 0
             /\ fq.sess # 0 => ~Before(Top(d), Top(fq))
<1> DEFINE e == NextSession(fq, fs)
           q == InsertSorted(e.q, fs)
           d == [e EXCEPT !.q = q]
<1>1. /\ e \in Queue /\ Held(e) \subseteq Held(fq) /\ OneSession(e) /\ e.sess > 0
      /\ e.sess = fs.sess \/ fs.sess < e.sess
      /\ fq.sess # 0 => ~Before(Top(e), Top(fq))
  BY NextSessionKeeps, NextSessionType
<1>2. InqSorted(fq, fs) = IF InqRefused(fq, fs) THEN e ELSE d
  BY Zenon DEF InqSorted
<1>3. fs.sess \in Nat /\ fq.sess \in Nat
  BY DEF FrameSet, Queue
<1>4. ~InqRefused(fq, fs) => e.sess = fs.sess
  <2> SUFFICES ASSUME ~InqRefused(fq, fs), fs.sess < e.sess PROVE FALSE
    BY <1>1
  <2>1. ~(fq.sess # 0 /\ fs.sess < fq.sess)
    BY DEF InqRefused
  <2>2. CASE fq.sess = 0
    <3> DEFINE next == IF fs.seq >= 2 THEN fs.seq ELSE fq.next
               sess == fs.sess
               x == [fq EXCEPT !.sess = sess, !.next = next]
    <3>1. e = x
      BY <2>2, Zenon DEF NextSession
    <3>2. x.sess = fs.sess
      BY DEF Queue
    <3> HIDE DEF e, x
    <3> QED
      BY <1>3, <3>1, <3>2
  <2>3. CASE fq.sess # 0 /\ fs.sess > fq.sess
    <3> DEFINE sess == fs.sess
               next == 1
               none == <<>>
               flushed == [fq EXCEPT !.q = none]
               x == [flushed EXCEPT !.sess = sess, !.next = next]
    <3>1. e = x
      BY <2>3, Zenon DEF NextSession, Flush
    <3>2. x.sess = fs.sess
      BY DEF Queue
    <3> HIDE DEF e, x
    <3> QED
      BY <1>3, <3>1, <3>2
  <2>4. CASE fq.sess # 0 /\ ~(fs.sess > fq.sess)
    <3>1. e = fq
      BY <2>4 DEF NextSession
    <3> HIDE DEF e
    <3> QED
      BY <1>3, <2>1, <2>4, <3>1
  <2> QED
    BY <2>2, <2>3, <2>4
<1> HIDE DEF e
<1>5. e.q \in Seq(FrameSet)
  BY <1>1 DEF Queue
<1>6. ASSUME NEW i \in DOMAIN q PROVE q[i] = fs \/ q[i] \in Held(e)
  BY <1>5, InsertSortedHeld DEF Held
<1> HIDE DEF q
<1>7. d.q = q /\ d.sess = e.sess /\ d.next = e.next
  BY <1>1 DEF Queue
<1> HIDE DEF d
<1>8. Held(d) \subseteq Held(e) \cup {fs}
  BY <1>6, <1>7 DEF Held
<1>9. Top(d) = Top(e)
  BY <1>7 DEF Top
<1>10. CASE InqRefused(fq, fs)
  BY <1>1, <1>2, <1>10
<1>11. CASE ~InqRefused(fq, fs)
  <2>1. OneSession(d)
    BY <1>1, <1>4, <1>7, <1>8, <1>11 DEF OneSession
  <2>2. Held(d) \subseteq Held(fq) \cup {fs}
    BY <1>1, <1>8
  <2>3. InqSorted(fq, fs) = d
    BY <1>2, <1>11
  <2> QED
    BY <1>1, <1>7, <1>9, <2>1, <2>2, <2>3
<1> QED
  BY <1>10, <1>11

\* deq takes the head off and counts it.
LEMMA DeqHeld ==
  ASSUME NEW fq \in Queue, fq.q # <<>>
  PROVE  /\ Head(fq.q) \in Held(fq)
         /\ Held(Deq(fq)) \subseteq Held(fq)
         /\ Deq(fq).sess = fq.sess /\ Deq(fq).next = fq.next + 1
<1>1. fq.q \in Seq(FrameSet)
  BY DEF Queue
<1> DEFINE q == Tail(fq.q)
           k == fq.next + 1
           d == [fq EXCEPT !.q = q, !.next = k]
<1>2. Deq(fq) = d
  BY Zenon DEF Deq
<1>3. Head(fq.q) \in Held(fq)
  <2>1. 1 \in DOMAIN fq.q /\ Head(fq.q) = fq.q[1]
    BY <1>1
  <2> QED
    BY <2>1 DEF Held
<1>4. ASSUME NEW i \in DOMAIN q PROVE \E j \in DOMAIN fq.q : q[i] = fq.q[j]
  <2>1. /\ q \in Seq(FrameSet) /\ Len(q) = Len(fq.q) - 1
        /\ \A j \in 1..Len(q) : q[j] = fq.q[j + 1]
    BY <1>1, HeadTailProperties
  <2> HIDE DEF q
  <2>2. i \in 1..Len(q) /\ i + 1 \in DOMAIN fq.q
    BY <1>1, <2>1
  <2> QED
    BY <2>1, <2>2
<1> HIDE DEF q
<1>5. d.q = q /\ d.sess = fq.sess /\ d.next = k
  BY DEF Queue
<1>6. k = fq.next + 1
  OBVIOUS
<1> HIDE DEF d, k
<1>7. Held(d) \subseteq Held(fq)
  BY <1>4, <1>5 DEF Held
<1> QED
  BY <1>2, <1>3, <1>5, <1>6, <1>7

-------------------------------------------------------------------------------
(* A queue of output that gives out its numbers in sequence, and how far what  *)
(* was sent from it has got.                                                   *)

\* The framesets in the queue are of its session, numbered upwards, and have been
\* numbered by it.
InRun(fq) ==
  /\ OneSession(fq)
  /\ \A f \in Held(fq) : f.seq < fq.next /\ f.kind # "ack"
  /\ \A i, j \in DOMAIN fq.q : i < j => fq.q[i].seq < fq.q[j].seq

\* The number t does not come after the head of the queue; an empty queue has given
\* it out, or belongs to a process (of session id sess) that has not used it yet.
AtMost(fq, sess, t) ==
  IF fq.q # <<>>
  THEN ~Before(SeqnoOf(Head(fq.q)), t)
  ELSE IF fq.sess = 0 THEN t[1] < sess ELSE Before(t, Top(fq))

\* A queue without framesets is in sequence.
LEMMA EmptyInRun ==
  ASSUME NEW fq, fq.q = <<>>
  PROVE  InRun(fq)
BY DEF InRun, OneSession, Held

\* The head of a queue is its first frameset and has the least number.
LEMMA HeadIsLeast ==
  ASSUME NEW fq \in Queue, InRun(fq), fq.q # <<>>
  PROVE  /\ Head(fq.q) \in Held(fq) /\ Head(fq.q) = fq.q[1] /\ 1 \in DOMAIN fq.q
         /\ \A f \in Held(fq) : Head(fq.q).seq <= f.seq
<1>1. fq.q \in Seq(FrameSet)
  BY DEF Queue
<1>2. 1 \in DOMAIN fq.q /\ Head(fq.q) = fq.q[1] /\ DOMAIN fq.q \subseteq Nat \ {0}
  BY <1>1
<1> DEFINE q == fq.q
<1>4. \A i \in DOMAIN q : q[i].seq \in Nat
  <2> SUFFICES ASSUME NEW i \in DOMAIN q PROVE q[i].seq \in Nat
    OBVIOUS
  <2>1. q[i] \in FrameSet
    BY <1>1
  <2> HIDE DEF q
  <2> QED
    BY <2>1 DEF FrameSet
<1>3. ASSUME NEW i \in DOMAIN fq.q PROVE fq.q[1].seq <= fq.q[i].seq
  <2>1. i \in Nat /\ i >= 1 /\ fq.q[1].seq \in Nat /\ fq.q[i].seq \in Nat
    BY <1>2, <1>4
  <2>2. CASE i = 1
    BY <2>1, <2>2
  <2>3. CASE i > 1
    <3>1. fq.q[1].seq < fq.q[i].seq
      BY <1>2, <2>3 DEF InRun
    <3> QED
      BY <2>1, <3>1
  <2> QED
    BY <2>1, <2>2, <2>3
<1> QED
  BY <1>2, <1>3 DEF Held

\* enq keeps a queue in sequence.
LEMMA EnqInRun ==
  ASSUME NEW fq \in Queue, InRun(fq), NEW kind \in Kinds, kind # "ack",
         NEW val \in Nat, NEW s \in Nat, s > 0
  PROVE  InRun(Enq(fq, kind, val, s))
<1> DEFINE d == Enq(fq, kind, val, s)
           e == Added(fq, kind, val, s)
<1>1. fq.q \in Seq(FrameSet) /\ fq.next \in Nat /\ fq.sess \in Nat
  BY DEF Queue
<1>2. CASE d = fq
  BY <1>2
<1>3. CASE /\ Held(d) = Held(fq) \cup {e}
           /\ d.q = Append(fq.q, e)
           /\ Top(d) = <<EnqSession(fq, s), fq.next + 1>>
           /\ e \in FrameSet
  <2>1. e.kind = kind /\ e.seq = fq.next /\ e.sess = EnqSession(fq, s)
    BY DEF Added
  <2> HIDE DEF d, e
  <2>2. d.sess = e.sess /\ d.next = fq.next + 1
    BY <1>3, <2>1 DEF Top
  <2>3. e.sess > 0 /\ (fq.sess # 0 => e.sess = fq.sess)
    BY <1>1, <2>1 DEF EnqSession
  <2>4. OneSession(d)
    BY <1>3, <2>2, <2>3 DEF OneSession, InRun
  <2>5. ASSUME NEW f \in Held(d) PROVE f.seq < d.next /\ f.kind # "ack"
    <3>1. CASE f = e
      BY <1>1, <2>1, <2>2, <3>1
    <3>2. CASE f \in Held(fq)
      <4>1. f.seq < fq.next /\ f.kind # "ack"
        BY <3>2 DEF InRun
      <4>2. f.seq \in Nat
        BY <3>2, HeldType DEF FrameSet
      <4> QED
        BY <1>1, <2>2, <4>1, <4>2
    <3> QED
      BY <1>3, <3>1, <3>2
  <2>6. /\ Len(d.q) = Len(fq.q) + 1 /\ d.q[Len(fq.q) + 1] = e
        /\ \A i \in 1..Len(fq.q) : d.q[i] = fq.q[i]
        /\ DOMAIN fq.q = 1..Len(fq.q) /\ DOMAIN d.q = 1..(Len(fq.q) + 1) /\ Len(fq.q) \in Nat
    <3> DEFINE q == Append(fq.q, e)
    <3>1. /\ q \in Seq(FrameSet) /\ Len(q) = Len(fq.q) + 1 /\ q[Len(fq.q) + 1] = e
          /\ \A i \in 1..Len(fq.q) : q[i] = fq.q[i]
      BY <1>1, <1>3, AppendProperties
    <3>2. d.q = q
      BY <1>3
    <3> HIDE DEF q
    <3>3. DOMAIN fq.q = 1..Len(fq.q) /\ DOMAIN q = 1..(Len(fq.q) + 1) /\ Len(fq.q) \in Nat
      BY <1>1, <3>1
    <3> QED
      BY <3>1, <3>2, <3>3
  <2>7. ASSUME NEW i \in DOMAIN d.q, NEW j \in DOMAIN d.q, i < j
        PROVE  d.q[i].seq < d.q[j].seq
    <3>1. i \in 1..Len(fq.q) /\ d.q[i] = fq.q[i]
      BY <2>6, <2>7
    <3>2. CASE j \in 1..Len(fq.q)
      <4>1. d.q[j] = fq.q[j] /\ i \in DOMAIN fq.q /\ j \in DOMAIN fq.q
        BY <2>6, <3>1, <3>2
      <4> QED
        BY <2>7, <3>1, <4>1 DEF InRun
    <3>3. CASE j = Len(fq.q) + 1
      <4>1. d.q[j].seq = fq.next
        BY <2>1, <2>6, <3>3
      <4>2. fq.q[i] \in Held(fq)
        BY <2>6, <3>1 DEF Held
      <4>3. fq.q[i].seq < fq.next
        BY <4>2 DEF InRun
      <4> QED
        BY <3>1, <4>1, <4>3
    <3> QED
      BY <2>6, <3>2, <3>3
  <2>8. InRun(d)
    BY <2>4, <2>5, <2>7 DEF InRun
  <2> QED
    BY <2>8 DEF d
<1>4. \/ d = fq
      \/ /\ Held(d) = Held(fq) \cup {e}
         /\ d.q = Append(fq.q, e)
         /\ Top(d) = <<EnqSession(fq, s), fq.next + 1>>
         /\ e \in FrameSet
  BY EnqHeld
<1> QED
  BY <1>2, <1>3, <1>4

\* ackthrough keeps a queue in sequence.
LEMMA AckThroughInRun ==
  ASSUME NEW fq \in Queue, InRun(fq), NEW s \in Seqno
  PROVE  InRun(AckThrough(fq, s))
<1> DEFINE U == Unacked(fq, s)
           q == IF U = {} THEN <<>> ELSE SubSeq(fq.q, First(U), Len(fq.q))
           d == [fq EXCEPT !.q = q]
<1>1. AckThrough(fq, s) = d
  BY Zenon DEF AckThrough
<1>2. fq.q \in Seq(FrameSet)
  BY DEF Queue
<1>3. Held(d) \subseteq Held(fq) /\ Top(d) = Top(fq)
  BY <1>1, AckThroughHeld
<1>4. ASSUME NEW i \in DOMAIN q, NEW j \in DOMAIN q, i < j
      PROVE  q[i].seq < q[j].seq
  <2>1. CASE U = {}
    BY <2>1
  <2>2. CASE U # {}
    <3>1. U \in SUBSET Nat /\ U \subseteq 1..Len(fq.q) /\ Len(fq.q) \in Nat
      BY <1>2 DEF Unacked
    <3> DEFINE a == First(U)
    <3>2. a \in 1..Len(fq.q)
      BY <2>2, <3>1, FirstIsLeast
    <3> HIDE DEF a, U
    <3> DEFINE p == SubSeq(fq.q, a, Len(fq.q))
    <3>3. /\ p \in Seq(FrameSet) /\ Len(p) = Len(fq.q) - a + 1
          /\ \A k \in 1..(Len(fq.q) - a + 1) : p[k] = fq.q[a + k - 1]
      BY <1>2, <3>1, <3>2, SubSeqProperties
    <3>4. q = p
      BY <2>2 DEF a
    <3> HIDE DEF p, q
    <3>5. i \in 1..(Len(fq.q) - a + 1) /\ j \in 1..(Len(fq.q) - a + 1)
      BY <3>3, <3>4
    <3>6. q[i] = fq.q[a + i - 1] /\ q[j] = fq.q[a + j - 1]
      BY <3>3, <3>4, <3>5
    <3>7. /\ a + i - 1 \in DOMAIN fq.q /\ a + j - 1 \in DOMAIN fq.q
          /\ a + i - 1 < a + j - 1
      BY <1>2, <1>4, <3>1, <3>2, <3>5
    <3> QED
      BY <3>6, <3>7 DEF InRun
  <2> QED
    BY <2>1, <2>2
<1> HIDE DEF q
<1>5. d.q = q /\ d.next = fq.next /\ d.sess = fq.sess
  BY DEF Queue
<1> HIDE DEF d
<1>6. OneSession(d) /\ \A f \in Held(d) : f.seq < d.next /\ f.kind # "ack"
  BY <1>3, <1>5 DEF InRun, OneSession
<1>7. InRun(d)
  BY <1>4, <1>5, <1>6 DEF InRun
<1> QED
  BY <1>1, <1>7

\* Nothing comes after the head of a queue when framesets are taken off it.
LEMMA AtMostLess ==
  ASSUME NEW fq \in Queue, NEW d \in Queue, InRun(fq), InRun(d),
         Held(d) \subseteq Held(fq), Top(d) = Top(fq),
         NEW s \in Nat, NEW t \in Seqno, AtMost(fq, s, t)
  PROVE  AtMost(d, s, t)
<1>1. /\ fq.next \in Nat /\ fq.sess \in Nat /\ t[1] \in Nat /\ t[2] \in Nat
      /\ d.sess = fq.sess /\ d.next = fq.next
  BY DEF Queue, Seqno, Top
<1>2. CASE fq.q = <<>>
  <2>1. d.q = <<>>
    <3>1. Held(fq) = {}
      BY <1>2 DEF Held
    <3> QED
      BY <3>1, HeadIsLeast
  <2> QED
    BY <1>1, <1>2, <2>1 DEF AtMost
<1>3. CASE fq.q # <<>>
  <2> DEFINE h == Head(fq.q)
  <2>1. h \in Held(fq) /\ \A f \in Held(fq) : h.seq <= f.seq
    BY <1>3, HeadIsLeast
  <2>2. ~Before(SeqnoOf(h), t)
    BY <1>3 DEF AtMost
  <2> HIDE DEF h
  <2>3. h.sess = fq.sess /\ h.sess > 0 /\ h.seq < fq.next /\ h.sess \in Nat /\ h.seq \in Nat
    BY <2>1, HeldType DEF InRun, OneSession, FrameSet
  <2>4. CASE d.q = <<>>
    <3>1. Before(t, Top(d))
      BY <1>1, <2>2, <2>3 DEF Before, Top, SeqnoOf
    <3> QED
      BY <1>1, <2>3, <2>4, <3>1 DEF AtMost
  <2>5. CASE d.q # <<>>
    <3> DEFINE k == Head(d.q)
    <3>1. k \in Held(d) /\ k \in Held(fq)
      BY <2>5, HeadIsLeast
    <3> HIDE DEF k
    <3>2. k.sess = fq.sess /\ h.seq <= k.seq /\ k.sess \in Nat /\ k.seq \in Nat
      BY <2>1, <3>1, HeldType DEF InRun, OneSession, FrameSet
    <3>3. ~Before(SeqnoOf(k), t)
      BY <1>1, <2>2, <2>3, <3>2 DEF Before, SeqnoOf
    <3> QED
      BY <2>5, <3>3 DEF AtMost, k
  <2> QED
    BY <2>4, <2>5
<1> QED
  BY <1>2, <1>3

\* A reset gives an empty queue a session of its own, later than all it sent.
LEMMA AtMostReset ==
  ASSUME NEW fq \in Queue, NEW d \in Queue, InRun(fq), d.q = <<>>,
         IF fq.sess = 0 THEN d.sess = 0 ELSE d.sess > fq.sess,
         NEW s \in Nat, NEW t \in Seqno, AtMost(fq, s, t)
  PROVE  AtMost(d, s, t)
<1>1. /\ fq.next \in Nat /\ fq.sess \in Nat /\ t[1] \in Nat /\ t[2] \in Nat
      /\ d.sess \in Nat /\ d.next \in Nat
  BY DEF Queue, Seqno
<1>2. CASE fq.q = <<>>
  BY <1>1, <1>2 DEF AtMost, Before, Top
<1>3. CASE fq.q # <<>>
  <2> DEFINE h == Head(fq.q)
  <2>1. h \in Held(fq)
    BY <1>3, HeadIsLeast
  <2>2. ~Before(SeqnoOf(h), t)
    BY <1>3 DEF AtMost
  <2> HIDE DEF h
  <2>3. h.sess = fq.sess /\ h.sess > 0 /\ h.sess \in Nat /\ h.seq \in Nat
    BY <2>1, HeldType DEF InRun, OneSession, FrameSet
  <2>4. Before(t, Top(d))
    BY <1>1, <2>2, <2>3 DEF Before, Top, SeqnoOf
  <2> QED
    BY <1>1, <2>3, <2>4 DEF AtMost
<1> QED
  BY <1>2, <1>3

\* The number of a frameset that enq adds is later than all that was sent before, and
\* enq leaves the head of a queue where it is.
LEMMA EnqAtMost ==
  ASSUME NEW fq \in Queue, InRun(fq), NEW kind \in Kinds, NEW val \in Nat,
         NEW s \in Nat, s > 0, NEW t \in Seqno, AtMost(fq, s, t)
  PROVE  /\ AtMost(Enq(fq, kind, val, s), s, t)
         /\ SeqnoOf(Added(fq, kind, val, s)) # t
<1> DEFINE d == Enq(fq, kind, val, s)
           e == Added(fq, kind, val, s)
<1>1. /\ fq.q \in Seq(FrameSet) /\ fq.next \in Nat /\ fq.sess \in Nat
      /\ t[1] \in Nat /\ t[2] \in Nat
  BY DEF Queue, Seqno
<1>2. e.seq = fq.next /\ e.sess = EnqSession(fq, s)
  BY DEF Added
<1>3. /\ e.sess \in Nat /\ (fq.sess = 0 => e.sess = s) /\ (fq.sess # 0 => e.sess = fq.sess)
  BY <1>1, <1>2 DEF EnqSession
<1>4. \/ d = fq
      \/ d.q = Append(fq.q, e) /\ e \in FrameSet
  BY EnqHeld
<1> HIDE DEF d, e
<1>5. CASE fq.q = <<>>
  <2>1. Before(t, SeqnoOf(e))
    BY <1>1, <1>2, <1>3, <1>5 DEF AtMost, Before, SeqnoOf, Top
  <2>2. ~Before(SeqnoOf(e), t) /\ SeqnoOf(e) # t
    BY <1>1, <1>2, <1>3, <2>1 DEF Before, SeqnoOf
  <2>3. CASE d.q = Append(fq.q, e)
    <3>1. d.q # <<>> /\ Head(d.q) = e
      BY <1>5, <2>3
    <3> QED
      BY <2>2, <3>1 DEF AtMost, d, e
  <2> QED
    BY <1>4, <2>2, <2>3 DEF d, e
<1>6. CASE fq.q # <<>>
  <2> DEFINE h == Head(fq.q)
  <2>1. h \in Held(fq)
    BY <1>6, HeadIsLeast
  <2>2. ~Before(SeqnoOf(h), t)
    BY <1>6 DEF AtMost
  <2>3. d.q # <<>> /\ Head(d.q) = h
    <3>1. CASE d.q = Append(fq.q, e) /\ e \in FrameSet
      BY <1>1, <1>6, <3>1
    <3> QED
      BY <1>4, <1>6, <3>1
  <2> HIDE DEF h
  <2>4. h.sess = fq.sess /\ h.sess > 0 /\ h.sess \in Nat /\ h.seq \in Nat /\ h.seq < fq.next
    BY <2>1, HeldType DEF InRun, OneSession, FrameSet
  <2>5. SeqnoOf(e) # t
    BY <1>1, <1>2, <1>3, <2>2, <2>4 DEF Before, SeqnoOf
  <2>6. AtMost(d, s, t)
    BY <2>2, <2>3 DEF AtMost
  <2> QED
    BY <2>5, <2>6 DEF d, e
<1> QED
  BY <1>5, <1>6


\* What an ACK covers that is no later than the head of the queue is its own frameset.
LEMMA AckedIsNamed ==
  ASSUME NEW fq \in Queue, InRun(fq), NEW s \in Seqno, ~AckRefused(fq, s),
         NEW sess \in Nat, AtMost(fq, sess, s), NEW i \in DOMAIN fq.q \ Unacked(fq, s)
  PROVE  SeqnoOf(fq.q[i]) = s /\ fq.q[i] \in Held(fq)
<1> DEFINE f == fq.q[i]
           h == Head(fq.q)
<1>1. f \in Held(fq) /\ fq.q # <<>>
  BY DEF Held
<1>2. h \in Held(fq) /\ h.seq <= f.seq
  BY <1>1, HeadIsLeast
<1>3. ~(f.seq > s[2]) /\ s[1] = fq.sess
  BY DEF Unacked, AckRefused
<1>4. ~Before(SeqnoOf(h), s)
  BY <1>1 DEF AtMost
<1> HIDE DEF f, h
<1>5. /\ f.sess = fq.sess /\ h.sess = fq.sess
      /\ f.seq \in Nat /\ h.seq \in Nat /\ f.sess \in Nat /\ s[1] \in Nat /\ s[2] \in Nat
  BY <1>1, <1>2, HeldType DEF InRun, OneSession, FrameSet, Seqno
<1>6. f.seq = s[2]
  BY <1>2, <1>3, <1>4, <1>5 DEF Before, SeqnoOf
<1>7. SeqnoOf(f) = s
  BY <1>3, <1>5, <1>6 DEF SeqnoOf, Seqno
<1> QED
  BY <1>1, <1>7 DEF f

\* The number of the head, or the one that will be given out next.
Base(fq) == fq.next - Len(fq.q)

\* A queue of output holds the last numbers that were given out, all of them.
Gapless(fq) ==
  /\ Len(fq.q) < fq.next
  /\ \A i \in DOMAIN fq.q : fq.q[i].seq = Base(fq) + i - 1

\* A queue of input holds the next frameset and no other.
Awaits(fq) == fq.q = <<>> \/ (Len(fq.q) = 1 /\ Head(fq.q).seq = fq.next)

\* The numbers of a queue, counted from its end.
LEMMA BaseType ==
  ASSUME NEW fq \in Queue
  PROVE  /\ fq.q \in Seq(FrameSet) /\ fq.next \in Nat /\ Len(fq.q) \in Nat
         /\ DOMAIN fq.q = 1..Len(fq.q)
         /\ Base(fq) \in Int /\ Base(fq) + Len(fq.q) = fq.next
<1>1. /\ fq.q \in Seq(FrameSet) /\ fq.next \in Nat /\ Len(fq.q) \in Nat
      /\ DOMAIN fq.q = 1..Len(fq.q)
  BY DEF Queue
<1> DEFINE l == Len(fq.q)  k == fq.next
<1>2. l \in Nat /\ k \in Nat
  BY <1>1
<1>3. Base(fq) = k - l
  BY DEF Base
<1> HIDE DEF l, k
<1>4. Base(fq) \in Int /\ Base(fq) + l = k
  BY <1>2, <1>3
<1> QED
  BY <1>1, <1>4 DEF l, k

\* A queue that was reset has no gap.
LEMMA ResetGapless ==
  ASSUME NEW fq, fq.q = <<>>, fq.next = 1
  PROVE  Gapless(fq) /\ Base(fq) = 1
BY DEF Gapless, Base

\* A number is given out without a gap; the head stays.
LEMMA EnqGapless ==
  ASSUME NEW fq \in Queue, Gapless(fq), NEW kind \in Kinds, NEW val \in Nat, NEW s \in Nat
  PROVE  Gapless(Enq(fq, kind, val, s)) /\ Base(Enq(fq, kind, val, s)) = Base(fq)
<1> DEFINE d == Enq(fq, kind, val, s)
           f == Added(fq, kind, val, s)
<1>1. fq.q \in Seq(FrameSet) /\ fq.next \in Nat /\ Len(fq.q) \in Nat
  BY DEF Queue
<1>2. CASE d = fq
  BY <1>2
<1>3. CASE /\ d.q = Append(fq.q, f) /\ Top(d) = <<EnqSession(fq, s), fq.next + 1>>
           /\ f \in FrameSet
  <2>1. d.next = fq.next + 1
    BY <1>3 DEF Top
  <2>2. f.seq = fq.next
    BY DEF Added
  <2>3. d.q = Append(fq.q, f) /\ f \in FrameSet
    BY <1>3
  <2> HIDE DEF d, f
  <2>4. /\ Len(d.q) = Len(fq.q) + 1 /\ DOMAIN d.q = 1..(Len(fq.q) + 1)
        /\ \A i \in 1..Len(fq.q) : d.q[i] = fq.q[i]
        /\ d.q[Len(fq.q) + 1] = f
    BY <1>1, <2>3, AppendProperties
  <2>5. Base(d) = Base(fq) /\ Base(fq) \in Int /\ Base(fq) + Len(fq.q) = fq.next
    <3>1. Base(d) = d.next - Len(d.q) /\ Base(fq) = fq.next - Len(fq.q)
      BY Zenon DEF Base
    <3>2. Base(d) = (fq.next + 1) - (Len(fq.q) + 1)
      BY <2>1, <2>4, <3>1, Zenon
    <3> QED
      BY <1>1, <3>1, <3>2
  <2>6. ASSUME NEW i \in DOMAIN d.q PROVE d.q[i].seq = Base(d) + i - 1
    <3>1. CASE i = Len(fq.q) + 1
      BY <1>1, <2>2, <2>4, <2>5, <3>1
    <3>2. CASE i \in 1..Len(fq.q)
      <4>1. i \in DOMAIN fq.q /\ d.q[i] = fq.q[i]
        BY <1>1, <2>4, <3>2
      <4>2. fq.q[i].seq = Base(fq) + i - 1
        BY <4>1, Zenon DEF Gapless
      <4> QED
        BY <2>5, <4>1, <4>2
    <3> QED
      BY <1>1, <2>4, <3>1, <3>2
  <2>7. Len(d.q) < d.next
    BY <1>1, <2>1, <2>4 DEF Gapless
  <2>8. Gapless(d)
    BY <2>6, <2>7 DEF Gapless
  <2> QED
    BY <2>5, <2>8 DEF d
<1> QED
  BY <1>2, <1>3, EnqHeld, Zenon

\* An ACK leaves no gap, and moves the head to the number after it at most.
LEMMA AckThroughGapless ==
  ASSUME NEW fq \in Queue, Gapless(fq), NEW s \in Seqno, s[2] < fq.next,
         NEW m \in Nat, Base(fq) <= m, s[2] < m
  PROVE  LET d == AckThrough(fq, s) IN Gapless(d) /\ Base(d) <= m
<1> DEFINE U == Unacked(fq, s)
           q == IF U = {} THEN <<>> ELSE SubSeq(fq.q, First(U), Len(fq.q))
           d == [fq EXCEPT !.q = q]
<1>1. AckThrough(fq, s) = d
  BY Zenon DEF AckThrough
<1>2. /\ fq.q \in Seq(FrameSet) /\ fq.next \in Nat /\ Len(fq.q) \in Nat
      /\ DOMAIN fq.q = 1..Len(fq.q) /\ s[2] \in Nat /\ Len(fq.q) < fq.next
      /\ Base(fq) \in Int /\ Base(fq) + Len(fq.q) = fq.next
  BY BaseType DEF Seqno, Gapless
<1>3. \A i \in 1..Len(fq.q) : fq.q[i].seq = Base(fq) + i - 1
  BY <1>2 DEF Gapless
<1>4. U = {i \in 1..Len(fq.q) : Base(fq) + i - 1 > s[2]}
  BY <1>2, <1>3 DEF Unacked
<1>5. d.q = q /\ d.next = fq.next
  BY DEF Queue
<1>6. CASE U = {}
  <2>1. q = <<>>
    BY <1>6
  <2>2. fq.next <= m
    <3>1. CASE Len(fq.q) = 0
      BY <1>2, <3>1
    <3>2. CASE Len(fq.q) > 0
      <4>1. Len(fq.q) \in 1..Len(fq.q)
        BY <1>2, <3>2
      <4>2. ~(Base(fq) + Len(fq.q) - 1 > s[2])
        BY <1>4, <1>6, <4>1
      <4> QED
        BY <1>2, <4>2
    <3> QED
      BY <1>2, <3>1, <3>2
  <2> HIDE DEF q, d, U
  <2>3. Len(d.q) = 0 /\ DOMAIN d.q = {}
    BY <1>5, <2>1
  <2>4. Gapless(d) /\ Base(d) <= m
    BY <1>2, <1>5, <2>2, <2>3 DEF Gapless, Base
  <2> QED
    BY <1>1, <2>4
<1>7. CASE U # {}
  <2> DEFINE a == First(U)
             p == SubSeq(fq.q, a, Len(fq.q))
  <2>1. U \in SUBSET Nat
    BY <1>4
  <2>2. a \in U /\ \A j \in U : a <= j
    BY <1>7, <2>1, FirstIsLeast
  <2>3. q = p
    BY <1>7
  <2> HIDE DEF a, U
  <2>4. a \in 1..Len(fq.q)
    BY <1>4, <2>2
  <2>5. Base(fq) + a - 1 <= m
    <3>1. CASE a = 1
      BY <1>2, <3>1
    <3>2. CASE a > 1
      <4>1. a - 1 \in 1..Len(fq.q) /\ ~(a - 1 \in U)
        BY <1>2, <2>1, <2>2, <2>4, <3>2
      <4>2. ~(Base(fq) + (a - 1) - 1 > s[2])
        BY <1>4, <4>1
      <4> QED
        BY <1>2, <2>4, <4>2
    <3> QED
      BY <2>4, <3>1, <3>2
  <2>6. /\ p \in Seq(FrameSet) /\ Len(p) = Len(fq.q) - a + 1
        /\ \A k \in 1..(Len(fq.q) - a + 1) : p[k] = fq.q[a + k - 1]
    BY <1>2, <2>4, SubSeqProperties
  <2> HIDE DEF p, q, d
  <2>7. Len(d.q) = Len(fq.q) - a + 1 /\ DOMAIN d.q = 1..(Len(fq.q) - a + 1)
    BY <1>5, <2>3, <2>6
  <2>8. Base(d) = Base(fq) + a - 1
    BY <1>2, <1>5, <2>4, <2>7 DEF Base
  <2>9. ASSUME NEW k \in 1..(Len(fq.q) - a + 1) PROVE d.q[k].seq = Base(d) + k - 1
    <3> DEFINE i == a + k - 1
    <3>1. i \in 1..Len(fq.q) /\ d.q[k] = fq.q[i]
      BY <1>2, <1>5, <2>3, <2>4, <2>6, <2>9
    <3>2. i = a + k - 1
      OBVIOUS
    <3> HIDE DEF i
    <3>3. fq.q[i].seq = Base(fq) + i - 1
      BY <1>3, <3>1
    <3> QED
      BY <1>2, <2>4, <2>8, <3>1, <3>2, <3>3
  <2>10. Gapless(d) /\ Base(d) <= m
    <3>1. Len(d.q) < d.next
      BY <1>2, <1>5, <2>4, <2>7
    <3>2. Gapless(d)
      BY <2>7, <2>9, <3>1, Zenon DEF Gapless
    <3> QED
      BY <2>5, <2>8, <3>2
  <2> QED
    BY <1>1, <2>10
<1> QED
  BY <1>6, <1>7

\* The numbers of a queue without gaps start at one or later.
LEMMA GaplessPositive ==
  ASSUME NEW fq \in Queue, Gapless(fq)
  PROVE  /\ Base(fq) >= 1 /\ Base(fq) \in Nat
         /\ fq.q # <<>> => fq.q[1].seq = Base(fq)
<1>1. /\ fq.q \in Seq(FrameSet) /\ fq.next \in Nat /\ Len(fq.q) \in Nat
      /\ DOMAIN fq.q = 1..Len(fq.q)
  BY DEF Queue
<1>2. Len(fq.q) < fq.next
  BY DEF Gapless
<1>3. Base(fq) >= 1 /\ Base(fq) \in Nat
  BY <1>1, <1>2 DEF Base
<1>4. ASSUME fq.q # <<>> PROVE fq.q[1].seq = Base(fq)
  <2>1. 1 \in DOMAIN fq.q
    BY <1>1, <1>4
  <2>2. fq.q[1].seq = Base(fq) + 1 - 1
    BY <2>1 DEF Gapless
  <2> QED
    BY <1>3, <2>2
<1> QED
  BY <1>3, <1>4

\* Reading the frameset that was awaited leaves nothing.
LEMMA DeqAwaits ==
  ASSUME NEW fq \in Queue, Awaits(fq), fq.q # <<>>
  PROVE  Deq(fq).q = <<>> /\ Head(fq.q).seq = fq.next
<1>1. fq.q \in Seq(FrameSet) /\ Len(fq.q) = 1 /\ Head(fq.q).seq = fq.next
  BY DEF Queue, Awaits
<1>2. Tail(fq.q) = <<>>
  <2>1. Tail(fq.q) \in Seq(FrameSet) /\ Len(Tail(fq.q)) = Len(fq.q) - 1
    BY <1>1, HeadTailProperties
  <2>2. Len(Tail(fq.q)) = 0
    BY <1>1, <2>1
  <2> HIDE DEF Awaits
  <2> QED
    BY <2>1, <2>2, EmptySeq, Zenon
<1> DEFINE t == Tail(fq.q)  k == fq.next + 1  d == [fq EXCEPT !.q = t, !.next = k]
<1>3. Deq(fq) = d
  BY Zenon DEF Deq
<1> HIDE DEF t, k
<1>4. d.q = t
  BY DEF Queue
<1> QED
  BY <1>1, <1>2, <1>3, <1>4 DEF t

\* Of a peer whose framesets come one at a time, a frameset is the one awaited, and
\* is stored, or was read before, and is refused.
LEMMA InqSortedAwaits ==
  ASSUME NEW fq \in Queue, NEW fs \in FrameSet, Awaits(fq),
         fs.sess > 0, fq.sess \in {0, fs.sess}, fq.sess = 0 => fq.next = 1 /\ fq.q = <<>>,
         \A f \in Held(fq) : f.sess = fs.sess, fs.seq >= 1, fs.seq <= fq.next
  PROVE  LET d == InqSorted(fq, fs)
         IN  /\ Awaits(d) /\ d.next = fq.next /\ d.sess = fs.sess
             /\ Readable(d) <=> (Readable(fq) \/ fs.seq = fq.next)
<1> DEFINE e == NextSession(fq, fs)
<1>1. /\ fs.sess \in Nat /\ fs.seq \in Nat /\ fq.sess \in Nat /\ fq.next \in Nat
      /\ fq.q \in Seq(FrameSet) /\ Len(fq.q) \in Nat
  BY DEF FrameSet, Queue
<1>2. e \in Queue /\ e.next = fq.next /\ e.sess = fs.sess /\ e.q = fq.q
  <2>1. e \in Queue
    BY NextSessionType
  <2>2. CASE fq.sess = 0
    <3> DEFINE n1 == IF fs.seq >= 2 THEN fs.seq ELSE fq.next
               s1 == fs.sess
               g == [fq EXCEPT !.sess = s1, !.next = n1]
    <3>1. e = g
      BY <2>2, Zenon DEF NextSession
    <3>2. n1 = fq.next
      BY <1>1, <2>2
    <3> HIDE DEF n1, s1, e
    <3>3. g.next = n1 /\ g.sess = s1 /\ g.q = fq.q
      BY DEF Queue
    <3> QED
      BY <2>1, <3>1, <3>2, <3>3 DEF s1
  <2>3. CASE fq.sess # 0
    <3>1. fq.sess = fs.sess /\ ~(fs.sess > fq.sess)
      BY <1>1, <2>3
    <3>2. e = fq
      BY <2>3, <3>1 DEF NextSession
    <3> QED
      BY <2>1, <3>1, <3>2
  <2> QED
    BY <2>2, <2>3
<1>3. InqRefused(fq, fs) <=> (fs.seq < fq.next \/ ~HasQSpace1(fq))
  <2>1. ~(fq.sess # 0 /\ fs.sess < fq.sess)
    BY <1>1
  <2>2. HasQSpace1(e) <=> HasQSpace1(fq)
    BY <1>2 DEF HasQSpace1
  <2> HIDE DEF e
  <2>3. InqRefused(fq, fs) <=> (\/ fq.sess # 0 /\ fs.sess < fq.sess
                                \/ fs.seq < e.next \/ ~HasQSpace1(e))
    BY Zenon DEF InqRefused, e
  <2> QED
    BY <1>2, <2>1, <2>2, <2>3
<1>4. Awaits(e) /\ (Readable(e) <=> Readable(fq))
  BY <1>2 DEF Awaits, Readable
<1>5. fq.q # <<>> => Readable(fq)
  BY DEF Awaits, Readable
<1>6. CASE InqRefused(fq, fs)
  <2>1. InqSorted(fq, fs) = e
    BY <1>6, Zenon DEF InqSorted
  <2>2. fs.seq = fq.next => Readable(fq)
    <3>1. ASSUME fs.seq = fq.next PROVE fq.q # <<>>
      <4>1. ~HasQSpace1(fq)
        BY <1>1, <1>3, <1>6, <3>1
      <4>2. ~(Len(fq.q) < MaxQLen)
        BY <4>1 DEF HasQSpace1
      <4> QED
        BY <4>2, MaxQLenAssumption
    <3> QED
      BY <1>5, <3>1
  <2>3. Readable(e) <=> (Readable(fq) \/ fs.seq = fq.next)
    BY <1>4, <2>2, Zenon
  <2> HIDE DEF e
  <2> QED
    BY <1>2, <1>4, <2>1, <2>3
<1>7. CASE ~InqRefused(fq, fs)
  <2>1. fs.seq = fq.next
    BY <1>1, <1>3, <1>7
  <2> DEFINE q == InsertSorted(e.q, fs)
             d == [e EXCEPT !.q = q]
  <2>2. InqSorted(fq, fs) = d
    BY <1>7, Zenon DEF InqSorted
  <2>3. Len(q) = 1 /\ q # <<>> /\ Head(q).seq = fq.next
    <3>1. CASE fq.q # <<>>
      <4>1. Len(fq.q) = 1 /\ Head(fq.q).seq = fq.next
        BY <3>1 DEF Awaits
      <4>2. 1 \in DOMAIN fq.q /\ Head(fq.q) = fq.q[1]
        BY <1>1, <3>1, <4>1
      <4>3. fq.q[1] \in Held(fq)
        BY <4>2 DEF Held
      <4>4. SeqnoOf(fq.q[1]) = SeqnoOf(fs)
        BY <2>1, <4>1, <4>2, <4>3 DEF SeqnoOf
      <4>5. q = fq.q
        BY <1>2, <4>2, <4>4, Zenon DEF InsertSorted
      <4> HIDE DEF q
      <4> QED
        BY <3>1, <4>1, <4>5
    <3>2. CASE fq.q = <<>>
      <4>1. DOMAIN e.q = {} /\ Len(e.q) = 0 /\ e.q = <<>>
        BY <1>2, <3>2
      <4>2. Later(e.q, fs) = {}
        BY <4>1 DEF Later
      <4> DEFINE q0 == e.q
      <4>3. q = SubSeq(q0, 1, (Len(q0) + 1) - 1) \o <<fs>> \o SubSeq(q0, Len(q0) + 1, Len(q0))
        <5>1. Later(q0, fs) = {} /\ ~\E i \in DOMAIN q0 : SeqnoOf(q0[i]) = SeqnoOf(fs)
          BY <4>1, <4>2
        <5> HIDE DEF q0
        <5> DEFINE place == IF Later(q0, fs) = {} THEN Len(q0) + 1 ELSE First(Later(q0, fs))
        <5>2. InsertSorted(q0, fs) =
                SubSeq(q0, 1, place - 1) \o <<fs>> \o SubSeq(q0, place, Len(q0))
          BY <5>1, Zenon DEF InsertSorted
        <5>3. place = Len(q0) + 1
          BY <5>1, Zenon
        <5> HIDE DEF place
        <5> QED
          BY <5>2, <5>3, Zenon DEF q0
      <4>4. q = <<fs>>
        <5>1. q0 = <<>> /\ Len(q0) = 0
          BY <4>1
        <5> HIDE DEF q0, q
        <5>2. SubSeq(q0, 1, (Len(q0) + 1) - 1) = <<>> /\ SubSeq(q0, Len(q0) + 1, Len(q0)) = <<>>
          BY <5>1
        <5>3. <<>> \o <<fs>> \o <<>> = <<fs>>
          OBVIOUS
        <5> QED
          BY <4>3, <5>2, <5>3
      <4> HIDE DEF q
      <4> QED
        BY <2>1, <4>4
    <3> QED
      BY <3>1, <3>2
  <2> HIDE DEF q, e
  <2>4. d.q = q /\ d.next = e.next /\ d.sess = e.sess
    BY <1>2 DEF Queue
  <2> HIDE DEF d
  <2>5. Awaits(d) /\ Readable(d)
    BY <1>2, <2>3, <2>4 DEF Awaits, Readable
  <2> QED
    BY <1>2, <2>1, <2>2, <2>4, <2>5
<1> QED
  BY <1>6, <1>7

===============================================================================
