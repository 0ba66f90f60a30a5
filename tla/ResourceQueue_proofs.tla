------------------------- MODULE ResourceQueue_proofs -------------------------
(***************************************************************************)
(* Proofs about ResourceQueue for any resources, request ids, elements and *)
(* bounds, and any finite memory for commands: that it is type correct,    *)
(* that the queues hold the elements in use (QueuesHoldTheElements), that  *)
(* the queue object outlives its children (QueueOutlivesChildren), that    *)
(* one queued command of a resource runs (OneQueuedRuns), and that a       *)
(* requester knows the status of its operation (RequesterKnows).           *)
(*                                                                         *)
(* The argument is about queues p as the functions of the code return      *)
(* them.  Shape(p, X) says how elements, commands and queues belong        *)
(* together while the elements of X are in use but in no queue, which is   *)
(* so between their removal and their end.  Counted(p, ending, users) says *)
(* what is counted and referred to while so many commands have ended that  *)
(* are still marked as running, and the queue has so many users.           *)
(***************************************************************************)
EXTENDS ResourceQueue, SequenceTheorems, FiniteSetTheorems, WellFoundedInduction, TLAPS

NoRepeats(seq) == \A i, j \in DOMAIN seq : seq[i] = seq[j] => i = j

\* The command of an element
CmdOf(p, s) == p.cmd[p.elem[s].cmd]

\* The queues hold the elements in use but for those of X.
Filed(p, X) ==
    /\ \A r \in Resource : NoRepeats(p.queue[r])
    /\ \A s \in Live(p) \ X : s \in InQueue(p, CmdOf(p, s).resource)
    /\ \A r \in Resource : \A s \in InQueue(p, r) :
          s \in Live(p) /\ s \notin X /\ CmdOf(p, s).resource = r

\* Every element has a command, and no two of them have the same.
Owned(p) ==
    /\ \A s \in Live(p) : CmdOf(p, s) # NULL
    /\ \A s, t \in Live(p) : p.elem[s].cmd = p.elem[t].cmd => s = t

\* Of the commands in a queue one runs at most.
OneRuns(p) ==
    \A r \in Resource : \A s, t \in InQueue(p, r) :
       CmdOf(p, s).is_running /\ CmdOf(p, t).is_running => s = t

\* What a requester was told last is how its operation last ended.
Known(p) == \A s \in Live(p) : CmdOf(p, s).last_success <=> CmdOf(p, s).told = "success"

Shape(p, X) ==
    /\ p \in ResourceQueueType
    /\ Filed(p, X) /\ Owned(p) /\ OneRuns(p) /\ Known(p)

\* Every child is counted, and holds a reference as every user does.
Counted(p, ending, users) ==
    /\ p.activechildcnt + ending = Cardinality(Running(p)) + p.failed
    /\ p.refs = p.activechildcnt + users
    /\ p.freed <=> p.refs = 0
    /\ p.freed => ~p.timer

Users == IF stopped THEN 0 ELSE 1

QInv ==
    /\ Shape(q, {}) /\ Counted(q, 0, Users)
    /\ stopped \in BOOLEAN /\ aborted \in BOOLEAN
    /\ requests \in 0 .. MaxRequests


-----------------------------------------------------------------------------
\* Numbers and sequences

\* A set of numbers has a least one.
LEMMA MinIsLeast ==
    ASSUME NEW S \in SUBSET Nat, S # {}
    PROVE  Min(S) \in S /\ \A j \in S : Min(S) <= j
<1> DEFINE Less == {ss \in Nat \X Nat : ss[1] < ss[2]}
<1>1. IsWellFoundedOn(Less, Nat)
  BY NatLessThanWellFounded, Zenon DEF OpToRel
<1> HIDE DEF Less
<1>2. \E i \in S : \A j \in S : ~(<<j, i>> \in Less)
  BY <1>1, WFMin, Zenon
<1>3. PICK i \in S : \A j \in S : ~(<<j, i>> \in Less)
  BY <1>2
<1>4. ASSUME NEW j \in S PROVE i <= j
  <2>1. <<j, i>> \in Nat \X Nat /\ <<j, i>>[1] = j /\ <<j, i>>[2] = i
    OBVIOUS
  <2>2. ~(j < i)
    BY <1>3, <2>1 DEF Less
  <2> QED
    BY <2>2
<1>5. \E x \in S : \A y \in S : x <= y
  BY <1>4
<1> QED
  BY <1>5 DEF Min

\* A sequence without repetitions that gets a new element at its end has none either.
LEMMA AppendedOnce ==
    ASSUME NEW S, NEW seq \in Seq(S), NEW e \in S, NoRepeats(seq), e \notin Range(seq)
    PROVE  /\ Append(seq, e) \in Seq(S) /\ NoRepeats(Append(seq, e))
           /\ Range(Append(seq, e)) = Range(seq) \cup {e}
<1> DEFINE n == Len(seq)
           new == Append(seq, e)
<1>1. n \in Nat /\ DOMAIN seq = 1 .. n
  OBVIOUS
<1>2. /\ new \in Seq(S) /\ DOMAIN new = 1 .. n + 1 /\ new[n + 1] = e
      /\ \A i \in 1 .. n : new[i] = seq[i]
  OBVIOUS
<1> HIDE DEF n, new
<1>3. NoRepeats(new)
  <2> SUFFICES ASSUME NEW i \in 1 .. n + 1, NEW j \in 1 .. n + 1, new[i] = new[j]
               PROVE  i = j
    BY <1>2 DEF NoRepeats
  <2>1. CASE i = n + 1 /\ j = n + 1
    BY <2>1
  <2>2. CASE i \in 1 .. n /\ j \in 1 .. n
    BY <1>1, <1>2, <2>2 DEF NoRepeats
  <2>3. \A k \in 1 .. n : seq[k] # e
    BY <1>1 DEF Range
  <2>4. CASE i = n + 1 /\ j \in 1 .. n
    BY <1>2, <2>3, <2>4
  <2>5. CASE j = n + 1 /\ i \in 1 .. n
    BY <1>2, <2>3, <2>5
  <2>6. (i = n + 1 \/ i \in 1 .. n) /\ (j = n + 1 \/ j \in 1 .. n)
    BY <1>1
  <2> QED
    BY <2>1, <2>2, <2>4, <2>5, <2>6
<1>4. Range(new) = Range(seq) \cup {e}
  <2>1. ASSUME NEW x \in Range(new) PROVE x \in Range(seq) \cup {e}
    <3>1. PICK i \in 1 .. n + 1 : x = new[i]
      BY <1>2 DEF Range
    <3>2. i = n + 1 \/ i \in 1 .. n
      BY <1>1
    <3> QED
      BY <1>1, <1>2, <3>1, <3>2 DEF Range
  <2>2. ASSUME NEW x \in Range(seq) PROVE x \in Range(new)
    <3>1. PICK i \in 1 .. n : x = seq[i]
      BY <1>1 DEF Range
    <3>2. i \in 1 .. n + 1
      BY <1>1
    <3> QED
      BY <1>2, <3>1, <3>2 DEF Range
  <2>3. e \in Range(new)
    <3>1. n + 1 \in 1 .. n + 1
      BY <1>1
    <3> QED
      BY <1>2, <3>1 DEF Range
  <2> QED
    BY <2>1, <2>2, <2>3
<1> QED
  BY <1>2, <1>3, <1>4 DEF new

\* One that loses an element has none either, and has lost that one only.
LEMMA RemovedOnce ==
    ASSUME NEW S, NEW seq \in Seq(S), NEW e \in Range(seq), NoRepeats(seq)
    PROVE  /\ RemoveFirst(seq, e) \in Seq(S) /\ NoRepeats(RemoveFirst(seq, e))
           /\ Range(RemoveFirst(seq, e)) = Range(seq) \ {e}
<1> DEFINE n == Len(seq)
           at == {i \in 1 .. Len(seq) : seq[i] = e}
           k == Min(at)
           new == RemoveFirst(seq, e)
<1>1. n \in Nat /\ DOMAIN seq = 1 .. n
  OBVIOUS
<1>2. \E i \in 1 .. Len(seq) : seq[i] = e
  BY DEF Range
<1>3. new = SubSeq(seq, 1, k - 1) \o SubSeq(seq, k + 1, n)
  <2>1. at # {}
    BY <1>2
  <2> QED
    BY <1>2, <2>1, Zenon DEF RemoveFirst, RemoveAt, SelectInSeq
<1>4. k \in 1 .. n /\ seq[k] = e
  <2>1. at \in SUBSET Nat /\ at # {}
    BY <1>2
  <2>2. k \in at
    BY <2>1, MinIsLeast
  <2> QED
    BY <2>2
<1> HIDE DEF at, k, n, new
<1>5. /\ SubSeq(seq, 1, k - 1) \in Seq(S) /\ Len(SubSeq(seq, 1, k - 1)) = k - 1
      /\ \A i \in 1 .. k - 1 : SubSeq(seq, 1, k - 1)[i] = seq[i]
  <2>1. 1 \in Int /\ k - 1 \in Int /\ 1 <= k - 1 + 1 /\ k - 1 <= n
    BY <1>1, <1>4
  <2> QED
    BY <1>1, <1>4 DEF n
<1>6. /\ SubSeq(seq, k + 1, n) \in Seq(S) /\ Len(SubSeq(seq, k + 1, n)) = n - k
      /\ \A i \in 1 .. n - k : SubSeq(seq, k + 1, n)[i] = seq[i + k]
  <2>1. k + 1 \in 1 .. n + 1 /\ n \in k .. n /\ n - (k + 1) + 1 = n - k
    BY <1>1, <1>4
  <2>2. SubSeq(seq, k + 1, n) \in Seq(S) /\ Len(SubSeq(seq, k + 1, n)) = n - k
    BY <1>1, <2>1 DEF n
  <2>3. ASSUME NEW i \in 1 .. n - k PROVE SubSeq(seq, k + 1, n)[i] = seq[i + k]
    <3>1. i \in 1 .. n - (k + 1) + 1 /\ k + 1 + i - 1 = i + k
      BY <1>1, <1>4, <2>1
    <3> QED
      BY <1>1, <2>1, <3>1 DEF n
  <2> QED
    BY <2>2, <2>3
<1>7. /\ new \in Seq(S) /\ DOMAIN new = 1 .. n - 1
      /\ \A i \in 1 .. k - 1 : new[i] = seq[i]
      /\ \A i \in k .. n - 1 : new[i] = seq[i + 1]
  <2> DEFINE a == SubSeq(seq, 1, k - 1)
             b == SubSeq(seq, k + 1, n)
  <2>1. new = a \o b
    BY <1>3
  <2>2. /\ a \in Seq(S) /\ Len(a) = k - 1 /\ b \in Seq(S) /\ Len(b) = n - k
        /\ \A i \in 1 .. k - 1 : a[i] = seq[i]
        /\ \A i \in 1 .. n - k : b[i] = seq[i + k]
    BY <1>5, <1>6
  <2> HIDE DEF a, b
  <2>3. new \in Seq(S) /\ Len(new) = n - 1
    <3>1. a \o b \in Seq(S) /\ Len(a \o b) = Len(a) + Len(b)
      BY <2>2, ConcatProperties
    <3>2. Len(a) + Len(b) = n - 1
      BY <1>1, <1>4, <2>2
    <3> QED
      BY <2>1, <3>1, <3>2
  <2>4. ASSUME NEW i \in 1 .. k - 1 PROVE new[i] = seq[i]
    BY <1>1, <1>4, <2>1, <2>2
  <2>5. ASSUME NEW i \in k .. n - 1 PROVE new[i] = seq[i + 1]
    <3>1. i - (k - 1) \in 1 .. n - k /\ i - (k - 1) + k = i + 1 /\ i \in 1 .. n - 1 /\ i > k - 1
      BY <1>1, <1>4
    <3>2. new[i] = b[i - (k - 1)]
      BY <1>1, <1>4, <2>1, <2>2, <3>1
    <3> QED
      BY <2>2, <3>1, <3>2
  <2> QED
    BY <2>3, <2>4, <2>5
<1>8. NoRepeats(new)
  <2> DEFINE from(i) == IF i < k THEN i ELSE i + 1
  <2>1. \A i \in 1 .. n - 1 : new[i] = seq[from(i)] /\ from(i) \in 1 .. n
    BY <1>1, <1>4, <1>7
  <2>2. \A i, j \in 1 .. n - 1 : from(i) = from(j) => i = j
    BY <1>1, <1>4
  <2> HIDE DEF from
  <2> QED
    BY <1>1, <1>7, <2>1, <2>2 DEF NoRepeats
<1>9. Range(new) = Range(seq) \ {e}
  <2>1. ASSUME NEW x \in Range(new) PROVE x \in Range(seq) /\ x # e
    <3>1. PICK i \in 1 .. n - 1 : x = new[i]
      BY <1>7 DEF Range
    <3>2. PICK j \in 1 .. n : j # k /\ x = seq[j]
      <4>1. CASE i < k
        BY <1>1, <1>4, <1>7, <3>1, <4>1
      <4>2. CASE i >= k
        <5>1. i \in k .. n - 1 /\ i + 1 \in 1 .. n /\ i + 1 # k
          BY <1>1, <1>4, <3>1, <4>2
        <5> QED
          BY <1>7, <3>1, <5>1
      <4> QED
        BY <1>1, <1>4, <3>1, <4>1, <4>2
    <3> QED
      BY <1>1, <1>4, <3>2 DEF Range, NoRepeats
  <2>2. ASSUME NEW x \in Range(seq), x # e PROVE x \in Range(new)
    <3>1. PICK j \in 1 .. n : x = seq[j] /\ j # k
      BY <1>1, <1>4, <2>2 DEF Range
    <3>2. PICK i \in 1 .. n - 1 : x = new[i]
      <4>1. CASE j < k
        BY <1>1, <1>4, <1>7, <3>1, <4>1
      <4>2. CASE j > k
        <5>1. j - 1 \in k .. n - 1 /\ j - 1 + 1 = j /\ j - 1 \in 1 .. n - 1
          BY <1>1, <1>4, <3>1, <4>2
        <5> QED
          BY <1>7, <3>1, <5>1
      <4> QED
        BY <1>1, <1>4, <3>1, <4>1, <4>2
    <3> QED
      BY <1>7, <3>2 DEF Range
  <2> QED
    BY <2>1, <2>2
<1> QED
  BY <1>7, <1>8, <1>9 DEF new

\* A sequence with nothing in it
LEMMA NothingOnce == NoRepeats(<<>>) /\ Range(<<>>) = {}
BY DEF NoRepeats, Range


-----------------------------------------------------------------------------
\* Queues and what they point to

\* The types of what a queue is made of
LEMMA Fields ==
    ASSUME NEW p \in ResourceQueueType
    PROVE  /\ p.queue \in [Resource -> Seq(Slot)]
           /\ p.elem \in [Slot -> Elem \cup {NULL}]
           /\ p.cmd \in [Address -> Command \cup {NULL}]
           /\ p.timer \in BOOLEAN /\ p.freed \in BOOLEAN
           /\ p.activechildcnt \in Nat /\ p.refs \in Nat
           /\ p.failed \in 0 .. MaxFailures
BY DEF ResourceQueueType

\* Elements that are in use are elements, and lead to the address of a command.
LEMMA LiveElements ==
    ASSUME NEW p \in ResourceQueueType, NEW s \in Live(p)
    PROVE  s \in Slot /\ p.elem[s] \in Elem /\ p.elem[s].cmd \in Address
<1>1. s \in Slot /\ p.elem[s] # NULL /\ p.elem[s] \in Elem \cup {NULL}
  BY Fields DEF Live
<1> QED
  BY <1>1 DEF Elem

\* What is in a queue is the address of an element.
LEMMA InQueueSlots ==
    ASSUME NEW p \in ResourceQueueType, NEW r \in Resource
    PROVE  p.queue[r] \in Seq(Slot) /\ InQueue(p, r) \subseteq Slot
<1>1. p.queue[r] \in Seq(Slot)
  BY Fields
<1> QED
  BY <1>1 DEF InQueue, Range

\* The commands of elements in use are commands.
LEMMA LiveCommands ==
    ASSUME NEW p \in ResourceQueueType, Owned(p), NEW s \in Live(p)
    PROVE  /\ CmdOf(p, s) \in Command /\ p.cmd[p.elem[s].cmd] = CmdOf(p, s)
           /\ p.elem[s].cmd \in Address
<1>1. p.elem[s].cmd \in Address
  BY LiveElements
<1>2. p.cmd[p.elem[s].cmd] \in Command \cup {NULL} /\ p.cmd[p.elem[s].cmd] # NULL
  BY <1>1, Fields DEF Owned, CmdOf
<1> QED
  BY <1>1, <1>2 DEF CmdOf

\* A queue whose commands change in nothing but in when and whether they run
LEMMA StillShaped ==
    ASSUME NEW p, NEW n \in ResourceQueueType, NEW X, Shape(p, X),
           n.queue = p.queue, n.elem = p.elem,
           \A s \in Live(p) :
              /\ CmdOf(n, s) # NULL
              /\ CmdOf(n, s).resource = CmdOf(p, s).resource
              /\ CmdOf(n, s).last_success = CmdOf(p, s).last_success
              /\ CmdOf(n, s).told = CmdOf(p, s).told,
           OneRuns(n)
    PROVE  Shape(n, X)
<1>1. Live(n) = Live(p) /\ \A r : InQueue(n, r) = InQueue(p, r)
  BY DEF Live, InQueue
<1>2. Filed(n, X)
  BY <1>1 DEF Shape, Filed
<1>3. Owned(n)
  BY <1>1 DEF Shape, Owned
<1>4. Known(n)
  BY <1>1 DEF Shape, Known
<1> QED
  BY <1>2, <1>3, <1>4 DEF Shape

-----------------------------------------------------------------------------
\* Running the queues

\* The first command that is due is that of an element in the queue, and none of the
\* queue runs.
LEMMA FirstIsDue ==
    ASSUME NEW p, NEW X, Shape(p, X), NEW r \in Ready(p)
    PROVE  /\ r \in Resource
           /\ \E s \in InQueue(p, r) : s \in Live(p) /\ FirstDue(p, r) = p.elem[s].cmd
           /\ \A s \in InQueue(p, r) : ~CmdOf(p, s).is_running
<1>1. r \in Resource /\ ~AnyRunning(p, r) /\ DueAt(p, r) # {}
  BY DEF Ready
<1>2. p.queue[r] \in Seq(Slot) /\ p \in ResourceQueueType
  BY <1>1, InQueueSlots DEF Shape
<1>3. DueAt(p, r) \in SUBSET Nat /\ DueAt(p, r) \subseteq DOMAIN p.queue[r]
  BY <1>2 DEF DueAt
<1>4. Min(DueAt(p, r)) \in DOMAIN p.queue[r]
  BY <1>1, <1>3, MinIsLeast
<1>5. p.queue[r][Min(DueAt(p, r))] \in InQueue(p, r)
  BY <1>4 DEF InQueue, Range
<1>6. p.queue[r][Min(DueAt(p, r))] \in Live(p)
  BY <1>1, <1>5 DEF Shape, Filed
<1>7. \A s \in InQueue(p, r) : ~CmdOf(p, s).is_running
  BY <1>1 DEF AnyRunning, CmdOf
<1> QED
  BY <1>1, <1>5, <1>6, <1>7 DEF FirstDue

\* The commands that are started
Chosen(p, S) == {FirstDue(p, r) : r \in S}

\* They are commands that do not run, and one for each resource.
LEMMA ChosenWait ==
    ASSUME NEW p, NEW X, Shape(p, X), NEW S \in SUBSET Ready(p)
    PROVE  /\ Chosen(p, S) \subseteq Address
           /\ \A c \in Chosen(p, S) : p.cmd[c] \in Command /\ ~p.cmd[c].is_running
           /\ \A r, t \in S : FirstDue(p, r) = FirstDue(p, t) => r = t
<1>1. p \in ResourceQueueType /\ Owned(p)
  BY DEF Shape
<1>2. ASSUME NEW c \in Chosen(p, S)
      PROVE  c \in Address /\ p.cmd[c] \in Command /\ ~p.cmd[c].is_running
  <2>1. PICK r \in Ready(p) : c = FirstDue(p, r)
    BY DEF Chosen
  <2>2. PICK s \in InQueue(p, r) :
          s \in Live(p) /\ FirstDue(p, r) = p.elem[s].cmd /\ ~CmdOf(p, s).is_running
    BY <2>1, FirstIsDue
  <2>3. CmdOf(p, s) \in Command /\ p.cmd[c] = CmdOf(p, s) /\ c \in Address
    BY <1>1, <2>1, <2>2, LiveCommands
  <2> QED
    BY <2>2, <2>3
<1>3. ASSUME NEW r \in S, NEW t \in S, FirstDue(p, r) = FirstDue(p, t) PROVE r = t
  <2>1. PICK s \in InQueue(p, r) : s \in Live(p) /\ FirstDue(p, r) = p.elem[s].cmd
    BY FirstIsDue
  <2>2. PICK u \in InQueue(p, t) : u \in Live(p) /\ FirstDue(p, t) = p.elem[u].cmd
    BY FirstIsDue
  <2>3. r \in Resource /\ t \in Resource
    BY FirstIsDue
  <2>4. s = u
    BY <1>1, <1>3, <2>1, <2>2 DEF Owned
  <2> QED
    BY <2>1, <2>2, <2>3, <2>4 DEF Shape, Filed
<1> QED
  BY <1>2, <1>3


\* A command that is started
Started(cmd) == [cmd EXCEPT !.is_running = TRUE]

\* What executing commands leaves of a queue
LEMMA ExecuteLeaves ==
    ASSUME NEW p, NEW X, Shape(p, X), NEW started \in SUBSET Ready(p),
           NEW spawned \in SUBSET started, IsFiniteSet(started),
           p.failed + Cardinality(started \ spawned) <= MaxFailures
    PROVE  /\ Execute(p, started, spawned) \in ResourceQueueType
           /\ Execute(p, started, spawned).queue = p.queue
           /\ Execute(p, started, spawned).elem = p.elem
           /\ Execute(p, started, spawned).cmd \in [Address -> Command \cup {NULL}]
           /\ \A c \in Chosen(p, spawned) :
                 Execute(p, started, spawned).cmd[c] = Started(p.cmd[c])
           /\ \A c \in Address \ Chosen(p, spawned) :
                 Execute(p, started, spawned).cmd[c] = p.cmd[c]
           /\ Execute(p, started, spawned).timer => p.timer
<1> DEFINE n == Execute(p, started, spawned)
           cmd == [c \in Address |-> IF \E r \in spawned : c = FirstDue(p, r)
                                     THEN [p.cmd[c] EXCEPT !.is_running = TRUE] ELSE p.cmd[c]]
           count == p.activechildcnt + Cardinality(started)
           refs == p.refs + Cardinality(started)
           failed == p.failed + Cardinality(started \ spawned)
           timer == p.timer /\ \E r \in Resource : p.queue[r] # <<>>
<1>1. p \in ResourceQueueType
  BY DEF Shape
<1>2. \A c \in Address : (\E r \in spawned : c = FirstDue(p, r)) <=> c \in Chosen(p, spawned)
  BY DEF Chosen
<1>3. /\ \A c \in Chosen(p, spawned) : c \in Address /\ p.cmd[c] \in Command
      /\ spawned \in SUBSET Ready(p)
  <2>1. spawned \in SUBSET Ready(p)
    OBVIOUS
  <2> QED
    BY <2>1, ChosenWait
<1>4. cmd \in [Address -> Command \cup {NULL}]
  <2>1. ASSUME NEW c \in Chosen(p, spawned)
        PROVE  [p.cmd[c] EXCEPT !.is_running = TRUE] \in Command
    BY <1>3 DEF Command
  <2>2. \A c \in Address : p.cmd[c] \in Command \cup {NULL}
    BY <1>1, Fields
  <2>3. ASSUME NEW c \in Address
        PROVE  (IF \E r \in spawned : c = FirstDue(p, r)
                THEN [p.cmd[c] EXCEPT !.is_running = TRUE] ELSE p.cmd[c])
                \in Command \cup {NULL}
    <3>1. CASE \E r \in spawned : c = FirstDue(p, r)
      BY <1>2, <2>1, <3>1
    <3>2. CASE ~\E r \in spawned : c = FirstDue(p, r)
      BY <2>2, <3>2
    <3> QED
      BY <3>1, <3>2
  <2> QED
    BY <2>3
<1>5. /\ \A c \in Chosen(p, spawned) : cmd[c] = Started(p.cmd[c])
      /\ \A c \in Address \ Chosen(p, spawned) : cmd[c] = p.cmd[c]
  BY <1>2, <1>3 DEF Started
<1>6. count \in Nat /\ refs \in Nat /\ failed \in 0 .. MaxFailures
  <2>1. started \ spawned \in SUBSET started
    OBVIOUS
  <2>2. Cardinality(started) \in Nat /\ Cardinality(started \ spawned) \in Nat
    BY <2>1, FS_CardinalityType, FS_Subset
  <2> QED
    BY <1>1, <2>2, Fields, LimitAssumption
<1>7. timer \in BOOLEAN /\ (timer => p.timer)
  OBVIOUS
<1>8. n = [p EXCEPT !.cmd = cmd, !.activechildcnt = count, !.refs = refs, !.failed = failed,
                    !.timer = timer]
  BY DEF Execute
<1> HIDE DEF n, cmd, count, refs, failed, timer
<1>9. n \in ResourceQueueType
  BY <1>1, <1>4, <1>6, <1>7, <1>8, Zenon DEF ResourceQueueType
<1>10. n.queue = p.queue /\ n.elem = p.elem /\ n.cmd = cmd
  BY <1>1, <1>8 DEF ResourceQueueType
<1>11. n.timer = timer
  BY <1>1, <1>8 DEF ResourceQueueType
<1>12. /\ n \in ResourceQueueType /\ n.queue = p.queue /\ n.elem = p.elem
       /\ n.cmd \in [Address -> Command \cup {NULL}]
       /\ n.timer => p.timer
  BY <1>4, <1>7, <1>9, <1>10, <1>11
<1> QED
  BY <1>5, <1>10, <1>12, Zenon DEF n

\* What it leaves of the counts
LEMMA ExecuteCounts ==
    ASSUME NEW p \in ResourceQueueType, NEW started, NEW spawned
    PROVE  /\ Execute(p, started, spawned).activechildcnt =
                 p.activechildcnt + Cardinality(started)
           /\ Execute(p, started, spawned).refs = p.refs + Cardinality(started)
           /\ Execute(p, started, spawned).failed =
                 p.failed + Cardinality(started \ spawned)
           /\ Execute(p, started, spawned).freed = p.freed
<1> DEFINE n == Execute(p, started, spawned)
           cmd == [c \in Address |-> IF \E r \in spawned : c = FirstDue(p, r)
                                     THEN [p.cmd[c] EXCEPT !.is_running = TRUE] ELSE p.cmd[c]]
           count == p.activechildcnt + Cardinality(started)
           refs == p.refs + Cardinality(started)
           failed == p.failed + Cardinality(started \ spawned)
           timer == p.timer /\ \E r \in Resource : p.queue[r] # <<>>
<1>1. n = [p EXCEPT !.cmd = cmd, !.activechildcnt = count, !.refs = refs, !.failed = failed,
                    !.timer = timer]
  BY DEF Execute
<1> HIDE DEF n, cmd, count, refs, failed, timer
<1>2. n.activechildcnt = count /\ n.refs = refs /\ n.failed = failed
  BY <1>1 DEF ResourceQueueType
<1>3. n.freed = p.freed
  BY <1>1 DEF ResourceQueueType
<1> QED
  BY <1>2, <1>3 DEF n, count, refs, failed

\* And what it does not touch
LEMMA ExecuteLeavesQueues ==
    ASSUME NEW p, NEW X, Shape(p, X), NEW started \in SUBSET Ready(p),
           NEW spawned \in SUBSET started, IsFiniteSet(started),
           p.failed + Cardinality(started \ spawned) <= MaxFailures
    PROVE  /\ Execute(p, started, spawned).queue = p.queue
           /\ Execute(p, started, spawned).elem = p.elem
BY ExecuteLeaves, Zenon

\* Executing commands keeps the shape of a queue.
LEMMA ExecuteKeepsShape ==
    ASSUME NEW p, NEW X, Shape(p, X), NEW started \in SUBSET Ready(p),
           NEW spawned \in SUBSET started, IsFiniteSet(started),
           p.failed + Cardinality(started \ spawned) <= MaxFailures
    PROVE  Shape(Execute(p, started, spawned), X)
<1> DEFINE n == Execute(p, started, spawned)
<1>1. /\ n \in ResourceQueueType /\ n.queue = p.queue /\ n.elem = p.elem
      /\ \A c \in Chosen(p, spawned) : n.cmd[c] = Started(p.cmd[c])
      /\ \A c \in Address \ Chosen(p, spawned) : n.cmd[c] = p.cmd[c]
  BY ExecuteLeaves
<1>2. /\ spawned \in SUBSET Ready(p)
      /\ \A c \in Chosen(p, spawned) : p.cmd[c] \in Command /\ ~p.cmd[c].is_running
      /\ \A r, t \in spawned : FirstDue(p, r) = FirstDue(p, t) => r = t
  <2>1. spawned \in SUBSET Ready(p)
    OBVIOUS
  <2> QED
    BY <2>1, ChosenWait
<1>3. p \in ResourceQueueType /\ Owned(p)
  BY DEF Shape
<1> HIDE DEF n
<1>4. ASSUME NEW s \in Live(p)
      PROVE  /\ CmdOf(n, s) # NULL
             /\ CmdOf(n, s).resource = CmdOf(p, s).resource
             /\ CmdOf(n, s).last_success = CmdOf(p, s).last_success
             /\ CmdOf(n, s).told = CmdOf(p, s).told
             /\ CmdOf(n, s).is_running =>
                   CmdOf(p, s).is_running \/ p.elem[s].cmd \in Chosen(p, spawned)
  <2>1. /\ CmdOf(p, s) \in Command /\ p.cmd[p.elem[s].cmd] = CmdOf(p, s)
        /\ p.elem[s].cmd \in Address /\ CmdOf(n, s) = n.cmd[p.elem[s].cmd]
    BY <1>1, <1>3, LiveCommands DEF CmdOf
  <2>2. CASE p.elem[s].cmd \in Chosen(p, spawned)
    <3>1. CmdOf(n, s) = [CmdOf(p, s) EXCEPT !.is_running = TRUE]
      BY <1>1, <2>1, <2>2 DEF Started
    <3>2. /\ CmdOf(n, s) \in Command
          /\ CmdOf(n, s).resource = CmdOf(p, s).resource
          /\ CmdOf(n, s).told = CmdOf(p, s).told
      BY <2>1, <3>1 DEF Command
    <3>3. CmdOf(n, s).last_success = CmdOf(p, s).last_success
      BY <2>1, <3>1 DEF Command
    <3> QED
      BY <2>2, <3>2, <3>3, NullAssumption
  <2>3. CASE p.elem[s].cmd \notin Chosen(p, spawned)
    <3>1. CmdOf(n, s) = CmdOf(p, s)
      BY <1>1, <2>1, <2>3
    <3> QED
      BY <2>1, <3>1, NullAssumption
  <2> QED
    BY <2>2, <2>3
<1>5. OneRuns(n)
  <2> SUFFICES ASSUME NEW r \in Resource, NEW s \in InQueue(n, r), NEW t \in InQueue(n, r),
                      CmdOf(n, s).is_running, CmdOf(n, t).is_running
               PROVE  s = t
    BY DEF OneRuns
  <2>1. s \in InQueue(p, r) /\ t \in InQueue(p, r) /\ s \in Live(p) /\ t \in Live(p)
    BY <1>1 DEF InQueue, Shape, Filed
  <2>2. ASSUME NEW u \in InQueue(p, r), p.elem[u].cmd \in Chosen(p, spawned)
        PROVE  r \in spawned /\ p.elem[u].cmd = FirstDue(p, r)
    <3>1. PICK v \in spawned : p.elem[u].cmd = FirstDue(p, v)
      BY <2>2 DEF Chosen
    <3>2. PICK w \in InQueue(p, v) : w \in Live(p) /\ FirstDue(p, v) = p.elem[w].cmd
      BY FirstIsDue
    <3>3. u \in Live(p) /\ v \in Resource
      BY <2>2, FirstIsDue DEF Shape, Filed
    <3>4. u = w
      BY <1>3, <3>1, <3>2, <3>3 DEF Owned
    <3>5. v = r
      BY <2>2, <3>2, <3>3, <3>4 DEF Shape, Filed
    <3> QED
      BY <3>1, <3>5
  <2>3. CASE r \in spawned
    <3>1. \A u \in InQueue(p, r) : ~CmdOf(p, u).is_running
      BY <2>3, FirstIsDue
    <3>2. p.elem[s].cmd \in Chosen(p, spawned) /\ p.elem[t].cmd \in Chosen(p, spawned)
      BY <1>4, <2>1, <3>1
    <3>3. p.elem[s].cmd = p.elem[t].cmd
      BY <2>1, <2>2, <3>2
    <3> QED
      BY <1>3, <2>1, <3>3 DEF Owned
  <2>4. CASE r \notin spawned
    <3>1. CmdOf(p, s).is_running /\ CmdOf(p, t).is_running
      BY <1>4, <2>1, <2>2, <2>4
    <3> QED
      BY <2>1, <3>1 DEF Shape, OneRuns
  <2> QED
    BY <2>3, <2>4
<1>6. Shape(n, X)
  BY <1>1, <1>4, <1>5, StillShaped
<1> QED
  BY <1>6 DEF n

\* The commands that run can be counted.
LEMMA RunningIsFinite ==
    ASSUME NEW p
    PROVE  /\ Running(p) \subseteq Address /\ IsFiniteSet(Running(p))
           /\ Cardinality(Running(p)) \in Nat
<1>1. Running(p) \in SUBSET Address
  BY DEF Running
<1>2. IsFiniteSet(Running(p))
  BY <1>1, AddressAssumption, FS_Subset
<1> QED
  BY <1>1, <1>2, FS_CardinalityType

\* As many commands are started as there are resources to start one for.
LEMMA AsManyChosen ==
    ASSUME NEW p, NEW X, Shape(p, X), NEW S \in SUBSET Ready(p)
    PROVE  /\ IsFiniteSet(S) /\ Cardinality(S) \in Nat
           /\ IsFiniteSet(Chosen(p, S)) /\ Cardinality(Chosen(p, S)) = Cardinality(S)
<1> DEFINE f == [r \in S |-> FirstDue(p, r)]
<1>1. /\ Chosen(p, S) \subseteq Address
      /\ \A r, t \in S : FirstDue(p, r) = FirstDue(p, t) => r = t
  BY ChosenWait
<1>2. IsFiniteSet(Chosen(p, S))
  BY <1>1, AddressAssumption, FS_Subset
<1>3. f \in [S -> Chosen(p, S)]
  BY DEF Chosen
<1>4. f \in Injection(S, Chosen(p, S))
  BY <1>1, <1>3 DEF Injection, IsInjective
<1>5. f \in Surjection(S, Chosen(p, S))
  BY <1>3 DEF Surjection, Chosen
<1> HIDE DEF f
<1>6. IsFiniteSet(S) /\ Cardinality(S) = Cardinality(Chosen(p, S))
  BY <1>2, <1>4, <1>5, FS_Injection
<1> QED
  BY <1>2, <1>6, FS_CardinalityType


\* The commands that run then
LEMMA ExecuteRuns ==
    ASSUME NEW p, NEW X, Shape(p, X), NEW started \in SUBSET Ready(p),
           NEW spawned \in SUBSET started, IsFiniteSet(started),
           p.failed + Cardinality(started \ spawned) <= MaxFailures
    PROVE  /\ Running(Execute(p, started, spawned)) = Running(p) \cup Chosen(p, spawned)
           /\ Running(p) \cap Chosen(p, spawned) = {}
<1> DEFINE n == Execute(p, started, spawned)
<1>1. /\ \A c \in Chosen(p, spawned) : n.cmd[c] = Started(p.cmd[c])
      /\ \A c \in Address \ Chosen(p, spawned) : n.cmd[c] = p.cmd[c]
  BY ExecuteLeaves
<1>2. /\ Chosen(p, spawned) \subseteq Address
      /\ \A c \in Chosen(p, spawned) : p.cmd[c] \in Command /\ ~p.cmd[c].is_running
  <2>1. spawned \in SUBSET Ready(p)
    OBVIOUS
  <2> QED
    BY <2>1, ChosenWait
<1> HIDE DEF n
<1>3. ASSUME NEW c \in Chosen(p, spawned) PROVE n.cmd[c] # NULL /\ n.cmd[c].is_running
  <2>1. n.cmd[c] = [p.cmd[c] EXCEPT !.is_running = TRUE] /\ p.cmd[c] \in Command
    BY <1>1, <1>2 DEF Started
  <2>2. n.cmd[c] \in Command
    BY <2>1 DEF Command
  <2>3. n.cmd[c].is_running
    BY <2>1 DEF Command
  <2> QED
    BY <2>2, <2>3, NullAssumption
<1>4. Running(n) = Running(p) \cup Chosen(p, spawned)
  BY <1>1, <1>2, <1>3 DEF Running
<1>5. Running(p) \cap Chosen(p, spawned) = {}
  BY <1>2 DEF Running
<1> QED
  BY <1>4, <1>5 DEF n

\* Executing commands counts them, whether or not a process can be spawned.
LEMMA ExecuteKeepsCount ==
    ASSUME NEW p, NEW X, Shape(p, X), NEW started \in SUBSET Ready(p),
           NEW spawned \in SUBSET started, IsFiniteSet(started),
           p.failed + Cardinality(started \ spawned) <= MaxFailures,
           NEW ending \in Nat, NEW users \in Nat, Counted(p, ending, users), p.freed = FALSE
    PROVE  Counted(Execute(p, started, spawned), ending, users)
<1> DEFINE n == Execute(p, started, spawned)
<1>1. /\ n.activechildcnt = p.activechildcnt + Cardinality(started)
      /\ n.refs = p.refs + Cardinality(started)
      /\ n.failed = p.failed + Cardinality(started \ spawned)
      /\ n.freed = p.freed
  BY ExecuteCounts DEF Shape
<1>2. /\ Running(n) = Running(p) \cup Chosen(p, spawned)
      /\ Running(p) \cap Chosen(p, spawned) = {}
  BY ExecuteRuns
<1> HIDE DEF n
<1>3. /\ IsFiniteSet(spawned) /\ Cardinality(spawned) \in Nat
      /\ IsFiniteSet(Chosen(p, spawned)) /\ Cardinality(Chosen(p, spawned)) = Cardinality(spawned)
  <2>1. spawned \in SUBSET Ready(p)
    OBVIOUS
  <2> QED
    BY <2>1, AsManyChosen
<1>4. Cardinality(Running(n)) = Cardinality(Running(p)) + Cardinality(spawned)
  <2>1. Cardinality(Running(p) \cup Chosen(p, spawned)) =
          Cardinality(Running(p)) + Cardinality(Chosen(p, spawned)) - Cardinality({})
    BY <1>2, <1>3, RunningIsFinite, FS_Union
  <2> QED
    BY <1>2, <1>3, <2>1, RunningIsFinite, FS_EmptySet
<1>5. Cardinality(started) = Cardinality(spawned) + Cardinality(started \ spawned)
      /\ Cardinality(started) \in Nat /\ Cardinality(started \ spawned) \in Nat
  <2>1. /\ started = spawned \cup (started \ spawned)
        /\ spawned \cap (started \ spawned) = {}
        /\ started \ spawned \in SUBSET started
    OBVIOUS
  <2>2. IsFiniteSet(started \ spawned)
    BY <2>1, FS_Subset
  <2>3. Cardinality(started) \in Nat /\ Cardinality(started \ spawned) \in Nat
    BY <2>2, FS_CardinalityType
  <2>4. Cardinality(spawned \cup (started \ spawned)) =
          Cardinality(spawned) + Cardinality(started \ spawned)
           - Cardinality(spawned \cap (started \ spawned))
    BY <1>3, <2>2, FS_Union
  <2> QED
    BY <1>3, <2>1, <2>3, <2>4, FS_EmptySet
<1>6. /\ p.activechildcnt \in Nat /\ p.refs \in Nat /\ p.failed \in Nat
      /\ Cardinality(Running(p)) \in Nat
  <2>1. p \in ResourceQueueType
    BY DEF Shape
  <2> QED
    BY <2>1, Fields, RunningIsFinite, LimitAssumption
<1>7. /\ n.activechildcnt + ending = Cardinality(Running(n)) + n.failed
      /\ n.refs = n.activechildcnt + users
  BY <1>1, <1>3, <1>4, <1>5, <1>6 DEF Counted
<1>8. ~n.freed /\ n.refs # 0
  <2>1. p.refs # 0
    BY DEF Counted
  <2> QED
    BY <1>1, <1>5, <1>6, <2>1
<1>9. Counted(n, ending, users)
  BY <1>7, <1>8 DEF Counted
<1> QED
  BY <1>9 DEF n

\* So does a run of the queues.
LEMMA RunQueueKeeps ==
    ASSUME NEW p, NEW X, Shape(p, X), NEW ending \in Nat, NEW users \in Nat,
           Counted(p, ending, users), p.freed = FALSE, NEW n \in RunQueue(p)
    PROVE  /\ Shape(n, X) /\ Counted(n, ending, users) /\ n.freed = FALSE
           /\ n.elem = p.elem /\ n.queue = p.queue /\ Running(p) \subseteq Running(n)
<1>1. PICK S \in SUBSET Ready(p) :
        /\ p.failed + Cardinality(Ready(p) \ S) <= MaxFailures
        /\ n = Execute(p, Ready(p), S)
  BY DEF RunQueue
<1>2. Ready(p) \in SUBSET Ready(p) /\ IsFiniteSet(Ready(p))
  BY AsManyChosen
<1>3. Shape(n, X)
  BY <1>1, <1>2, ExecuteKeepsShape
<1>4. Counted(n, ending, users)
  BY <1>1, <1>2, ExecuteKeepsCount
<1>5. n.elem = p.elem /\ n.queue = p.queue /\ n.freed = FALSE
  <2>1. p \in ResourceQueueType
    BY DEF Shape
  <2>2. n.freed = FALSE
    BY <1>1, <2>1, ExecuteCounts
  <2> QED
    BY <1>1, <1>2, <2>2, ExecuteLeavesQueues
<1>6. Running(p) \subseteq Running(n)
  BY <1>1, <1>2, ExecuteRuns
<1> QED
  BY <1>3, <1>4, <1>5, <1>6


-----------------------------------------------------------------------------
\* Elements that come and go

\* A queue from which elements are gone
LEMMA FewerShaped ==
    ASSUME NEW p, NEW X, Shape(p, X), NEW n \in ResourceQueueType,
           Live(n) \subseteq Live(p) \ X,
           \A s \in Live(n) : n.elem[s] = p.elem[s] /\ CmdOf(n, s) = CmdOf(p, s),
           \A r \in Resource : NoRepeats(n.queue[r]) /\ InQueue(n, r) = InQueue(p, r) \cap Live(n)
    PROVE  Shape(n, {})
<1>1. p \in ResourceQueueType /\ Owned(p)
  BY DEF Shape
<1>2. \A s \in Live(p) : CmdOf(p, s).resource \in Resource
  <2> TAKE s \in Live(p)
  <2>1. CmdOf(p, s) \in Command
    BY <1>1, LiveCommands
  <2> QED
    BY <2>1 DEF Command
<1>3. Filed(n, {})
  BY <1>2 DEF Shape, Filed
<1>4. Owned(n)
  BY DEF Shape, Owned
<1>5. OneRuns(n)
  BY DEF Shape, OneRuns
<1>6. Known(n)
  BY DEF Shape, Known
<1> QED
  BY <1>3, <1>4, <1>5, <1>6 DEF Shape

\* The commands of n are those of p, and their requesters know how they ended.
Follows(p, n) ==
  \A t \in Live(p) :
     /\ CmdOf(n, t) # NULL
     /\ CmdOf(n, t).resource = CmdOf(p, t).resource
     /\ CmdOf(n, t).is_running <=> CmdOf(p, t).is_running
     /\ CmdOf(n, t).last_success <=> CmdOf(n, t).told = "success"

\* The queues of n are those of p without the elements of X.
Without(p, n, X) ==
  \A r \in Resource : NoRepeats(n.queue[r]) /\ InQueue(n, r) = InQueue(p, r) \ X

\* One in which an element changes its place or leaves its queue, and its command
\* what is known of it
LEMMA MovedShaped ==
    ASSUME NEW p, Shape(p, {}), NEW n \in ResourceQueueType, NEW X,
           n.elem = p.elem, Without(p, n, X), Follows(p, n)
    PROVE  Shape(n, X)
<1>1. p \in ResourceQueueType /\ Owned(p)
  BY DEF Shape
<1>8. \A t \in Live(p) :
         /\ CmdOf(n, t) # NULL
         /\ CmdOf(n, t).resource = CmdOf(p, t).resource
         /\ CmdOf(n, t).is_running <=> CmdOf(p, t).is_running
         /\ CmdOf(n, t).last_success <=> CmdOf(n, t).told = "success"
  BY DEF Follows
<1>9. \A r \in Resource : NoRepeats(n.queue[r]) /\ InQueue(n, r) = InQueue(p, r) \ X
  BY DEF Without
<1>2. \A t \in Live(p) : CmdOf(p, t).resource \in Resource
  <2> TAKE t \in Live(p)
  <2>1. CmdOf(p, t) \in Command
    BY <1>1, LiveCommands
  <2> QED
    BY <2>1 DEF Command
<1>3. Live(n) = Live(p)
  BY DEF Live
<1>4. Filed(n, X)
  <2>1. ASSUME NEW t \in Live(n) \ X PROVE t \in InQueue(n, CmdOf(n, t).resource)
    <3>1. t \in InQueue(p, CmdOf(p, t).resource) /\ CmdOf(n, t).resource = CmdOf(p, t).resource
      BY <1>3, <1>8 DEF Shape, Filed
    <3> QED
      BY <1>2, <1>3, <1>9, <3>1
  <2>2. ASSUME NEW r \in Resource, NEW t \in InQueue(n, r)
        PROVE  t \in Live(n) /\ t \notin X /\ CmdOf(n, t).resource = r
    <3>1. t \in InQueue(p, r) /\ t \notin X
      BY <1>9
    <3>2. t \in Live(p) /\ CmdOf(p, t).resource = r
      BY <3>1 DEF Shape, Filed
    <3> QED
      BY <1>3, <1>8, <1>9, <3>1, <3>2
  <2> QED
    BY <1>9, <2>1, <2>2 DEF Filed
<1>5. Owned(n)
  BY <1>3, <1>8 DEF Shape, Owned
<1>6. OneRuns(n)
  <2> SUFFICES ASSUME NEW r \in Resource, NEW t \in InQueue(n, r), NEW u \in InQueue(n, r),
                      CmdOf(n, t).is_running, CmdOf(n, u).is_running
               PROVE  t = u
    BY DEF OneRuns
  <2>1. t \in InQueue(p, r) /\ u \in InQueue(p, r)
    BY <1>9
  <2>2. t \in Live(p) /\ u \in Live(p)
    BY <2>1 DEF Shape, Filed
  <2>3. CmdOf(p, t).is_running /\ CmdOf(p, u).is_running
    BY <1>8, <2>2
  <2> QED
    BY <2>1, <2>3 DEF Shape, OneRuns
<1>7. Known(n)
  BY <1>3, <1>8 DEF Known
<1> QED
  BY <1>4, <1>5, <1>6, <1>7, <1>9 DEF Shape


\* What freeing an element leaves
LEMMA FreeElemLeaves ==
    ASSUME NEW p \in ResourceQueueType, NEW s \in Slot, p.elem[s].cmd \in Address
    PROVE  /\ FreeElem(p, s) \in ResourceQueueType
           /\ FreeElem(p, s).queue = p.queue
           /\ FreeElem(p, s).elem = [p.elem EXCEPT ![s] = NULL]
           /\ \A c \in Address : c # p.elem[s].cmd => FreeElem(p, s).cmd[c] = p.cmd[c]
           /\ FreeElem(p, s).cmd[p.elem[s].cmd] =
                IF p.cmd[p.elem[s].cmd].is_running THEN p.cmd[p.elem[s].cmd] ELSE NULL
           /\ FreeElem(p, s).activechildcnt = p.activechildcnt
           /\ FreeElem(p, s).refs = p.refs /\ FreeElem(p, s).failed = p.failed
           /\ FreeElem(p, s).freed = p.freed /\ FreeElem(p, s).timer = p.timer
<1> DEFINE n == FreeElem(p, s)
           a == p.elem[s].cmd
           left == IF p.cmd[a].is_running THEN p.cmd[a] ELSE NULL
           cmd == [p.cmd EXCEPT ![a] = left]
           elem == [p.elem EXCEPT ![s] = NULL]
<1>1. n = [p EXCEPT !.cmd = cmd, !.elem = elem]
  BY DEF FreeElem
<1>2. /\ p.cmd \in [Address -> Command \cup {NULL}] /\ p.elem \in [Slot -> Elem \cup {NULL}]
      /\ a \in Address
  BY Fields
<1>3. left \in Command \cup {NULL}
  BY <1>2
<1> HIDE DEF a, left
<1>4. /\ cmd \in [Address -> Command \cup {NULL}] /\ cmd[a] = left
      /\ \A c \in Address : c # a => cmd[c] = p.cmd[c]
  BY <1>2, <1>3
<1>5. elem \in [Slot -> Elem \cup {NULL}]
  BY <1>2
<1> HIDE DEF n, cmd, elem
<1>6. n \in ResourceQueueType
  BY <1>1, <1>4, <1>5, Zenon DEF ResourceQueueType
<1>7. /\ n.queue = p.queue /\ n.elem = elem /\ n.cmd = cmd
      /\ n.activechildcnt = p.activechildcnt /\ n.refs = p.refs /\ n.failed = p.failed
  BY <1>1 DEF ResourceQueueType
<1>8. n.freed = p.freed /\ n.timer = p.timer
  <2>1. n.freed = p.freed
    BY <1>1 DEF ResourceQueueType
  <2>2. n.timer = p.timer
    BY <1>1 DEF ResourceQueueType
  <2> QED
    BY <2>1, <2>2
<1>9. \A c \in Address : c # a => n.cmd[c] = p.cmd[c]
  BY <1>4, <1>7
<1>10. n.cmd[a] = left
  BY <1>4, <1>7
<1> QED
  BY <1>6, <1>7, <1>8, <1>9, <1>10, Zenon DEF n, a, left, elem

\* An element that is out of its queue may be freed: its command goes with it unless it
\* runs, and so the same commands run.
LEMMA FreeElemKeeps ==
    ASSUME NEW p, NEW s \in Live(p), Shape(p, {s}), NEW ending, NEW users,
           Counted(p, ending, users)
    PROVE  /\ Shape(FreeElem(p, s), {}) /\ Counted(FreeElem(p, s), ending, users)
           /\ Running(FreeElem(p, s)) = Running(p)
           /\ FreeElem(p, s).freed = p.freed
<1> DEFINE n == FreeElem(p, s)
           a == p.elem[s].cmd
<1>1. /\ p \in ResourceQueueType /\ Owned(p) /\ s \in Slot /\ p.elem[s] \in Elem
      /\ a \in Address
  BY LiveElements DEF Shape
<1>2. /\ n \in ResourceQueueType /\ n.queue = p.queue
      /\ n.elem = [p.elem EXCEPT ![s] = NULL]
      /\ \A c \in Address : c # a => n.cmd[c] = p.cmd[c]
      /\ n.cmd[a] = IF p.cmd[a].is_running THEN p.cmd[a] ELSE NULL
  BY <1>1, FreeElemLeaves
<1>3. /\ n.activechildcnt = p.activechildcnt /\ n.refs = p.refs /\ n.failed = p.failed
      /\ n.freed = p.freed /\ n.timer = p.timer
  BY <1>1, FreeElemLeaves
<1>4. p.cmd[a] # NULL
  BY <1>1 DEF Owned, CmdOf
<1> HIDE DEF n, a
<1>5. Running(n) = Running(p)
  BY <1>2, <1>4 DEF Running
<1>6. \A t \in Slot : n.elem[t] = IF t = s THEN NULL ELSE p.elem[t]
  BY <1>1, <1>2, Fields
<1>7. Live(n) = Live(p) \ {s}
  BY <1>6 DEF Live
<1>8. ASSUME NEW t \in Live(n) PROVE n.elem[t] = p.elem[t] /\ CmdOf(n, t) = CmdOf(p, t)
  <2>1. t \in Live(p) /\ t # s /\ n.elem[t] = p.elem[t]
    BY <1>6, <1>7 DEF Live
  <2>2. p.elem[t].cmd # a /\ p.elem[t].cmd \in Address
    BY <1>1, <2>1, LiveElements DEF Owned, a
  <2> QED
    BY <1>2, <2>1, <2>2 DEF CmdOf
<1>9. ASSUME NEW r \in Resource
      PROVE  NoRepeats(n.queue[r]) /\ InQueue(n, r) = InQueue(p, r) \cap Live(n)
  BY <1>2, <1>7 DEF Shape, Filed, InQueue
<1>10. Shape(n, {})
  BY <1>2, <1>7, <1>8, <1>9, FewerShaped
<1>11. Counted(n, ending, users)
  BY <1>3, <1>5 DEF Counted
<1> QED
  BY <1>3, <1>5, <1>10, <1>11 DEF n

\* A child is gone: its command is as it was but for the child, or gone too.
LEMMA ChildGoneKeeps ==
    ASSUME NEW p, Shape(p, {}), NEW c \in Running(p), NEW users, Counted(p, 1, users)
    PROVE  Shape(ChildGone(p, c), {}) /\ Counted(ChildGone(p, c), 0, users)
<1> DEFINE n == ChildGone(p, c)
           owned == \E s \in Live(p) : p.elem[s].cmd = c
           left == IF owned THEN [p.cmd[c] EXCEPT !.is_running = FALSE] ELSE NULL
<1>1. /\ p \in ResourceQueueType /\ Owned(p) /\ c \in Address /\ p.cmd[c] # NULL
      /\ p.cmd[c].is_running
  BY DEF Shape, Running
<1>2. p.cmd \in [Address -> Command \cup {NULL}] /\ p.cmd[c] \in Command
  BY <1>1, Fields
<1>3. [p.cmd[c] EXCEPT !.is_running = FALSE] \in Command
  BY <1>2 DEF Command
<1>4. left \in Command \cup {NULL}
  BY <1>3
<1>5. n = [p EXCEPT !.cmd = [p.cmd EXCEPT ![c] = left]]
  BY DEF ChildGone
<1>6. owned => left = [p.cmd[c] EXCEPT !.is_running = FALSE]
  OBVIOUS
<1>7. ~owned => left = NULL
  OBVIOUS
<1> HIDE DEF n, left
<1>8. [p.cmd EXCEPT ![c] = left] \in [Address -> Command \cup {NULL}]
  BY <1>2, <1>4
<1>9. n \in ResourceQueueType
  BY <1>1, <1>5, <1>8, Zenon DEF ResourceQueueType
<1>10. /\ n.queue = p.queue /\ n.elem = p.elem /\ n.activechildcnt = p.activechildcnt
       /\ n.refs = p.refs /\ n.failed = p.failed /\ n.cmd = [p.cmd EXCEPT ![c] = left]
  BY <1>1, <1>5 DEF ResourceQueueType
<1>11. n.freed = p.freed /\ n.timer = p.timer
  <2>1. n.freed = p.freed
    BY <1>1, <1>5 DEF ResourceQueueType
  <2>2. n.timer = p.timer
    BY <1>1, <1>5 DEF ResourceQueueType
  <2> QED
    BY <2>1, <2>2
<1>12. n.cmd[c] = left /\ \A d \in Address : d # c => n.cmd[d] = p.cmd[d]
  BY <1>1, <1>2, <1>10
<1>13. left # NULL => ~left.is_running
  BY <1>2, <1>6, <1>7 DEF Command
<1>14. ASSUME NEW s \in Live(p)
       PROVE  /\ CmdOf(n, s) # NULL
              /\ CmdOf(n, s).resource = CmdOf(p, s).resource
              /\ CmdOf(n, s).last_success = CmdOf(p, s).last_success
              /\ CmdOf(n, s).told = CmdOf(p, s).told
              /\ CmdOf(n, s).is_running => CmdOf(p, s).is_running
  <2>1. /\ CmdOf(p, s) \in Command /\ p.cmd[p.elem[s].cmd] = CmdOf(p, s)
        /\ p.elem[s].cmd \in Address /\ CmdOf(n, s) = n.cmd[p.elem[s].cmd]
    BY <1>1, <1>10, LiveCommands DEF CmdOf
  <2>2. CASE p.elem[s].cmd = c
    <3>1. CmdOf(n, s) = [CmdOf(p, s) EXCEPT !.is_running = FALSE]
      BY <1>6, <1>12, <2>1, <2>2
    <3>2. /\ CmdOf(n, s) \in Command
          /\ CmdOf(n, s).resource = CmdOf(p, s).resource
          /\ CmdOf(n, s).told = CmdOf(p, s).told
      BY <2>1, <3>1 DEF Command
    <3>3. CmdOf(n, s).last_success = CmdOf(p, s).last_success
      BY <2>1, <3>1 DEF Command
    <3>4. ~CmdOf(n, s).is_running
      BY <2>1, <3>1 DEF Command
    <3> QED
      BY <3>2, <3>3, <3>4, NullAssumption
  <2>3. CASE p.elem[s].cmd # c
    <3>1. CmdOf(n, s) = CmdOf(p, s)
      BY <1>12, <2>1, <2>3
    <3> QED
      BY <2>1, <3>1, NullAssumption
  <2> QED
    BY <2>2, <2>3
<1>15. OneRuns(n)
  BY <1>10, <1>14 DEF OneRuns, Shape, Filed, InQueue
<1>16. Shape(n, {})
  BY <1>9, <1>10, <1>14, <1>15, StillShaped
<1>17. Running(n) = Running(p) \ {c}
  BY <1>1, <1>12, <1>13 DEF Running
<1>18. Cardinality(Running(n)) + 1 = Cardinality(Running(p))
  <2>1. Cardinality(Running(p) \ {c}) = Cardinality(Running(p)) - 1
    BY RunningIsFinite, FS_RemoveElement
  <2> QED
    BY <1>17, <2>1, RunningIsFinite
<1>19. Counted(n, 0, users)
  <2>1. p.activechildcnt \in Nat /\ p.failed \in Nat /\ Cardinality(Running(n)) \in Nat
    BY <1>1, Fields, RunningIsFinite, LimitAssumption
  <2>2. n.activechildcnt + 0 = Cardinality(Running(n)) + n.failed
    BY <1>10, <1>18, <2>1 DEF Counted
  <2> QED
    BY <1>10, <1>11, <2>2 DEF Counted
<1> QED
  BY <1>16, <1>19 DEF n


\* What emptying queues leaves
LEMMA FreeQueuesLeaves ==
    ASSUME NEW p \in ResourceQueueType, NEW S \in SUBSET Resource
    PROVE  /\ FreeQueues(p, S) \in ResourceQueueType
           /\ \A r \in Resource : FreeQueues(p, S).queue[r] = IF r \in S THEN <<>> ELSE p.queue[r]
           /\ \A s \in Slot : FreeQueues(p, S).elem[s] =
                 IF \E r \in S : s \in InQueue(p, r) THEN NULL ELSE p.elem[s]
           /\ \A c \in Address : FreeQueues(p, S).cmd[c] =
                 IF /\ \E r \in S : \E s \in InQueue(p, r) : c = p.elem[s].cmd
                    /\ c \notin Running(p)
                 THEN NULL ELSE p.cmd[c]
           /\ FreeQueues(p, S).activechildcnt = p.activechildcnt
           /\ FreeQueues(p, S).refs = p.refs /\ FreeQueues(p, S).failed = p.failed
           /\ FreeQueues(p, S).freed = p.freed /\ FreeQueues(p, S).timer = p.timer
<1> DEFINE n == FreeQueues(p, S)
           gone == UNION {InQueue(p, r) : r \in S}
           unused == {p.elem[s].cmd : s \in gone} \ Running(p)
           queue == [r \in Resource |-> IF r \in S THEN <<>> ELSE p.queue[r]]
           elem == [s \in Slot |-> IF s \in gone THEN NULL ELSE p.elem[s]]
           cmd == [c \in Address |-> IF c \in unused THEN NULL ELSE p.cmd[c]]
<1>1. n = [p EXCEPT !.queue = queue, !.elem = elem, !.cmd = cmd]
  BY DEF FreeQueues
<1>2. \A s : s \in gone <=> \E r \in S : s \in InQueue(p, r)
  OBVIOUS
<1>3. \A c : c \in unused <=> /\ \E r \in S : \E s \in InQueue(p, r) : c = p.elem[s].cmd
                              /\ c \notin Running(p)
  BY <1>2
<1> HIDE DEF n, gone, unused
<1>4. queue \in [Resource -> Seq(Slot)]
  BY Fields
<1>5. elem \in [Slot -> Elem \cup {NULL}]
  BY Fields
<1>6. cmd \in [Address -> Command \cup {NULL}]
  BY Fields
<1>7. \A r \in Resource : queue[r] = IF r \in S THEN <<>> ELSE p.queue[r]
  OBVIOUS
<1>8. \A s \in Slot : elem[s] = IF \E r \in S : s \in InQueue(p, r) THEN NULL ELSE p.elem[s]
  BY <1>2
<1>9. \A c \in Address : cmd[c] =
         IF /\ \E r \in S : \E s \in InQueue(p, r) : c = p.elem[s].cmd
            /\ c \notin Running(p)
         THEN NULL ELSE p.cmd[c]
  BY <1>3
<1> HIDE DEF queue, elem, cmd
<1>10. n \in ResourceQueueType
  BY <1>1, <1>4, <1>5, <1>6, Zenon DEF ResourceQueueType
<1>11. /\ n.queue = queue /\ n.elem = elem /\ n.cmd = cmd
       /\ n.activechildcnt = p.activechildcnt /\ n.refs = p.refs /\ n.failed = p.failed
  BY <1>1 DEF ResourceQueueType
<1>12. n.freed = p.freed /\ n.timer = p.timer
  <2>1. n.freed = p.freed
    BY <1>1 DEF ResourceQueueType
  <2>2. n.timer = p.timer
    BY <1>1 DEF ResourceQueueType
  <2> QED
    BY <2>1, <2>2
<1> QED
  BY <1>7, <1>8, <1>9, <1>10, <1>11, <1>12, Zenon DEF n

\* Emptying queues frees what is in them and nothing else, and no command that runs.
LEMMA FreeQueuesKeeps ==
    ASSUME NEW p, Shape(p, {}), NEW S \in SUBSET Resource
    PROVE  /\ Shape(FreeQueues(p, S), {})
           /\ Running(FreeQueues(p, S)) = Running(p)
<1> DEFINE n == FreeQueues(p, S)
<1>1. p \in ResourceQueueType /\ Owned(p)
  BY DEF Shape
<1>2. /\ n \in ResourceQueueType
      /\ \A r \in Resource : n.queue[r] = IF r \in S THEN <<>> ELSE p.queue[r]
      /\ \A s \in Slot : n.elem[s] =
            IF \E r \in S : s \in InQueue(p, r) THEN NULL ELSE p.elem[s]
      /\ \A c \in Address : n.cmd[c] =
            IF /\ \E r \in S : \E s \in InQueue(p, r) : c = p.elem[s].cmd
               /\ c \notin Running(p)
            THEN NULL ELSE p.cmd[c]
  BY <1>1, FreeQueuesLeaves
<1> HIDE DEF n
<1>3. Running(n) = Running(p)
  BY <1>2 DEF Running
<1>4. \A s \in Slot : s \in Live(n) <=> s \in Live(p) /\ ~\E r \in S : s \in InQueue(p, r)
  BY <1>2 DEF Live
<1>5. Live(n) \subseteq Live(p) /\ Live(n) \subseteq Slot
  BY <1>4 DEF Live
<1>6. ASSUME NEW s \in Live(n) PROVE n.elem[s] = p.elem[s] /\ CmdOf(n, s) = CmdOf(p, s)
  <2>1. s \in Slot /\ s \in Live(p) /\ ~\E r \in S : s \in InQueue(p, r)
    BY <1>4, <1>5
  <2>2. n.elem[s] = p.elem[s] /\ p.elem[s].cmd \in Address
    BY <1>1, <1>2, <2>1, LiveElements
  <2>3. ~\E r \in S : \E t \in InQueue(p, r) : p.elem[s].cmd = p.elem[t].cmd
    <3>1. SUFFICES ASSUME NEW r \in S, NEW t \in InQueue(p, r), p.elem[s].cmd = p.elem[t].cmd
                   PROVE  FALSE
      OBVIOUS
    <3>2. t \in Live(p)
      BY DEF Shape, Filed
    <3> QED
      BY <1>1, <2>1, <3>1, <3>2 DEF Owned
  <2>4. n.cmd[p.elem[s].cmd] = p.cmd[p.elem[s].cmd]
    BY <1>2, <2>2, <2>3
  <2> QED
    BY <2>2, <2>4 DEF CmdOf
<1>7. ASSUME NEW r \in Resource
      PROVE  NoRepeats(n.queue[r]) /\ InQueue(n, r) = InQueue(p, r) \cap Live(n)
  <2>1. CASE r \in S
    <3>1. n.queue[r] = <<>>
      BY <1>2, <2>1
    <3>2. InQueue(n, r) = {} /\ NoRepeats(n.queue[r])
      BY <3>1, NothingOnce DEF InQueue
    <3>3. InQueue(p, r) \cap Live(n) = {}
      BY <1>4, <1>5, <2>1
    <3> QED
      BY <3>2, <3>3
  <2>2. CASE r \notin S
    <3>1. n.queue[r] = p.queue[r]
      BY <1>2, <2>2
    <3>2. NoRepeats(n.queue[r]) /\ InQueue(n, r) = InQueue(p, r)
      BY <3>1 DEF InQueue, Shape, Filed
    <3>3. ASSUME NEW s \in InQueue(p, r) PROVE s \in Live(n)
      <4>1. s \in Live(p) /\ s \in Slot /\ CmdOf(p, s).resource = r
        BY DEF Shape, Filed, Live
      <4>2. ~\E t \in S : s \in InQueue(p, t)
        BY <2>2, <4>1 DEF Shape, Filed
      <4> QED
        BY <1>4, <4>1, <4>2
    <3> QED
      BY <3>2, <3>3
  <2> QED
    BY <2>1, <2>2
<1>8. Shape(n, {})
  BY <1>2, <1>5, <1>6, <1>7, FewerShaped
<1> QED
  BY <1>3, <1>8 DEF n

\* The counts are the same then.
LEMMA FreeQueuesCounts ==
    ASSUME NEW p, Shape(p, {}), NEW S \in SUBSET Resource, NEW ending, NEW users,
           Counted(p, ending, users)
    PROVE  Counted(FreeQueues(p, S), ending, users) /\ FreeQueues(p, S).freed = p.freed
<1>1. p \in ResourceQueueType
  BY DEF Shape
<1>2. /\ FreeQueues(p, S).activechildcnt = p.activechildcnt
      /\ FreeQueues(p, S).refs = p.refs /\ FreeQueues(p, S).failed = p.failed
      /\ FreeQueues(p, S).freed = p.freed /\ FreeQueues(p, S).timer = p.timer
  BY <1>1, FreeQueuesLeaves, Zenon
<1>3. Running(FreeQueues(p, S)) = Running(p)
  BY FreeQueuesKeeps
<1> QED
  BY <1>2, <1>3 DEF Counted


\* A queue with the same elements and commands has the same shape, and runs the same.
LEMMA SameShape ==
    ASSUME NEW p, NEW X, Shape(p, X), NEW n \in ResourceQueueType,
           n.queue = p.queue, n.elem = p.elem, n.cmd = p.cmd
    PROVE  Shape(n, X) /\ Running(n) = Running(p)
<1>1. \A s : CmdOf(n, s) = CmdOf(p, s)
  BY DEF CmdOf
<1>2. \A s \in Live(p) : CmdOf(n, s) # NULL
  BY <1>1 DEF Shape, Owned
<1>3. OneRuns(n)
  <2>1. \A r : InQueue(n, r) = InQueue(p, r)
    BY DEF InQueue
  <2> QED
    BY <1>1, <2>1 DEF Shape, OneRuns
<1>4. Shape(n, X)
  BY <1>1, <1>2, <1>3, StillShaped
<1>5. Running(n) = Running(p)
  BY DEF Running
<1> QED
  BY <1>4, <1>5

\* Letting go of a reference to the queue, with which it goes if it is the last one
LEMMA UnrefKeeps ==
    ASSUME NEW p, Shape(p, {}), NEW ending \in Nat, NEW users \in Nat,
           Counted(p, ending, users + 1)
    PROVE  /\ Shape(Unref(p), {}) /\ Counted(Unref(p), ending, users)
           /\ Running(Unref(p)) = Running(p)
<1>1. /\ p \in ResourceQueueType /\ p.refs \in Nat /\ p.activechildcnt \in Nat
      /\ p.refs = p.activechildcnt + (users + 1)
  BY Fields DEF Shape, Counted
<1> DEFINE left == p.refs - 1
           m == [p EXCEPT !.refs = left]
<1>2. left \in Nat /\ left = p.activechildcnt + users
  BY <1>1
<1> HIDE DEF left
<1>3. m \in ResourceQueueType
  BY <1>1, <1>2, Zenon DEF ResourceQueueType
<1>4. /\ m.queue = p.queue /\ m.elem = p.elem /\ m.cmd = p.cmd /\ m.refs = left
      /\ m.activechildcnt = p.activechildcnt /\ m.failed = p.failed
  BY <1>1 DEF ResourceQueueType
<1>5. m.freed = p.freed /\ m.timer = p.timer
  <2>1. m.freed = p.freed
    BY <1>1 DEF ResourceQueueType
  <2>2. m.timer = p.timer
    BY <1>1 DEF ResourceQueueType
  <2> QED
    BY <2>1, <2>2
<1>6. ~p.freed
  BY <1>1 DEF Counted
<1>7. Unref(p) = IF p.refs = 1 THEN Finalize(m) ELSE m
  <2>1. CASE p.refs = 1
    <3>1. left = 0
      BY <2>1 DEF left
    <3> QED
      BY <2>1, <3>1 DEF Unref
  <2>2. CASE p.refs # 1
    BY <2>2 DEF Unref, left
  <2> QED
    BY <2>1, <2>2
<1> HIDE DEF m
<1>8. Shape(m, {}) /\ Running(m) = Running(p)
  BY <1>3, <1>4, SameShape
<1>9. m.activechildcnt + ending = Cardinality(Running(m)) + m.failed
  BY <1>4, <1>8 DEF Counted
<1>10. CASE p.refs # 1
  <2>1. Unref(p) = m
    BY <1>7, <1>10
  <2>2. m.refs # 0 /\ ~m.freed /\ m.refs = m.activechildcnt + users
    BY <1>1, <1>2, <1>4, <1>5, <1>6, <1>10
  <2>3. Counted(m, ending, users)
    BY <1>9, <2>2 DEF Counted
  <2> QED
    BY <1>8, <2>1, <2>3
<1>11. CASE p.refs = 1
  <2> DEFINE f == FreeQueues(m, Resource)
             n == [f EXCEPT !.timer = FALSE, !.freed = TRUE]
  <2>1. Unref(p) = n
    BY <1>7, <1>11 DEF Finalize
  <2>2. Shape(f, {}) /\ Running(f) = Running(p)
    BY <1>8, FreeQueuesKeeps
  <2>3. f.activechildcnt = m.activechildcnt /\ f.refs = m.refs /\ f.failed = m.failed
    BY <1>3, FreeQueuesLeaves
  <2>4. f \in ResourceQueueType
    BY <2>2 DEF Shape
  <2> HIDE DEF f
  <2>5. FALSE \in BOOLEAN /\ TRUE \in BOOLEAN
    OBVIOUS
  <2>6. n \in ResourceQueueType
    BY <2>4, <2>5, Zenon DEF ResourceQueueType
  <2>7. /\ n.queue = f.queue /\ n.elem = f.elem /\ n.cmd = f.cmd /\ n.refs = f.refs
        /\ n.activechildcnt = f.activechildcnt /\ n.failed = f.failed
    BY <2>4 DEF ResourceQueueType
  <2>8. n.freed /\ ~n.timer
    <3>1. n.freed
      BY <2>4 DEF ResourceQueueType
    <3>2. ~n.timer
      BY <2>4 DEF ResourceQueueType
    <3> QED
      BY <3>1, <3>2
  <2> HIDE DEF n
  <2>9. Shape(n, {}) /\ Running(n) = Running(p)
    BY <2>2, <2>6, <2>7, SameShape
  <2>10. n.refs = 0 /\ n.refs = n.activechildcnt + users
    BY <1>1, <1>2, <1>4, <1>11, <2>3, <2>7
  <2>11. n.activechildcnt + ending = Cardinality(Running(n)) + n.failed
    BY <1>8, <1>9, <2>3, <2>7, <2>9
  <2>12. Counted(n, ending, users)
    BY <2>8, <2>10, <2>11 DEF Counted
  <2> QED
    BY <2>1, <2>9, <2>12
<1> QED
  BY <1>10, <1>11



-----------------------------------------------------------------------------
\* The end of a command

\* A command as its end leaves it
Ended(e, cmd, ok) ==
  [cmd EXCEPT !.last_success = ok,
              !.due  = @ /\ ~ShouldRepeat(e, ok),
              !.told = IF ~Tells(e, cmd, ok) THEN @ ELSE IF ok THEN "success" ELSE "failure"]

\* It has its resource and its child still, and its requester knows its status if it knew
\* the one before.
LEMMA EndedKnown ==
    ASSUME NEW e \in Elem, NEW cmd \in Command, NEW ok \in BOOLEAN,
           cmd.last_success <=> cmd.told = "success"
    PROVE  /\ Ended(e, cmd, ok) \in Command
           /\ Ended(e, cmd, ok).resource = cmd.resource
           /\ Ended(e, cmd, ok).is_running <=> cmd.is_running
           /\ Ended(e, cmd, ok).last_success <=> Ended(e, cmd, ok).told = "success"
<1> DEFINE n == Ended(e, cmd, ok)
           due == cmd.due /\ ~ShouldRepeat(e, ok)
           told == IF ~Tells(e, cmd, ok) THEN cmd.told
                   ELSE IF ok THEN "success" ELSE "failure"
<1>1. n = [cmd EXCEPT !.last_success = ok, !.due = due, !.told = told]
  BY DEF Ended
<1>2. cmd.told \in {"nothing", "success", "failure"} /\ cmd.last_success \in BOOLEAN
  BY DEF Command
<1>3. told \in {"nothing", "success", "failure"} /\ due \in BOOLEAN
  BY <1>2
<1>4. ok <=> told = "success"
  <2>1. CASE Tells(e, cmd, ok)
    BY <2>1
  <2>2. CASE ~Tells(e, cmd, ok)
    <3>1. ok = cmd.last_success /\ told = cmd.told
      BY <2>2 DEF Tells
    <3> QED
      BY <3>1
  <2> QED
    BY <2>1, <2>2
<1> HIDE DEF n, due, told
<1>5. n \in Command
  BY <1>1, <1>3, Zenon DEF Command
<1>6. n.resource = cmd.resource /\ n.told = told
  BY <1>1 DEF Command
<1>7. n.is_running = cmd.is_running
  BY <1>1 DEF Command
<1>8. n.last_success = ok
  BY <1>1 DEF Command
<1>9. n.last_success <=> n.told = "success"
  BY <1>4, <1>6, <1>8
<1> QED
  BY <1>5, <1>6, <1>7, <1>9, Zenon DEF n

\* The element whose command ends leaves its queue if it does not repeat.
Ending(p, s, ok) == IF ShouldRepeat(p.elem[s], ok) THEN {} ELSE {s}

\* n is queue p after the end of the command of element s.
EndLeft(p, s, ok, n) ==
  /\ n \in ResourceQueueType /\ n.elem = p.elem
  /\ Without(p, n, Ending(p, s, ok))
  /\ n.cmd[p.elem[s].cmd] = Ended(p.elem[s], CmdOf(p, s), ok)
  /\ \A c \in Address : c # p.elem[s].cmd => n.cmd[c] = p.cmd[c]
  /\ n.activechildcnt = p.activechildcnt - 1 /\ n.refs = p.refs
  /\ n.failed = p.failed /\ n.freed = p.freed /\ n.timer = p.timer

\* What the end of a command leaves
LEMMA EndOfLeaves ==
    ASSUME NEW p, Shape(p, {}), NEW s \in Live(p), NEW ok \in BOOLEAN,
           p.activechildcnt >= 1
    PROVE  EndLeft(p, s, ok, EndOf(p, s, ok))
<1> DEFINE n == EndOf(p, s, ok)
           e == p.elem[s]
           cmd == p.cmd[p.elem[s].cmd]
           a == p.elem[s].cmd
           res == cmd.resource
           rest == RemoveFirst(p.queue[cmd.resource], s)
           new == IF ShouldRepeat(p.elem[s], ok) THEN Append(rest, s) ELSE rest
           ended == Ended(p.elem[s], p.cmd[p.elem[s].cmd], ok)
           less == p.activechildcnt - 1
           queue == [p.queue EXCEPT ![cmd.resource] = new]
           cmds == [p.cmd EXCEPT ![p.elem[s].cmd] = ended]
<1>1. n = [p EXCEPT !.queue = queue, !.activechildcnt = less, !.cmd = cmds]
  BY DEF EndOf, Ended
<1>2. /\ p \in ResourceQueueType /\ Owned(p) /\ e \in Elem /\ a \in Address /\ s \in Slot
      /\ cmd = CmdOf(p, s) /\ cmd \in Command
  BY LiveElements, LiveCommands DEF Shape, CmdOf
<1>3. /\ p.queue \in [Resource -> Seq(Slot)] /\ p.cmd \in [Address -> Command \cup {NULL}]
      /\ p.activechildcnt \in Nat
  BY <1>2, Fields
<1>4. cmd.last_success <=> cmd.told = "success"
  BY <1>2 DEF Shape, Known
<1>5. ended \in Command
  BY <1>2, <1>4, EndedKnown
<1>6. res \in Resource /\ res = CmdOf(p, s).resource
  BY <1>2 DEF Command
<1>7. /\ p.queue[res] \in Seq(Slot) /\ s \in Range(p.queue[res]) /\ NoRepeats(p.queue[res])
      /\ InQueue(p, res) = Range(p.queue[res])
  BY <1>3, <1>6 DEF Shape, Filed, InQueue
<1>8. /\ rest \in Seq(Slot) /\ NoRepeats(rest) /\ Range(rest) = Range(p.queue[res]) \ {s}
  BY <1>7, RemovedOnce
<1>9. /\ new \in Seq(Slot) /\ NoRepeats(new)
      /\ Range(new) = InQueue(p, res) \ (IF ShouldRepeat(e, ok) THEN {} ELSE {s})
  <2> HIDE DEF rest
  <2>1. CASE ShouldRepeat(e, ok)
    <3>1. /\ Append(rest, s) \in Seq(Slot) /\ NoRepeats(Append(rest, s))
          /\ Range(Append(rest, s)) = Range(rest) \cup {s}
      BY <1>2, <1>8, AppendedOnce
    <3>2. new = Append(rest, s)
      BY <2>1
    <3> QED
      BY <1>7, <1>8, <2>1, <3>1, <3>2
  <2>2. CASE ~ShouldRepeat(e, ok)
    <3>1. new = rest
      BY <2>2
    <3> QED
      BY <1>7, <1>8, <2>2, <3>1
  <2> QED
    BY <2>1, <2>2
<1>10. less \in Nat
  BY <1>3
<1> HIDE DEF n, rest, new, ended, less
<1>11. /\ queue \in [Resource -> Seq(Slot)] /\ queue[res] = new
       /\ \A r \in Resource : r # res => queue[r] = p.queue[r]
  BY <1>3, <1>6, <1>9
<1>12. /\ cmds \in [Address -> Command \cup {NULL}] /\ cmds[a] = ended
       /\ \A c \in Address : c # a => cmds[c] = p.cmd[c]
  BY <1>2, <1>3, <1>5
<1> HIDE DEF queue, cmds
<1>13. n \in ResourceQueueType
  BY <1>1, <1>2, <1>10, <1>11, <1>12, Zenon DEF ResourceQueueType
<1>14. /\ n.queue = queue /\ n.elem = p.elem /\ n.cmd = cmds /\ n.activechildcnt = less
       /\ n.refs = p.refs /\ n.failed = p.failed
  BY <1>1, <1>2 DEF ResourceQueueType
<1>15. n.freed = p.freed /\ n.timer = p.timer
  <2>1. n.freed = p.freed
    BY <1>1, <1>2 DEF ResourceQueueType
  <2>2. n.timer = p.timer
    BY <1>1, <1>2 DEF ResourceQueueType
  <2> QED
    BY <2>1, <2>2
<1>16. ASSUME NEW r \in Resource
       PROVE  /\ NoRepeats(n.queue[r])
              /\ InQueue(n, r) = InQueue(p, r) \ (IF ShouldRepeat(e, ok) THEN {} ELSE {s})
  <2>1. CASE r = res
    <3>1. n.queue[r] = new
      BY <1>11, <1>14, <2>1
    <3> QED
      BY <1>9, <2>1, <3>1 DEF InQueue
  <2>2. CASE r # res
    <3>1. n.queue[r] = p.queue[r]
      BY <1>11, <1>14, <2>2
    <3>2. s \notin InQueue(p, r)
      BY <1>6, <2>2 DEF Shape, Filed
    <3>3. NoRepeats(n.queue[r]) /\ InQueue(n, r) = InQueue(p, r)
      BY <3>1 DEF InQueue, Shape, Filed
    <3> QED
      BY <3>2, <3>3
  <2> QED
    BY <2>1, <2>2
<1>17. /\ n.cmd[a] = Ended(p.elem[s], CmdOf(p, s), ok)
       /\ \A c \in Address : c # a => n.cmd[c] = p.cmd[c]
  BY <1>2, <1>12, <1>14 DEF ended
<1>18. n.activechildcnt = p.activechildcnt - 1
  BY <1>14 DEF less
<1> QED
  <2>1. n.elem = p.elem /\ n.refs = p.refs /\ n.failed = p.failed
    BY <1>14
  <2>2. Without(p, n, Ending(p, s, ok))
    BY <1>16, Zenon DEF Without, Ending
  <2>3. EndLeft(p, s, ok, n)
    BY <1>13, <1>15, <1>17, <1>18, <2>1, <2>2, Zenon DEF EndLeft
  <2> QED
    BY <2>3 DEF n


\* The end of a command keeps the shape of the queue but for its element, and the count
\* but for its child.
LEMMA EndOfKeeps ==
    ASSUME NEW p, Shape(p, {}), NEW s \in Live(p), NEW ok \in BOOLEAN,
           NEW users \in Nat, Counted(p, 0, users), Running(p) # {}
    PROVE  /\ Shape(EndOf(p, s, ok), Ending(p, s, ok))
           /\ Counted(EndOf(p, s, ok), 1, users + 1)
           /\ Running(EndOf(p, s, ok)) = Running(p)
           /\ EndOf(p, s, ok).elem = p.elem /\ EndOf(p, s, ok).freed = FALSE
<1> DEFINE n == EndOf(p, s, ok)
           a == p.elem[s].cmd
<1>1. /\ p \in ResourceQueueType /\ Owned(p) /\ p.elem[s] \in Elem /\ a \in Address
      /\ CmdOf(p, s) \in Command /\ p.cmd[a] = CmdOf(p, s)
  BY LiveElements, LiveCommands DEF Shape
<1>2. /\ p.activechildcnt \in Nat /\ p.refs \in Nat /\ p.failed \in Nat
      /\ Cardinality(Running(p)) \in Nat /\ p.freed \in BOOLEAN
  BY <1>1, Fields, RunningIsFinite, LimitAssumption
<1>3. p.activechildcnt >= 1 /\ p.freed = FALSE
  <2>1. Cardinality(Running(p)) # 0
    BY RunningIsFinite, FS_EmptySet
  <2>2. p.activechildcnt = Cardinality(Running(p)) + p.failed /\ p.refs = p.activechildcnt + users
    BY <1>2 DEF Counted
  <2>3. p.activechildcnt >= 1 /\ p.refs # 0
    BY <1>2, <2>1, <2>2
  <2> QED
    BY <1>2, <2>3 DEF Counted
<1>4. EndLeft(p, s, ok, n)
  <2>1. p.activechildcnt >= 1
    BY <1>3
  <2> QED
    BY <2>1, EndOfLeaves, Zenon
<1> HIDE DEF n
<1>5. /\ n.cmd[a] = Ended(p.elem[s], CmdOf(p, s), ok)
      /\ \A c \in Address : c # a => n.cmd[c] = p.cmd[c]
  BY <1>4 DEF EndLeft
<1>6. /\ n.activechildcnt = p.activechildcnt - 1 /\ n.refs = p.refs /\ n.failed = p.failed
      /\ n.freed = p.freed /\ n.timer = p.timer
  BY <1>4 DEF EndLeft
<1>14. n \in ResourceQueueType /\ n.elem = p.elem /\ Without(p, n, Ending(p, s, ok))
  BY <1>4 DEF EndLeft
<1> HIDE DEF n, a
<1>7. CmdOf(p, s).last_success <=> CmdOf(p, s).told = "success"
  BY DEF Shape, Known
<1>8. /\ n.cmd[a] \in Command
      /\ n.cmd[a].resource = p.cmd[a].resource
      /\ n.cmd[a].is_running <=> p.cmd[a].is_running
      /\ n.cmd[a].last_success <=> n.cmd[a].told = "success"
  BY <1>1, <1>5, <1>7, EndedKnown
<1>9. ASSUME NEW t \in Live(p)
      PROVE  /\ CmdOf(n, t) # NULL
             /\ CmdOf(n, t).resource = CmdOf(p, t).resource
             /\ CmdOf(n, t).is_running <=> CmdOf(p, t).is_running
             /\ CmdOf(n, t).last_success <=> CmdOf(n, t).told = "success"
  <2>1. /\ CmdOf(n, t) = n.cmd[p.elem[t].cmd] /\ CmdOf(p, t) = p.cmd[p.elem[t].cmd]
        /\ CmdOf(p, t) \in Command /\ p.elem[t].cmd \in Address
    BY <1>1, <1>14, LiveCommands DEF CmdOf
  <2>2. CASE p.elem[t].cmd = a
    BY <1>8, <2>1, <2>2, NullAssumption
  <2>3. CASE p.elem[t].cmd # a
    <3>1. CmdOf(n, t) = CmdOf(p, t)
      BY <1>5, <2>1, <2>3
    <3>2. CmdOf(p, t).last_success <=> CmdOf(p, t).told = "success"
      BY DEF Shape, Known
    <3> QED
      BY <2>1, <3>1, <3>2, NullAssumption
  <2> QED
    BY <2>2, <2>3
<1>15. Follows(p, n)
  BY <1>9, Zenon DEF Follows
<1> DEFINE X == Ending(p, s, ok)
<1>16. Without(p, n, X)
  BY <1>14
<1>17. n \in ResourceQueueType /\ n.elem = p.elem
  BY <1>14
<1> HIDE DEF X
<1>18. Shape(n, X)
  BY <1>15, <1>16, <1>17, MovedShaped
<1>11. Shape(n, Ending(p, s, ok))
  BY <1>18 DEF X
<1>12. Running(n) = Running(p)
  <2>1. ASSUME NEW c \in Address
        PROVE  (n.cmd[c] # NULL /\ n.cmd[c].is_running)
                 <=> (p.cmd[c] # NULL /\ p.cmd[c].is_running)
    <3>1. CASE c = a
      BY <1>1, <1>8, <3>1, NullAssumption
    <3>2. CASE c # a
      BY <1>5, <3>2
    <3> QED
      BY <3>1, <3>2
  <2> QED
    BY <2>1 DEF Running
<1>13. Counted(n, 1, users + 1)
  <2>1. n.activechildcnt + 1 = Cardinality(Running(n)) + n.failed
    BY <1>2, <1>6, <1>12 DEF Counted
  <2>2. n.refs = n.activechildcnt + (users + 1)
    BY <1>2, <1>6 DEF Counted
  <2> QED
    BY <1>6, <2>1, <2>2 DEF Counted
<1> QED
  BY <1>3, <1>14, <1>6, <1>11, <1>12, <1>13 DEF n

\* The end of a command and what follows from it keep the queue in order.
LEMMA EndNotifyKeeps ==
    ASSUME NEW p, Shape(p, {}), NEW s \in Live(p), NEW ok \in BOOLEAN,
           NEW users \in Nat, Counted(p, 0, users), NEW c \in Running(p),
           NEW n \in EndNotify(p, c, s, ok)
    PROVE  Shape(n, {}) /\ Counted(n, 0, users)
<1> DEFINE end == EndOf(p, s, ok)
           repeat == ShouldRepeat(p.elem[s], ok)
<1>1. PICK ran \in RunQueue(end) :
         n = ChildGone(Unref(IF repeat THEN ran ELSE FreeElem(ran, s)), c)
  BY DEF EndNotify
<1>2. /\ Shape(end, Ending(p, s, ok)) /\ Counted(end, 1, users + 1)
      /\ Running(end) = Running(p) /\ end.elem = p.elem /\ end.freed = FALSE
  BY EndOfKeeps
<1> HIDE DEF end
<1>3. 1 \in Nat /\ users + 1 \in Nat
  OBVIOUS
<1>4. /\ Shape(ran, Ending(p, s, ok)) /\ Counted(ran, 1, users + 1)
      /\ Running(end) \subseteq Running(ran) /\ ran.elem = end.elem
  BY <1>2, <1>3, RunQueueKeeps
<1> DEFINE rest == IF repeat THEN ran ELSE FreeElem(ran, s)
<1>5. Shape(rest, {}) /\ Counted(rest, 1, users + 1) /\ Running(rest) = Running(ran)
  <2>1. CASE repeat
    BY <1>4, <2>1 DEF Ending
  <2>2. CASE ~repeat
    <3>1. s \in Live(ran)
      BY <1>2, <1>4 DEF Live
    <3>2. Shape(ran, {s})
      BY <1>4, <2>2 DEF Ending
    <3> QED
      BY <1>4, <2>2, <3>1, <3>2, FreeElemKeeps
  <2> QED
    BY <2>1, <2>2
<1> HIDE DEF rest
<1>6. /\ Shape(Unref(rest), {}) /\ Counted(Unref(rest), 1, users)
      /\ Running(Unref(rest)) = Running(rest)
  BY <1>3, <1>5, UnrefKeeps
<1>7. c \in Running(Unref(rest))
  BY <1>2, <1>4, <1>5, <1>6
<1>8. n = ChildGone(Unref(rest), c)
  BY <1>1 DEF rest
<1> QED
  BY <1>6, <1>7, <1>8, ChildGoneKeeps



-----------------------------------------------------------------------------
\* Requests

\* A command as a request makes it
Requested(r, s, delayed) ==
  [resource |-> r, user_data |-> s, due |-> ~delayed, is_running |-> FALSE,
   last_success |-> FALSE, told |-> "nothing"]

\* It does not run, and nothing is known of it.
LEMMA RequestedKnown ==
    ASSUME NEW r \in Resource, NEW s \in Slot, NEW delayed \in BOOLEAN
    PROVE  /\ Requested(r, s, delayed) \in Command
           /\ Requested(r, s, delayed).resource = r
           /\ ~Requested(r, s, delayed).is_running
           /\ Requested(r, s, delayed).last_success
                <=> Requested(r, s, delayed).told = "success"
BY DEF Requested, Command

\* A request puts a new element at the end of its queue.
LEMMA CmdAppendKeeps ==
    ASSUME NEW p, Shape(p, {}), NEW users \in Nat, Counted(p, 0, users), users # 0,
           NEW r \in Resource, NEW e \in Elem, NEW s \in Slot \ Live(p), NEW delayed \in BOOLEAN,
           p.cmd[e.cmd] = NULL
    PROVE  /\ Shape(CmdAppend(p, r, e, s, delayed), {})
           /\ Counted(CmdAppend(p, r, e, s, delayed), 0, users)
<1> DEFINE n == CmdAppend(p, r, e, s, delayed)
           a == e.cmd
           new == Requested(r, s, delayed)
           elem == [p.elem EXCEPT ![s] = e]
           cmd == [p.cmd EXCEPT ![e.cmd] = new]
           queue == [p.queue EXCEPT ![r] = Append(p.queue[r], s)]
<1>1. n = [p EXCEPT !.elem = elem, !.cmd = cmd, !.queue = queue, !.timer = TRUE]
  BY DEF CmdAppend, Requested
<1>2. p \in ResourceQueueType /\ Owned(p) /\ a \in Address
  BY DEF Shape, Elem
<1>3. /\ p.queue \in [Resource -> Seq(Slot)] /\ p.elem \in [Slot -> Elem \cup {NULL}]
      /\ p.cmd \in [Address -> Command \cup {NULL}]
  BY <1>2, Fields
<1>4. /\ new \in Command /\ new.resource = r /\ ~new.is_running
      /\ new.last_success <=> new.told = "success"
  BY RequestedKnown
<1>5. /\ p.queue[r] \in Seq(Slot) /\ NoRepeats(p.queue[r]) /\ s \notin Range(p.queue[r])
      /\ InQueue(p, r) = Range(p.queue[r])
  BY <1>3 DEF Shape, Filed, InQueue
<1>6. /\ Append(p.queue[r], s) \in Seq(Slot) /\ NoRepeats(Append(p.queue[r], s))
      /\ Range(Append(p.queue[r], s)) = Range(p.queue[r]) \cup {s}
  BY <1>5, AppendedOnce
<1> HIDE DEF n, new
<1>7. /\ elem \in [Slot -> Elem \cup {NULL}] /\ elem[s] = e
      /\ \A t \in Slot : t # s => elem[t] = p.elem[t]
  BY <1>3
<1>8. /\ cmd \in [Address -> Command \cup {NULL}] /\ cmd[a] = new
      /\ \A c \in Address : c # a => cmd[c] = p.cmd[c]
  BY <1>2, <1>3, <1>4
<1>9. /\ queue \in [Resource -> Seq(Slot)]
      /\ NoRepeats(queue[r]) /\ Range(queue[r]) = InQueue(p, r) \cup {s}
      /\ \A t \in Resource : t # r => queue[t] = p.queue[t]
  BY <1>3, <1>5, <1>6
<1> HIDE DEF elem, cmd, queue
<1>10. TRUE \in BOOLEAN
  OBVIOUS
<1>11. n \in ResourceQueueType
  BY <1>1, <1>2, <1>7, <1>8, <1>9, <1>10, Zenon DEF ResourceQueueType
<1>12. /\ n.queue = queue /\ n.elem = elem /\ n.cmd = cmd /\ n.refs = p.refs
       /\ n.activechildcnt = p.activechildcnt /\ n.failed = p.failed
  BY <1>1, <1>2 DEF ResourceQueueType
<1>13. n.freed = p.freed
  BY <1>1, <1>2 DEF ResourceQueueType
<1>14. Live(n) = Live(p) \cup {s} /\ s \notin Live(p)
  BY <1>7, <1>12, NullAssumption DEF Live
<1>15. CmdOf(n, s) = new /\ new # NULL
  BY <1>4, <1>7, <1>8, <1>12, NullAssumption DEF CmdOf
<1>16. ASSUME NEW t \in Live(p)
       PROVE  n.elem[t] = p.elem[t] /\ p.elem[t].cmd # a /\ CmdOf(n, t) = CmdOf(p, t)
  <2>1. t \in Slot /\ p.elem[t].cmd \in Address /\ t # s
    BY <1>2, LiveElements
  <2>2. p.elem[t].cmd # a
    BY <1>2 DEF Owned, CmdOf
  <2> QED
    BY <1>7, <1>8, <1>12, <2>1, <2>2 DEF CmdOf
<1>17. NoRepeats(n.queue[r]) /\ InQueue(n, r) = InQueue(p, r) \cup {s}
  BY <1>9, <1>12 DEF InQueue
<1>18. ASSUME NEW t \in Resource, t # r
       PROVE  NoRepeats(n.queue[t]) /\ InQueue(n, t) = InQueue(p, t)
  BY <1>9, <1>12, <1>18 DEF InQueue, Shape, Filed
<1>19. Filed(n, {})
  <2>1. \A t \in Resource : NoRepeats(n.queue[t])
    BY <1>17, <1>18
  <2>2. ASSUME NEW t \in Live(n) PROVE t \in InQueue(n, CmdOf(n, t).resource)
    <3>1. CASE t = s
      BY <1>4, <1>15, <1>17, <3>1
    <3>2. CASE t \in Live(p)
      <4>1. t \in InQueue(p, CmdOf(p, t).resource) /\ CmdOf(n, t) = CmdOf(p, t)
        BY <1>16, <3>2 DEF Shape, Filed
      <4>2. CmdOf(p, t).resource \in Resource
        <5>1. CmdOf(p, t) \in Command
          BY <1>2, <3>2, LiveCommands
        <5> QED
          BY <5>1 DEF Command
      <4> QED
        BY <1>17, <1>18, <4>1, <4>2
    <3> QED
      BY <1>14, <3>1, <3>2
  <2>3. ASSUME NEW u \in Resource, NEW t \in InQueue(n, u)
        PROVE  t \in Live(n) /\ CmdOf(n, t).resource = u
    <3>1. CASE t = s
      BY <1>4, <1>14, <1>15, <1>18, <3>1 DEF Shape, Filed
    <3>2. CASE t # s
      <4>1. t \in InQueue(p, u)
        BY <1>17, <1>18, <3>2
      <4>2. t \in Live(p) /\ CmdOf(p, t).resource = u
        BY <4>1 DEF Shape, Filed
      <4> QED
        BY <1>14, <1>16, <4>2
    <3> QED
      BY <3>1, <3>2
  <2> QED
    BY <2>1, <2>2, <2>3 DEF Filed
<1>20. Owned(n)
  <2>1. \A t \in Live(n) : CmdOf(n, t) # NULL
    BY <1>14, <1>15, <1>16 DEF Shape, Owned
  <2>2. n.elem[s].cmd = a
    BY <1>7, <1>12
  <2>3. \A t, u \in Live(n) : n.elem[t].cmd = n.elem[u].cmd => t = u
    BY <1>2, <1>14, <1>16, <2>2 DEF Owned
  <2> QED
    BY <2>1, <2>3 DEF Owned
<1>21. OneRuns(n)
  <2> SUFFICES ASSUME NEW u \in Resource, NEW t \in InQueue(n, u), NEW v \in InQueue(n, u),
                      CmdOf(n, t).is_running, CmdOf(n, v).is_running
               PROVE  t = v
    BY DEF OneRuns
  <2>1. t # s /\ v # s
    BY <1>4, <1>15
  <2>2. t \in InQueue(p, u) /\ v \in InQueue(p, u)
    BY <1>17, <1>18, <2>1
  <2>3. t \in Live(p) /\ v \in Live(p)
    BY <2>2 DEF Shape, Filed
  <2>4. CmdOf(p, t).is_running /\ CmdOf(p, v).is_running
    BY <1>16, <2>3
  <2> QED
    BY <2>2, <2>4 DEF Shape, OneRuns
<1>22. Known(n)
  <2> SUFFICES ASSUME NEW t \in Live(n)
               PROVE  CmdOf(n, t).last_success <=> CmdOf(n, t).told = "success"
    BY DEF Known
  <2>1. CASE t = s
    BY <1>4, <1>15, <2>1
  <2>2. CASE t \in Live(p)
    BY <1>16, <2>2 DEF Shape, Known
  <2> QED
    BY <1>14, <2>1, <2>2
<1>23. Shape(n, {})
  BY <1>11, <1>19, <1>20, <1>21, <1>22 DEF Shape
<1>24. Running(n) = Running(p)
  <2>1. ASSUME NEW c \in Address
        PROVE  (n.cmd[c] # NULL /\ n.cmd[c].is_running)
                 <=> (p.cmd[c] # NULL /\ p.cmd[c].is_running)
    <3>1. CASE c = a
      BY <1>4, <1>8, <1>12, <3>1
    <3>2. CASE c # a
      BY <1>8, <1>12, <3>2
    <3> QED
      BY <3>1, <3>2
  <2> QED
    BY <2>1 DEF Running
<1>25. Counted(n, 0, users)
  <2>1. p.refs # 0
    BY <1>2, Fields DEF Counted
  <2>2. ~p.freed
    BY <2>1 DEF Counted
  <2> QED
    BY <1>12, <1>13, <1>24, <2>1, <2>2 DEF Counted
<1> QED
  BY <1>23, <1>25 DEF n

\* Cancelling a request takes its element out of its queue and frees it.
LEMMA CancelKeeps ==
    ASSUME NEW p, Shape(p, {}), NEW users, Counted(p, 0, users), NEW r \in Resource, NEW id,
           WithId(p, r, id) # {}
    PROVE  Shape(CancelFound(p, r, id), {}) /\ Counted(CancelFound(p, r, id), 0, users)
<1> DEFINE s == p.queue[r][Min(WithId(p, r, id))]
           left == RemoveFirst(p.queue[r], s)
           queue == [p.queue EXCEPT ![r] = left]
           m == [p EXCEPT !.queue = queue]
<1>1. CancelFound(p, r, id) = FreeElem(m, s)
  BY DEF CancelFound
<1>2. p \in ResourceQueueType /\ p.queue \in [Resource -> Seq(Slot)]
  BY Fields DEF Shape
<1>3. Min(WithId(p, r, id)) \in DOMAIN p.queue[r]
  <2>1. p.queue[r] \in Seq(Slot)
    BY <1>2
  <2>2. WithId(p, r, id) \in SUBSET Nat /\ WithId(p, r, id) \subseteq DOMAIN p.queue[r]
    BY <2>1 DEF WithId
  <2> QED
    BY <2>2, MinIsLeast
<1>4. s \in InQueue(p, r) /\ InQueue(p, r) = Range(p.queue[r])
  BY <1>3 DEF InQueue, Range
<1> HIDE DEF s
<1>5. s \in Live(p) /\ s \in Slot /\ NoRepeats(p.queue[r]) /\ p.queue[r] \in Seq(Slot)
  BY <1>2, <1>4 DEF Shape, Filed, Live
<1>6. left \in Seq(Slot) /\ NoRepeats(left) /\ Range(left) = Range(p.queue[r]) \ {s}
  BY <1>4, <1>5, RemovedOnce
<1> HIDE DEF left
<1>7. /\ queue \in [Resource -> Seq(Slot)] /\ queue[r] = left
      /\ \A t \in Resource : t # r => queue[t] = p.queue[t]
  BY <1>2, <1>6
<1> HIDE DEF queue
<1>8. m \in ResourceQueueType
  BY <1>2, <1>7, Zenon DEF ResourceQueueType
<1>9. /\ m.queue = queue /\ m.elem = p.elem /\ m.cmd = p.cmd /\ m.refs = p.refs
      /\ m.activechildcnt = p.activechildcnt /\ m.failed = p.failed
  BY <1>2 DEF ResourceQueueType
<1>10. m.freed = p.freed /\ m.timer = p.timer
  <2>1. m.freed = p.freed
    BY <1>2 DEF ResourceQueueType
  <2>2. m.timer = p.timer
    BY <1>2 DEF ResourceQueueType
  <2> QED
    BY <2>1, <2>2
<1> HIDE DEF m
<1>11. Without(p, m, {s})
  <2> SUFFICES ASSUME NEW t \in Resource
               PROVE  NoRepeats(m.queue[t]) /\ InQueue(m, t) = InQueue(p, t) \ {s}
    BY DEF Without
  <2>1. CASE t = r
    BY <1>4, <1>6, <1>7, <1>9, <2>1 DEF InQueue
  <2>2. CASE t # r
    <3>1. s \notin InQueue(p, t)
      BY <1>4, <2>2 DEF Shape, Filed
    <3>2. NoRepeats(m.queue[t]) /\ InQueue(m, t) = InQueue(p, t)
      BY <1>7, <1>9, <2>2 DEF InQueue, Shape, Filed
    <3> QED
      BY <3>1, <3>2
  <2> QED
    BY <2>1, <2>2
<1>12. \A t : CmdOf(m, t) = CmdOf(p, t)
  BY <1>9 DEF CmdOf
<1>13. Follows(p, m)
  BY <1>12 DEF Follows, Shape, Owned, Known
<1>14. Shape(m, {s})
  BY <1>8, <1>9, <1>11, <1>13, MovedShaped
<1>15. Counted(m, 0, users)
  <2>1. Running(m) = Running(p)
    BY <1>9 DEF Running
  <2> QED
    BY <1>9, <1>10, <2>1 DEF Counted
<1>16. s \in Live(m)
  BY <1>5, <1>9 DEF Live
<1>17. Shape(FreeElem(m, s), {}) /\ Counted(FreeElem(m, s), 0, users)
  BY <1>14, <1>15, <1>16, FreeElemKeeps
<1> QED
  BY <1>1, <1>17



-----------------------------------------------------------------------------
\* The invariant

\* A queue that has just been made is in order.
LEMMA InitIsInOrder == Init => QInv
<1> SUFFICES ASSUME Init PROVE QInv
  OBVIOUS
<1> DEFINE queue == [r \in Resource |-> <<>>]
           elem == [s \in Slot |-> NULL]
           cmd == [c \in Address |-> NULL]
<1>1. q = [queue |-> queue, elem |-> elem, cmd |-> cmd, timer |-> TRUE,
           activechildcnt |-> 0, refs |-> 1, freed |-> FALSE, failed |-> 0]
  BY DEF Init
<1>2. /\ queue \in [Resource -> Seq(Slot)] /\ \A r \in Resource : queue[r] = <<>>
      /\ elem \in [Slot -> Elem \cup {NULL}] /\ \A s \in Slot : elem[s] = NULL
      /\ cmd \in [Address -> Command \cup {NULL}] /\ \A c \in Address : cmd[c] = NULL
  OBVIOUS
<1> HIDE DEF queue, elem, cmd
<1>3. 0 \in 0 .. MaxFailures /\ TRUE \in BOOLEAN /\ FALSE \in BOOLEAN /\ 0 \in Nat /\ 1 \in Nat
  BY LimitAssumption
<1>4. q \in ResourceQueueType
  BY <1>1, <1>2, <1>3, Zenon DEF ResourceQueueType
<1>5. /\ q.queue = queue /\ q.elem = elem /\ q.cmd = cmd /\ q.activechildcnt = 0
      /\ q.refs = 1 /\ q.failed = 0 /\ ~q.freed
  BY <1>1
<1>6. Live(q) = {} /\ Running(q) = {}
  BY <1>2, <1>5 DEF Live, Running
<1>7. \A r \in Resource : NoRepeats(q.queue[r]) /\ InQueue(q, r) = {}
  BY <1>2, <1>5, NothingOnce DEF InQueue
<1>8. Shape(q, {})
  BY <1>4, <1>6, <1>7 DEF Shape, Filed, Owned, OneRuns, Known
<1>9. Counted(q, 0, Users)
  <2>1. Users = 1
    BY DEF Users, Init
  <2>2. Cardinality(Running(q)) = 0
    BY <1>6, FS_EmptySet
  <2>3. 0 + 0 = 0 /\ 1 = 0 + 1 /\ 1 # 0
    OBVIOUS
  <2> QED
    BY <1>5, <2>1, <2>2, <2>3, Zenon DEF Counted
<1>10. stopped \in BOOLEAN /\ aborted \in BOOLEAN
  BY DEF Init
<1>11. requests \in 0 .. MaxRequests
  BY LimitAssumption DEF Init
<1> QED
  BY <1>8, <1>9, <1>10, <1>11 DEF QInv

\* Every step keeps it in order: a request, a cancellation, the shutdown, the timer, time,
\* and the end of a child.
LEMMA StepKeepsInOrder == QInv /\ [Next]_vars => QInv'
<1> SUFFICES ASSUME QInv, [Next]_vars PROVE QInv'
  OBVIOUS
<1>1. /\ Shape(q, {}) /\ Counted(q, 0, Users) /\ Users \in Nat
      /\ stopped \in BOOLEAN /\ aborted \in BOOLEAN /\ requests \in 0 .. MaxRequests
      /\ q \in ResourceQueueType
  BY DEF QInv, Shape, Users
<1>2. ASSUME NEW r \in Resource, NEW id \in ReqId, NEW repeats \in BOOLEAN,
             NEW cancelonfail \in BOOLEAN, NEW delayed \in BOOLEAN,
             Qcmd(r, id, repeats, cancelonfail, delayed)
      PROVE  QInv'
  <2>1. PICK s \in Slot \ Live(q), c \in Address :
          /\ q.cmd[c] = NULL
          /\ q' = CmdAppend(q, r, [cmd |-> c, requestid |-> id, repeats |-> repeats,
                                   cancelonfail |-> cancelonfail], s, delayed)
    BY <1>2 DEF Qcmd
  <2> DEFINE e == [cmd |-> c, requestid |-> id, repeats |-> repeats,
                   cancelonfail |-> cancelonfail]
  <2>2. e \in Elem /\ e.cmd = c
    BY DEF Elem
  <2>3. q' = CmdAppend(q, r, e, s, delayed)
    BY <2>1
  <2> HIDE DEF e
  <2>4. Users = 1 /\ Users' = Users
    BY <1>2 DEF Qcmd, Users
  <2>5. Users # 0 /\ q.cmd[e.cmd] = NULL
    BY <2>1, <2>2, <2>4
  <2>6. Shape(q', {}) /\ Counted(q', 0, Users)
    BY <1>1, <2>2, <2>3, <2>5, CmdAppendKeeps
  <2>7. requests' \in 0 .. MaxRequests /\ stopped' \in BOOLEAN /\ aborted' \in BOOLEAN
    BY <1>1, <1>2, LimitAssumption DEF Qcmd
  <2> QED
    BY <2>4, <2>6, <2>7 DEF QInv
<1>3. ASSUME NEW r \in Resource, NEW id \in ReqId, Cancel(r, id) PROVE QInv'
  <2>1. WithId(q, r, id) # {} /\ q' = CancelFound(q, r, id)
    BY <1>3 DEF Cancel
  <2>2. Shape(q', {}) /\ Counted(q', 0, Users)
    BY <1>1, <2>1, CancelKeeps
  <2>3. Users' = Users
    BY <1>3 DEF Cancel, Users
  <2> QED
    BY <1>1, <1>3, <2>2, <2>3 DEF QInv, Cancel
<1>4. ASSUME InitiateShutdown PROVE QInv'
  <2>1. PICK reached \in SUBSET Resource : q' = Unref(FreeQueues(q, reached))
    BY <1>4 DEF InitiateShutdown
  <2>2. Users = 0 + 1 /\ Users' = 0 /\ 0 \in Nat
    BY <1>4 DEF InitiateShutdown, Users
  <2> DEFINE f == FreeQueues(q, reached)
  <2>3. Shape(f, {}) /\ Counted(f, 0, Users)
    BY <1>1, FreeQueuesKeeps, FreeQueuesCounts
  <2> HIDE DEF f
  <2>4. Counted(f, 0, 0 + 1)
    BY <2>2, <2>3
  <2>5. Shape(Unref(f), {}) /\ Counted(Unref(f), 0, 0)
    BY <2>2, <2>3, <2>4, UnrefKeeps
  <2>6. q' = Unref(f)
    BY <2>1 DEF f
  <2> QED
    BY <1>1, <1>4, <2>2, <2>5, <2>6 DEF QInv, InitiateShutdown
<1>5. ASSUME RunTimer PROVE QInv'
  <2>1. q' \in RunQueue(q) /\ q.timer
    BY <1>5 DEF RunTimer
  <2>2. q.freed = FALSE
    <3>1. q.freed \in BOOLEAN
      BY <1>1, Fields
    <3> QED
      BY <1>1, <2>1, <3>1 DEF Counted
  <2>3. 0 \in Nat
    OBVIOUS
  <2>4. Shape(q', {}) /\ Counted(q', 0, Users)
    BY <1>1, <2>1, <2>2, <2>3, RunQueueKeeps
  <2>5. Users' = Users
    BY <1>5 DEF RunTimer, Users
  <2> QED
    BY <1>1, <1>5, <2>4, <2>5 DEF QInv, RunTimer
<1>6. ASSUME NEW c \in Address, BecomeDue(c) PROVE QInv'
  <2> DEFINE due == [q.cmd[c] EXCEPT !.due = TRUE]
  <2>1. /\ q.cmd \in [Address -> Command \cup {NULL}] /\ q.cmd[c] # NULL /\ q.cmd[c] \in Command
    BY <1>1, <1>6, Fields DEF BecomeDue
  <2>2. q' = [q EXCEPT !.cmd = [q.cmd EXCEPT ![c] = due]]
    BY <1>6 DEF BecomeDue
  <2>3. due \in Command /\ due.resource = q.cmd[c].resource /\ due.told = q.cmd[c].told
    BY <2>1 DEF Command
  <2>4. due.last_success = q.cmd[c].last_success
    BY <2>1 DEF Command
  <2>5. due.is_running = q.cmd[c].is_running
    BY <2>1 DEF Command
  <2> HIDE DEF due
  <2>6. /\ [q.cmd EXCEPT ![c] = due] \in [Address -> Command \cup {NULL}]
        /\ [q.cmd EXCEPT ![c] = due][c] = due
        /\ \A d \in Address : d # c => [q.cmd EXCEPT ![c] = due][d] = q.cmd[d]
    BY <2>1, <2>3
  <2>7. q' \in ResourceQueueType
    BY <1>1, <2>2, <2>6, Zenon DEF ResourceQueueType
  <2>8. /\ q'.queue = q.queue /\ q'.elem = q.elem /\ q'.cmd = [q.cmd EXCEPT ![c] = due]
        /\ q'.activechildcnt = q.activechildcnt /\ q'.refs = q.refs /\ q'.failed = q.failed
    BY <1>1, <2>2 DEF ResourceQueueType
  <2>9. q'.freed = q.freed
    BY <1>1, <2>2 DEF ResourceQueueType
  <2>10. q'.timer = q.timer
    BY <1>1, <2>2 DEF ResourceQueueType
  <2>11. q'.cmd[c] = due /\ \A d \in Address : d # c => q'.cmd[d] = q.cmd[d]
    BY <2>6, <2>8
  <2>12. ASSUME NEW s \in Live(q)
         PROVE  /\ CmdOf(q', s) # NULL
                /\ CmdOf(q', s).resource = CmdOf(q, s).resource
                /\ CmdOf(q', s).is_running = CmdOf(q, s).is_running
                /\ CmdOf(q', s).last_success = CmdOf(q, s).last_success
                /\ CmdOf(q', s).told = CmdOf(q, s).told
    <3>1. /\ CmdOf(q, s) \in Command /\ CmdOf(q, s) = q.cmd[q.elem[s].cmd]
          /\ CmdOf(q', s) = q'.cmd[q.elem[s].cmd] /\ q.elem[s].cmd \in Address
      BY <1>1, <2>8, LiveCommands DEF Shape, CmdOf
    <3>2. CASE q.elem[s].cmd = c
      BY <2>3, <2>4, <2>5, <2>11, <3>1, <3>2, NullAssumption
    <3>3. CASE q.elem[s].cmd # c
      BY <2>11, <3>1, <3>3, NullAssumption
    <3> QED
      BY <3>2, <3>3
  <2>13. OneRuns(q')
    BY <1>1, <2>8, <2>12 DEF OneRuns, Shape, Filed, InQueue
  <2>14. Shape(q', {})
    BY <1>1, <2>7, <2>8, <2>12, <2>13, StillShaped
  <2>15. Running(q') = Running(q)
    <3>1. ASSUME NEW d \in Address
          PROVE  (q'.cmd[d] # NULL /\ q'.cmd[d].is_running)
                   <=> (q.cmd[d] # NULL /\ q.cmd[d].is_running)
      <4>1. CASE d = c
        BY <2>1, <2>3, <2>5, <2>11, <4>1, NullAssumption
      <4>2. CASE d # c
        BY <2>11, <4>2
      <4> QED
        BY <4>1, <4>2
    <3> QED
      BY <3>1 DEF Running
  <2>16. Counted(q', 0, Users)
    BY <1>1, <2>8, <2>9, <2>10, <2>15 DEF Counted
  <2>17. Users' = Users
    BY <1>6 DEF BecomeDue, Users
  <2> QED
    BY <1>1, <1>6, <2>14, <2>16, <2>17 DEF QInv, BecomeDue
<1>7. ASSUME NEW c \in Address, NEW ok \in BOOLEAN, ChildExit(c, ok) PROVE QInv'
  <2> DEFINE s == q.cmd[c].user_data
  <2>1. c \in Running(q) /\ s \in Live(q) /\ q' \in EndNotify(q, c, s, ok)
    BY <1>7 DEF ChildExit
  <2> HIDE DEF s
  <2>2. Shape(q', {}) /\ Counted(q', 0, Users)
    BY <1>1, <2>1, EndNotifyKeeps
  <2>3. Users' = Users
    BY <1>7 DEF ChildExit, Users
  <2> QED
    BY <1>1, <1>7, <2>2, <2>3 DEF QInv, ChildExit
<1>8. ASSUME NEW c \in Address, ChildExitAborts(c) PROVE QInv'
  <2>1. Users' = Users
    BY <1>8 DEF ChildExitAborts, Users
  <2> QED
    BY <1>1, <1>8, <2>1 DEF QInv, ChildExitAborts
<1>9. CASE UNCHANGED vars
  <2>1. Users' = Users
    BY <1>9 DEF vars, Users
  <2> QED
    BY <1>1, <1>9, <2>1 DEF QInv, vars
<1> QED
  BY <1>2, <1>3, <1>4, <1>5, <1>6, <1>7, <1>8, <1>9 DEF Next

\* The queue is in order at all times.
LEMMA InOrder == Spec => []QInv
<1>1. Init => QInv
  BY InitIsInOrder
<1>2. QInv /\ [Next]_vars => QInv'
  BY StepKeepsInOrder
<1> QED
  BY <1>1, <1>2, PTL DEF Spec

-----------------------------------------------------------------------------
\* Theorems

\* Every variable has its type, whatever is requested, cancelled, spawned and ended.
THEOREM QueueTypeCorrect == Spec => []TypeOK
<1>1. QInv => TypeOK
  BY DEF QInv, Shape, TypeOK
<1> QED
  BY <1>1, InOrder, PTL

\* The queues hold the elements in use, each once, under the resource of its command:
\* requests, cancellations, repetitions and the shutdown leak no element and leave no
\* pointer to one that has been freed.
THEOREM QueuesHoldThem == Spec => []QueuesHoldTheElements
<1>1. QInv => QueuesHoldTheElements
  <2> SUFFICES ASSUME QInv PROVE QueuesHoldTheElements
    OBVIOUS
  <2>1. Filed(q, {}) /\ Owned(q) /\ q \in ResourceQueueType
    BY DEF QInv, Shape
  <2>2. ASSUME NEW s \in Live(q)
        PROVE  /\ q.cmd[q.elem[s].cmd] # NULL
               /\ s \in InQueue(q, q.cmd[q.elem[s].cmd].resource)
    BY <2>1 DEF Filed, Owned, CmdOf
  <2>3. ASSUME NEW r \in Resource, NEW i \in DOMAIN q.queue[r], NEW j \in DOMAIN q.queue[r]
        PROVE  /\ q.queue[r][i] \in Live(q)
               /\ q.cmd[q.elem[q.queue[r][i]].cmd].resource = r
               /\ q.queue[r][i] = q.queue[r][j] => i = j
    <3>1. q.queue[r][i] \in InQueue(q, r)
      BY DEF InQueue, Range
    <3>2. NoRepeats(q.queue[r])
      BY <2>1 DEF Filed
    <3> QED
      BY <2>1, <3>1, <3>2 DEF Filed, CmdOf, NoRepeats
  <2> QED
    BY <2>2, <2>3 DEF QueuesHoldTheElements
<1> QED
  BY <1>1, InOrder, PTL

\* The queue object is there for the callback of every child it has started, and goes when
\* the last of them has ended after the shutdown, with its timer.
THEOREM QueueOutlives == Spec => []QueueOutlivesChildren
<1>1. QInv => QueueOutlivesChildren
  <2> SUFFICES ASSUME QInv PROVE QueueOutlivesChildren
    OBVIOUS
  <2>1. Counted(q, 0, Users) /\ q.activechildcnt \in Nat
    BY Fields DEF QInv, Shape
  <2> QED
    BY <2>1 DEF QueueOutlivesChildren, Counted, Users
<1> QED
  BY <1>1, InOrder, PTL

\* Of the commands in the queue of a resource one runs at most, however its requests are
\* repeated, cancelled and made again while their children run.
THEOREM OneOfThemRuns == Spec => []OneQueuedRuns
<1>1. QInv => OneQueuedRuns
  BY DEF QInv, Shape, OneRuns, OneQueuedRuns, CmdOf
<1> QED
  BY <1>1, InOrder, PTL

\* A requester that was told of its operation was told its present status, also when the
\* command that ends is not the one its element has had from the start.
THEOREM RequesterIsRight == Spec => []RequesterKnows
<1>1. QInv => RequesterKnows
  BY DEF QInv, Shape, Known, RequesterKnows, CmdOf
<1> QED
  BY <1>1, InOrder, PTL
===============================================================================
