--------------------------- MODULE Nanoprobe_proofs ---------------------------
(***************************************************************************)
(* Proofs about Nanoprobe.  Who holds a discovery object is what takes     *)
(* work: the functions of discovery.c call each other with an entry or a   *)
(* reference halfway gone.  Held(s, x) says that every object of s has one *)
(* reference from the table, one from its child and x[o] from functions    *)
(* that are not done yet.  Each function has a lemma that says what it     *)
(* does to x; between two steps x is zero everywhere, which is the core of *)
(* the inductive invariant NanoInv.                                        *)
(***************************************************************************)
EXTENDS Nanoprobe, FiniteSetTheorems, SequenceTheorems, WellFoundedInduction, TLAPS

-----------------------------------------------------------------------------
\* Helpers

\* A finite set of numbers that is not empty has a largest one: a smallest subset
\* without one would have one when a member is taken away, and so have one itself.
LEMMA LargestExists ==
    ASSUME NEW S \in SUBSET Nat, S # {}, IsFiniteSet(S)
    PROVE  \E m \in S : \A t \in S : t <= m
<1> DEFINE Bad == {U \in SUBSET S : U # {} /\ ~ \E m \in U : \A t \in U : t <= m}
<1> SUFFICES ASSUME Bad # {} PROVE FALSE
  OBVIOUS
<1>1. IsWellFoundedOn(StrictSubsetOrdering(S), FiniteSubsetsOf(S))
  BY FS_StrictSubsetOrderingWellFounded
<1>2. Bad \subseteq FiniteSubsetsOf(S)
  BY FS_Subset DEF FiniteSubsetsOf
<1>3. PICK U \in Bad : \A V \in Bad : ~(<<V, U>> \in StrictSubsetOrdering(S))
  <2> HIDE DEF Bad
  <2> QED
    BY <1>1, <1>2, WFMin, Zenon
<1>4. PICK x \in U : TRUE
  OBVIOUS
<1> DEFINE V == U \ {x}
<1>5. V \notin Bad
  <2>1. V \in SUBSET S /\ V \subseteq U /\ V # U
    OBVIOUS
  <2>2. <<V, U>> \in StrictSubsetOrdering(S) <=> V \in SUBSET S /\ U \in SUBSET S /\ V \subseteq U /\ V # U
    BY DEF StrictSubsetOrdering
  <2> QED
    BY <2>1, <2>2, <1>3
<1>6. U \subseteq Nat
  OBVIOUS
<1>7. CASE V = {}
  BY <1>3, <1>4, <1>6, <1>7
<1>8. CASE V # {}
  <2>1. PICK m \in V : \A t \in V : t <= m
    BY <1>5, <1>8
  <2>2. \E n \in U : \A t \in U : t <= n
    <3>1. CASE m <= x
      BY <2>1, <3>1, <1>4, <1>6
    <3>2. CASE ~(m <= x)
      BY <2>1, <3>2, <1>4, <1>6
    <3> QED
      BY <3>1, <3>2
  <2> QED
    BY <2>2, <1>3
<1> QED
  BY <1>7, <1>8

\* The bound on the silence of a peer is a number.
LEMMA LongSilentType == LongSilent \in Nat /\ \A t \in Deadtimes \cup Warntimes : t < LongSilent
<1> DEFINE T == Deadtimes \cup Warntimes
<1>1. T \in SUBSET Nat /\ T # {} /\ IsFiniteSet(T)
  BY HbTimesAssumption, FS_Union
<1> HIDE DEF T
<1>2. PICK m \in T : \A t \in T : t <= m
  BY <1>1, LargestExists
<1>3. \E n \in {t + 1 : t \in T} : \A t \in T : t < n
  BY <1>1, <1>2
<1>4. LongSilent = CHOOSE n \in {t + 1 : t \in T} : \A t \in T : t < n
  BY DEF LongSilent, T
<1>5. LongSilent \in {t + 1 : t \in T} /\ \A t \in T : t < LongSilent
  BY <1>3, <1>4
<1> QED
  BY <1>1, <1>5 DEF T

\* A set of positions that is not empty has a first one.
LEMMA FirstExists ==
    ASSUME NEW S \in SUBSET Nat, S # {}
    PROVE  \E i \in S : \A j \in S : i <= j
<1> DEFINE Less == {ss \in Nat \X Nat : ss[1] < ss[2]}
<1>1. IsWellFoundedOn(Less, Nat)
  BY NatLessThanWellFounded, Zenon DEF OpToRel
<1> HIDE DEF Less
<1>2. PICK i \in S : \A j \in S : ~(<<j, i>> \in Less)
  BY <1>1, WFMin, Zenon
<1>3. ASSUME NEW j \in S PROVE i <= j
  <2>1. <<j, i>> \in Nat \X Nat /\ <<j, i>>[1] = j /\ <<j, i>>[2] = i
    OBVIOUS
  <2>2. ~(j < i)
    BY <1>2, <2>1 DEF Less
  <2> QED
    BY <2>2
<1> QED
  BY <1>3

\* hbsender_stopsend leaves a list of senders, which is no longer than before.
LEMMA StopSendType ==
    ASSUME NEW ss \in Seq(SendTo), NEW a
    PROVE  StopSend(ss, a) \in Seq(SendTo) /\ Len(StopSend(ss, a)) <= Len(ss)
<1>1. CASE ~Contains(ss, a)
  BY <1>1 DEF StopSend
<1>2. CASE Contains(ss, a)
  <2> DEFINE At == {i \in 1 .. Len(ss) : ss[i] = a}
             IsFirst(i) == ss[i] = a /\ \A j \in 1 .. i - 1 : ss[j] # a
             first == CHOOSE i \in DOMAIN ss : IsFirst(i)
  <2>1. At \in SUBSET Nat /\ At # {}
    BY <1>2 DEF Contains
  <2>2. PICK i \in At : \A j \in At : i <= j
    <3> HIDE DEF At
    <3> QED
      BY <2>1, FirstExists
  <2>3. DOMAIN ss = 1 .. Len(ss) /\ Len(ss) \in Nat
    OBVIOUS
  <2>4. i \in DOMAIN ss /\ IsFirst(i)
    BY <2>2, <2>3
  <2>5. first \in DOMAIN ss
    <3> HIDE DEF IsFirst
    <3> QED
      BY <2>4
  <2>6. StopSend(ss, a) = SubSeq(ss, 1, first - 1) \o SubSeq(ss, first + 1, Len(ss))
    BY <1>2 DEF StopSend, RemoveAt
  <2> HIDE DEF first
  <2>7. /\ SubSeq(ss, 1, first - 1) \in Seq(SendTo)
        /\ Len(SubSeq(ss, 1, first - 1)) = first - 1
    BY <2>3, <2>5, SubSeqProperties
  <2>8. /\ SubSeq(ss, first + 1, Len(ss)) \in Seq(SendTo)
        /\ Len(SubSeq(ss, first + 1, Len(ss))) = Len(ss) - first
    BY <2>3, <2>5, SubSeqProperties
  <2> QED
    BY <2>3, <2>5, <2>6, <2>7, <2>8, ConcatProperties
<1> QED
  BY <1>1, <1>2

-----------------------------------------------------------------------------
\* Discovery objects and who holds them

Object ==
    [name : Instances, refs : Nat \ {0}, repeats : BOOLEAN, timer : BOOLEAN,
     child : BOOLEAN, sentyet : BOOLEAN]

Discoveries ==
    [obj : [Objects -> Object \cup {Free}],
     table : [Instances -> Objects \cup {NoObject}],
     value : [Instances -> Outputs \cup {NoOutput}]]

InTable(s, o) == IF s.table[s.obj[o].name] = o THEN 1 ELSE 0
ByChild(s, o) == IF s.obj[o].child THEN 1 ELSE 0

\* What the table names is there, under its name; an object is held by the table, by
\* its child, and in x other ways, which are those of a function that is not done yet.
TableIsRight(s) ==
    \A i \in Instances :
        s.table[i] # NoObject => s.table[i] \in InUse(s) /\ s.obj[s.table[i]].name = i

Held(s, x) ==
    /\ s \in Discoveries
    /\ x \in [Objects -> Nat]
    /\ TableIsRight(s)
    /\ \A o \in InUse(s) : s.obj[o].refs = InTable(s, o) + ByChild(s, o) + x[o]
    /\ \A o \in Objects \ InUse(s) : x[o] = 0

\* Objects are lost at most, and no name, output or child comes to be.
Keeps(s, t) ==
    /\ t.value = s.value
    /\ \A i \in Instances : t.table[i] \in {s.table[i], NoObject}
    /\ \A o \in InUse(t) :
          /\ o \in InUse(s)
          /\ t.obj[o] = [s.obj[o] EXCEPT !.refs = t.obj[o].refs]

Nobody == [o \in Objects |-> 0]
Hold(x, o) == [x EXCEPT ![o] = @ + 1]
LetGo(x, o) == [x EXCEPT ![o] = @ - 1]

\* What is in use is an object, and what is not is free.
LEMMA InUseIsObject ==
    ASSUME NEW s \in Discoveries, NEW o \in Objects
    PROVE  /\ o \in InUse(s) => s.obj[o] \in Object
           /\ o \notin InUse(s) => s.obj[o] = Free
<1>1. s.obj[o] \in Object \cup {Free}
  BY DEF Discoveries
<1>2. Free.refs = 0 /\ \A b \in Object : b.refs > 0
  BY DEF Object, Free
<1> QED
  BY <1>1, <1>2 DEF InUse

\* A reference is dropped that is not the last one.
LEMMA DropHeld ==
    ASSUME NEW s, NEW x, Held(s, x), NEW o \in Objects, x[o] > 0, s.obj[o].refs # 1,
           NEW t, t = [s EXCEPT !.obj[o].refs = @ - 1]
    PROVE  Held(t, LetGo(x, o)) /\ Keeps(s, t)
<1>1. s \in Discoveries /\ x \in [Objects -> Nat] /\ o \in InUse(s)
  BY DEF Held
<1>2. s.obj[o] \in Object
  BY <1>1, InUseIsObject
<1>3. s.obj[o].refs \in Nat \ {0, 1}
  BY <1>2 DEF Object
<1> DEFINE b == [s.obj[o] EXCEPT !.refs = @ - 1]
<1>4. b \in Object
  BY <1>2, <1>3 DEF Object
<1>5. /\ t.obj = [s.obj EXCEPT ![o] = b]
      /\ t.table = s.table /\ t.value = s.value
      /\ t \in Discoveries
  BY <1>1, <1>4 DEF Discoveries
<1>6. b = [s.obj[o] EXCEPT !.refs = b.refs] /\ b.refs = s.obj[o].refs - 1
  BY <1>2 DEF Object
<1> HIDE DEF b
<1>7. /\ t.obj[o] = b /\ \A p \in Objects \ {o} : t.obj[p] = s.obj[p]
  BY <1>1, <1>5 DEF Discoveries
<1>15. b.name = s.obj[o].name /\ b.child = s.obj[o].child /\ b.refs > 0
  BY <1>2, <1>3, <1>6 DEF Object
<1>8. InUse(t) = InUse(s)
  BY <1>7, <1>15, <1>1 DEF InUse
<1>9. LetGo(x, o) \in [Objects -> Nat] /\ LetGo(x, o)[o] = x[o] - 1
      /\ \A p \in Objects \ {o} : LetGo(x, o)[p] = x[p]
  BY <1>1 DEF LetGo
<1>10. TableIsRight(t)
  BY <1>5, <1>7, <1>8, <1>15 DEF TableIsRight, Held
<1>11. ASSUME NEW p \in InUse(t)
       PROVE  t.obj[p].refs = InTable(t, p) + ByChild(t, p) + LetGo(x, o)[p]
  <2>1. p \in InUse(s) /\ p \in Objects /\ InTable(t, p) = InTable(s, p) /\ ByChild(t, p) = ByChild(s, p)
    BY <1>5, <1>7, <1>8, <1>15 DEF InTable, ByChild, InUse
  <2>2. s.obj[p].refs = InTable(s, p) + ByChild(s, p) + x[p]
    BY <2>1 DEF Held
  <2>3. InTable(s, p) \in Nat /\ ByChild(s, p) \in Nat
    BY DEF InTable, ByChild
  <2> QED
    BY <2>1, <2>2, <2>3, <1>6, <1>7, <1>9, <1>1
<1>12. \A p \in Objects \ InUse(t) : LetGo(x, o)[p] = 0
  BY <1>1, <1>8, <1>9 DEF Held
<1>13. Held(t, LetGo(x, o))
  BY <1>5, <1>9, <1>10, <1>11, <1>12 DEF Held
<1>14. \A p \in InUse(t) : t.obj[p] = [s.obj[p] EXCEPT !.refs = t.obj[p].refs]
  <2> SUFFICES ASSUME NEW p \in InUse(s) PROVE t.obj[p] = [s.obj[p] EXCEPT !.refs = t.obj[p].refs]
    BY <1>8
  <2>1. s.obj[p] \in Object /\ p \in Objects
    BY <1>1, InUseIsObject DEF InUse
  <2> QED
    BY <2>1, <1>6, <1>7 DEF Object
<1> QED
  BY <1>5, <1>8, <1>13, <1>14 DEF Keeps

\* The last reference to an object is dropped, and it is freed.
LEMMA FreeHeld ==
    ASSUME NEW s, NEW x, Held(s, x), NEW o \in Objects, x[o] > 0, s.obj[o].refs = 1,
           NEW t, t = [s EXCEPT !.obj[o] = Free]
    PROVE  Held(t, LetGo(x, o)) /\ Keeps(s, t)
<1>1. s \in Discoveries /\ x \in [Objects -> Nat] /\ o \in InUse(s)
  BY DEF Held
<1>2. /\ t.obj = [s.obj EXCEPT ![o] = Free]
      /\ t.table = s.table /\ t.value = s.value
      /\ t \in Discoveries
  BY <1>1 DEF Discoveries
<1>3. InTable(s, o) = 0 /\ x[o] = 1
  <2>1. 1 = InTable(s, o) + ByChild(s, o) + x[o]
    BY <1>1 DEF Held
  <2>2. InTable(s, o) \in {0, 1} /\ ByChild(s, o) \in {0, 1} /\ x[o] \in Nat
    BY <1>1 DEF InTable, ByChild
  <2> QED
    BY <2>1, <2>2
<1>4. t.obj[o] = Free /\ \A p \in Objects \ {o} : t.obj[p] = s.obj[p]
  BY <1>1, <1>2 DEF Discoveries
<1>5. InUse(t) = InUse(s) \ {o}
  BY <1>1, <1>4 DEF InUse, Free
<1>6. LetGo(x, o) \in [Objects -> Nat] /\ LetGo(x, o)[o] = 0
      /\ \A p \in Objects \ {o} : LetGo(x, o)[p] = x[p]
  BY <1>1, <1>3 DEF LetGo
<1>7. TableIsRight(t)
  <2> SUFFICES ASSUME NEW i \in Instances, t.table[i] # NoObject
               PROVE  t.table[i] \in InUse(t) /\ t.obj[t.table[i]].name = i
    BY DEF TableIsRight
  <2>1. s.table[i] \in InUse(s) /\ s.obj[s.table[i]].name = i
    BY <1>2 DEF Held, TableIsRight
  <2>2. s.table[i] # o
    BY <2>1, <1>3 DEF InTable
  <2> QED
    BY <2>1, <2>2, <1>2, <1>4, <1>5 DEF InUse
<1>8. ASSUME NEW p \in InUse(t)
      PROVE  /\ t.obj[p].refs = InTable(t, p) + ByChild(t, p) + LetGo(x, o)[p]
             /\ t.obj[p] = [s.obj[p] EXCEPT !.refs = t.obj[p].refs]
  <2>1. p \in InUse(s) /\ p \in Objects \ {o} /\ t.obj[p] = s.obj[p]
    BY <1>4, <1>5 DEF InUse
  <2>2. s.obj[p].refs = InTable(s, p) + ByChild(s, p) + x[p]
    BY <2>1 DEF Held
  <2>3. s.obj[p] \in Object
    BY <1>1, <2>1, InUseIsObject
  <2> QED
    BY <2>1, <2>2, <2>3, <1>2, <1>6 DEF InTable, ByChild, Object
<1>9. \A p \in Objects \ InUse(t) : LetGo(x, o)[p] = 0
  BY <1>1, <1>5, <1>6 DEF Held
<1> QED
  BY <1>2, <1>5, <1>6, <1>7, <1>8, <1>9 DEF Held, Keeps

\* An entry is taken out of the table, which leaves its reference behind.
LEMMA ClearHeld ==
    ASSUME NEW s, NEW x, Held(s, x), NEW i \in Instances,
           NEW t, t = [s EXCEPT !.table[i] = NoObject],
           NEW p, p = s.table[i]
    PROVE  /\ Held(t, IF p = NoObject THEN x ELSE Hold(x, p))
           /\ Keeps(s, t)
<1>1. s \in Discoveries /\ x \in [Objects -> Nat]
  BY DEF Held
<1>2. /\ t.obj = s.obj /\ t.value = s.value /\ t \in Discoveries
      /\ t.table = [s.table EXCEPT ![i] = NoObject] 
  BY <1>1 DEF Discoveries
<1>3. t.table[i] = NoObject /\ \A j \in Instances \ {i} : t.table[j] = s.table[j]
  BY <1>1, <1>2 DEF Discoveries
<1>4. InUse(t) = InUse(s) /\ TableIsRight(t)
  BY <1>2, <1>3 DEF InUse, Held, TableIsRight
<1>5. Keeps(s, t)
  <2>1. \A q \in InUse(t) : s.obj[q] \in Object
    BY <1>1, <1>4, InUseIsObject DEF InUse
  <2>2. \A q \in InUse(t) : t.obj[q] = [s.obj[q] EXCEPT !.refs = t.obj[q].refs]
    BY <1>2, <2>1 DEF Object
  <2> QED
    BY <1>2, <1>3, <1>4, <2>2 DEF Keeps
<1>6. ASSUME NEW q \in InUse(s), q # p
      PROVE  s.obj[q].refs = InTable(t, q) + ByChild(t, q) + x[q]
  <2>1. s.obj[q].refs = InTable(s, q) + ByChild(s, q) + x[q]
    BY DEF Held
  <2>2. s.obj[q].name \in Instances /\ q # NoObject
    BY <1>1, InUseIsObject, DiscoveryAssumption DEF InUse, Object
  <2>3. InTable(t, q) = InTable(s, q)
    <3>1. t.obj[q] = s.obj[q]
      BY <1>2
    <3> DEFINE n == s.obj[q].name
    <3>2. t.table[n] = q <=> s.table[n] = q
      <4> HIDE DEF n
      <4>1. n \in Instances
        BY <2>2 DEF n
      <4> QED
        BY <1>3, <1>6, <2>2, <4>1
    <3> QED
      BY <3>1, <3>2 DEF InTable
  <2> QED
    BY <1>2, <2>1, <2>3 DEF ByChild
<1>7. CASE p = NoObject
  <2>1. p \notin InUse(s)
    BY <1>7, DiscoveryAssumption DEF InUse
  <2>2. \A q \in InUse(t) : t.obj[q].refs = InTable(t, q) + ByChild(t, q) + x[q]
    BY <1>2, <1>4, <1>6, <2>1
  <2> QED
    BY <1>1, <1>2, <1>4, <1>5, <1>7, <2>2 DEF Held
<1>8. CASE p # NoObject
  <2>1. p \in InUse(s) /\ s.obj[p].name = i /\ p \in Objects
    BY <1>8 DEF Held, TableIsRight, InUse
  <2>2. Hold(x, p) \in [Objects -> Nat] /\ Hold(x, p)[p] = x[p] + 1
        /\ \A q \in Objects \ {p} : Hold(x, p)[q] = x[q]
    BY <1>1, <2>1 DEF Hold
  <2>3. InTable(s, p) = 1 /\ InTable(t, p) = 0 /\ ByChild(t, p) = ByChild(s, p)
    BY <1>2, <1>3, <1>8, <2>1 DEF InTable, ByChild
  <2>4. t.obj[p].refs = InTable(t, p) + ByChild(t, p) + Hold(x, p)[p]
    <3>1. s.obj[p].refs = InTable(s, p) + ByChild(s, p) + x[p]
      BY <2>1 DEF Held
    <3>2. ByChild(s, p) \in Nat /\ x[p] \in Nat
      BY <1>1, <2>1 DEF ByChild
    <3> QED
      BY <1>2, <2>2, <2>3, <3>1, <3>2
  <2>5. \A q \in InUse(t) : t.obj[q].refs = InTable(t, q) + ByChild(t, q) + Hold(x, p)[q]
    BY <1>2, <1>4, <1>6, <2>2, <2>4 DEF InUse
  <2>6. \A q \in Objects \ InUse(t) : Hold(x, p)[q] = 0
    BY <1>4, <2>1, <2>2 DEF Held
  <2> QED
    BY <1>2, <1>4, <1>5, <1>8, <2>2, <2>5, <2>6 DEF Held
<1> QED
  BY <1>7, <1>8

\* What is kept twice is kept.
LEMMA KeepsTwice ==
    ASSUME NEW s \in Discoveries, NEW t \in Discoveries, NEW u \in Discoveries,
           Keeps(s, t), Keeps(t, u)
    PROVE  Keeps(s, u)
<1>1. ASSUME NEW o \in InUse(u)
      PROVE  o \in InUse(s) /\ u.obj[o] = [s.obj[o] EXCEPT !.refs = u.obj[o].refs]
  <2>1. o \in InUse(t) /\ u.obj[o] = [t.obj[o] EXCEPT !.refs = u.obj[o].refs]
    BY DEF Keeps
  <2>2. o \in InUse(s) /\ t.obj[o] = [s.obj[o] EXCEPT !.refs = t.obj[o].refs]
    BY <2>1 DEF Keeps
  <2>3. s.obj[o] \in Object /\ t.obj[o] \in Object /\ u.obj[o] \in Object
    BY <2>1, <2>2, InUseIsObject DEF InUse
  <2> QED
    BY <2>1, <2>2, <2>3 DEF Object
<1> QED
  BY <1>1 DEF Keeps

\* Letting go of what was just taken hold of changes nothing.
LEMMA LetGoOfHeld ==
    ASSUME NEW x \in [Objects -> Nat], NEW o \in Objects
    PROVE  LetGo(Hold(x, o), o) = x /\ Hold(x, o)[o] > 0
<1> DEFINE h == Hold(x, o)
<1>1. h \in [Objects -> Nat] /\ h[o] = x[o] + 1 /\ \A p \in Objects \ {o} : h[p] = x[p]
  BY DEF Hold
<1> HIDE DEF h
<1>2. LetGo(h, o) = [p \in Objects |-> IF p = o THEN h[o] - 1 ELSE h[p]]
  BY <1>1 DEF LetGo
<1>3. \A p \in Objects : LetGo(h, o)[p] = x[p]
  BY <1>1, <1>2
<1>4. LetGo(h, o) = x
  BY <1>2, <1>3
<1> QED
  BY <1>1, <1>4 DEF h

\* The table drops its reference to an object it does not name any more.
LEMMA TableDropsHeld ==
    ASSUME NEW s, NEW x, Held(s, x), NEW p \in Objects, x[p] > 0
    PROVE  Held(TableDrops(s, p), LetGo(x, p)) /\ Keeps(s, TableDrops(s, p))
<1>1. CASE s.obj[p].refs = 1
  BY <1>1, FreeHeld DEF TableDrops
<1>2. CASE s.obj[p].refs # 1
  BY <1>2, DropHeld DEF TableDrops
<1> QED
  BY <1>1, <1>2

\* Unref lets go of one reference, whatever else _discovery_finalize takes with it.
LEMMA UnrefHeld ==
    ASSUME NEW s, NEW x, Held(s, x), NEW o \in Objects, x[o] > 0
    PROVE  Held(Unref(s, o), LetGo(x, o)) /\ Keeps(s, Unref(s, o))
<1>1. CASE s.obj[o].refs # 1
  BY <1>1, DropHeld DEF Unref
<1>2. CASE s.obj[o].refs = 1
  <2> DEFINE i == s.obj[o].name
             p == s.table[i]
             t == [s EXCEPT !.obj[o] = Free]
             gone == [s EXCEPT !.obj[o] = Free, !.table[i] = NoObject]
             y == LetGo(x, o)
  <2>1. s \in Discoveries /\ o \in InUse(s) /\ i \in Instances
    BY <1>2, InUseIsObject DEF Held, InUse, Object
  <2>2. Held(t, y) /\ Keeps(s, t)
    BY <1>2, FreeHeld
  <2>3. t.table = s.table /\ gone = [t EXCEPT !.table[i] = NoObject]
    BY <2>1 DEF Discoveries
  <2>4. p # o
    <3>1. \A j \in Instances : t.table[j] # NoObject => t.table[j] \in InUse(t)
      BY <2>2 DEF Held, TableIsRight
    <3>2. o \notin InUse(t)
      BY <2>1 DEF Discoveries, InUse, Free
    <3> QED
      BY <2>1, <2>3, <3>1, <3>2, DiscoveryAssumption
  <2>5. Held(gone, IF p = NoObject THEN y ELSE Hold(y, p)) /\ Keeps(t, gone)
    <3> HIDE DEF t, gone, p, y, i
    <3>1. p = t.table[i]
      BY <2>3 DEF p
    <3> QED
      BY <2>1, <2>2, <2>3, <3>1, ClearHeld
  <2>6. Unref(s, o) = IF p = NoObject THEN gone ELSE TableDrops(gone, p)
    BY <1>2, <2>4 DEF Unref, Finalize
  <2>7. Keeps(s, gone) /\ gone \in Discoveries /\ y \in [Objects -> Nat]
    <3> HIDE DEF t, gone
    <3> QED
      BY <2>1, <2>2, <2>5, KeepsTwice DEF Held
  <2>8. p \in Objects \cup {NoObject}
    BY <2>1 DEF Discoveries
  <2> HIDE DEF t, gone, p, y, i
  <2>9. CASE p = NoObject
    BY <2>5, <2>6, <2>7, <2>9 DEF y
  <2>10. CASE p # NoObject
    <3>1. Held(gone, Hold(y, p)) /\ p \in Objects
      BY <2>5, <2>8, <2>10
    <3>2. LetGo(Hold(y, p), p) = y /\ Hold(y, p)[p] > 0
      BY <2>7, <3>1, LetGoOfHeld
    <3>3. Held(TableDrops(gone, p), y) /\ Keeps(gone, TableDrops(gone, p))
      BY <3>1, <3>2, TableDropsHeld
    <3>4. Keeps(s, TableDrops(gone, p))
      BY <2>1, <2>7, <3>3, KeepsTwice DEF Held
    <3> QED
      BY <2>6, <2>10, <3>3, <3>4 DEF y
  <2> QED
    BY <2>9, <2>10
<1> QED
  BY <1>1, <1>2

\* An object changes but for its name, and as many references to it come or go as
\* are counted.
LEMMA ChangedHeld ==
    ASSUME NEW s, NEW x, Held(s, x), NEW o \in InUse(s), NEW b \in Object,
           NEW t \in Discoveries, t.obj = [s.obj EXCEPT ![o] = b], t.table = s.table,
           NEW y \in [Objects -> Nat], \A p \in Objects \ {o} : y[p] = x[p],
           b.name = s.obj[o].name,
           b.refs = InTable(s, o) + (IF b.child THEN 1 ELSE 0) + y[o]
    PROVE  Held(t, y)
<1>1. s \in Discoveries /\ o \in Objects
  BY DEF Held, InUse
<1>2. t.obj[o] = b /\ \A p \in Objects \ {o} : t.obj[p] = s.obj[p]
  BY <1>1 DEF Discoveries
<1>3. InUse(t) = InUse(s)
  BY <1>1, <1>2 DEF InUse, Object
<1>4. TableIsRight(t)
  BY <1>2, <1>3 DEF TableIsRight, Held, InUse
<1>5. ASSUME NEW p \in InUse(t), p # o
      PROVE  t.obj[p].refs = InTable(t, p) + ByChild(t, p) + y[p]
  <2>1. p \in InUse(s) /\ p \in Objects \ {o} /\ t.obj[p] = s.obj[p] /\ y[p] = x[p]
    BY <1>2, <1>3, <1>5 DEF InUse
  <2> QED
    BY <2>1 DEF Held, InTable, ByChild
<1>6. t.obj[o].refs = InTable(t, o) + ByChild(t, o) + y[o]
  BY <1>2 DEF InTable, ByChild
<1>7. \A p \in Objects \ InUse(t) : y[p] = 0
  BY <1>3 DEF Held
<1> QED
  BY <1>3, <1>4, <1>5, <1>6, <1>7 DEF Held

\* A new object, held by who makes it, is entered in the table.  What it displaces
\* there is held by g_hash_table_replace, which is about to drop it.
LEMMA EnterHeld ==
    ASSUME NEW s, Held(s, Nobody), NEW o \in Objects \ InUse(s), NEW i \in Instances,
           NEW b \in Object, b.name = i,
           NEW t \in Discoveries, t.obj = [s.obj EXCEPT ![o] = b], b.refs = 2 + ByChild(t, o),
           t.table = [s.table EXCEPT ![i] = o], NEW old, old = s.table[i]
    PROVE  /\ Held(t, IF old = NoObject THEN Hold(Nobody, o) ELSE Hold(Hold(Nobody, o), old))
           /\ old # NoObject => old \in Objects
<1> DEFINE h == Hold(Nobody, o)
           y == IF old = NoObject THEN h ELSE Hold(h, old)
<1>1. s \in Discoveries
  BY DEF Held
<1>3. /\ t.obj[o] = b /\ \A p \in Objects \ {o} : t.obj[p] = s.obj[p]
      /\ t.table[i] = o /\ \A j \in Instances \ {i} : t.table[j] = s.table[j]
  BY <1>1 DEF Discoveries
<1>4. InUse(t) = InUse(s) \cup {o}
  BY <1>3 DEF InUse, Object
<1>5. old # NoObject => old \in InUse(s) /\ old \in Objects /\ old # o /\ s.obj[old].name = i
  BY DEF Held, TableIsRight, InUse
<1>6. h \in [Objects -> Nat] /\ h[o] = 1 /\ \A p \in Objects \ {o} : h[p] = 0
  BY DEF Hold, Nobody
<1> HIDE DEF h
<1>7. /\ y \in [Objects -> Nat] /\ y[o] = 1
      /\ \A p \in Objects \ {o} : y[p] = IF p = old THEN 1 ELSE 0
  <2>1. CASE old = NoObject
    BY <1>6, <2>1, DiscoveryAssumption
  <2>2. CASE old # NoObject
    <3>1. Hold(h, old) = [p \in Objects |-> IF p = old THEN h[old] + 1 ELSE h[p]]
      BY <1>6 DEF Hold
    <3> QED
      BY <1>5, <1>6, <2>2, <3>1
  <2> QED
    BY <2>1, <2>2
<1> HIDE DEF y
<1>8. TableIsRight(t)
  <2> SUFFICES ASSUME NEW j \in Instances, t.table[j] # NoObject
               PROVE  t.table[j] \in InUse(t) /\ t.obj[t.table[j]].name = j
    BY DEF TableIsRight
  <2>1. CASE j = i
    BY <1>3, <1>4, <2>1
  <2>2. CASE j # i
    <3>1. s.table[j] \in InUse(s) /\ s.obj[s.table[j]].name = j
      BY <1>3, <2>2 DEF Held, TableIsRight
    <3> QED
      BY <1>3, <1>4, <2>2, <3>1 DEF InUse
  <2> QED
    BY <2>1, <2>2
<1>9. t.obj[o].refs = InTable(t, o) + ByChild(t, o) + y[o]
  <2>1. InTable(t, o) = 1 /\ ByChild(t, o) = IF b.child THEN 1 ELSE 0
    BY <1>3 DEF InTable, ByChild
  <2> QED
    BY <1>3, <1>7, <2>1
<1>10. ASSUME NEW p \in InUse(s)
       PROVE  t.obj[p].refs = InTable(t, p) + ByChild(t, p) + y[p]
  <2>1. p \in Objects \ {o} /\ t.obj[p] = s.obj[p] /\ s.obj[p] \in Object
    BY <1>1, <1>3, InUseIsObject DEF InUse
  <2>2. s.obj[p].refs = InTable(s, p) + ByChild(s, p)
    <3>1. s.obj[p].refs = InTable(s, p) + ByChild(s, p) + Nobody[p] /\ Nobody[p] = 0
      BY <2>1 DEF Held, Nobody
    <3>2. InTable(s, p) \in Nat /\ ByChild(s, p) \in Nat
      BY DEF InTable, ByChild
    <3> QED
      BY <3>1, <3>2
  <2>3. ByChild(t, p) = ByChild(s, p) /\ ByChild(s, p) \in Nat
    BY <2>1 DEF ByChild
  <2> DEFINE n == s.obj[p].name
  <2>4. n \in Instances
    BY <2>1 DEF Object
  <2>5. InTable(s, p) = (IF s.table[n] = p THEN 1 ELSE 0) /\ InTable(t, p) = IF t.table[n] = p THEN 1 ELSE 0
    BY <2>1 DEF InTable
  <2>6. CASE p = old
    <3>1. n = i /\ s.table[n] = p /\ t.table[n] = o
      BY <1>3, <1>5, <2>1, <2>6, DiscoveryAssumption
    <3> HIDE DEF n
    <3> QED
      BY <1>7, <2>1, <2>2, <2>3, <2>5, <2>6, <3>1
  <2>7. CASE p # old
    <3>1. s.table[n] = p <=> t.table[n] = p
      <4> HIDE DEF n
      <4> QED
        BY <1>3, <2>1, <2>4, <2>7
    <3> HIDE DEF n
    <3> QED
      BY <1>7, <2>1, <2>2, <2>3, <2>5, <2>7, <3>1
  <2> QED
    BY <2>6, <2>7
<1>11. \A p \in Objects \ InUse(t) : y[p] = 0
  BY <1>4, <1>5, <1>7, DiscoveryAssumption
<1>12. Held(t, y)
  BY <1>4, <1>7, <1>8, <1>9, <1>10, <1>11 DEF Held
<1> QED
  BY <1>5, <1>12 DEF y, h

\* The parts of the record that a change of an object leaves.
LEMMA ObjectSet ==
    ASSUME NEW s \in Discoveries, NEW o \in Objects, NEW c, NEW t, t = [s EXCEPT !.obj[o] = c]
    PROVE  t = [obj |-> [s.obj EXCEPT ![o] = c], table |-> s.table, value |-> s.value]
BY DEF Discoveries

\* A child is noted.
LEMMA ChildSet ==
    ASSUME NEW s, NEW obj \in [Objects -> Object \cup {Free}], NEW table, NEW value,
           s = [obj |-> obj, table |-> table, value |-> value],
           NEW o \in Objects, obj[o] \in Object,
           NEW t, t = [s EXCEPT !.obj[o].child = TRUE, !.obj[o].refs = @ + 1]
    PROVE  t = [obj |-> [obj EXCEPT ![o] = [obj[o] EXCEPT !.child = TRUE, !.refs = @ + 1]],
                table |-> table, value |-> value]
OBVIOUS

\* An entry in the table is noted.
LEMMA EntrySet ==
    ASSUME NEW s, NEW obj \in [Objects -> Object \cup {Free}], NEW table, NEW value,
           s = [obj |-> obj, table |-> table, value |-> value],
           NEW o \in Objects, obj[o] \in Object, NEW i, NEW r \in BOOLEAN,
           NEW t, t = [s EXCEPT !.obj[o].timer = @ \/ r, !.obj[o].refs = @ + 1, !.table[i] = o]
    PROVE  t = [obj |-> [obj EXCEPT ![o] = [obj[o] EXCEPT !.timer = @ \/ r, !.refs = @ + 1]],
                table |-> [table EXCEPT ![i] = o], value |-> value]
OBVIOUS

\* A timer is noted.
LEMMA TimerSet ==
    ASSUME NEW s, NEW obj \in [Objects -> Object \cup {Free}], NEW table, NEW value,
           s = [obj |-> obj, table |-> table, value |-> value],
           NEW o \in Objects, obj[o] \in Object, NEW v \in BOOLEAN,
           NEW t, t = [s EXCEPT !.obj[o].timer = v]
    PROVE  t = [obj |-> [obj EXCEPT ![o] = [obj[o] EXCEPT !.timer = v]],
                table |-> table, value |-> value]
OBVIOUS

\* An output is noted as sent.
LEMMA SentSet ==
    ASSUME NEW s, NEW obj \in [Objects -> Object \cup {Free}], NEW table, NEW value,
           s = [obj |-> obj, table |-> table, value |-> value],
           NEW o \in Objects, obj[o] \in Object, NEW i, NEW out, NEW k \in BOOLEAN,
           NEW t, t = [s EXCEPT !.value[i] = out, !.obj[o].sentyet = @ \/ k]
    PROVE  t = [obj |-> [obj EXCEPT ![o] = [obj[o] EXCEPT !.sentyet = @ \/ k]],
                table |-> table, value |-> [value EXCEPT ![i] = out]]
OBVIOUS

\* The end of a child is noted.
LEMMA ExitSet ==
    ASSUME NEW s, NEW obj \in [Objects -> Object \cup {Free}], NEW table, NEW value,
           s = [obj |-> obj, table |-> table, value |-> value],
           NEW o \in Objects, obj[o] \in Object,
           NEW t, t = [s EXCEPT !.obj[o].child = FALSE]
    PROVE  t = [obj |-> [obj EXCEPT ![o] = [obj[o] EXCEPT !.child = FALSE]],
                table |-> table, value |-> value]
OBVIOUS

\* The object that discovery_new makes has one reference, that of its maker.
LEMMA NewObject ==
    ASSUME NEW i \in Instances, NEW repeats \in BOOLEAN
    PROVE  LET c == DiscoveryNew(i, repeats) IN
           /\ c \in Object /\ c.name = i /\ c.refs = 1 /\ c.repeats = repeats
           /\ c.child = FALSE /\ c.sentyet = FALSE
<1> DEFINE c == DiscoveryNew(i, repeats)
<1>1. c = [Free EXCEPT !.name = i, !.refs = 1, !.repeats = repeats]
  BY DEF DiscoveryNew
<1> HIDE DEF c
<1>2. /\ c.name = i /\ c.refs = 1 /\ c.repeats = repeats
      /\ c.timer = FALSE /\ c.child = FALSE /\ c.sentyet = FALSE
  BY <1>1 DEF Free
<1>3. c = [name |-> c.name, refs |-> c.refs, repeats |-> c.repeats, timer |-> c.timer,
           child |-> c.child, sentyet |-> c.sentyet]
  BY <1>1 DEF Free
<1>4. c.refs \in Nat \ {0}
  BY <1>2
<1>5. /\ c.name \in Instances /\ c.repeats \in BOOLEAN /\ c.timer \in BOOLEAN
      /\ c.child \in BOOLEAN /\ c.sentyet \in BOOLEAN
  BY <1>2, Zenon
<1>6. c \in Object
  BY <1>3, <1>4, <1>5 DEF Object
<1> QED
  BY <1>2, <1>6, Zenon DEF c

\* A new child is one reference more.
LEMMA ChildObject ==
    ASSUME NEW a \in Object, NEW b, b = [a EXCEPT !.child = TRUE, !.refs = @ + 1]
    PROVE  /\ b \in Object /\ b.name = a.name /\ b.refs = a.refs + 1 /\ b.repeats = a.repeats
           /\ b.child = TRUE /\ b.sentyet = a.sentyet
<1>1. a.refs + 1 \in Nat \ {0}
  BY DEF Object
<1> QED
  BY <1>1 DEF Object

\* An entry in the table is one reference more.
LEMMA EntryObject ==
    ASSUME NEW a \in Object, NEW r \in BOOLEAN,
           NEW b, b = [a EXCEPT !.timer = @ \/ r, !.refs = @ + 1]
    PROVE  /\ b \in Object /\ b.name = a.name /\ b.refs = a.refs + 1
           /\ b.child = a.child /\ b.sentyet = a.sentyet
<1>1. a.refs + 1 \in Nat \ {0} /\ a.timer \in BOOLEAN
  BY DEF Object
<1> QED
  BY <1>1 DEF Object

\* nano_schedule_discovery leaves every reference accounted for, whether the new
\* object displaced another one or not, and loses nothing but what was displaced.
LEMMA ScheduleHeld ==
    ASSUME NEW s, Held(s, Nobody), NEW o \in Objects \ InUse(s), NEW i \in Instances,
           NEW repeats \in BOOLEAN, NEW spawned \in BOOLEAN
    PROVE  LET t == Schedule(s, o, i, repeats, spawned)
           IN  /\ Held(t, Nobody) /\ t.value = s.value
               /\ \A p \in InUse(t) :
                     \/ p = o /\ ~t.obj[o].sentyet
                     \/ /\ p \in InUse(s) /\ t.obj[p].name = s.obj[p].name
                        /\ t.obj[p].sentyet = s.obj[p].sentyet
<1> DEFINE c == DiscoveryNew(i, repeats)
           e == IF spawned THEN [c EXCEPT !.child = TRUE, !.refs = @ + 1] ELSE c
           b == [e EXCEPT !.timer = @ \/ repeats, !.refs = @ + 1]
           made == [s EXCEPT !.obj[o] = c]
           run == Discover(made, o, spawned)
           new == [s EXCEPT !.obj[o] = b, !.table[i] = o]
           old == s.table[i]
           dropped == IF old = NoObject THEN new ELSE Unref(new, old)
           t == Schedule(s, o, i, repeats, spawned)
           h == Hold(Nobody, o)
<1>1. s \in Discoveries
  BY DEF Held
<1>a. /\ c \in Object /\ c.name = i /\ c.refs = 1 /\ c.repeats = repeats
      /\ c.child = FALSE /\ c.sentyet = FALSE
  BY NewObject, Zenon
<1> HIDE DEF c
<1>b. /\ e \in Object /\ e.name = i /\ e.repeats = repeats /\ e.sentyet = FALSE
      /\ e.refs = 1 + (IF e.child THEN 1 ELSE 0)
  <2>1. CASE spawned
    BY <1>a, <2>1, ChildObject
  <2>2. CASE ~spawned
    BY <1>a, <2>2
  <2> QED
    BY <2>1, <2>2
<1> HIDE DEF e
<1>2. b \in Object /\ b.name = i /\ b.refs = 2 + (IF b.child THEN 1 ELSE 0) /\ ~b.sentyet
  <2> HIDE DEF b
  <2>1. b = [e EXCEPT !.timer = @ \/ repeats, !.refs = @ + 1]
    BY DEF b
  <2>2. /\ b \in Object /\ b.name = e.name /\ b.refs = e.refs + 1
        /\ b.child = e.child /\ b.sentyet = e.sentyet
    BY <1>b, <2>1, EntryObject
  <2>3. b.refs = 2 + (IF e.child THEN 1 ELSE 0)
    BY <1>b, <2>2
  <2> QED
    BY <1>b, <2>2, <2>3
<1> HIDE DEF b
<1>3. t = Unref(dropped, o)
  <2>7. /\ s.obj \in [Objects -> Object \cup {Free}]
        /\ s.table \in [Instances -> Objects \cup {NoObject}]
    BY <1>1 DEF Discoveries
  <2>8. made = [obj |-> [s.obj EXCEPT ![o] = c], table |-> s.table, value |-> s.value]
    BY <1>1, ObjectSet
  <2> HIDE DEF made
  <2>9. run = [obj |-> [s.obj EXCEPT ![o] = e], table |-> s.table, value |-> s.value]
    <3> DEFINE os == [s.obj EXCEPT ![o] = c]
    <3>1. os \in [Objects -> Object \cup {Free}] /\ os[o] = c
      BY <1>a, <2>7
    <3>2. [os EXCEPT ![o] = e] = [s.obj EXCEPT ![o] = e]
      BY <2>7
    <3>3. made.obj[o].child = FALSE
      BY <1>a, <2>8, <3>1
    <3>4. CASE spawned
      <4> HIDE DEF os
      <4>1. run = [made EXCEPT !.obj[o].child = TRUE, !.obj[o].refs = @ + 1]
        BY <3>3, <3>4 DEF Discover
      <4>2. made = [obj |-> os, table |-> s.table, value |-> s.value]
        BY <2>8 DEF os
      <4> HIDE DEF run
      <4>3. run = [obj |-> [os EXCEPT ![o] = [os[o] EXCEPT !.child = TRUE, !.refs = @ + 1]],
                   table |-> s.table, value |-> s.value]
        BY <1>a, <3>1, <4>1, <4>2, ChildSet
      <4>4. [os[o] EXCEPT !.child = TRUE, !.refs = @ + 1] = e
        BY <3>1, <3>4 DEF e
      <4> QED
        BY <3>2, <4>3, <4>4
    <3>5. CASE ~spawned
      BY <2>8, <3>5 DEF Discover, e
    <3> QED
      BY <3>4, <3>5
  <2> HIDE DEF run
  <2>10. /\ run.obj[o] = e /\ run.table = s.table
         /\ run.obj[o].name = i /\ run.obj[o].repeats = repeats
    BY <1>b, <2>7, <2>9
  <2>11. [run EXCEPT !.obj[o].timer = @ \/ repeats, !.obj[o].refs = @ + 1, !.table[i] = o]
         = [obj |-> [s.obj EXCEPT ![o] = b], table |-> [s.table EXCEPT ![i] = o],
            value |-> s.value]
    <3> DEFINE os == [s.obj EXCEPT ![o] = e]
    <3>1. os \in [Objects -> Object \cup {Free}] /\ os[o] = e
      BY <1>b, <2>7
    <3>2. [os EXCEPT ![o] = b] = [s.obj EXCEPT ![o] = b]
      BY <2>7
    <3>3. run = [obj |-> os, table |-> s.table, value |-> s.value]
      BY <2>9
    <3> HIDE DEF os
    <3> DEFINE w == [run EXCEPT !.obj[o].timer = @ \/ repeats, !.obj[o].refs = @ + 1,
                                !.table[i] = o]
    <3>4. w = [obj |-> [os EXCEPT ![o] = [os[o] EXCEPT !.timer = @ \/ repeats, !.refs = @ + 1]],
               table |-> [s.table EXCEPT ![i] = o], value |-> s.value]
      <4>1. os[o] \in Object
        BY <1>b, <3>1
      <4> HIDE DEF w
      <4>2. w = [run EXCEPT !.obj[o].timer = @ \/ repeats, !.obj[o].refs = @ + 1,
                            !.table[i] = o]
        BY DEF w
      <4> QED
        BY <3>1, <3>3, <4>1, <4>2, EntrySet
    <3>5. [os[o] EXCEPT !.timer = @ \/ repeats, !.refs = @ + 1] = b
      BY <3>1 DEF b
    <3> HIDE DEF w
    <3>6. w = [obj |-> [s.obj EXCEPT ![o] = b], table |-> [s.table EXCEPT ![i] = o],
               value |-> s.value]
      BY <3>2, <3>4, <3>5
    <3> QED
      BY <3>6 DEF w
  <2>12. new = [obj |-> [s.obj EXCEPT ![o] = b], table |-> [s.table EXCEPT ![i] = o],
                value |-> s.value]
    <3> HIDE DEF new
    <3>1. new = [s EXCEPT !.obj[o] = b, !.table[i] = o]
      BY DEF new
    <3> QED
      BY <1>1, <3>1 DEF Discoveries
  <2>13. Register(made, o, spawned) = dropped
    <3> HIDE DEF new
    <3> DEFINE w == [run EXCEPT !.obj[o].timer = @ \/ repeats, !.obj[o].refs = @ + 1,
                                !.table[i] = o]
    <3>1. w = new
      BY <2>11, <2>12
    <3> HIDE DEF w
    <3>2. Register(made, o, spawned) = IF old = NoObject THEN w ELSE Unref(w, old)
      BY <2>10 DEF Register, run, w
    <3> QED
      BY <3>1, <3>2
  <2> QED
    BY <2>13 DEF Schedule, JsonDiscoveryNew, made, c
<1>4. /\ Held(new, IF old = NoObject THEN h ELSE Hold(h, old))
      /\ old # NoObject => old \in Objects
      /\ new.value = s.value /\ new.obj = [s.obj EXCEPT ![o] = b]
  <2> HIDE DEF b, new, old
  <2>1. new = [s EXCEPT !.obj[o] = b, !.table[i] = o] /\ old = s.table[i]
    BY DEF new, old
  <2>2. /\ new.value = s.value /\ new.obj = [s.obj EXCEPT ![o] = b]
        /\ new.table = [s.table EXCEPT ![i] = o] /\ new \in Discoveries
    BY <1>1, <1>2, <2>1 DEF Discoveries
  <2>3. b.refs = 2 + ByChild(new, o)
    <3>1. new.obj[o] = b
      BY <1>1, <2>2 DEF Discoveries
    <3> QED
      BY <1>2, <3>1 DEF ByChild
  <2> HIDE DEF h
  <2>4. /\ Held(new, IF old = NoObject THEN Hold(Nobody, o) ELSE Hold(Hold(Nobody, o), old))
        /\ old # NoObject => old \in Objects
    <3>1. b \in Object /\ b.name = i /\ s.table[i] = old
      BY <1>2, <2>1
    <3>2. Held(new, IF old = NoObject THEN Hold(Nobody, o) ELSE Hold(Hold(Nobody, o), old))
      BY <2>2, <2>3, <3>1, EnterHeld
    <3>3. old # NoObject => old \in Objects
      BY <1>1, <3>1 DEF Discoveries
    <3> QED
      BY <3>2, <3>3
  <2> QED
    BY <2>2, <2>4 DEF h
<1>5. h \in [Objects -> Nat] /\ h[o] = 1 /\ LetGo(h, o) = Nobody
  <2>1. Nobody \in [Objects -> Nat] /\ h[o] = 1 /\ h \in [Objects -> Nat]
    BY DEF Nobody, Hold
  <2> QED
    BY <2>1, LetGoOfHeld
<1> HIDE DEF new, b, old, h, made, run
<1>6. Held(dropped, h) /\ Keeps(new, dropped)
  <2>1. CASE old = NoObject
    <3>1. \A p \in InUse(new) : new.obj[p] \in Object
      BY <1>4, InUseIsObject DEF Held, InUse
    <3>2. Keeps(new, new)
      BY <3>1 DEF Keeps, Object
    <3> QED
      BY <1>4, <2>1, <3>2
  <2>2. CASE old # NoObject
    <3>1. LetGo(Hold(h, old), old) = h /\ Hold(h, old)[old] > 0
      BY <1>4, <1>5, <2>2, LetGoOfHeld
    <3> QED
      BY <1>4, <2>2, <3>1, UnrefHeld
  <2> QED
    BY <2>1, <2>2
<1> HIDE DEF dropped
<1>7. Held(t, Nobody) /\ Keeps(dropped, t)
  <2> HIDE DEF t
  <2>1. h[o] > 0
    BY <1>5
  <2> QED
    BY <1>3, <1>5, <1>6, <2>1, UnrefHeld
<1> HIDE DEF t
<1>8. Keeps(new, t)
  BY <1>4, <1>6, <1>7, KeepsTwice DEF Held
<1>9. ASSUME NEW p \in InUse(t)
      PROVE  \/ p = o /\ ~t.obj[o].sentyet
             \/ /\ p \in InUse(s) /\ t.obj[p].name = s.obj[p].name
                /\ t.obj[p].sentyet = s.obj[p].sentyet
  <2>1. p \in InUse(new) /\ p \in Objects /\ t.obj[p] = [new.obj[p] EXCEPT !.refs = t.obj[p].refs]
    BY <1>8 DEF Keeps, InUse
  <2>2. CASE p = o
    <3>1. new.obj[o] = b
      BY <1>1, <1>4 DEF Discoveries
    <3> QED
      BY <1>2, <2>1, <2>2, <3>1 DEF Object
  <2>3. CASE p # o
    <3>1. new.obj[p] = s.obj[p] /\ p \in InUse(s)
      BY <1>1, <1>4, <2>1, <2>3 DEF Discoveries, InUse
    <3>2. s.obj[p] \in Object
      BY <1>1, <3>1, InUseIsObject, <2>1
    <3> QED
      BY <2>1, <3>1, <3>2 DEF Object
  <2> QED
    BY <2>2, <2>3
<1>10. t.value = s.value
  BY <1>4, <1>8 DEF Keeps
<1> QED
  BY <1>7, <1>9, <1>10 DEF t

\* What a nanoprobe holds between two steps: nobody is in the middle of a function.
LEMMA HeldByNobody ==
    ASSUME NEW s, Held(s, Nobody), NEW o \in InUse(s)
    PROVE  /\ s = [obj |-> s.obj, table |-> s.table, value |-> s.value]
           /\ s.obj \in [Objects -> Object \cup {Free}]
           /\ s.value \in [Instances -> Outputs \cup {NoOutput}]
           /\ o \in Objects /\ s.obj[o] \in Object
           /\ s.obj[o].refs = InTable(s, o) + ByChild(s, o)
           /\ Nobody \in [Objects -> Nat] /\ Nobody[o] = 0
<1>1. s \in Discoveries /\ o \in Objects
  BY DEF Held, InUse
<1>2. s.obj[o] \in Object
  BY <1>1, InUseIsObject
<1>3. Nobody \in [Objects -> Nat] /\ Nobody[o] = 0
  BY <1>1 DEF Nobody
<1>4. s.obj[o].refs = InTable(s, o) + ByChild(s, o) + Nobody[o]
  BY DEF Held
<1>5. InTable(s, o) + ByChild(s, o) \in Nat
  BY DEF InTable, ByChild
<1> QED
  BY <1>1, <1>2, <1>3, <1>4, <1>5 DEF Discoveries

\* _discovery_rediscover takes a reference with the child that it starts, and starts
\* none for an object whose child still runs.
LEMMA RediscoverHeld ==
    ASSUME NEW s, Held(s, Nobody), NEW o \in Objects, s.obj[o].timer, NEW spawned \in BOOLEAN
    PROVE  LET t == Rediscover(s, o, spawned)
           IN  /\ Held(t, Nobody) /\ t.value = s.value /\ t.table = s.table
               /\ \A p \in InUse(t) : /\ p \in InUse(s)
                                      /\ t.obj[p].name = s.obj[p].name
                                      /\ t.obj[p].sentyet = s.obj[p].sentyet
               /\ s.obj[o].child => Running(t) = Running(s)
<1> DEFINE a == s.obj[o]
           b == [a EXCEPT !.child = TRUE, !.refs = @ + 1]
           c == IF a.child \/ ~spawned THEN a ELSE b
           e == [c EXCEPT !.timer = a.child \/ spawned]
           run == Discover(s, o, spawned)
           t == Rediscover(s, o, spawned)
<1>1. o \in InUse(s) /\ s \in Discoveries
  BY InUseIsObject DEF Held, Free
<1>2. /\ s = [obj |-> s.obj, table |-> s.table, value |-> s.value]
      /\ s.obj \in [Objects -> Object \cup {Free}] /\ a \in Object
      /\ a.refs = InTable(s, o) + (IF a.child THEN 1 ELSE 0)
      /\ Nobody \in [Objects -> Nat] /\ Nobody[o] = 0
  BY <1>1, HeldByNobody DEF ByChild
<1>3. /\ b \in Object /\ b.name = a.name /\ b.refs = a.refs + 1 /\ b.child = TRUE
      /\ b.sentyet = a.sentyet
  <2> HIDE DEF a
  <2> QED
    BY <1>2, ChildObject
<1>4. InTable(s, o) \in {0, 1}
  BY DEF InTable
<1>5. c \in Object /\ c.name = a.name /\ c.refs = InTable(s, o) + (IF c.child THEN 1 ELSE 0)
      /\ c.sentyet = a.sentyet /\ (a.child => c.child)
  <2> HIDE DEF a, b
  <2> QED
    BY <1>2, <1>3, <1>4
<1>6. /\ e \in Object /\ e.name = a.name /\ e.child = c.child
      /\ e.refs = c.refs /\ e.sentyet = a.sentyet
  <2>1. a.child \in BOOLEAN
    BY <1>2 DEF Object
  <2> HIDE DEF a, c
  <2> QED
    BY <1>5, <2>1 DEF Object
<1>7. run = [obj |-> [s.obj EXCEPT ![o] = c], table |-> s.table, value |-> s.value]
  <2>1. CASE a.child \/ ~spawned
    <3>1. run = s /\ c = s.obj[o]
      BY <2>1 DEF Discover
    <3>2. [s.obj EXCEPT ![o] = c] = s.obj
      BY <1>2, <3>1
    <3> QED
      BY <1>2, <3>1, <3>2
  <2>2. CASE ~(a.child \/ ~spawned)
    <3>1. run = [s EXCEPT !.obj[o].child = TRUE, !.obj[o].refs = @ + 1] /\ c = b
      BY <2>2 DEF Discover
    <3> HIDE DEF run
    <3> QED
      BY <1>2, <3>1, ChildSet
  <2> QED
    BY <2>1, <2>2
<1>8. t = [obj |-> [s.obj EXCEPT ![o] = e], table |-> s.table, value |-> s.value]
  <2> DEFINE os == [s.obj EXCEPT ![o] = c]
  <2>1. t = [run EXCEPT !.obj[o].timer = a.child \/ spawned] /\ a.child \in BOOLEAN
    BY <1>2 DEF Rediscover, Object
  <2> HIDE DEF t, run, a, b, c
  <2>2. os \in [Objects -> Object \cup {Free}] /\ os[o] = c
    BY <1>2, <1>5
  <2>3. [os EXCEPT ![o] = e] = [s.obj EXCEPT ![o] = e]
    BY <1>2
  <2>4. run = [obj |-> os, table |-> s.table, value |-> s.value]
    BY <1>7
  <2> HIDE DEF os
  <2>5. t = [obj |-> [os EXCEPT ![o] = [os[o] EXCEPT !.timer = a.child \/ spawned]],
             table |-> s.table, value |-> s.value]
    BY <1>5, <2>1, <2>2, <2>4, TimerSet
  <2> QED
    BY <2>2, <2>3, <2>5
<1> HIDE DEF a, b, c, e, run, t
<1>9. /\ t.obj = [s.obj EXCEPT ![o] = e] /\ t.table = s.table /\ t.value = s.value
      /\ t \in Discoveries
  BY <1>1, <1>2, <1>6, <1>8 DEF Discoveries
<1>10. Held(t, Nobody)
  <2>1. e.name = s.obj[o].name /\ e.refs = InTable(s, o) + (IF e.child THEN 1 ELSE 0) + Nobody[o]
    BY <1>2, <1>4, <1>5, <1>6 DEF a
  <2> QED
    BY <1>1, <1>2, <1>6, <1>9, <2>1, ChangedHeld
<1>11. t.obj[o] = e /\ \A p \in Objects \ {o} : t.obj[p] = s.obj[p]
  BY <1>2, <1>9
<1>12. \A p \in InUse(t) : /\ p \in InUse(s)
                           /\ t.obj[p].name = s.obj[p].name
                           /\ t.obj[p].sentyet = s.obj[p].sentyet
  BY <1>1, <1>6, <1>11 DEF InUse, a
<1>13. a.child => Running(t) = Running(s)
  BY <1>5, <1>6, <1>11 DEF Running, a
<1> QED
  BY <1>9, <1>10, <1>12, <1>13 DEF t, a

\* _jsondiscovery_childwatch gives up the reference of the child.  What it sends is
\* news, and only the object that sends it counts it as sent.
LEMMA ChildWatchHeld ==
    ASSUME NEW s, Held(s, Nobody), NEW o \in Objects, s.obj[o].child,
           NEW out \in Outputs \cup {NoOutput}, NEW k \in BOOLEAN
    PROVE  LET t == ChildWatch(s, o, out, k)
               news == out # NoOutput /\ IsNews(s, o, out)
           IN  /\ Held(t, Nobody) /\ o \in InUse(s)
               /\ t.value = IF news THEN [s.value EXCEPT ![s.obj[o].name] = out] ELSE s.value
               /\ \A i \in Instances : t.table[i] \in {s.table[i], NoObject}
               /\ \A p \in InUse(t) : /\ p \in InUse(s)
                                      /\ t.obj[p].name = s.obj[p].name
                                      /\ t.obj[p].sentyet =>
                                            s.obj[p].sentyet \/ (p = o /\ news /\ k)
               /\ Running(t) \subseteq Running(s)
<1> DEFINE news == out # NoOutput /\ IsNews(s, o, out)
           a == s.obj[o]
           n == a.name
           c == IF news THEN [a EXCEPT !.sentyet = @ \/ k] ELSE a
           v == IF news THEN [s.value EXCEPT ![n] = out] ELSE s.value
           e == [c EXCEPT !.child = FALSE]
           sent == IF out = NoOutput THEN s ELSE SendJson(s, o, out, k)
           gone == [sent EXCEPT !.obj[o].child = FALSE]
           h == Hold(Nobody, o)
           t == ChildWatch(s, o, out, k)
<1>1. o \in InUse(s) /\ s \in Discoveries
  BY InUseIsObject DEF Held, Free
<1>2. /\ s = [obj |-> s.obj, table |-> s.table, value |-> s.value]
      /\ s.obj \in [Objects -> Object \cup {Free}] /\ a \in Object
      /\ s.value \in [Instances -> Outputs \cup {NoOutput}]
      /\ a.refs = InTable(s, o) + 1 /\ a.child
      /\ Nobody \in [Objects -> Nat] /\ Nobody[o] = 0
  BY <1>1, HeldByNobody DEF ByChild
<1>3. /\ h \in [Objects -> Nat] /\ h[o] = 1 /\ LetGo(h, o) = Nobody
      /\ \A p \in Objects \ {o} : h[p] = Nobody[p]
  <2>1. h[o] = 1 /\ h \in [Objects -> Nat] /\ \A p \in Objects \ {o} : h[p] = Nobody[p]
    BY <1>2 DEF Hold
  <2> QED
    BY <1>2, <2>1, LetGoOfHeld
<1>4. InTable(s, o) \in {0, 1}
  BY DEF InTable
<1>5. /\ c \in Object /\ c.name = a.name /\ c.refs = a.refs
      /\ c.sentyet => a.sentyet \/ (news /\ k)
  <2> HIDE DEF a, news
  <2>1. CASE news
    BY <1>2, <2>1 DEF Object
  <2>2. CASE ~news
    BY <1>2, <2>2
  <2> QED
    BY <2>1, <2>2
<1>6. v \in [Instances -> Outputs \cup {NoOutput}]
  <2> HIDE DEF a, news
  <2> QED
    BY <1>2 DEF Object
<1>7. e \in Object /\ e.name = a.name /\ ~e.child /\ e.refs = a.refs /\ e.sentyet = c.sentyet
  <2> HIDE DEF a, c
  <2> QED
    BY <1>5 DEF Object
<1>8. sent = [obj |-> [s.obj EXCEPT ![o] = c], table |-> s.table, value |-> v]
  <2>1. CASE news
    <3>1. sent = [s EXCEPT !.value[n] = out, !.obj[o].sentyet = @ \/ k]
      BY <2>1 DEF SendJson
    <3> HIDE DEF sent, n
    <3>2. sent = [obj |-> [s.obj EXCEPT ![o] = [s.obj[o] EXCEPT !.sentyet = @ \/ k]],
                  table |-> s.table, value |-> [s.value EXCEPT ![n] = out]]
      BY <1>2, <3>1, SentSet
    <3> QED
      BY <2>1, <3>2
  <2>2. CASE ~news
    <3>1. sent = s /\ c = s.obj[o] /\ v = s.value
      BY <2>2 DEF SendJson
    <3>2. [s.obj EXCEPT ![o] = c] = s.obj
      BY <1>2, <3>1
    <3> QED
      BY <1>2, <3>1, <3>2
  <2> QED
    BY <2>1, <2>2
<1>9. t = Unref(gone, o)
  BY DEF ChildWatch
<1>10. gone = [obj |-> [s.obj EXCEPT ![o] = e], table |-> s.table, value |-> v]
  <2> DEFINE os == [s.obj EXCEPT ![o] = c]
  <2> HIDE DEF sent, a, c, v
  <2>1. os \in [Objects -> Object \cup {Free}] /\ os[o] = c
    BY <1>2, <1>5
  <2>2. [os EXCEPT ![o] = e] = [s.obj EXCEPT ![o] = e]
    BY <1>2
  <2>3. sent = [obj |-> os, table |-> s.table, value |-> v]
    BY <1>8
  <2>4. gone = [sent EXCEPT !.obj[o].child = FALSE]
    OBVIOUS
  <2> HIDE DEF os, gone
  <2>5. gone = [obj |-> [os EXCEPT ![o] = [os[o] EXCEPT !.child = FALSE]],
                table |-> s.table, value |-> v]
    BY <1>5, <2>1, <2>3, <2>4, ExitSet
  <2> QED
    BY <2>1, <2>2, <2>5
<1> HIDE DEF a, c, e, v, h, sent, gone, t, news
<1>11. /\ gone.obj = [s.obj EXCEPT ![o] = e] /\ gone.table = s.table /\ gone.value = v
       /\ gone \in Discoveries
  BY <1>1, <1>2, <1>6, <1>7, <1>10 DEF Discoveries
<1>12. Held(gone, h)
  <2>1. e.name = s.obj[o].name /\ e.refs = InTable(s, o) + (IF e.child THEN 1 ELSE 0) + h[o]
    BY <1>2, <1>3, <1>4, <1>7 DEF a
  <2> QED
    BY <1>1, <1>3, <1>7, <1>11, <2>1, ChangedHeld
<1>13. Held(t, Nobody) /\ Keeps(gone, t)
  <2>1. h[o] > 0
    BY <1>3
  <2> QED
    BY <1>3, <1>9, <1>12, <2>1, UnrefHeld
<1>14. gone.obj[o] = e /\ \A p \in Objects \ {o} : gone.obj[p] = s.obj[p]
  BY <1>2, <1>11
<1>15. ASSUME NEW p \in InUse(t)
       PROVE  /\ p \in InUse(s) /\ t.obj[p].name = s.obj[p].name
              /\ t.obj[p].sentyet => s.obj[p].sentyet \/ (p = o /\ news /\ k)
              /\ t.obj[p].child => s.obj[p].child
  <2>1. p \in InUse(gone) /\ p \in Objects /\ t.obj[p] = [gone.obj[p] EXCEPT !.refs = t.obj[p].refs]
    BY <1>13 DEF Keeps, InUse
  <2>2. gone.obj[p] \in Object
    BY <1>11, <2>1, InUseIsObject
  <2>3. t.obj[p].name = gone.obj[p].name /\ t.obj[p].sentyet = gone.obj[p].sentyet
        /\ t.obj[p].child = gone.obj[p].child
    BY <2>1, <2>2 DEF Object
  <2>4. CASE p = o
    BY <1>1, <1>5, <1>7, <1>14, <2>3, <2>4 DEF a
  <2>5. CASE p # o
    BY <1>14, <2>1, <2>3, <2>5 DEF InUse
  <2> QED
    BY <2>4, <2>5
<1>16. Running(t) \subseteq Running(s)
  <2>1. \A p \in Objects : t.obj[p].child => p \in InUse(t)
    BY <1>13, InUseIsObject DEF Held, Free
  <2> QED
    BY <1>15, <2>1 DEF Running
<1>17. \A i \in Instances : t.table[i] \in {s.table[i], NoObject}
  BY <1>11, <1>13 DEF Keeps
<1>18. t.value = IF news THEN [s.value EXCEPT ![s.obj[o].name] = out] ELSE s.value
  BY <1>11, <1>13 DEF Keeps, v, a
<1> QED
  BY <1>1, <1>13, <1>15, <1>16, <1>17, <1>18 DEF t, news

\* discovery_unregister_all empties the table and gives up its references.
LEMMA UnregisterAllHeld ==
    ASSUME NEW s, Held(s, Nobody)
    PROVE  LET t == UnregisterAll(s)
           IN  /\ Held(t, Nobody) /\ t.value = s.value
               /\ \A i \in Instances : t.table[i] = NoObject
               /\ \A p \in InUse(t) : /\ p \in InUse(s)
                                      /\ t.obj[p].name = s.obj[p].name
                                      /\ t.obj[p].sentyet = s.obj[p].sentyet
<1> DEFINE In(o) == o \in {s.table[i] : i \in Instances}
           After(o) == IF ~In(o) THEN s.obj[o]
                       ELSE IF s.obj[o].refs = 1 THEN Free
                       ELSE [s.obj[o] EXCEPT !.refs = @ - 1]
           t == UnregisterAll(s)
<1>1. s \in Discoveries /\ TableIsRight(s)
  BY DEF Held
<1>2. t = [s EXCEPT !.table = [i \in Instances |-> NoObject],
                    !.obj = [o \in Objects |-> After(o)]]
  BY DEF UnregisterAll
<1>3. ASSUME NEW o \in Objects
      PROVE  /\ After(o) \in Object \cup {Free}
             /\ After(o).refs > 0 =>
                   /\ o \in InUse(s) /\ After(o) \in Object
                   /\ After(o).name = s.obj[o].name
                   /\ After(o).child = s.obj[o].child
                   /\ After(o).sentyet = s.obj[o].sentyet
                   /\ After(o).refs = IF After(o).child THEN 1 ELSE 0
  <2> DEFINE a == s.obj[o]
  <2>0. Free.refs = 0
    BY DEF Free
  <2>1. CASE o \notin InUse(s)
    <3>1. ~In(o) /\ a = Free
      BY <1>1, <2>1, InUseIsObject, DiscoveryAssumption DEF TableIsRight
    <3> HIDE DEF In
    <3> QED
      BY <2>0, <3>1
  <2>2. CASE o \in InUse(s)
    <3>1. a \in Object /\ a.refs = InTable(s, o) + ByChild(s, o)
      BY <2>2, HeldByNobody
    <3>2. a.name \in Instances /\ a.refs \in Nat \ {0}
      BY <3>1 DEF Object
    <3>3. InTable(s, o) = IF In(o) THEN 1 ELSE 0
      BY <1>1, <3>2, DiscoveryAssumption DEF InTable, TableIsRight
    <3> HIDE DEF In
    <3>4. CASE ~In(o)
      BY <2>2, <3>1, <3>3, <3>4 DEF ByChild
    <3>5. CASE In(o) /\ a.refs = 1
      BY <2>0, <3>5
    <3>6. CASE In(o) /\ a.refs # 1
      <4> DEFINE b == [a EXCEPT !.refs = @ - 1]
      <4>1. After(o) = b
        BY <3>6
      <4>2. b \in Object /\ b.refs = a.refs - 1 /\ b.name = a.name /\ b.child = a.child
            /\ b.sentyet = a.sentyet
        <5> HIDE DEF a
        <5> QED
          BY <3>1, <3>2, <3>6 DEF Object
      <4>3. a.refs - 1 = IF a.child THEN 1 ELSE 0
        BY <3>1, <3>3, <3>6 DEF ByChild
      <4> HIDE DEF b
      <4> QED
        BY <2>2, <4>1, <4>2, <4>3
    <3> QED
      BY <3>4, <3>5, <3>6
  <2> QED
    BY <2>1, <2>2
<1> HIDE DEF After, t
<1>4. /\ t.obj = [o \in Objects |-> After(o)] /\ t.value = s.value
      /\ t.table = [i \in Instances |-> NoObject]
  BY <1>1, <1>2 DEF Discoveries
<1>5. t \in Discoveries
  <2>1. t.obj \in [Objects -> Object \cup {Free}]
    BY <1>3, <1>4
  <2>2. t = [obj |-> t.obj, table |-> t.table, value |-> t.value]
    BY <1>1, <1>2, <1>4 DEF Discoveries
  <2>3. t.table \in [Instances -> Objects \cup {NoObject}] /\ t.value \in [Instances -> Outputs \cup {NoOutput}]
    BY <1>1, <1>4 DEF Discoveries
  <2> QED
    BY <2>1, <2>2, <2>3 DEF Discoveries
<1>6. \A o \in Objects : t.obj[o] = After(o)
  BY <1>4
<1>7. ASSUME NEW o \in InUse(t)
      PROVE  /\ o \in InUse(s) /\ t.obj[o].name = s.obj[o].name
             /\ t.obj[o].sentyet = s.obj[o].sentyet
             /\ t.obj[o].refs = InTable(t, o) + ByChild(t, o) + Nobody[o]
  <2>1. o \in Objects /\ After(o).refs > 0 /\ t.obj[o] = After(o)
    BY <1>6 DEF InUse
  <2>2. Nobody[o] = 0
    BY <2>1 DEF Nobody
  <2>3. InTable(t, o) = 0
    <3>1. t.obj[o].name \in Instances
      BY <1>3, <2>1 DEF Object
    <3> QED
      BY <1>4, <2>1, <3>1, DiscoveryAssumption DEF InTable
  <2> QED
    BY <1>3, <2>1, <2>2, <2>3 DEF ByChild
<1>8. \A i \in Instances : t.table[i] = NoObject
  BY <1>4
<1>9. Held(t, Nobody)
  BY <1>5, <1>7, <1>8 DEF Held, Nobody, TableIsRight
<1> QED
  BY <1>4, <1>7, <1>8, <1>9 DEF t

-----------------------------------------------------------------------------
\* The listeners

Listeners == [Peers -> Listener \cup {NotListening}]

\* What is in the list is a listener.
LEMMA InListIsListener ==
    ASSUME NEW ls \in Listeners, NEW a \in Peers
    PROVE  /\ FindByAddress(ls, a) => ls[a] \in Listener
           /\ ~FindByAddress(ls, a) => ls[a] = NotListening
<1>1. ls[a] \in Listener \cup {NotListening}
  BY DEF Listeners
<1>2. NotListening.status = "none" /\ \A l \in Listener : l.status # "none"
  BY DEF Listener, NotListening
<1> QED
  BY <1>1, <1>2 DEF FindByAddress

\* hblistener_new leaves a listener that receives, and the others as they were.
LEMMA ListenLeaves ==
    ASSUME NEW ls \in Listeners, NEW a \in Peers, NEW dead \in Deadtimes, NEW warn \in Warntimes
    PROVE  LET c == Listen(ls, a, dead, warn)
           IN  /\ c \in Listeners /\ c[a].status = "HbPacketsBeingReceived"
               /\ \A b \in Peers \ {a} : c[b] = ls[b]
<1> DEFINE Entry == [status : {"none", "HbPacketsBeingReceived", "HbPacketsTimedOut"},
                   silent : Nat, dead : Nat, warn : Nat]
           e == [ls[a] EXCEPT !.status = "HbPacketsBeingReceived"]
           l == SetTimes(e, dead, warn)
<1>1. e \in Entry /\ e.status = "HbPacketsBeingReceived"
  <2>1. ASSUME NEW r \in Listener PROVE r \in Entry
    <3>1. r.silent \in 0 .. LongSilent /\ r.dead \in Deadtimes /\ r.warn \in Warntimes
      BY DEF Listener
    <3>2. r.silent \in Nat /\ r.dead \in Nat /\ r.warn \in Nat
      <4>1. r.silent \in Nat
        BY <3>1, LongSilentType
      <4>2. Deadtimes \subseteq Nat /\ Warntimes \subseteq Nat
        BY HbTimesAssumption
      <4> QED
        BY <3>1, <4>1, <4>2
    <3> QED
      BY <3>2 DEF Listener
  <2>2. NotListening \in Entry
    BY DEF NotListening
  <2>3. ls[a] \in Entry
    BY <2>1, <2>2 DEF Listeners
  <2> QED
    BY <2>3
<1>2. 0 \in 0 .. LongSilent
  BY LongSilentType
<1>3. l \in Listener /\ l.status = "HbPacketsBeingReceived"
  <2> HIDE DEF e
  <2> QED
    BY <1>1, <1>2 DEF Listener, SetTimes
<1>4. Listen(ls, a, dead, warn) = [ls EXCEPT ![a] = l]
  BY DEF Listen
<1> HIDE DEF l
<1> QED
  BY <1>3, <1>4 DEF Listeners

\* hblistener_unlisten
LEMMA UnlistenLeaves ==
    ASSUME NEW ls \in Listeners, NEW a \in Peers
    PROVE  LET c == Unlisten(ls, a)
           IN  /\ c \in Listeners /\ c[a].status = "none"
               /\ \A b \in Peers \ {a} : c[b] = ls[b]
BY DEF Unlisten, Listeners, NotListening

\* _hblistener_got_frameset: a listener that gets a heartbeat receives.
LEMMA GotFrameSetLeaves ==
    ASSUME NEW ls \in Listeners, NEW a \in Peers
    PROVE  LET c == GotFrameSet(ls, a)
           IN  /\ c \in Listeners
               /\ c[a].status = IF FindByAddress(ls, a) THEN "HbPacketsBeingReceived" ELSE "none"
               /\ \A b \in Peers \ {a} : c[b] = ls[b]
<1> DEFINE l == [ls[a] EXCEPT !.status = "HbPacketsBeingReceived", !.silent = 0]
           c == GotFrameSet(ls, a)
<1>1. CASE FindByAddress(ls, a)
  <2>1. ls[a] \in Listener
    BY <1>1, InListIsListener
  <2>2. 0 \in 0 .. LongSilent
    BY LongSilentType
  <2>3. l \in Listener /\ l.status = "HbPacketsBeingReceived"
    BY <2>1, <2>2 DEF Listener
  <2>4. c = [ls EXCEPT ![a] = l]
    BY <1>1 DEF GotFrameSet
  <2> HIDE DEF l, c
  <2> QED
    BY <1>1, <2>3, <2>4 DEF Listeners, c
<1>2. CASE ~FindByAddress(ls, a)
  BY <1>2 DEF GotFrameSet, FindByAddress
<1> QED
  BY <1>1, <1>2

\* _hblistener_checktimeouts
LEMMA CheckTimeoutsLeaves ==
    ASSUME NEW ls \in Listeners
    PROVE  LET c == CheckTimeouts(ls)
           IN  /\ c \in Listeners
               /\ \A a \in Peers : c[a].status = IF a \in Dying(ls) THEN "HbPacketsTimedOut"
                                                 ELSE ls[a].status
<1> DEFINE c == CheckTimeouts(ls)
<1>1. c = [a \in Peers |-> IF a \in Dying(ls) THEN [ls[a] EXCEPT !.status = "HbPacketsTimedOut"]
                                              ELSE ls[a]]
  BY DEF CheckTimeouts
<1> HIDE DEF c
<1>2. ASSUME NEW a \in Peers
      PROVE  /\ c[a] \in Listener \cup {NotListening}
             /\ c[a].status = IF a \in Dying(ls) THEN "HbPacketsTimedOut" ELSE ls[a].status
  <2>1. CASE a \in Dying(ls)
    <3>1. ls[a] \in Listener
      BY <2>1, InListIsListener DEF Dying, Addresses
    <3> QED
      BY <1>1, <2>1, <3>1 DEF Listener
  <2>2. CASE a \notin Dying(ls)
    BY <1>1, <2>2 DEF Listeners
  <2> QED
    BY <2>1, <2>2
<1>3. c \in Listeners
  BY <1>1, <1>2 DEF Listeners
<1> QED
  BY <1>2, <1>3 DEF c

\* A tick of the clock changes no status.
LEMMA SilenceLeaves ==
    ASSUME NEW ls \in Listeners
    PROVE  LET c == Silence(ls)
           IN  c \in Listeners /\ \A a \in Peers : c[a].status = ls[a].status
<1> DEFINE c == Silence(ls)
<1>1. c = [a \in Peers |-> IF FindByAddress(ls, a) /\ ls[a].silent < LongSilent
                           THEN [ls[a] EXCEPT !.silent = @ + 1] ELSE ls[a]]
  BY DEF Silence
<1> HIDE DEF c
<1>2. ASSUME NEW a \in Peers
      PROVE  c[a] \in Listener \cup {NotListening} /\ c[a].status = ls[a].status
  <2>1. CASE FindByAddress(ls, a) /\ ls[a].silent < LongSilent
    <3>1. ls[a] \in Listener
      BY <2>1, InListIsListener
    <3>2. ls[a].silent + 1 \in 0 .. LongSilent
      BY <2>1, <3>1, LongSilentType DEF Listener
    <3> QED
      BY <1>1, <2>1, <3>1, <3>2 DEF Listener
  <2>2. CASE ~(FindByAddress(ls, a) /\ ls[a].silent < LongSilent)
    BY <1>1, <2>2 DEF Listeners
  <2> QED
    BY <2>1, <2>2
<1>3. c \in Listeners
  BY <1>1, <1>2 DEF Listeners
<1> QED
  BY <1>2, <1>3 DEF c

-----------------------------------------------------------------------------
\* The inductive invariant

\* What was sent is what the CMA has, and it was sent because the CMA was known.
SentIsTold ==
    \A o \in InUse(d) :
        d.obj[o].sentyet => cmaKnown /\ told[d.obj[o].name] = d.value[d.obj[o].name]

\* Only a CMA asks for listeners, and only its address makes it one.
OnlyWhenConnected ==
    /\ connected <=> cmaKnown
    /\ \A a \in Peers : FindByAddress(listeners, a) => connected

\* Between the signal and the end the table is empty, and stays so.
ShutdownOrder ==
    /\ outdone \/ ended => shuttingDown
    /\ shuttingDown /\ ~ended => connected /\ \A i \in Instances : d.table[i] = NoObject

DiscInv ==
    /\ Held(d, Nobody)
    /\ told \in [Instances -> Outputs \cup {NoOutput}]

FlagsTypeOK ==
    /\ state \in {"INIT", "WAIT", "DONE"}
    /\ reqTimer \in BOOLEAN /\ answer \subseteq WholeAnswer /\ cmaKnown \in BOOLEAN
    /\ connected \in BOOLEAN /\ configComplete \in BOOLEAN /\ sigterm \in BOOLEAN
    /\ shuttingDown \in BOOLEAN /\ outdone \in BOOLEAN /\ ended \in BOOLEAN
    /\ commands \in 0 .. MaxCommands

HbInv ==
    /\ HbTypeOK /\ SenderTypeOK
    /\ martians \in 0 .. MartianEvery - 1
    /\ deaths \in [Peers -> Nat]

NanoInv ==
    /\ HbInv /\ DiscInv /\ FlagsTypeOK
    /\ OnlyWhenConnected /\ SentIsTold /\ ShutdownOrder /\ DeathToldOnce

-----------------------------------------------------------------------------
\* Steps of the discovery

\* A step that keeps references accounted for and marks nothing as sent keeps what is
\* known about discoveries.
LEMMA DiscKept ==
    ASSUME DiscInv, SentIsTold, Held(d', Nobody), d'.value = d.value, told' = told,
           cmaKnown => cmaKnown',
           \A p \in InUse(d') : \/ ~d'.obj[p].sentyet
                                \/ /\ p \in InUse(d) /\ d'.obj[p].name = d.obj[p].name
                                   /\ d'.obj[p].sentyet = d.obj[p].sentyet
    PROVE  DiscInv' /\ SentIsTold'
<1>1. DiscInv'
  BY DEF DiscInv, Held, Nobody, TableIsRight, InUse, InTable, ByChild, Discoveries
<1>2. SentIsTold'
  <2> SUFFICES ASSUME NEW p \in InUse(d'), d'.obj[p].sentyet
               PROVE  cmaKnown' /\ told'[d'.obj[p].name] = d'.value[d'.obj[p].name]
    BY DEF SentIsTold, InUse
  <2>1. p \in InUse(d) /\ d'.obj[p].name = d.obj[p].name /\ d.obj[p].sentyet
    OBVIOUS
  <2> QED
    BY <2>1 DEF SentIsTold
<1> QED
  BY <1>1, <1>2

\* nano_schedule_discovery does.
LEMMA ScheduleKeeps ==
    ASSUME DiscInv, SentIsTold, NEW o \in FreeObjects, NEW i \in Instances,
           NEW repeats \in BOOLEAN, NEW s \in Spawned,
           d' = Schedule(d, o, i, repeats, s), told' = told, cmaKnown => cmaKnown'
    PROVE  DiscInv' /\ SentIsTold'
<1>1. o \in Objects \ InUse(d) /\ s \in BOOLEAN /\ Held(d, Nobody)
  BY DEF FreeObjects, Spawned, DiscInv
<1>2. /\ Held(d', Nobody) /\ d'.value = d.value
      /\ \A p \in InUse(d') : \/ p = o /\ ~d'.obj[o].sentyet
                              \/ /\ p \in InUse(d) /\ d'.obj[p].name = d.obj[p].name
                                 /\ d'.obj[p].sentyet = d.obj[p].sentyet
  BY <1>1, ScheduleHeld
<1> QED
  BY <1>2, DiscKept

\* _discovery_rediscover does, and starts no child when the table is empty: what
\* ticks then is there because its child still runs.
LEMMA DiscoveryTimerKeeps ==
    ASSUME DiscInv, SentIsTold, NEW o \in Objects, DiscoveryTimer(o)
    PROVE  /\ DiscInv' /\ SentIsTold' /\ d'.table = d.table
           /\ (\A i \in Instances : d.table[i] = NoObject) => Running(d') = Running(d)
<1>1. PICK s \in Spawned : d' = Rediscover(d, o, s)
  BY DEF DiscoveryTimer
<1>2. /\ s \in BOOLEAN /\ Held(d, Nobody) /\ d.obj[o].timer
      /\ told' = told /\ cmaKnown' = cmaKnown
  BY DEF DiscoveryTimer, Spawned, DiscInv, Ticking, startVars
<1>3. /\ Held(d', Nobody) /\ d'.value = d.value /\ d'.table = d.table
      /\ \A p \in InUse(d') : /\ p \in InUse(d) /\ d'.obj[p].name = d.obj[p].name
                              /\ d'.obj[p].sentyet = d.obj[p].sentyet
      /\ d.obj[o].child => Running(d') = Running(d)
  BY <1>1, <1>2, RediscoverHeld
<1>4. DiscInv' /\ SentIsTold'
  BY <1>2, <1>3, DiscKept
<1>5. ASSUME \A i \in Instances : d.table[i] = NoObject
      PROVE  d.obj[o].child
  <2>1. o \in InUse(d)
    BY <1>2, InUseIsObject DEF Held, Free
  <2>2. d.obj[o] \in Object /\ d.obj[o].refs = InTable(d, o) + ByChild(d, o)
    BY <1>2, <2>1, HeldByNobody
  <2>3. InTable(d, o) = 0
    BY <1>5, <2>2, DiscoveryAssumption DEF InTable, Object
  <2> QED
    BY <2>2, <2>3 DEF ByChild, Object
<1> QED
  BY <1>3, <1>4, <1>5

\* _jsondiscovery_childwatch: what it counts as sent it has told.
LEMMA ChildExitKeeps ==
    ASSUME DiscInv, SentIsTold, cmaKnown \in BOOLEAN, NEW o \in Objects,
           NEW out \in Outputs \cup {NoOutput}, ChildExit(o, out)
    PROVE  /\ DiscInv' /\ SentIsTold' /\ Running(d') \subseteq Running(d)
           /\ \A i \in Instances : d'.table[i] \in {d.table[i], NoObject}
<1> DEFINE news == out # NoOutput /\ IsNews(d, o, out)
           n == d.obj[o].name
<1>1. /\ Held(d, Nobody) /\ d.obj[o].child /\ d' = ChildWatch(d, o, out, cmaKnown)
      /\ told' = (IF news /\ cmaKnown THEN [told EXCEPT ![n] = out] ELSE told)
      /\ cmaKnown' = cmaKnown /\ told \in [Instances -> Outputs \cup {NoOutput}]
  BY DEF ChildExit, DiscInv, Running, startVars
<1>2. /\ Held(d', Nobody) /\ o \in InUse(d)
      /\ d'.value = IF news THEN [d.value EXCEPT ![n] = out] ELSE d.value
      /\ \A i \in Instances : d'.table[i] \in {d.table[i], NoObject}
      /\ \A p \in InUse(d') : /\ p \in InUse(d)
                              /\ d'.obj[p].name = d.obj[p].name
                              /\ d'.obj[p].sentyet =>
                                    d.obj[p].sentyet \/ (p = o /\ news /\ cmaKnown)
      /\ Running(d') \subseteq Running(d)
  BY <1>1, ChildWatchHeld
<1>3. n \in Instances /\ d.value \in [Instances -> Outputs \cup {NoOutput}]
  BY <1>1, <1>2, HeldByNobody DEF Object
<1> HIDE DEF news, n
<1>4. DiscInv'
  <2>1. told' \in [Instances -> Outputs \cup {NoOutput}]
    BY <1>1, <1>3
  <2> QED
    BY <1>2, <2>1 DEF DiscInv, Held, Nobody, TableIsRight, InUse, InTable, ByChild, Discoveries
<1>5. SentIsTold'
  <2> SUFFICES ASSUME NEW p \in InUse(d'), d'.obj[p].sentyet
               PROVE  cmaKnown' /\ told'[d'.obj[p].name] = d'.value[d'.obj[p].name]
    BY DEF SentIsTold, InUse
  <2> DEFINE m == d.obj[p].name
  <2>1. /\ p \in InUse(d) /\ d'.obj[p].name = m
        /\ d.obj[p].sentyet \/ (p = o /\ news /\ cmaKnown)
    BY <1>2
  <2>2. m \in Instances /\ (p = o => m = n)
    BY <1>1, <2>1, HeldByNobody DEF Object, n
  <2>3. cmaKnown
    BY <2>1 DEF SentIsTold
  <2>4. d.obj[p].sentyet => told[m] = d.value[m]
    BY <2>1 DEF SentIsTold
  <2> HIDE DEF m
  <2>5. told'[m] = d'.value[m]
    <3>1. CASE news
      <4>1. told' = [told EXCEPT ![n] = out] /\ d'.value = [d.value EXCEPT ![n] = out]
        BY <1>1, <1>2, <2>3, <3>1
      <4>2. CASE m = n
        BY <1>1, <1>3, <4>1, <4>2
      <4>3. CASE m # n
        BY <1>1, <1>3, <2>1, <2>2, <2>4, <4>1, <4>3
      <4> QED
        BY <4>2, <4>3
    <3>2. CASE ~news
      BY <1>1, <1>2, <2>1, <2>4, <3>2
    <3> QED
      BY <3>1, <3>2
  <2> QED
    BY <1>1, <2>1, <2>3, <2>5
<1> QED
  BY <1>2, <1>4, <1>5

-----------------------------------------------------------------------------
\* Every step keeps the invariant

\* The invariant holds at the start.
LEMMA NanoInvInit == Init => NanoInv
<1> SUFFICES ASSUME Init PROVE NanoInv
  OBVIOUS
<1> USE DEF Init, HbInit, SenderInit, DiscoveryInit
<1>0. listeners \in Listeners /\ \A a \in Peers : listeners[a].status = "none"
  BY DEF Listeners, NotListening
<1>1. HbInv
  <2>1. 0 \in 0 .. MartianEvery - 1
    BY NanoAssumption
  <2>2. deaths \in [Peers -> Nat] /\ senders \in Seq(SendTo) /\ hbTimers \in Nat
    OBVIOUS
  <2> QED
    BY <1>0, <2>1, <2>2 DEF HbInv, HbTypeOK, SenderTypeOK, Listeners
<1>2. d \in Discoveries /\ InUse(d) = {} /\ \A i \in Instances : d.table[i] = NoObject
  BY DEF Discoveries, InUse, Free
<1>3. Held(d, Nobody)
  BY <1>2 DEF Held, Nobody, TableIsRight
<1>4. DiscInv /\ SentIsTold
  BY <1>2, <1>3 DEF DiscInv, SentIsTold
<1>5. FlagsTypeOK /\ OnlyWhenConnected /\ ShutdownOrder
  <2>1. commands \in 0 .. MaxCommands
    BY NanoAssumption
  <2> QED
    BY <1>0, <2>1 DEF FlagsTypeOK, OnlyWhenConnected, ShutdownOrder, FindByAddress
<1>6. DeathToldOnce
  BY <1>0 DEF DeathToldOnce
<1> QED
  BY <1>1, <1>4, <1>5, <1>6 DEF NanoInv

\* A step that leaves the heartbeats alone leaves what is known about them.
LEMMA HbUnchanged ==
    ASSUME NanoInv, UNCHANGED hbVars, shuttingDown => shuttingDown'
    PROVE  HbInv' /\ DeathToldOnce'
BY DEF NanoInv, HbInv, HbTypeOK, SenderTypeOK, DeathToldOnce, hbVars

\* A step that leaves discoveries alone leaves what is known about them.
LEMMA DiscUnchanged ==
    ASSUME NanoInv, UNCHANGED discVars, cmaKnown => cmaKnown'
    PROVE  DiscInv' /\ SentIsTold'
BY DEF NanoInv, DiscInv, SentIsTold, Held, Nobody, TableIsRight, InUse, InTable, ByChild,
       Discoveries, discVars

\* The invariant is kept while the nanoprobe starts up.
LEMMA StartupKeeps ==
    ASSUME NanoInv,
           StartDiscovery \/ StartAsking \/ ReqConfig \/ SetConfig \/ AckStartup \/ Signal
    PROVE  NanoInv'
<1> USE DEF FlagsTypeOK, OnlyWhenConnected, ShutdownOrder
<1>1. CASE StartDiscovery
  <2>1. HbInv' /\ DeathToldOnce'
    BY <1>1, HbUnchanged DEF StartDiscovery, endVars
  <2>2. DiscInv' /\ SentIsTold'
    BY <1>1, NanoAssumption, ScheduleKeeps DEF StartDiscovery, NanoInv
  <2>3. FlagsTypeOK' /\ OnlyWhenConnected' /\ ShutdownOrder'
    BY <1>1 DEF StartDiscovery, NanoInv, hbVars, endVars
  <2> QED
    BY <2>1, <2>2, <2>3 DEF NanoInv
<1>2. CASE StartAsking
  <2>1. HbInv' /\ DeathToldOnce' /\ DiscInv' /\ SentIsTold'
    BY <1>2, HbUnchanged, DiscUnchanged DEF StartAsking, endVars
  <2>2. FlagsTypeOK' /\ OnlyWhenConnected' /\ ShutdownOrder'
    BY <1>2 DEF StartAsking, AnswerTo, Awaited, NanoInv, hbVars, discVars, endVars
  <2> QED
    BY <2>1, <2>2 DEF NanoInv
<1>3. CASE ReqConfig
  <2>1. HbInv' /\ DeathToldOnce' /\ DiscInv' /\ SentIsTold'
    BY <1>3, HbUnchanged, DiscUnchanged DEF ReqConfig, AskUnless, endVars
  <2>2. FlagsTypeOK' /\ OnlyWhenConnected' /\ ShutdownOrder'
    BY <1>3 DEF ReqConfig, AskUnless, AnswerTo, Awaited, NanoInv, hbVars, discVars, endVars
  <2> QED
    BY <2>1, <2>2 DEF NanoInv
<1>4. CASE SetConfig
  <2>1. HbInv' /\ DeathToldOnce'
    BY <1>4, HbUnchanged DEF SetConfig, endVars
  <2>2. CASE connected
    <3>1. DiscInv' /\ SentIsTold'
      BY <1>4, <2>2, DiscUnchanged DEF SetConfig, discVars
    <3>2. FlagsTypeOK' /\ OnlyWhenConnected' /\ ShutdownOrder'
      BY <1>4, <2>2 DEF SetConfig, NanoInv, hbVars, endVars
    <3> QED
      BY <2>1, <3>1, <3>2 DEF NanoInv
  <2>3. CASE ~connected
    <3>1. DiscInv' /\ SentIsTold'
      BY <1>4, <2>3, NanoAssumption, ScheduleKeeps DEF SetConfig, NanoInv
    <3>2. FlagsTypeOK' /\ OnlyWhenConnected' /\ ShutdownOrder'
      BY <1>4, <2>3 DEF SetConfig, Answered, NanoInv, hbVars, endVars
    <3> QED
      BY <2>1, <3>1, <3>2 DEF NanoInv
  <2> QED
    BY <2>2, <2>3
<1>5. CASE AckStartup
  <2>1. HbInv' /\ DeathToldOnce' /\ DiscInv' /\ SentIsTold'
    BY <1>5, HbUnchanged, DiscUnchanged DEF AckStartup, endVars
  <2>2. FlagsTypeOK' /\ OnlyWhenConnected' /\ ShutdownOrder'
    BY <1>5 DEF AckStartup, Answered, NanoInv, hbVars, discVars, endVars
  <2> QED
    BY <2>1, <2>2 DEF NanoInv
<1>6. CASE Signal
  <2>1. HbInv' /\ DeathToldOnce' /\ DiscInv' /\ SentIsTold'
    BY <1>6, HbUnchanged, DiscUnchanged DEF Signal, startVars
  <2>2. FlagsTypeOK' /\ OnlyWhenConnected' /\ ShutdownOrder'
    BY <1>6 DEF Signal, NanoInv, hbVars, discVars, startVars
  <2> QED
    BY <2>1, <2>2 DEF NanoInv
<1> QED
  BY <1>1, <1>2, <1>3, <1>4, <1>5, <1>6

\* A command of the CMA that leaves the discoveries alone keeps the invariant when it
\* leaves listeners and senders of their types and a peer that is listened to as it
\* was, or receiving with no death to its name, or not listened to with none.
LEMMA HbCommandKeeps ==
    ASSUME NanoInv, Obey, UNCHANGED <<martians, d>>,
           listeners' \in Listeners, hbTimers' \in Nat, proxy' \in BOOLEAN,
           senders' \in Seq(SendTo), deaths' \in [Peers -> Nat],
           \A a \in Peers : \/ listeners'[a].status = listeners[a].status /\ deaths'[a] = deaths[a]
                            \/ listeners'[a].status # "HbPacketsTimedOut" /\ deaths'[a] = 0
    PROVE  NanoInv'
<1>1. HbInv'
  BY DEF NanoInv, HbInv, HbTypeOK, SenderTypeOK, Listeners
<1>2. DiscInv' /\ SentIsTold'
  BY DiscUnchanged DEF Obey, discVars, startVars
<1>3. FlagsTypeOK' /\ OnlyWhenConnected' /\ ShutdownOrder'
  <2>1. commands' \in 0 .. MaxCommands
    BY NanoAssumption DEF NanoInv, FlagsTypeOK, Obey
  <2> QED
    BY <2>1 DEF NanoInv, FlagsTypeOK, OnlyWhenConnected, ShutdownOrder, Obey, startVars, endVars
<1>4. DeathToldOnce'
  BY DEF NanoInv, DeathToldOnce, Obey, endVars
<1> QED
  BY <1>1, <1>2, <1>3, <1>4 DEF NanoInv

\* A command to expect heartbeats makes a listener that receives, with no death yet.
LEMMA ExpectLeaves ==
    ASSUME HbInv, NEW a \in Peers, NEW dead \in Deadtimes, NEW warn \in Warntimes,
           Expect(a, dead, warn)
    PROVE  /\ listeners' \in Listeners /\ hbTimers' \in Nat /\ proxy' \in BOOLEAN
           /\ deaths' \in [Peers -> Nat]
           /\ \A b \in Peers :
                 \/ listeners'[b].status = listeners[b].status /\ deaths'[b] = deaths[b]
                 \/ listeners'[b].status # "HbPacketsTimedOut" /\ deaths'[b] = 0
<1>1. listeners \in Listeners /\ deaths \in [Peers -> Nat] /\ hbTimers \in Nat
  BY DEF HbInv, HbTypeOK, Listeners
<1>2. /\ listeners' \in Listeners /\ listeners'[a].status = "HbPacketsBeingReceived"
      /\ \A b \in Peers \ {a} : listeners'[b] = listeners[b]
  BY <1>1, ListenLeaves DEF Expect
<1>3. /\ deaths' \in [Peers -> Nat] /\ deaths'[a] = 0
      /\ \A b \in Peers \ {a} : deaths'[b] = deaths[b]
  BY <1>1 DEF Expect
<1>4. hbTimers' \in Nat /\ proxy' \in BOOLEAN
  BY <1>1 DEF Expect, AddListTimers
<1> QED
  BY <1>2, <1>3, <1>4

\* A command to expect them no longer leaves no listener, and no death to its name.
LEMMA StopExpectLeaves ==
    ASSUME HbInv, NEW a \in Peers, listeners' = Unlisten(listeners, a),
           deaths' = [deaths EXCEPT ![a] = 0]
    PROVE  /\ listeners' \in Listeners /\ deaths' \in [Peers -> Nat]
           /\ \A b \in Peers :
                 \/ listeners'[b].status = listeners[b].status /\ deaths'[b] = deaths[b]
                 \/ listeners'[b].status # "HbPacketsTimedOut" /\ deaths'[b] = 0
<1>1. listeners \in Listeners /\ deaths \in [Peers -> Nat]
  BY DEF HbInv, HbTypeOK, Listeners
<1>2. /\ listeners' \in Listeners /\ listeners'[a].status = "none"
      /\ \A b \in Peers \ {a} : listeners'[b] = listeners[b]
  BY <1>1, UnlistenLeaves
<1>3. /\ deaths' \in [Peers -> Nat] /\ deaths'[a] = 0
      /\ \A b \in Peers \ {a} : deaths'[b] = deaths[b]
  BY <1>1
<1> QED
  BY <1>2, <1>3

\* A sender more, or one less, leaves a list of senders.
LEMMA SendersLeave ==
    ASSUME HbInv, NEW a \in SendTo
    PROVE  StartSend(senders, a) \in Seq(SendTo) /\ StopSend(senders, a) \in Seq(SendTo)
<1>1. senders \in Seq(SendTo)
  BY DEF HbInv, SenderTypeOK
<1>2. <<a>> \in Seq(SendTo)
  OBVIOUS
<1> QED
  BY <1>1, <1>2, StopSendType, ConcatProperties DEF StartSend

\* The invariant is kept by the commands of the CMA.
LEMMA CommandKeeps ==
    ASSUME NanoInv, Command
    PROVE  NanoInv'
<1>1. /\ HbInv /\ DiscInv /\ SentIsTold /\ listeners \in Listeners
      /\ hbTimers \in Nat /\ proxy \in BOOLEAN /\ senders \in Seq(SendTo)
      /\ deaths \in [Peers -> Nat]
  BY DEF NanoInv, HbInv, HbTypeOK, SenderTypeOK, Listeners
<1>2. ASSUME NEW a \in SendTo, SendHb(a) \/ StopSendHb(a)
      PROVE  NanoInv'
  <2>1. Obey /\ UNCHANGED <<listeners, hbTimers, proxy, martians, deaths, d>>
        /\ senders' \in {StartSend(senders, a), StopSend(senders, a)}
    BY <1>2 DEF SendHb, StopSendHb, ObeyStart
  <2> QED
    BY <1>1, <2>1, SendersLeave, HbCommandKeeps
<1>3. ASSUME NEW a \in Peers, NEW dead \in Deadtimes, NEW warn \in Warntimes,
             ExpectHb(a, dead, warn)
      PROVE  NanoInv'
  <2>1. Obey /\ Expect(a, dead, warn) /\ UNCHANGED <<senders, martians, d>>
    BY <1>3 DEF ExpectHb, ObeyStart
  <2> QED
    BY <1>1, <2>1, ExpectLeaves, HbCommandKeeps
<1>4. ASSUME NEW a \in Peers, StopExpectHb(a)
      PROVE  NanoInv'
  <2>1. /\ Obey /\ listeners' = Unlisten(listeners, a) /\ deaths' = [deaths EXCEPT ![a] = 0]
        /\ UNCHANGED <<hbTimers, proxy, senders, martians, d>>
    BY <1>4 DEF StopExpectHb
  <2> QED
    BY <1>1, <2>1, StopExpectLeaves, HbCommandKeeps
<1>5. ASSUME NEW a \in Peers \cap SendTo, StopSendExpectHb(a)
      PROVE  NanoInv'
  <2>1. /\ Obey /\ listeners' = Unlisten(listeners, a) /\ deaths' = [deaths EXCEPT ![a] = 0]
        /\ senders' = StopSend(senders, a)
        /\ UNCHANGED <<hbTimers, proxy, martians, d>>
    BY <1>5 DEF StopSendExpectHb
  <2> QED
    BY <1>1, <2>1, StopExpectLeaves, SendersLeave, HbCommandKeeps
<1>6. ASSUME NEW a \in Peers \cap SendTo, NEW dead \in Deadtimes, NEW warn \in Warntimes,
             SendExpectHb(a, dead, warn)
      PROVE  NanoInv'
  <2>1. /\ Obey /\ Expect(a, dead, warn) /\ senders' = StartSend(senders, a)
        /\ UNCHANGED <<martians, d>>
    BY <1>6 DEF SendExpectHb, ObeyStart
  <2> QED
    BY <1>1, <2>1, ExpectLeaves, SendersLeave, HbCommandKeeps
<1>7. ASSUME NEW i \in CmdInstances, NEW repeats \in BOOLEAN, StartDiscover(i, repeats)
      PROVE  NanoInv'
  <2>1. /\ Obey /\ ~shuttingDown /\ UNCHANGED hbVars
        /\ \E o \in FreeObjects, s \in Spawned : d' = Schedule(d, o, i, repeats, s)
    BY <1>7 DEF StartDiscover, ObeyStart
  <2>2. HbInv' /\ DeathToldOnce'
    BY <2>1, HbUnchanged DEF Obey, endVars
  <2>3. i \in Instances /\ told' = told /\ cmaKnown' = cmaKnown
    BY <2>1, NanoAssumption DEF Obey, startVars
  <2>4. DiscInv' /\ SentIsTold'
    BY <1>1, <2>1, <2>3, ScheduleKeeps
  <2>5. commands' \in 0 .. MaxCommands
    BY <2>1, NanoAssumption DEF NanoInv, FlagsTypeOK, Obey
  <2>6. FlagsTypeOK' /\ OnlyWhenConnected' /\ ShutdownOrder'
    BY <2>1, <2>5 DEF NanoInv, FlagsTypeOK, OnlyWhenConnected, ShutdownOrder, Obey,
                      startVars, endVars, hbVars
  <2> QED
    BY <2>2, <2>4, <2>6 DEF NanoInv
<1>8. CASE StopDiscover
  <2>1. Obey /\ UNCHANGED <<listeners, hbTimers, proxy, senders, martians, deaths, d>>
    BY <1>8 DEF StopDiscover, hbVars
  <2> QED
    BY <1>1, <2>1, HbCommandKeeps
<1> QED
  BY <1>2, <1>3, <1>4, <1>5, <1>6, <1>7, <1>8 DEF Command

\* The invariant is kept by heartbeats and by the clock of the listeners.
LEMMA BeatKeeps ==
    ASSUME NanoInv, (\E a \in Peers : Heartbeat(a)) \/ ListenerTimer \/ Tick
    PROVE  NanoInv'
<1>1. /\ listeners \in Listeners /\ deaths \in [Peers -> Nat] /\ hbTimers \in Nat
      /\ proxy \in BOOLEAN /\ senders \in Seq(SendTo) /\ martians \in 0 .. MartianEvery - 1
  BY DEF NanoInv, HbInv, HbTypeOK, SenderTypeOK, Listeners
<1>2. UNCHANGED <<senders, proxy, discVars, startVars, endVars, commands>> /\ ~ended
  BY DEF Heartbeat, ListenerTimer, Tick
<1>3. DiscInv' /\ SentIsTold' /\ FlagsTypeOK' /\ ShutdownOrder'
  <2>1. DiscInv' /\ SentIsTold'
    BY <1>2, DiscUnchanged DEF startVars
  <2> QED
    BY <1>2, <2>1 DEF NanoInv, FlagsTypeOK, ShutdownOrder, startVars, endVars, discVars
<1>4. SUFFICES HbInv' /\ OnlyWhenConnected' /\ DeathToldOnce'
  BY <1>3 DEF NanoInv
<1>5. ASSUME listeners' \in Listeners,
             \A a \in Peers : FindByAddress(listeners', a) => FindByAddress(listeners, a)
      PROVE  OnlyWhenConnected'
  BY <1>2, <1>5 DEF NanoInv, OnlyWhenConnected, startVars
<1>6. ASSUME NEW a \in Peers, Heartbeat(a)
      PROVE  HbInv' /\ OnlyWhenConnected' /\ DeathToldOnce'
  <2>1. /\ listeners' = GotFrameSet(listeners, a) /\ hbTimers' = hbTimers
        /\ martians' \in {martians, 1, (martians + 1) % MartianEvery}
        /\ deaths' = IF Callback(listeners, a) = "comealive" THEN [deaths EXCEPT ![a] = 0]
                     ELSE deaths
    BY <1>6 DEF Heartbeat, MartianAgent, ComealiveAgent
  <2>2. /\ listeners' \in Listeners
        /\ listeners'[a].status = IF FindByAddress(listeners, a) THEN "HbPacketsBeingReceived"
                                  ELSE "none"
        /\ \A b \in Peers \ {a} : listeners'[b] = listeners[b]
    BY <1>1, <2>1, GotFrameSetLeaves
  <2>3. martians' \in 0 .. MartianEvery - 1
    BY <1>1, <2>1, NanoAssumption
  <2>4. deaths' \in [Peers -> Nat] /\ \A b \in Peers \ {a} : deaths'[b] = deaths[b]
    BY <1>1, <2>1
  <2>5. HbInv'
    BY <1>1, <1>2, <2>1, <2>2, <2>3, <2>4 DEF HbInv, HbTypeOK, SenderTypeOK, Listeners
  <2>6. OnlyWhenConnected'
    BY <1>5, <2>2 DEF FindByAddress
  <2>7. ~shuttingDown => deaths'[a] = 0
    <3>1. ~shuttingDown =>
             deaths[a] = IF listeners[a].status = "HbPacketsTimedOut" THEN 1 ELSE 0
      BY DEF NanoInv, DeathToldOnce
    <3>2. CASE Callback(listeners, a) = "comealive"
      BY <1>1, <2>1, <3>2
    <3>3. CASE Callback(listeners, a) # "comealive"
      <4>1. listeners[a].status # "HbPacketsTimedOut"
        BY <3>3 DEF Callback, FindByAddress
      <4> QED
        BY <2>1, <3>1, <3>3, <4>1
    <3> QED
      BY <3>2, <3>3
  <2>8. DeathToldOnce'
    <3> SUFFICES ASSUME ~shuttingDown', NEW b \in Peers
                 PROVE  deaths'[b] = IF listeners'[b].status = "HbPacketsTimedOut" THEN 1 ELSE 0
      BY DEF DeathToldOnce
    <3>1. ~shuttingDown
      BY <1>2 DEF endVars
    <3>2. CASE b = a
      BY <2>2, <2>7, <3>1, <3>2
    <3>3. CASE b # a
      BY <2>2, <2>4, <3>1, <3>3 DEF NanoInv, DeathToldOnce
    <3> QED
      BY <3>2, <3>3
  <2> QED
    BY <2>5, <2>6, <2>8
<1>7. CASE ListenerTimer
  <2>1. /\ listeners' = CheckTimeouts(listeners) /\ martians' = martians
        /\ hbTimers' = TimersAfterRun(listeners, hbTimers) /\ hbTimers > 0
        /\ deaths' = [a \in Peers |-> IF a \in Dying(listeners) /\ Reporting THEN deaths[a] + 1
                                      ELSE deaths[a]]
    BY <1>7 DEF ListenerTimer, DeadtimeAgent
  <2>2. /\ listeners' \in Listeners
        /\ \A a \in Peers : listeners'[a].status =
              IF a \in Dying(listeners) THEN "HbPacketsTimedOut" ELSE listeners[a].status
    BY <1>1, <2>1, CheckTimeoutsLeaves
  <2>3. hbTimers' \in Nat
    BY <1>1, <2>1 DEF TimersAfterRun
  <2>4. deaths' \in [Peers -> Nat]
    BY <1>1, <2>1
  <2>5. HbInv'
    BY <1>1, <1>2, <2>1, <2>2, <2>3, <2>4 DEF HbInv, HbTypeOK, SenderTypeOK, Listeners
  <2>6. OnlyWhenConnected'
    BY <1>5, <2>2 DEF FindByAddress, Dying, Addresses
  <2>7. DeathToldOnce'
    <3> SUFFICES ASSUME ~shuttingDown', NEW a \in Peers
                 PROVE  deaths'[a] = IF listeners'[a].status = "HbPacketsTimedOut" THEN 1 ELSE 0
      BY DEF DeathToldOnce
    <3>1. ~shuttingDown
      BY <1>2 DEF endVars
    <3>2. deaths[a] = IF listeners[a].status = "HbPacketsTimedOut" THEN 1 ELSE 0
      BY <3>1 DEF NanoInv, DeathToldOnce
    <3>3. CASE a \in Dying(listeners)
      <4>1. FindByAddress(listeners, a) /\ listeners[a].status = "HbPacketsBeingReceived"
        BY <3>3 DEF Dying, Addresses
      <4>2. Reporting
        BY <3>1, <4>1 DEF Reporting, NanoInv, OnlyWhenConnected
      <4> QED
        BY <2>1, <2>2, <3>2, <3>3, <4>1, <4>2
    <3>4. CASE a \notin Dying(listeners)
      BY <2>1, <2>2, <3>2, <3>4
    <3> QED
      BY <3>3, <3>4
  <2> QED
    BY <2>5, <2>6, <2>7
<1>8. CASE Tick
  <2>1. listeners' = Silence(listeners) /\ UNCHANGED <<hbTimers, martians, deaths>>
    BY <1>8 DEF Tick
  <2>2. listeners' \in Listeners /\ \A a \in Peers : listeners'[a].status = listeners[a].status
    BY <1>1, <2>1, SilenceLeaves
  <2>3. HbInv'
    BY <1>1, <1>2, <2>1, <2>2 DEF HbInv, HbTypeOK, SenderTypeOK, Listeners
  <2>4. OnlyWhenConnected'
    BY <1>5, <2>2 DEF FindByAddress
  <2>5. DeathToldOnce'
    BY <1>2, <2>1, <2>2 DEF NanoInv, DeathToldOnce, endVars
  <2> QED
    BY <2>3, <2>4, <2>5
<1> QED
  BY <1>6, <1>7, <1>8

\* The invariant is kept by the timers and the children of discoveries.
LEMMA DiscoveryKeeps ==
    ASSUME NanoInv, NEW o \in Objects,
           DiscoveryTimer(o) \/ \E out \in Outputs \cup {NoOutput} : ChildExit(o, out)
    PROVE  NanoInv'
<1>1. UNCHANGED <<hbVars, startVars, endVars, commands>> /\ ~ended
  BY DEF DiscoveryTimer, ChildExit
<1>2. /\ DiscInv' /\ SentIsTold'
      /\ \A i \in Instances : d'.table[i] \in {d.table[i], NoObject}
  <2>1. DiscInv /\ SentIsTold /\ cmaKnown \in BOOLEAN
    BY DEF NanoInv, FlagsTypeOK
  <2>2. CASE DiscoveryTimer(o)
    BY <2>1, <2>2, DiscoveryTimerKeeps
  <2>3. ASSUME NEW out \in Outputs \cup {NoOutput}, ChildExit(o, out)
        PROVE  /\ DiscInv' /\ SentIsTold'
               /\ \A i \in Instances : d'.table[i] \in {d.table[i], NoObject}
    BY <2>1, <2>3, ChildExitKeeps
  <2> QED
    BY <2>2, <2>3
<1>3. HbInv' /\ DeathToldOnce'
  BY <1>1, HbUnchanged DEF endVars
<1>4. FlagsTypeOK' /\ OnlyWhenConnected' /\ ShutdownOrder'
  BY <1>1, <1>2 DEF NanoInv, FlagsTypeOK, OnlyWhenConnected, ShutdownOrder,
                    hbVars, startVars, endVars
<1> QED
  BY <1>2, <1>3, <1>4 DEF NanoInv

\* nano_shutdown leaves no listener and no sender.
LEMMA NanoShutdownLeaves ==
    ASSUME HbInv, NanoShutdown, UNCHANGED <<hbTimers, proxy, martians, deaths>>
    PROVE  /\ HbInv' /\ ended' /\ Len(senders') = 0
           /\ \A a \in Peers : ~FindByAddress(listeners', a)
<1>1. senders' = <<>> /\ listeners' = [a \in Peers |-> NotListening] /\ ended'
  BY DEF NanoShutdown, StopAllSenders, ShutdownListeners
<1>2. senders' \in Seq(SendTo) /\ Len(senders') = 0
  BY <1>1
<1>3. listeners' \in Listeners /\ \A a \in Peers : ~FindByAddress(listeners', a)
  BY <1>1 DEF Listeners, FindByAddress, NotListening
<1> QED
  BY <1>1, <1>2, <1>3 DEF HbInv, HbTypeOK, SenderTypeOK, Listeners

\* The invariant is kept by the steps of the shutdown.
LEMMA ShutdownKeeps ==
    ASSUME NanoInv, CheckForSignals \/ OutputAcked \/ ShutdownPoll
    PROVE  NanoInv'
<1>1. CASE CheckForSignals /\ connected
  <2>1. /\ d' = UnregisterAll(d) /\ UNCHANGED <<hbVars, told, startVars>>
        /\ shuttingDown' /\ ~ended /\ ended' = ended /\ sigterm' = sigterm
        /\ outdone' = outdone /\ commands' = commands
    BY <1>1 DEF CheckForSignals, InitiateShutdown, hbVars
  <2>2. Held(d, Nobody) /\ DiscInv /\ SentIsTold
    BY DEF NanoInv, DiscInv
  <2>3. /\ Held(d', Nobody) /\ d'.value = d.value /\ \A i \in Instances : d'.table[i] = NoObject
        /\ \A p \in InUse(d') : /\ p \in InUse(d) /\ d'.obj[p].name = d.obj[p].name
                                /\ d'.obj[p].sentyet = d.obj[p].sentyet
    BY <2>1, <2>2, UnregisterAllHeld
  <2>4. DiscInv' /\ SentIsTold'
    BY <2>1, <2>2, <2>3, DiscKept DEF startVars
  <2>5. HbInv' /\ DeathToldOnce'
    BY <2>1, HbUnchanged
  <2>6. FlagsTypeOK' /\ OnlyWhenConnected' /\ ShutdownOrder'
    BY <1>1, <2>1, <2>3 DEF NanoInv, FlagsTypeOK, OnlyWhenConnected, ShutdownOrder,
                            hbVars, startVars
  <2> QED
    BY <2>4, <2>5, <2>6 DEF NanoInv
<1>2. CASE CheckForSignals /\ ~connected
  <2>1. /\ NanoShutdown /\ UNCHANGED <<hbTimers, proxy, martians, deaths>>
        /\ UNCHANGED <<discVars, startVars>> /\ shuttingDown' = TRUE /\ sigterm' = sigterm
        /\ outdone' = outdone /\ commands' = commands
    BY <1>2 DEF CheckForSignals, InitiateShutdown, discVars
  <2>2. HbInv' /\ ended' = TRUE /\ \A a \in Peers : ~FindByAddress(listeners', a)
    BY <2>1, NanoShutdownLeaves DEF NanoInv, NanoShutdown
  <2>3. DiscInv' /\ SentIsTold'
    BY <2>1, DiscUnchanged DEF startVars
  <2>4. DeathToldOnce'
    BY <2>1 DEF DeathToldOnce
  <2>5. FlagsTypeOK' /\ OnlyWhenConnected' /\ ShutdownOrder'
    BY <2>1, <2>2 DEF NanoInv, FlagsTypeOK, OnlyWhenConnected, ShutdownOrder, startVars
  <2> QED
    BY <2>2, <2>3, <2>4, <2>5 DEF NanoInv
<1>3. CASE OutputAcked
  <2>1. HbInv' /\ DeathToldOnce' /\ DiscInv' /\ SentIsTold'
    BY <1>3, HbUnchanged, DiscUnchanged DEF OutputAcked, startVars
  <2>2. FlagsTypeOK' /\ OnlyWhenConnected' /\ ShutdownOrder'
    BY <1>3 DEF OutputAcked, NanoInv, FlagsTypeOK, OnlyWhenConnected, ShutdownOrder,
                hbVars, discVars, startVars
  <2> QED
    BY <2>1, <2>2 DEF NanoInv
<1>4. CASE ShutdownPoll
  <2>1. /\ NanoShutdown /\ UNCHANGED <<hbTimers, proxy, martians, deaths>>
        /\ UNCHANGED <<discVars, startVars, sigterm, shuttingDown, outdone, commands>>
        /\ outdone
    BY <1>4 DEF ShutdownPoll
  <2>2. HbInv' /\ ended' = TRUE /\ \A a \in Peers : ~FindByAddress(listeners', a)
    BY <2>1, NanoShutdownLeaves DEF NanoInv, NanoShutdown
  <2>3. DiscInv' /\ SentIsTold'
    BY <2>1, DiscUnchanged DEF startVars
  <2>4. shuttingDown' /\ shuttingDown' = shuttingDown
    BY <2>1 DEF NanoInv, ShutdownOrder
  <2>5. DeathToldOnce'
    BY <2>4 DEF DeathToldOnce
  <2>6. FlagsTypeOK' /\ OnlyWhenConnected' /\ ShutdownOrder'
    BY <2>1, <2>2, <2>4 DEF NanoInv, FlagsTypeOK, OnlyWhenConnected, ShutdownOrder, startVars
  <2> QED
    BY <2>2, <2>3, <2>5, <2>6 DEF NanoInv
<1> QED
  BY <1>1, <1>2, <1>3, <1>4

\* Every step of a nanoprobe keeps the invariant.
LEMMA NanoInvStep == NanoInv /\ [Next]_vars => NanoInv'
<1>1. CASE UNCHANGED vars
  <2> SUFFICES ASSUME NanoInv PROVE NanoInv'
    BY <1>1
  <2>1. UNCHANGED <<hbVars, discVars, startVars, endVars, commands>>
    BY <1>1 DEF vars
  <2>2. HbInv' /\ DeathToldOnce' /\ DiscInv' /\ SentIsTold'
    BY <2>1, HbUnchanged, DiscUnchanged DEF startVars, endVars
  <2>3. FlagsTypeOK' /\ OnlyWhenConnected' /\ ShutdownOrder'
    BY <2>1 DEF NanoInv, FlagsTypeOK, OnlyWhenConnected, ShutdownOrder,
                hbVars, discVars, startVars, endVars
  <2> QED
    BY <2>2, <2>3 DEF NanoInv
<1>2. CASE Next
  BY <1>2, StartupKeeps, CommandKeeps, BeatKeeps, DiscoveryKeeps, ShutdownKeeps DEF Next
<1> QED
  BY <1>1, <1>2

-----------------------------------------------------------------------------
\* The invariant says what is wanted

\* An object has at most two references between two steps.
LEMMA NanoInvTypeOK == NanoInv => NanoTypeOK
<1> SUFFICES ASSUME NanoInv PROVE NanoTypeOK
  OBVIOUS
<1>1. Held(d, Nobody) /\ d \in Discoveries
  BY DEF NanoInv, DiscInv, Held
<1>2. ASSUME NEW o \in Objects
      PROVE  d.obj[o] \in JsonObject \cup {Free}
  <2>1. CASE o \in InUse(d)
    <3>1. d.obj[o] \in Object /\ d.obj[o].refs = InTable(d, o) + ByChild(d, o)
      BY <1>1, <2>1, HeldByNobody
    <3>2. d.obj[o].refs \in 1 .. 3
      BY <3>1 DEF InTable, ByChild, Object
    <3> QED
      BY <3>1, <3>2 DEF Object, JsonObject
  <2>2. CASE o \notin InUse(d)
    BY <1>1, <2>2, InUseIsObject
  <2> QED
    BY <2>1, <2>2
<1>3. DiscoveryTypeOK
  BY <1>1, <1>2 DEF DiscoveryTypeOK, NanoInv, DiscInv, Discoveries
<1> QED
  BY <1>3 DEF NanoTypeOK, NanoInv, HbInv, FlagsTypeOK

\* The table names an object under its own name or not at all.
LEMMA NanoInvReferences == NanoInv => ReferencesAreHeld
<1> SUFFICES ASSUME NanoInv, NEW o \in Objects
             PROVE  /\ d.obj[o].refs = Cardinality({i \in Instances : d.table[i] = o})
                                       + (IF d.obj[o].child THEN 1 ELSE 0)
                    /\ d.obj[o].timer => d.obj[o].refs > 0
  BY DEF ReferencesAreHeld
<1> DEFINE Entries == {i \in Instances : d.table[i] = o}
<1>1. Held(d, Nobody) /\ d \in Discoveries /\ TableIsRight(d)
  BY DEF NanoInv, DiscInv, Held
<1>2. \A i \in Entries : o \in InUse(d) /\ i = d.obj[o].name
  BY <1>1, DiscoveryAssumption DEF TableIsRight
<1>3. CASE o \in InUse(d)
  <2>1. d.obj[o] \in Object /\ d.obj[o].refs = InTable(d, o) + ByChild(d, o)
    BY <1>1, <1>3, HeldByNobody
  <2>2. d.obj[o].name \in Instances /\ d.obj[o].refs > 0
    BY <2>1 DEF Object
  <2>3. CASE d.table[d.obj[o].name] = o
    <3>1. Entries = {d.obj[o].name}
      BY <1>2, <2>2, <2>3
    <3>2. Cardinality(Entries) = 1
      BY <3>1, FS_Singleton
    <3> HIDE DEF Entries
    <3> QED
      BY <2>1, <2>2, <2>3, <3>2 DEF InTable, ByChild, Entries
  <2>4. CASE d.table[d.obj[o].name] # o
    <3>1. Entries = {}
      BY <1>2, <2>2, <2>4
    <3>2. Cardinality(Entries) = 0
      BY <3>1, FS_EmptySet
    <3> QED
      BY <2>1, <2>2, <2>4, <3>2 DEF InTable, ByChild
  <2> QED
    BY <2>3, <2>4
<1>4. CASE o \notin InUse(d)
  <2>1. d.obj[o].refs = 0 /\ ~d.obj[o].timer /\ ~d.obj[o].child
    BY <1>1, <1>4, InUseIsObject DEF Free
  <2>2. Entries = {}
    BY <1>2, <1>4
  <2>3. Cardinality(Entries) = 0
    BY <2>2, FS_EmptySet
  <2> QED
    BY <2>1, <2>3
<1> QED
  BY <1>3, <1>4

\* What a step may not do in shutdown.
QuietStep ==
    /\ Len(senders') <= Len(senders)
    /\ Addresses(listeners') \subseteq Addresses(listeners)
    /\ Running(d') \subseteq Running(d)

\* It does nothing of it: the commands that start something are ignored, the first
\* configuration has come, and a timer that is left finds that its child still runs.
LEMMA NanoInvQuiet ==
    ASSUME NanoInv, shuttingDown, Next
    PROVE  QuietStep
<1>1. /\ senders \in Seq(SendTo) /\ Len(senders) \in Nat /\ listeners \in Listeners
      /\ DiscInv /\ SentIsTold /\ HbInv /\ cmaKnown \in BOOLEAN
  BY LenProperties
     DEF NanoInv, HbInv, HbTypeOK, SenderTypeOK, Listeners, FlagsTypeOK
<1>2. ASSUME UNCHANGED <<senders, listeners, d>>
      PROVE  QuietStep
  BY <1>1, <1>2 DEF QuietStep
<1>3. CASE StartDiscovery \/ StartAsking
  BY <1>3 DEF StartDiscovery, StartAsking
<1>4. CASE ReqConfig \/ AckStartup \/ Signal \/ OutputAcked
  BY <1>2, <1>4 DEF ReqConfig, AskUnless, AckStartup, Signal, OutputAcked, hbVars, discVars
<1>5. CASE SetConfig
  <2>1. connected /\ UNCHANGED <<hbVars, d>>
    BY <1>5 DEF SetConfig, NanoInv, ShutdownOrder
  <2> QED
    BY <1>2, <2>1 DEF hbVars
<1>6. CASE Command
  <2>1. ASSUME NEW a \in SendTo, StopSendHb(a) PROVE QuietStep
    <3>1. senders' = StopSend(senders, a) /\ UNCHANGED <<listeners, d>>
      BY <2>1 DEF StopSendHb
    <3>2. Len(senders') <= Len(senders)
      BY <1>1, <3>1, StopSendType
    <3> QED
      BY <3>1, <3>2 DEF QuietStep
  <2>2. ASSUME NEW a \in Peers, listeners' = Unlisten(listeners, a)
        PROVE  Addresses(listeners') \subseteq Addresses(listeners)
    BY <1>1, <2>2, UnlistenLeaves DEF Addresses, FindByAddress
  <2>3. ASSUME NEW a \in Peers, StopExpectHb(a) PROVE QuietStep
    <3>1. UNCHANGED <<senders, d>> /\ Addresses(listeners') \subseteq Addresses(listeners)
      BY <2>2, <2>3 DEF StopExpectHb
    <3> QED
      BY <1>1, <3>1 DEF QuietStep
  <2>4. ASSUME NEW a \in Peers \cap SendTo, StopSendExpectHb(a) PROVE QuietStep
    <3>1. /\ senders' = StopSend(senders, a) /\ UNCHANGED d
          /\ Addresses(listeners') \subseteq Addresses(listeners)
      BY <2>2, <2>4 DEF StopSendExpectHb
    <3>2. Len(senders') <= Len(senders)
      BY <1>1, <3>1, StopSendType
    <3> QED
      BY <3>1, <3>2 DEF QuietStep
  <2>5. CASE StopDiscover
    BY <1>2, <2>5 DEF StopDiscover, hbVars
  <2>6. ~ObeyStart
    BY DEF ObeyStart
  <2> QED
    BY <1>6, <2>1, <2>3, <2>4, <2>5, <2>6
       DEF Command, SendHb, ExpectHb, SendExpectHb, StartDiscover
<1>7. ASSUME NEW a \in Peers, Heartbeat(a) PROVE QuietStep
  <2>1. listeners' = GotFrameSet(listeners, a) /\ UNCHANGED <<senders, d>>
    BY <1>7 DEF Heartbeat, discVars
  <2>2. Addresses(listeners') \subseteq Addresses(listeners)
    BY <1>1, <2>1, GotFrameSetLeaves DEF Addresses, FindByAddress
  <2> QED
    BY <1>1, <2>1, <2>2 DEF QuietStep
<1>8. CASE ListenerTimer \/ Tick
  <2>1. listeners' \in {CheckTimeouts(listeners), Silence(listeners)} /\ UNCHANGED <<senders, d>>
    BY <1>8 DEF ListenerTimer, Tick, discVars
  <2>2. Addresses(listeners') \subseteq Addresses(listeners)
    BY <1>1, <2>1, CheckTimeoutsLeaves, SilenceLeaves DEF Addresses, FindByAddress, Dying
  <2> QED
    BY <1>1, <2>1, <2>2 DEF QuietStep
<1>9. ASSUME NEW o \in Objects, DiscoveryTimer(o) PROVE QuietStep
  <2>1. \A i \in Instances : d.table[i] = NoObject
    BY <1>9 DEF DiscoveryTimer, NanoInv, ShutdownOrder
  <2>2. Running(d') = Running(d) /\ UNCHANGED <<senders, listeners>>
    BY <1>1, <1>9, <2>1, DiscoveryTimerKeeps DEF DiscoveryTimer, hbVars
  <2> QED
    BY <1>1, <2>2 DEF QuietStep
<1>10. ASSUME NEW o \in Objects, NEW out \in Outputs \cup {NoOutput}, ChildExit(o, out)
       PROVE  QuietStep
  <2>1. Running(d') \subseteq Running(d) /\ UNCHANGED <<senders, listeners>>
    BY <1>1, <1>10, ChildExitKeeps DEF ChildExit, hbVars
  <2> QED
    BY <1>1, <2>1 DEF QuietStep
<1>11. CASE CheckForSignals
  BY <1>11 DEF CheckForSignals
<1>12. CASE ShutdownPoll
  <2>1. /\ NanoShutdown /\ UNCHANGED <<hbTimers, proxy, martians, deaths, d>>
    BY <1>12 DEF ShutdownPoll, discVars
  <2>2. Len(senders') = 0 /\ \A a \in Peers : ~FindByAddress(listeners', a)
    BY <1>1, <2>1, NanoShutdownLeaves
  <2> QED
    BY <1>1, <2>1, <2>2 DEF QuietStep, Addresses
<1> QED
  BY <1>3, <1>4, <1>5, <1>6, <1>7, <1>8, <1>9, <1>10, <1>11, <1>12 DEF Next

-----------------------------------------------------------------------------
\* The theorems

\* The invariant holds in every state.
LEMMA NanoInvAlways == Spec => []NanoInv
<1>1. Init => NanoInv
  BY NanoInvInit
<1>2. NanoInv /\ [Next]_vars => NanoInv'
  BY NanoInvStep
<1> QED
  BY <1>1, <1>2, PTL DEF Spec

\* A nanoprobe's variables have their types in every state: the times of a listener
\* stay bounded and a discovery never has more than three references.
THEOREM NanoTypeCorrect == Spec => []NanoTypeOK
<1>1. NanoInv => NanoTypeOK
  BY NanoInvTypeOK
<1> QED
  BY <1>1, NanoInvAlways, PTL

\* The CMA is told of a death exactly once when a peer has timed out, and not when it
\* has not: no listener is there before the CMA is known, so that its timer never runs
\* out with nobody to tell (_real_deadtime_agent, nanoprobe_report_upstream).
THEOREM DeathIsToldOnce == Spec => []DeathToldOnce
<1>1. NanoInv => DeathToldOnce
  BY DEF NanoInv
<1> QED
  BY <1>1, NanoInvAlways, PTL

\* A discovery has one reference from the table when it is there and one from a running
\* child, through every displacement, failed spawn, finalization that takes another's
\* entry along, and discovery_unregister_all.
THEOREM ReferencesAlwaysHeld == Spec => []ReferencesAreHeld
<1>1. NanoInv => ReferencesAreHeld
  BY NanoInvReferences
<1> QED
  BY <1>1, NanoInvAlways, PTL

\* An output that counts as sent is what the CMA was last told (_discovery_sendjson).
THEOREM ChangesAreReported == Spec => []ChangeIsReported
<1>1. NanoInv => ChangeIsReported
  BY DEF NanoInv, SentIsTold, ChangeIsReported
<1> QED
  BY <1>1, NanoInvAlways, PTL

\* Once it shuts down a nanoprobe starts no sender, listener or child of a discovery.
THEOREM QuietShutdown == Spec => NothingStartsInShutdown
<1>1. NanoInv /\ [Next]_vars => [shuttingDown => QuietStep]_vars
  BY NanoInvQuiet
<1>2. Spec => [][shuttingDown => QuietStep]_vars
  BY <1>1, NanoInvAlways, PTL DEF Spec
<1> QED
  BY <1>2 DEF QuietStep, NothingStartsInShutdown
===============================================================================
