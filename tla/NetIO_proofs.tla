----------------------------- MODULE NetIO_proofs -----------------------------
(*****************************************************************************)
(* Proofs about NetIO and Packets for any frames, keys and bounds: that NetIO*)
(* is type correct, that a frameset arrives as it was made or can be told    *)
(* from what was made (ArrivesAsMade), and that it is wrapped once however   *)
(* often it is sent (WrappedOnce).                                           *)
(*                                                                           *)
(* The argument follows a frameset.  Its frame list is the one it was made   *)
(* with, or a signature, encryption and compression before it and an END     *)
(* behind (Wrapped); wrapping it again takes off what it was wrapped in.     *)
(* Marshalled, it is open or closed (Travelling): open, it is a signature    *)
(* and its frames; closed, it is a signature and one TLV that holds all the  *)
(* others, perhaps in a second one.  The network may change any TLV and the  *)
(* packet is one of these still.  Decoding reads an open packet in one turn  *)
(* and a closed one in as many as things close it, and makes of each frame   *)
(* the frame itself, or nothing; of what closes others it makes nothing at   *)
(* all if it was changed.                                                    *)
(*                                                                           *)
(* Marshalled and DecodeFrames are recursive functions of the number of      *)
(* frames and of turns.  That these functions exist, and what they are, is   *)
(* shown by induction over sets of naturals (SetInduction), from the least   *)
(* element that a set of naturals has.                                       *)
(*****************************************************************************)
EXTENDS NetIO, TLAPS, SequenceTheorems, FiniteSetTheorems, WellFoundedInduction

\* A set of naturals that is not empty has a least element.
LEMMA LeastNat ==
    ASSUME NEW T \in SUBSET Nat, T # {}
    PROVE  \E x \in T : \A y \in T : x <= y
<1> DEFINE R == OpToRel(<, Nat)
<1>1. IsWellFoundedOn(R, Nat)
  BY NatLessThanWellFounded
<1>2. \A x, y \in Nat : y < x => <<y, x>> \in R
  BY DEF OpToRel
<1> HIDE DEF R
<1>3. \E x \in T : \A y \in T : ~ (<<y, x>> \in R)
  BY <1>1, WFMin
<1>4. \A x, y \in T : ~(y < x) => x <= y
  OBVIOUS
<1>5. \A x, y \in T : ~ (<<y, x>> \in R) => ~(y < x)
  BY <1>2
<1>6. QED
  BY <1>3, <1>4, <1>5, Zenon

\* Induction: a set with 0, and with the successor of each of its elements, has them all.
LEMMA SetInduction ==
    ASSUME NEW T, 0 \in T, \A n \in Nat : n \in T => n + 1 \in T
    PROVE  Nat \subseteq T
<1> DEFINE Rest == Nat \ T
<1> SUFFICES Rest = {}
  OBVIOUS
<1> SUFFICES ASSUME Rest # {} PROVE FALSE
  OBVIOUS
<1>1. PICK x \in Rest : \A y \in Rest : x <= y
  <2>1. Rest \in SUBSET Nat
    OBVIOUS
  <2> HIDE DEF Rest
  <2>2. QED
    BY <2>1, LeastNat
<1>2. x \in Nat /\ x # 0 /\ x \notin T
  OBVIOUS
<1>3. x - 1 \in Nat /\ x - 1 < x /\ (x - 1) + 1 = x
  BY <1>2
<1>4. x - 1 \in T
  BY <1>1, <1>3
<1>5. QED
  BY <1>2, <1>3, <1>4

\* The same from an end down to 1
LEMMA DownInduction ==
    ASSUME NEW N \in Nat, NEW T, N + 1 \in T, \A i \in 1 .. N : i + 1 \in T => i \in T
    PROVE  1 .. N + 1 \subseteq T
<1> DEFINE U == {n \in Nat : n <= N => (N + 1) - n \in T}
<1>1. 0 \in U
  OBVIOUS
<1>2. ASSUME NEW n \in Nat, n \in U PROVE n + 1 \in U
  <2> SUFFICES ASSUME n + 1 <= N PROVE (N + 1) - (n + 1) \in T
    OBVIOUS
  <2> DEFINE i == N - n
  <2>1. i \in 1 .. N /\ (N + 1) - n = i + 1 /\ (N + 1) - (n + 1) = i
    OBVIOUS
  <2>2. (N + 1) - n \in T
    BY <1>2
  <2> HIDE DEF i
  <2>3. QED
    BY <2>1, <2>2
<1> HIDE DEF U
<1>3. Nat \subseteq U
  BY <1>1, <1>2, SetInduction
<1>4. ASSUME NEW i \in 1 .. N + 1 PROVE i \in T
  <2> DEFINE n == (N + 1) - i
  <2>1. n \in Nat /\ n <= N /\ (N + 1) - n = i
    OBVIOUS
  <2>2. n \in U
    BY <1>3, <2>1
  <2> HIDE DEF n
  <2>3. QED
    BY <2>1, <2>2 DEF U
<1>5. QED
  BY <1>4

-----------------------------------------------------------------------------
\* What the recursion of Marshalled says of a function
Marshals(frames, g, first) ==
    g = [i \in first .. Len(frames) + 1 |->
            IF i > Len(frames) THEN <<>> ELSE UpdateData(frames[i], g[i + 1])]

\* There is such a function of any frames: from the last frame down to the first.
LEMMA MarshalsExists ==
    ASSUME NEW frames, Len(frames) \in Nat
    PROVE  \E g : Marshals(frames, g, 1)
<1> DEFINE N == Len(frames)
           T == {i \in 1 .. N + 1 : \E g : Marshals(frames, g, i)}
<1>0. N \in Nat
  OBVIOUS
<1>1. N + 1 \in T
  <2> DEFINE g == [i \in N + 1 .. N + 1 |-> <<>>]
  <2>1. Marshals(frames, g, N + 1)
    BY DEF Marshals
  <2>2. QED
    BY <2>1
<1>2. ASSUME NEW i \in 1 .. N, i + 1 \in T PROVE i \in T
  <2>1. PICK g : Marshals(frames, g, i + 1)
    BY <1>2
  <2> DEFINE h == [j \in i .. N + 1 |-> IF j = i THEN UpdateData(frames[i], g[i + 1]) ELSE g[j]]
  <2>2. g = [j \in i + 1 .. N + 1 |-> IF j > N THEN <<>> ELSE UpdateData(frames[j], g[j + 1])]
    BY <2>1 DEF Marshals
  <2>3. \A j \in i + 1 .. N + 1 : h[j] = g[j] /\ j \in i .. N + 1
    OBVIOUS
  <2>4. ASSUME NEW j \in i .. N + 1
        PROVE  h[j] = IF j > N THEN <<>> ELSE UpdateData(frames[j], h[j + 1])
    <3>1. CASE j = i
      <4>1. h[j] = UpdateData(frames[i], g[i + 1]) /\ h[i + 1] = g[i + 1] /\ ~(i > N)
        BY <2>3, <3>1
      <4> HIDE DEF h
      <4>2. QED
        BY <3>1, <4>1
    <3>2. CASE j \in i + 1 .. N + 1
      <4>1. h[j] = g[j] /\ g[j] = IF j > N THEN <<>> ELSE UpdateData(frames[j], g[j + 1])
        BY <2>2, <2>3, <3>2
      <4>2. j <= N => h[j + 1] = g[j + 1]
        BY <2>3, <3>2
      <4> HIDE DEF h
      <4>3. QED
        BY <4>1, <4>2
    <3>3. QED
      BY <3>1, <3>2
  <2>5. h = [j \in i .. N + 1 |-> h[j]]
    OBVIOUS
  <2> HIDE DEF h
  <2>6. h = [j \in i .. N + 1 |-> IF j > N THEN <<>> ELSE UpdateData(frames[j], h[j + 1])]
    BY <2>4, <2>5
  <2>7. Marshals(frames, h, i)
    BY <2>6 DEF Marshals
  <2>8. QED
    BY <2>7
<1> HIDE DEF T
<1>3. 1 .. N + 1 \subseteq T
  BY <1>0, <1>1, <1>2, DownInduction
<1>4. 1 \in T
  BY <1>0, <1>3
<1>5. QED
  BY <1>4 DEF T

\* Marshalled is what it has for the first.
LEMMA MarshalledFrom ==
    ASSUME NEW frames, Len(frames) \in Nat
    PROVE  \E from : Marshals(frames, from, 1) /\ Marshalled(frames) = from[1]
<1> DEFINE from == CHOOSE g : Marshals(frames, g, 1)
<1>1. Marshals(frames, from, 1)
  BY MarshalsExists
<1>2. Marshalled(frames) = from[1]
  BY DEF Marshalled, Marshals
<1>3. QED
  BY <1>1, <1>2

-----------------------------------------------------------------------------
\* What the recursion of DecodeFrames says of a function
Reads(tlvs, g, N) ==
    g = [n \in N |-> IF n = 0 THEN [read |-> <<>>, rest |-> tlvs] ELSE ReadOn(g[n - 1])]

\* There is such a function of any TLVs: one turn after the other.
LEMMA ReadsExists ==
    ASSUME NEW tlvs PROVE \E g : Reads(tlvs, g, Nat)
<1> DEFINE start == [read |-> <<>>, rest |-> tlvs]
           To(n, g) == /\ g = [m \in 0 .. n |-> g[m]] /\ g[0] = start
                       /\ \A m \in 1 .. n : g[m] = ReadOn(g[m - 1])
           T == {n \in Nat : \E g : To(n, g)}
<1> HIDE DEF start
<1>1. 0 \in T
  <2> DEFINE g == [m \in 0 .. 0 |-> start]
  <2>1. To(0, g)
    OBVIOUS
  <2>2. QED
    BY <2>1
<1>2. ASSUME NEW n \in Nat, n \in T PROVE n + 1 \in T
  <2>1. PICK g : To(n, g)
    BY <1>2
  <2> DEFINE h == [m \in 0 .. n + 1 |-> IF m = n + 1 THEN ReadOn(g[n]) ELSE g[m]]
  <2>2. \A m \in 0 .. n : h[m] = g[m]
    OBVIOUS
  <2>3. h[n + 1] = ReadOn(h[n])
    BY <2>2
  <2>4. h = [m \in 0 .. n + 1 |-> h[m]]
    OBVIOUS
  <2> HIDE DEF h
  <2>5. h[0] = start
    BY <2>1, <2>2
  <2>6. ASSUME NEW m \in 1 .. n + 1 PROVE h[m] = ReadOn(h[m - 1])
    <3>1. CASE m = n + 1
      BY <2>3, <3>1
    <3>2. CASE m \in 1 .. n
      <4>0. m \in 0 .. n /\ m - 1 \in 0 .. n
        BY <3>2
      <4>1. h[m] = g[m] /\ h[m - 1] = g[m - 1]
        BY <2>2, <4>0
      <4>3. g[m] = ReadOn(g[m - 1])
        BY <2>1, <3>2
      <4>2. QED
        BY <4>1, <4>3
    <3>3. QED
      BY <3>1, <3>2
  <2>7. To(n + 1, h)
    BY <2>4, <2>5, <2>6
  <2> HIDE DEF To
  <2>8. QED
    BY <2>7
<1> HIDE DEF T
<1>3. Nat \subseteq T
  BY <1>1, <1>2, SetInduction
\* Any two of them agree where both are defined.
<1>4. ASSUME NEW k \in Nat, NEW g, To(k, g), NEW l \in Nat, NEW h, To(l, h), NEW n \in Nat
      PROVE  n <= k /\ n <= l => g[n] = h[n]
  <2> DEFINE U == {m \in Nat : m <= k /\ m <= l => g[m] = h[m]}
  <2>1. 0 \in U
    BY <1>4
  <2>2. ASSUME NEW m \in Nat, m \in U PROVE m + 1 \in U
    <3> SUFFICES ASSUME m + 1 <= k, m + 1 <= l PROVE g[m + 1] = h[m + 1]
      OBVIOUS
    <3>1. g[m] = h[m] /\ m + 1 \in 1 .. k /\ m + 1 \in 1 .. l /\ (m + 1) - 1 = m
      BY <2>2
    <3>2. g[m + 1] = ReadOn(g[m]) /\ h[m + 1] = ReadOn(h[m])
      BY <1>4, <3>1
    <3>3. QED
      BY <3>1, <3>2
  <2> HIDE DEF U
  <2>3. Nat \subseteq U
    BY <2>1, <2>2, SetInduction
  <2>4. QED
    BY <2>3 DEF U
<1> DEFINE first(n) == CHOOSE g : To(n, g)
           f == [n \in Nat |-> first(n)[n]]
<1>5. ASSUME NEW n \in Nat PROVE To(n, first(n))
  BY <1>3, <1>5 DEF T
<1> HIDE DEF first
<1>6. ASSUME NEW n \in Nat
      PROVE  f[n] = IF n = 0 THEN start ELSE ReadOn(f[n - 1])
  <2>0. To(n, first(n))
    BY <1>5
  <2>1. CASE n = 0
    BY <2>0, <2>1
  <2>2. CASE n # 0
    <3>1. n - 1 \in Nat /\ n - 1 <= n /\ n \in 1 .. n
      BY <2>2
    <3>2. To(n - 1, first(n - 1))
      BY <1>5, <3>1
    <3>3. first(n)[n] = ReadOn(first(n)[n - 1])
      BY <2>0, <3>1
    <3>4. first(n)[n - 1] = first(n - 1)[n - 1]
      <4> HIDE DEF To
      <4>1. QED
        BY <1>4, <2>0, <3>1, <3>2
    <3>5. f[n] = first(n)[n] /\ f[n - 1] = first(n - 1)[n - 1]
      BY <3>1
    <3> HIDE DEF f
    <3>6. QED
      BY <2>2, <3>3, <3>4, <3>5
  <2>3. QED
    BY <2>1, <2>2
<1>7. f = [n \in Nat |-> f[n]]
  OBVIOUS
<1> HIDE DEF f
<1>8. Reads(tlvs, f, Nat)
  BY <1>6, <1>7 DEF Reads, start
<1>9. QED
  BY <1>8

\* The classes of the frames that programs put into framesets
Plain == {"AddrFrame", "IpPortFrame", "IntFrame", "CstringFrame", "SeqnoFrame", "Frame"}

\* A frame as a record
Record(f) ==
    f = [class |-> f.class, known |-> f.known, length |-> f.length, value |-> f.value,
         intact |-> f.intact]

\* What changing a field, or two, makes of such a record
LEMMA RecordExcept ==
    ASSUME NEW r, Record(r), NEW v
    PROVE  Record([r EXCEPT !.value = v]) /\ Record([r EXCEPT !.length = v])
BY DEF Record

\* The same for its value and its length
LEMMA RecordExceptTwo ==
    ASSUME NEW r, Record(r), NEW v, NEW l
    PROVE  [r EXCEPT !.value = v, !.length = l] =
               [class |-> r.class, known |-> r.known, length |-> l, value |-> v,
                intact |-> r.intact]
<1> DEFINE s == [r EXCEPT !.value = v, !.length = l]
<1>1. s = [[r EXCEPT !.value = v] EXCEPT !.length = l]
  OBVIOUS
<1>2. Record(s)
  BY <1>1, RecordExcept
<1>3. /\ s.class = r.class /\ s.known = r.known /\ s.length = l /\ s.value = v
      /\ s.intact = r.intact
  BY DEF Record
<1> HIDE DEF s
<1>4. s = [class |-> r.class, known |-> r.known, length |-> l, value |-> v, intact |-> r.intact]
  BY <1>2, <1>3 DEF Record
<1>5. QED
  BY <1>4 DEF s

\* A frame that is made and given its value
LEMMA NewFrame ==
    ASSUME NEW c, NEW v, NEW l
    PROVE  SetValue(FrameNew(c), v, l) =
               [class |-> c, known |-> TRUE, length |-> l, value |-> v, intact |-> TRUE]
<1> DEFINE r == FrameNew(c)
<1>1. Record(r) /\ r.class = c /\ r.known = TRUE /\ r.intact = TRUE
  BY DEF Record, FrameNew
<1>2. SetValue(r, v, l) = [r EXCEPT !.value = v, !.length = l]
  BY DEF SetValue
<1> HIDE DEF r
<1>3. SetValue(r, v, l) = [class |-> r.class, known |-> r.known, length |-> l, value |-> v,
                           intact |-> r.intact]
  BY <1>1, <1>2, RecordExceptTwo
<1>4. SetValue(r, v, l) = [class |-> c, known |-> TRUE, length |-> l, value |-> v,
                           intact |-> TRUE]
  BY <1>1, <1>3, Zenon
<1>5. QED
  BY <1>4 DEF r

\* What a program puts into a frameset neither wraps nor ends it.
LEMMA PlainClasses == \A c \in Plain : c \notin Special /\ c # "End"
BY DEF Plain, Special

\* What a constructor makes is intact, and valid as its class has it.
LEMMA ConstructedFields ==
    ASSUME NEW f, Constructed(f)
    PROVE  /\ Record(f) /\ f.intact = TRUE /\ f.class \in Plain
           /\ f.known = (f.class # "Frame")
           /\ f.class = "AddrFrame" => AddrIsValid(f)
           /\ f.class = "IpPortFrame" => IpPortIsValid(f)
           /\ f.class = "IntFrame" =>
                /\ IntIsValid(f) /\ f.value = [int |-> f.value.int] /\ f.value.int \in Nat
                /\ f.length > 3 \/ f.value.int % (256 ^ f.length) = f.value.int
           /\ f.class = "SeqnoFrame" => SeqnoIsValid(f)
<1> USE DEF Record, Plain
<1>1. CASE f \in {AddrFrameIpv4, AddrFrameIpv6, AddrFrameMac48, AddrFrameMac64}
  <2>1. \E family \in {1, 2, 6}, size \in {4, 16, 6, 8} :
           /\ f = [class |-> "AddrFrame", known |-> TRUE, length |-> 2 + size,
                   value |-> [family |-> family], intact |-> TRUE]
           /\ \/ family = 1 /\ size = 4
              \/ family = 2 /\ size = 16
              \/ family = 6 /\ size \in {6, 8}
    BY <1>1 DEF AddrFrameIpv4, AddrFrameIpv6, AddrFrameMac48, AddrFrameMac64, AddrSetAddr,
       SetValue, FrameNew, ADDR_FAMILY_IPV4, ADDR_FAMILY_IPV6, ADDR_FAMILY_802
  <2>2. PICK family \in {1, 2, 6}, size \in {4, 16, 6, 8} :
           /\ f = [class |-> "AddrFrame", known |-> TRUE, length |-> 2 + size,
                   value |-> [family |-> family], intact |-> TRUE]
           /\ \/ family = 1 /\ size = 4
              \/ family = 2 /\ size = 16
              \/ family = 6 /\ size \in {6, 8}
    BY <2>1
  <2>3. /\ f.class = "AddrFrame" /\ f.known = TRUE /\ f.intact = TRUE
        /\ f.length = 2 + size /\ f.value.family = family
    BY <2>2
  <2>4. Record(f)
    BY <2>2
  <2>5. AddrIsValid(f)
    <3>1. f.length > 2 /\ f.length - 2 = size
      BY <2>3
    <3>2. QED
      BY <2>2, <2>3, <3>1 DEF AddrIsValid, ADDR_FAMILY_IPV4, ADDR_FAMILY_IPV6, ADDR_FAMILY_802
  <2>6. QED
    BY <2>3, <2>4, <2>5
<1>2. CASE f.class = "IpPortFrame" /\ f \in IpPortFrameNetAddr(f.value.family, f.value.port)
  <2> DEFINE family == f.value.family
             port == f.value.port
  <2>1. /\ port # 0
        /\ \/ family = 1 /\ f = IpPortSetAddr(1, port, 4)
           \/ family = 2 /\ f = IpPortSetAddr(2, port, 16)
    BY <1>2 DEF IpPortFrameNetAddr, IpPortFrameIpv4, IpPortFrameIpv6, ADDR_FAMILY_IPV4,
       ADDR_FAMILY_IPV6
  <2> HIDE DEF family, port
  <2>2. \E size \in {4, 16} :
           /\ f = [class |-> "IpPortFrame", known |-> TRUE, length |-> 4 + size,
                   value |-> [family |-> family, port |-> port], intact |-> TRUE]
           /\ \/ family = 1 /\ size = 4
              \/ family = 2 /\ size = 16
    <3>1. CASE family = 1 /\ f = IpPortSetAddr(1, port, 4)
      <4>1. f = [class |-> "IpPortFrame", known |-> TRUE, length |-> 4 + 4,
                 value |-> [family |-> family, port |-> port], intact |-> TRUE]
        BY <3>1, NewFrame, Zenon DEF IpPortSetAddr
      <4>2. 4 \in {4, 16}
        OBVIOUS
      <4> DEFINE four == 4
      <4>3. /\ f = [class |-> "IpPortFrame", known |-> TRUE, length |-> 4 + four,
                    value |-> [family |-> family, port |-> port], intact |-> TRUE]
            /\ family = 1 /\ four = 4
        BY <3>1, <4>1
      <4> HIDE DEF four
      <4>4. four \in {4, 16}
        BY DEF four
      <4>5. QED
        BY <4>3, <4>4
    <3>2. CASE family = 2 /\ f = IpPortSetAddr(2, port, 16)
      BY <3>2, NewFrame DEF IpPortSetAddr
    <3>3. QED
      BY <2>1, <3>1, <3>2
  <2>3. PICK size \in {4, 16} :
           /\ f = [class |-> "IpPortFrame", known |-> TRUE, length |-> 4 + size,
                   value |-> [family |-> family, port |-> port], intact |-> TRUE]
           /\ \/ family = 1 /\ size = 4
              \/ family = 2 /\ size = 16
    BY <2>2
  <2>4. /\ f.class = "IpPortFrame" /\ f.known = TRUE /\ f.intact = TRUE
        /\ f.length = 4 + size /\ f.value.family = family /\ f.value.port = port
    BY <2>3
  <2>5. Record(f)
    BY <2>3
  <2>6. IpPortIsValid(f)
    BY <2>1, <2>3, <2>4 DEF IpPortIsValid, ADDR_FAMILY_IPV4, ADDR_FAMILY_IPV6
  <2>7. QED
    BY <2>4, <2>5, <2>6
<1>3. CASE f.class = "IntFrame" /\ f.value.int \in Nat /\ f \in IntFrame(f.length, f.value.int)
  <2> DEFINE int == f.value.int
             bytes == f.length
  <2>1. bytes \in IntSizes /\ f = SetInt(SetValue(FrameNew("IntFrame"), [int |-> 0], bytes), int)
    BY <1>3 DEF IntFrame, IntNew
  <2>0. f.value.int = int /\ f.length = bytes
    OBVIOUS
  <2> HIDE DEF int, bytes
  <2> DEFINE g == [class |-> "IntFrame", known |-> TRUE, length |-> bytes,
                   value |-> [int |-> 0], intact |-> TRUE]
             h == [class |-> "IntFrame", known |-> TRUE, length |-> bytes,
                   value |-> [int |-> int], intact |-> TRUE]
  <2>2. SetValue(FrameNew("IntFrame"), [int |-> 0], bytes) = g
    BY NewFrame, Zenon
  <2>3. SetInt(g, int) = IF bytes > 3 \/ int < 256 ^ bytes THEN h ELSE g
    <3>1. Record(g) /\ g.length = bytes /\ g.class = "IntFrame" /\ g.known = TRUE /\ g.intact = TRUE
      BY DEF Record
    <3>2. SetValue(g, [int |-> int], bytes) = [g EXCEPT !.value = [int |-> int], !.length = bytes]
      BY DEF SetValue
    <3> HIDE DEF g
    <3>3. SetValue(g, [int |-> int], bytes) =
              [class |-> g.class, known |-> g.known, length |-> bytes, value |-> [int |-> int],
               intact |-> g.intact]
      BY <3>1, <3>2, RecordExceptTwo
    <3>4. SetValue(g, [int |-> int], bytes) = h
      BY <3>1, <3>3, Zenon
    <3> HIDE DEF h
    <3>5. QED
      BY <3>1, <3>4 DEF SetInt
  <2>4. f = h \/ f = g
    BY <2>1, <2>2, <2>3
  <2>5. f.value = [int |-> int]
    <3>1. f = g => int = 0
      BY <2>0
    <3>2. QED
      BY <2>4, <3>1
  <2>6. /\ f.class = "IntFrame" /\ f.known = TRUE /\ f.intact = TRUE /\ Record(f)
    BY <2>4
  <2>7. bytes \in {1, 2, 3, 4, 8}
    BY <2>1 DEF IntSizes
  <2>8. bytes > 3 \/ int < 256 ^ bytes \/ int = 0
    <3>1. CASE bytes > 3 \/ int < 256 ^ bytes
      BY <3>1
    <3>2. CASE ~(bytes > 3 \/ int < 256 ^ bytes)
      <4>1. f = g
        BY <2>1, <2>2, <2>3, <3>2
      <4>2. QED
        BY <2>0, <4>1
    <3>3. QED
      BY <3>1, <3>2
  <2>9. int \in Nat
    BY <1>3, <2>0
  <2>10. bytes > 3 \/ (256 ^ bytes \in Int /\ 0 < 256 ^ bytes)
    <3>1. CASE bytes = 1
      BY <3>1
    <3>2. CASE bytes = 2
      BY <3>2
    <3>3. CASE bytes = 3
      BY <3>3
    <3>4. CASE bytes = 4
      BY <3>4
    <3>5. CASE bytes = 8
      BY <3>5
    <3>6. QED
      BY <2>7, <3>1, <3>2, <3>3, <3>4, <3>5
  <2>11. bytes > 3 \/ int % (256 ^ bytes) = int
    BY <2>8, <2>9, <2>10
  <2>12. IntIsValid(f)
    BY <2>0, <2>1 DEF IntIsValid
  <2>13. QED
    BY <2>0, <2>5, <2>6, <2>9, <2>11, <2>12
<1>4. CASE f.class = "CstringFrame" /\ f = CstringFrame(f.length, f.length)
  BY <1>4 DEF CstringFrame, SetValue, FrameNew
<1>5. CASE f.class = "SeqnoFrame" /\ f = SeqnoFrame(f.value.reqid, f.value.qid)
  BY <1>5 DEF SeqnoFrame, SeqnoNew, SetValue, FrameNew, SeqnoIsValid
<1>6. CASE f.class = "Frame" /\ f = NewerFrame(f.length)
  BY <1>6 DEF NewerFrame, SetValue, FrameNew
<1>7. QED
  BY <1>1, <1>2, <1>3, <1>4, <1>5, <1>6 DEF Constructed

\* A frame as it is when its receiver looks at it: as it was made, or changed on its way
IsPlain(f, made) ==
    /\ Constructed(made)
    /\ f = made \/ f = [made EXCEPT !.intact = FALSE]

\* It has all of what was made, but what says whether it was changed.
LEMMA PlainFields ==
    ASSUME NEW f, NEW made, IsPlain(f, made)
    PROVE  /\ Record(f) /\ f.class = made.class /\ f.known = made.known
           /\ f.length = made.length /\ f.value = made.value
           /\ f.intact = (f = made)
<1>1. Record(made) /\ made.intact = TRUE
  BY ConstructedFields DEF IsPlain
<1>2. QED
  BY <1>1 DEF IsPlain, Record

\* A constructed frame writes itself before the others, and leaves them as they are.
LEMMA PlainUpdate ==
    ASSUME NEW f, Constructed(f), NEW rest
    PROVE  UpdateData(f, rest) = <<f>> \o rest
<1>1. Record(f) /\ f.class \in Plain
  BY ConstructedFields
<1>2. CASE f.class = "IntFrame"
  <2>0. UpdateData(f, rest) = IntUpdateData(f, rest)
    BY <1>2 DEF UpdateData
  <2>1. CASE f.length > 3
    BY <2>0, <2>1 DEF IntUpdateData
  <2>2. CASE ~(f.length > 3)
    <3>1. f.value = [int |-> f.value.int] /\ f.value.int % (256 ^ f.length) = f.value.int
      BY <1>2, <2>2, ConstructedFields
    <3> DEFINE v == f.value.int
               p == f.value.int % (256 ^ f.length)
    <3>2. IntUpdateData(f, rest) = <<[f EXCEPT !.value.int = p]>> \o rest
      BY <2>2 DEF IntUpdateData
    <3> HIDE DEF p
    <3>3. p = v
      BY <3>1 DEF p
    <3>4. [f EXCEPT !.value.int = v] = f
      <4>1. [f.value EXCEPT !.int = v] = f.value
        BY <3>1
      <4>2. [f EXCEPT !.value.int = v] = [f EXCEPT !.value = [f.value EXCEPT !.int = v]]
        OBVIOUS
      <4>3. [f EXCEPT !.value = f.value] = f
        BY <1>1 DEF Record
      <4>4. QED
        BY <4>1, <4>2, <4>3
    <3>5. QED
      BY <2>0, <3>2, <3>3, <3>4
  <2>3. QED
    BY <2>1, <2>2
<1>3. CASE f.class # "IntFrame"
  BY <1>1, <1>3 DEF UpdateData, Plain
<1>4. QED
  BY <1>2, <1>3

\* What a receiver makes of a constructed frame: the frame, or the same unknown.
AsRead(f) == IF f.known THEN f ELSE [f EXCEPT !.class = "UnknownFrame"]

\* A receiver makes it of its TLV.
LEMMA PlainRead ==
    ASSUME NEW f, NEW made, IsPlain(f, made), NEW keys
    PROVE  FrameObject(f, keys) = {AsRead(f)}
<1>1. /\ f.class = made.class /\ f.known = made.known
      /\ f.length = made.length /\ f.value = made.value
  BY PlainFields
<1>2. /\ made.class \in Plain /\ made.known = (made.class # "Frame")
      /\ made.class = "AddrFrame" => AddrIsValid(made)
      /\ made.class = "IpPortFrame" => IpPortIsValid(made)
      /\ made.class = "IntFrame" => IntIsValid(made)
      /\ made.class = "SeqnoFrame" => SeqnoIsValid(made)
  BY ConstructedFields DEF IsPlain
<1>3. /\ f.class = "AddrFrame" => AddrIsValid(f)
      /\ f.class = "IpPortFrame" => IpPortIsValid(f)
      /\ f.class = "IntFrame" => IntIsValid(f)
      /\ f.class = "SeqnoFrame" => SeqnoIsValid(f)
  BY <1>1, <1>2 DEF AddrIsValid, IpPortIsValid, IntIsValid, SeqnoIsValid
<1>4. CASE f.class = "Frame"
  <2>1. ~f.known
    BY <1>1, <1>2, <1>4
  <2>2. FrameObject(f, keys) = UnknownFromTlv(f)
    BY <2>1 DEF FrameObject
  <2>3. QED
    BY <2>1, <2>2 DEF UnknownFromTlv, AsRead
<1>5. CASE f.class \in Plain \ {"Frame"}
  <2>1. f.known
    BY <1>1, <1>2, <1>5
  <2>2. AsRead(f) = f
    BY <2>1 DEF AsRead
  <2>3. CASE f.class = "AddrFrame"
    BY <1>3, <2>1, <2>2, <2>3 DEF FrameObject, AddrFromTlv
  <2>4. CASE f.class = "IpPortFrame"
    BY <1>3, <2>1, <2>2, <2>4 DEF FrameObject, IpPortFromTlv
  <2>5. CASE f.class = "IntFrame"
    BY <1>3, <2>1, <2>2, <2>5 DEF FrameObject, IntFromTlv
  <2>6. CASE f.class = "CstringFrame"
    BY <1>3, <2>1, <2>2, <2>6 DEF FrameObject, CstringFromTlv
  <2>7. CASE f.class = "SeqnoFrame"
    BY <1>3, <2>1, <2>2, <2>7 DEF FrameObject, SeqnoFromTlv
  <2>8. QED
    BY <1>5, <2>3, <2>4, <2>5, <2>6, <2>7 DEF Plain
<1>6. QED
  BY <1>1, <1>2, <1>4, <1>5

\* What a constructor makes is valid, unless it is of a newer version of the program, and
\* a receiver makes the same of it.
THEOREM ConstructedIsValid ==
    ASSUME NEW f, Constructed(f), f.known, NEW keys
    PROVE  IsValid(f) /\ FrameObject(f, keys) = {f}
<1>1. FrameObject(f, keys) = {f}
  BY PlainRead DEF IsPlain, AsRead
<1>2. IsValid(f)
  <2>1. CASE f.class = "CstringFrame"
    <3>1. f.length \in Nat \ {0} /\ f = CstringFrame(f.length, f.length)
      <4>1. \A g \in {AddrFrameIpv4, AddrFrameIpv6, AddrFrameMac48, AddrFrameMac64} :
                g.class = "AddrFrame"
        BY DEF AddrFrameIpv4, AddrFrameIpv6, AddrFrameMac48, AddrFrameMac64, AddrSetAddr,
           SetValue, FrameNew
      <4>2. QED
        BY <2>1, <4>1 DEF Constructed
    <3>2. f.value.nul = f.length
      <4>1. \A n : CstringFrame(n, n).value.nul = n
        BY DEF CstringFrame, SetValue, FrameNew
      <4>2. QED
        BY <3>1, <4>1
    <3>3. QED
      BY <2>1, <3>1, <3>2 DEF IsValid, CstringIsValid
  <2>2. CASE f.class # "CstringFrame"
    <3>1. /\ f.class \in Plain \ {"Frame", "CstringFrame"}
          /\ f.class = "AddrFrame" => AddrIsValid(f)
          /\ f.class = "IpPortFrame" => IpPortIsValid(f)
          /\ f.class = "IntFrame" => IntIsValid(f)
          /\ f.class = "SeqnoFrame" => SeqnoIsValid(f)
      BY <2>2, ConstructedFields
    <3>2. QED
      BY <3>1 DEF IsValid, Plain
  <2>3. QED
    BY <2>1, <2>2
<1>3. QED
  BY <1>1, <1>2

-----------------------------------------------------------------------------
\* A sequence, of whatever elements
Listed(s) == \E S : s \in Seq(S)

\* It has a length, and elements up to that.
LEMMA ListFacts ==
    ASSUME NEW s, Listed(s)
    PROVE  Len(s) \in Nat /\ DOMAIN s = 1 .. Len(s) /\ (s = <<>> <=> Len(s) = 0)
<1>1. PICK S : s \in Seq(S)
  BY DEF Listed
<1>2. QED
  BY <1>1, LenProperties, EmptySeq

\* Sequences of the same elements are the same.
LEMMA ListEqual ==
    ASSUME NEW s, NEW t, Listed(s), Listed(t), Len(s) = Len(t),
           \A i \in 1 .. Len(s) : s[i] = t[i]
    PROVE  s = t
<1>1. PICK S : s \in Seq(S)
  BY DEF Listed
<1>2. PICK T : t \in Seq(T)
  BY DEF Listed
<1>3. s \in Seq(S \cup T) /\ t \in Seq(S \cup T)
  BY <1>1, <1>2, SeqMonotonic
<1>4. QED
  BY <1>3, SeqEqual

\* One behind the other, they are a sequence of both.
LEMMA ListJoin ==
    ASSUME NEW s, NEW t, Listed(s), Listed(t)
    PROVE  /\ Listed(s \o t) /\ Len(s \o t) = Len(s) + Len(t)
           /\ \A i \in 1 .. Len(s) : (s \o t)[i] = s[i]
           /\ \A i \in 1 .. Len(t) : (s \o t)[Len(s) + i] = t[i]
<1>1. PICK S : s \in Seq(S)
  BY DEF Listed
<1>2. PICK T : t \in Seq(T)
  BY DEF Listed
<1> DEFINE m == Len(s)
           n == Len(t)
           U == S \cup T
<1>3. s \in Seq(U) /\ t \in Seq(U)
  BY <1>1, <1>2, SeqMonotonic
<1>0. m \in Nat /\ n \in Nat
  BY ListFacts
<1> HIDE DEF U
<1>4. /\ s \o t \in Seq(U) /\ Len(s \o t) = m + n
      /\ \A i \in 1 .. m + n : (s \o t)[i] = IF i <= m THEN s[i] ELSE t[i - m]
  BY <1>3, ConcatProperties
<1> HIDE DEF m, n
<1>5. ASSUME NEW i \in 1 .. n PROVE (s \o t)[m + i] = t[i]
  <2>1. m + i \in 1 .. m + n /\ ~(m + i <= m) /\ (m + i) - m = i
    BY <1>0
  <2>2. QED
    BY <1>4, <2>1
<1>6. ASSUME NEW i \in 1 .. m PROVE (s \o t)[i] = s[i]
  BY <1>0, <1>4
<1>7. Listed(s \o t)
  BY <1>4 DEF Listed
<1>8. QED
  BY <1>4, <1>5, <1>6, <1>7 DEF m, n

\* It does not matter which two are joined first, or whether with nothing.
LEMMA ListAssociative ==
    ASSUME NEW s, NEW t, NEW u, Listed(s), Listed(t), Listed(u)
    PROVE  (s \o t) \o u = s \o (t \o u)
<1>1. PICK S : s \in Seq(S)
  BY DEF Listed
<1>2. PICK T : t \in Seq(T)
  BY DEF Listed
<1>3. PICK U : u \in Seq(U)
  BY DEF Listed
<1>4. s \in Seq(S \cup T \cup U) /\ t \in Seq(S \cup T \cup U) /\ u \in Seq(S \cup T \cup U)
  BY <1>1, <1>2, <1>3, SeqMonotonic
<1>5. QED
  BY <1>4, ConcatAssociative

\* Nothing is a sequence, and adds nothing to another.
LEMMA ListNothing ==
    /\ Listed(<<>>) /\ Len(<<>>) = 0
    /\ \A s : Listed(s) => s \o <<>> = s /\ <<>> \o s = s
<1>1. Listed(<<>>) /\ Len(<<>>) = 0
  BY EmptySeq DEF Listed
<1>2. ASSUME NEW s, Listed(s) PROVE s \o <<>> = s /\ <<>> \o s = s
  <2>1. PICK S : s \in Seq(S)
    BY <1>2 DEF Listed
  <2>2. QED
    BY <2>1, ConcatEmptySeq
<1>3. QED
  BY <1>1, <1>2

\* A sequence of one element
LEMMA ListOne ==
    ASSUME NEW x PROVE Listed(<<x>>) /\ Len(<<x>>) = 1 /\ <<x>>[1] = x
<1>1. <<x>> \in Seq({x})
  OBVIOUS
<1>2. QED
  BY <1>1 DEF Listed

\* A sequence of two
LEMMA ListTwo ==
    ASSUME NEW x, NEW y
    PROVE  /\ Listed(<<x, y>>) /\ Len(<<x, y>>) = 2
           /\ <<x, y>>[1] = x /\ <<x, y>>[2] = y
           /\ <<x>> \o <<y>> = <<x, y>>
<1>1. <<x, y>> \in Seq({x, y})
  OBVIOUS
<1>2. Listed(<<x, y>>) /\ Len(<<x, y>>) = 2 /\ <<x, y>>[1] = x /\ <<x, y>>[2] = y
  BY <1>1 DEF Listed
<1> DEFINE s == <<x>>
           t == <<y>>
           u == <<x, y>>
<1>3. Listed(s) /\ Len(s) = 1 /\ s[1] = x /\ Listed(t) /\ Len(t) = 1 /\ t[1] = y
  BY ListOne
<1>4. Listed(u) /\ Len(u) = 2 /\ u[1] = x /\ u[2] = y
  BY <1>2
<1> HIDE DEF s, t, u
<1> DEFINE v == s \o t
<1>50. Listed(s) /\ Listed(t)
  BY <1>3
<1>5. Listed(v)
  BY <1>50, ListJoin
<1>51. Len(s \o t) = Len(s) + Len(t)
  BY <1>50, ListJoin
<1>52. \A i \in 1 .. Len(s) : (s \o t)[i] = s[i]
  BY <1>50, ListJoin
<1>53. \A i \in 1 .. Len(t) : (s \o t)[Len(s) + i] = t[i]
  BY <1>50, ListJoin
<1>54. /\ Len(v) = Len(s) + Len(t) /\ \A i \in 1 .. Len(s) : v[i] = s[i]
       /\ \A i \in 1 .. Len(t) : v[Len(s) + i] = t[i]
  BY <1>51, <1>52, <1>53, Zenon
<1> HIDE DEF v
<1>6. Len(v) = 2 /\ v[1] = x /\ v[2] = y
  BY <1>3, <1>54
<1>7. v = u
  BY <1>4, <1>5, <1>6, ListEqual
<1>8. QED
  BY <1>2, <1>7 DEF s, t, u, v

\* A sequence with an element before it
LEMMA ListFirst ==
    ASSUME NEW x, NEW s, Listed(s)
    PROVE  /\ Listed(<<x>> \o s) /\ Len(<<x>> \o s) = Len(s) + 1
           /\ (<<x>> \o s)[1] = x
           /\ \A i \in 1 .. Len(s) : (<<x>> \o s)[i + 1] = s[i]
<1> DEFINE t == <<x>>
<1>1. Listed(t) /\ Len(t) = 1 /\ t[1] = x
  BY ListOne
<1> HIDE DEF t
<1>20. Listed(t)
  BY <1>1
<1>2. Listed(t \o s) /\ Len(t \o s) = Len(t) + Len(s)
  BY <1>20, ListJoin
<1>21. \A i \in 1 .. Len(t) : (t \o s)[i] = t[i]
  BY <1>20, ListJoin
<1>22. \A i \in 1 .. Len(s) : (t \o s)[Len(t) + i] = s[i]
  BY <1>20, ListJoin
<1>3. Len(s) \in Nat
  BY ListFacts
<1> DEFINE v == t \o s
<1>4. /\ Len(v) = Len(t) + Len(s) /\ \A i \in 1 .. Len(t) : v[i] = t[i]
      /\ \A i \in 1 .. Len(s) : v[Len(t) + i] = s[i]
  BY <1>2, <1>21, <1>22, Zenon
<1>5. Listed(v)
  BY <1>2
<1> HIDE DEF v
<1>6. Len(v) = Len(s) + 1 /\ v[1] = x /\ \A i \in 1 .. Len(s) : v[i + 1] = s[i]
  BY <1>1, <1>3, <1>4
<1>7. QED
  BY <1>5, <1>6 DEF t, v

\* A part of a sequence
LEMMA ListPart ==
    ASSUME NEW s, Listed(s), NEW m \in 1 .. Len(s) + 1, NEW n \in 0 .. Len(s)
    PROVE  /\ Listed(SubSeq(s, m, n))
           /\ Len(SubSeq(s, m, n)) = IF m <= n THEN (n - m) + 1 ELSE 0
           /\ \A i \in 1 .. Len(SubSeq(s, m, n)) : SubSeq(s, m, n)[i] = s[(m + i) - 1]
<1>1. PICK S : s \in Seq(S)
  BY DEF Listed
<1>2. \A i \in m .. n : s[i] \in S
  BY <1>1, ElementOfSeq, ListFacts
<1>3. /\ SubSeq(s, m, n) \in Seq(S)
      /\ Len(SubSeq(s, m, n)) = IF m <= n THEN n - m + 1 ELSE 0
      /\ \A i \in 1 .. n - m + 1 : SubSeq(s, m, n)[i] = s[m + i - 1]
  BY <1>2, ListFacts, SubSeqProperties
<1>4. Len(s) \in Nat
  BY ListFacts
<1>5. QED
  BY <1>3, <1>4 DEF Listed

-----------------------------------------------------------------------------
\* A frame before others is updated with what these write.
LEMMA MarshalledFirst ==
    ASSUME NEW f, NEW frames, Listed(frames)
    PROVE  Marshalled(<<f>> \o frames) = UpdateData(f, Marshalled(frames))
<1> DEFINE all == <<f>> \o frames
           N == Len(frames)
<1>1. N \in Nat
  BY ListFacts
<1>2. Len(all) = N + 1 /\ all[1] = f /\ \A i \in 1 .. N : all[i + 1] = frames[i]
  BY ListFirst
<1> HIDE DEF all
<1>3. PICK g : Marshals(all, g, 1) /\ Marshalled(all) = g[1]
  <2>1. Len(all) \in Nat
    BY <1>1, <1>2
  <2>2. QED
    BY <2>1, MarshalledFrom
<1>4. PICK h : Marshals(frames, h, 1) /\ Marshalled(frames) = h[1]
  BY <1>1, MarshalledFrom
<1>5. \A i \in 1 .. N + 2 :
        g[i] = IF i > N + 1 THEN <<>> ELSE UpdateData(all[i], g[i + 1])
  <2>1. Len(all) + 1 = N + 2
    BY <1>1, <1>2
  <2>2. QED
    BY <1>2, <1>3, <2>1 DEF Marshals
<1>6. \A i \in 1 .. N + 1 :
        h[i] = IF i > N THEN <<>> ELSE UpdateData(frames[i], h[i + 1])
  BY <1>4 DEF Marshals
<1> HIDE DEF N
<1> DEFINE T == {i \in 1 .. N + 1 : g[i + 1] = h[i]}
<1>7. N + 1 \in T
  <2>1. g[N + 2] = <<>> /\ h[N + 1] = <<>> /\ N + 2 = (N + 1) + 1
    BY <1>1, <1>5, <1>6
  <2>2. QED
    BY <1>1, <2>1
<1>8. ASSUME NEW i \in 1 .. N, i + 1 \in T PROVE i \in T
  <2>1. /\ i \in 1 .. N + 1 /\ ~(i > N)
        /\ i + 1 \in 1 .. N + 2 /\ ~(i + 1 > N + 1)
    BY <1>1
  <2>2. h[i] = UpdateData(frames[i], h[i + 1])
    BY <1>6, <2>1
  <2>3. g[i + 1] = UpdateData(all[i + 1], g[(i + 1) + 1])
    BY <1>5, <2>1
  <2>4. all[i + 1] = frames[i] /\ g[(i + 1) + 1] = h[i + 1]
    BY <1>2, <1>8 DEF N
  <2>5. g[i + 1] = h[i]
    BY <2>2, <2>3, <2>4
  <2>6. QED
    BY <2>1, <2>5
<1> HIDE DEF T
<1>9. 1 .. N + 1 \subseteq T
  BY <1>1, <1>7, <1>8, DownInduction
<1>10. g[2] = h[1]
  <2>1. 1 \in 1 .. N + 1
    BY <1>1
  <2>2. 1 \in T
    BY <1>9, <2>1
  <2>3. QED
    BY <2>2 DEF T
<1>11. g[1] = UpdateData(f, g[2])
  <2>1. 1 \in 1 .. N + 2 /\ ~(1 > N + 1)
    BY <1>1
  <2>2. QED
    BY <1>2, <1>5, <2>1
<1>12. QED
  BY <1>3, <1>4, <1>10, <1>11 DEF all

\* Frames that do no more than to write themselves stay as they are.
LEMMA MarshalledAsIs ==
    ASSUME NEW body, Listed(body),
           \A i \in 1 .. Len(body) : \A rest : UpdateData(body[i], rest) = <<body[i]>> \o rest
    PROVE  Marshalled(body) = body
<1> DEFINE N == Len(body)
<1>1. N \in Nat
  BY ListFacts
<1>0. PICK S : body \in Seq(S)
  BY DEF Listed
<1>2. PICK g : Marshals(body, g, 1) /\ Marshalled(body) = g[1]
  BY <1>1, MarshalledFrom
<1>3. \A i \in 1 .. N + 1 :
        g[i] = IF i > N THEN <<>> ELSE UpdateData(body[i], g[i + 1])
  BY <1>2 DEF Marshals
<1> DEFINE T == {i \in 1 .. N + 1 : g[i] = SubSeq(body, i, N)}
<1>4. N + 1 \in T
  <2>1. g[N + 1] = <<>>
    BY <1>1, <1>3
  <2>2. SubSeq(body, N + 1, N) = <<>>
    <3> HIDE DEF N
    <3>1. N + 1 \in Int /\ N \in Int /\ N < N + 1
      BY <1>1
    <3>2. QED
      BY <3>1, SubSeqEmpty
  <2>3. g[N + 1] = SubSeq(body, N + 1, N)
    BY <2>1, <2>2, Zenon
  <2>4. N + 1 \in 1 .. N + 1
    BY <1>1
  <2>5. QED
    BY <2>3, <2>4, Zenon
<1>5. ASSUME NEW i \in 1 .. N, i + 1 \in T PROVE i \in T
  <2>1. i \in 1 .. N + 1 /\ ~(i > N) /\ N \in i .. N
    BY <1>1
  <2>2. g[i] = UpdateData(body[i], g[i + 1])
    BY <1>3, <2>1
  <2>3. UpdateData(body[i], g[i + 1]) = <<body[i]>> \o g[i + 1]
    OBVIOUS
  <2>4. g[i + 1] = SubSeq(body, i + 1, N)
    BY <1>5
  <2>5. SubSeq(body, i, N) = <<body[i]>> \o SubSeq(body, i + 1, N)
    BY <1>0, <1>1, <2>1, SubSeqRecursiveFirst
  <2>6. g[i] = SubSeq(body, i, N)
    BY <2>2, <2>3, <2>4, <2>5, Zenon
  <2>7. QED
    BY <2>1, <2>6
<1> HIDE DEF T, N
<1>6. 1 .. N + 1 \subseteq T
  BY <1>1, <1>4, <1>5, DownInduction
<1>7. 1 \in T
  BY <1>1, <1>6
<1>8. QED
  BY <1>0, <1>2, <1>7, SubSeqFull DEF T, N

-----------------------------------------------------------------------------
\* What remains without the frames of an earlier wrapping: all behind them
LEMMA BehindSpecial ==
    ASSUME NEW pre, NEW body, Listed(pre), Listed(body), body # <<>>,
           \A i \in 1 .. Len(pre) : pre[i].class \in Special,
           body[1].class \notin Special
    PROVE  WithoutSpecial(pre \o body) = body
<1> DEFINE frames == pre \o body
           m == Len(pre)
           n == Len(body)
<1>1. m \in Nat /\ n \in Nat /\ n # 0
  BY ListFacts
<1>2. Listed(frames) /\ Len(frames) = m + n
  BY ListJoin
<1>3. \A i \in 1 .. m : frames[i] = pre[i]
  BY ListJoin
<1>4. \A i \in 1 .. n : frames[m + i] = body[i]
  BY ListJoin
<1> HIDE DEF frames
<1> DEFINE bare == {i \in 1 .. Len(frames) : frames[i].class \notin Special}
           first == CHOOSE i \in bare : \A j \in bare : i <= j
<1>5. m + 1 \in bare
  <2>1. m + 1 \in 1 .. Len(frames) /\ 1 \in 1 .. n
    BY <1>1, <1>2
  <2>2. frames[m + 1] = body[1]
    BY <1>4, <2>1
  <2>3. QED
    BY <2>1, <2>2
<1>6. \A j \in bare : m + 1 <= j /\ j \in Nat
  <2> SUFFICES ASSUME NEW j \in 1 .. Len(frames), frames[j].class \notin Special
               PROVE  m + 1 <= j /\ j \in Nat
    OBVIOUS
  <2>1. j \in Nat /\ j >= 1
    BY <1>1, <1>2
  <2>2. ~(j <= m)
    <3> SUFFICES ASSUME j <= m PROVE FALSE
      OBVIOUS
    <3>1. j \in 1 .. m
      BY <1>1, <2>1
    <3>2. QED
      BY <1>3, <3>1
  <2>3. QED
    BY <1>1, <2>1, <2>2
<1>7. WithoutSpecial(frames) = SubSeq(frames, first, Len(frames))
  BY <1>5 DEF WithoutSpecial
<1> HIDE DEF bare
<1>8. first = m + 1
  <2>1. first \in bare /\ \A j \in bare : first <= j
    BY <1>5, <1>6
  <2> HIDE DEF first
  <2>2. QED
    BY <1>1, <1>5, <1>6, <2>1
<1> HIDE DEF first
<1> DEFINE part == SubSeq(frames, m + 1, m + n)
<1>9. part = body
  <2>1. /\ Listed(part) /\ Len(part) = IF m + 1 <= m + n THEN ((m + n) - (m + 1)) + 1 ELSE 0
        /\ \A i \in 1 .. Len(part) : part[i] = frames[((m + 1) + i) - 1]
    <3>1. m + 1 \in 1 .. Len(frames) + 1 /\ m + n \in 0 .. Len(frames)
      BY <1>1, <1>2
    <3>2. QED
      BY <1>2, <3>1, ListPart
  <2> HIDE DEF part, m, n
  <2>2. Len(part) = n
    BY <1>1, <2>1
  <2>3. ASSUME NEW i \in 1 .. n PROVE part[i] = body[i]
    <3>1. ((m + 1) + i) - 1 = m + i
      BY <1>1
    <3>2. QED
      BY <1>4, <2>1, <2>2, <3>1
  <2>4. QED
    BY <2>1, <2>2, <2>3, ListEqual DEF n
<1>10. QED
  BY <1>2, <1>7, <1>8, <1>9 DEF frames

-----------------------------------------------------------------------------
\* What the frames of a packet become that were read up to its end
Objects(read, keys) ==
    LET made == [i \in 1 .. Len(read) |-> FrameObject(read[i], keys)]
    IN  IF \E i \in DOMAIN made : made[i] = {} THEN Undecodable
        ELSE [ok |-> TRUE, frames |-> [i \in DOMAIN made |-> CHOOSE f \in made[i] : TRUE]]

\* A list of frames as a receiver makes it
AsReadAll(read) == [i \in 1 .. Len(read) |-> AsRead(read[i])]

\* A constructor makes the frame itself of a TLV, or nothing.
LEMMA ObjectOrNone ==
    ASSUME NEW f, NEW keys PROVE FrameObject(f, keys) \subseteq {AsRead(f)}
<1>1. CASE ~f.known
  <2>1. FrameObject(f, keys) = UnknownFromTlv(f)
    BY <1>1 DEF FrameObject
  <2>2. QED
    BY <1>1, <2>1 DEF AsRead, UnknownFromTlv
<1>2. CASE f.known
  <2>1. FrameObject(f, keys) \in {AddrFromTlv(f), IpPortFromTlv(f), IntFromTlv(f),
            CstringFromTlv(f), SeqnoFromTlv(f), SignFromTlv(f), CompressFromTlv(f),
            CryptFromTlv(f, keys), FrameFromTlv(f)}
    BY <1>2 DEF FrameObject
  <2>2. FrameObject(f, keys) \subseteq {f}
    BY <2>1 DEF AddrFromTlv, IpPortFromTlv, IntFromTlv, CstringFromTlv, SeqnoFromTlv,
       SignFromTlv, CompressFromTlv, CryptFromTlv, FrameFromTlv
  <2>3. QED
    BY <1>2, <2>2 DEF AsRead
<1>3. QED
  BY <1>1, <1>2

\* So when nothing is missing of a packet, its frames are those it was made of.
LEMMA ObjectsAreRead ==
    ASSUME NEW read, NEW keys, Objects(read, keys).ok
    PROVE  /\ Objects(read, keys).frames = AsReadAll(read)
           /\ \A i \in 1 .. Len(read) : FrameObject(read[i], keys) # {}
<1> DEFINE made == [i \in 1 .. Len(read) |-> FrameObject(read[i], keys)]
<1>1. ~ \E i \in 1 .. Len(read) : made[i] = {}
  <2> SUFFICES ASSUME \E i \in 1 .. Len(read) : made[i] = {} PROVE FALSE
    OBVIOUS
  <2>1. Objects(read, keys) = Undecodable
    BY DEF Objects
  <2>2. QED
    BY <2>1 DEF Undecodable
<1>2. Objects(read, keys) =
        [ok |-> TRUE, frames |-> [i \in 1 .. Len(read) |-> CHOOSE f \in made[i] : TRUE]]
  BY <1>1 DEF Objects
<1>3. \A i \in 1 .. Len(read) : FrameObject(read[i], keys) # {}
  BY <1>1
<1>4. ASSUME NEW i \in 1 .. Len(read)
      PROVE  (CHOOSE f \in made[i] : TRUE) = AsRead(read[i])
  <2>1. made[i] = FrameObject(read[i], keys)
    OBVIOUS
  <2> HIDE DEF made
  <2>2. made[i] = {AsRead(read[i])}
    BY <1>3, <2>1, ObjectOrNone
  <2>3. QED
    BY <2>2
<1> HIDE DEF made
<1>5. [i \in 1 .. Len(read) |-> CHOOSE f \in made[i] : TRUE] = AsReadAll(read)
  BY <1>4 DEF AsReadAll
<1>6. QED
  BY <1>2, <1>3, <1>5

\* A packet may have more bytes than it takes turns to read one.
LEMMA TurnsOfAPacket == \A n \in 1 .. 3 : n \in 0 .. MAXUDPSIZE
<1>1. MAXUDPSIZE \in Nat /\ MAXUDPSIZE >= 3
  BY DEF MAXUDPSIZE
<1>2. QED
  BY <1>1

\* The turns of the loop, when it ends after one, two or three
LEMMA DecodedAfter ==
    ASSUME NEW tlvs, NEW keys, NEW n \in 1 .. 3, NEW st,
           st[0] = [read |-> <<>>, rest |-> tlvs],
           \A m \in 1 .. n : st[m] = ReadOn(st[m - 1]),
           \A m \in 0 .. n - 1 : st[m].rest # <<>>,
           st[n].rest = <<>>
    PROVE  DecodeFrames(tlvs, keys) = Objects(st[n].read, keys)
<1> DEFINE after == CHOOSE g : Reads(tlvs, g, Nat)
           last == CHOOSE k \in 0 .. MAXUDPSIZE :
                     after[k].rest = <<>> /\ \A m \in 0 .. k - 1 : after[m].rest # <<>>
           Start == [read |-> <<>>, rest |-> tlvs]
<1>1. Reads(tlvs, after, Nat)
  BY ReadsExists
<1>2. DecodeFrames(tlvs, keys) = Objects(after[last].read, keys)
  BY DEF DecodeFrames, Objects, Reads
<1> HIDE DEF after
<1>3. \A m \in Nat : after[m] = IF m = 0 THEN Start ELSE ReadOn(after[m - 1])
  BY <1>1 DEF Reads
<1>4. \A m \in 0 .. n : after[m] = st[m]
  <2> HIDE DEF Start
  <2>0. st[0] = Start
    BY DEF Start
  <2>1. after[0] = st[0]
    BY <1>3, <2>0
  <2>2. 1 <= n => after[1] = st[1]
    <3>1. after[1] = ReadOn(after[0])
      BY <1>3
    <3>2. 1 <= n => st[1] = ReadOn(st[0])
      OBVIOUS
    <3>3. QED
      BY <2>1, <3>1, <3>2
  <2>3. 2 <= n => after[2] = st[2]
    <3>1. after[2] = ReadOn(after[1])
      BY <1>3
    <3>2. 2 <= n => st[2] = ReadOn(st[1])
      OBVIOUS
    <3>3. QED
      BY <2>2, <3>1, <3>2
  <2>4. 3 <= n => after[3] = st[3]
    <3>1. after[3] = ReadOn(after[2])
      BY <1>3
    <3>2. 3 <= n => st[3] = ReadOn(st[2])
      OBVIOUS
    <3>3. QED
      BY <2>3, <3>1, <3>2
  <2>5. \A m \in 0 .. n : m = 0 \/ m = 1 \/ m = 2 \/ m = 3
    OBVIOUS
  <2>6. QED
    BY <2>1, <2>2, <2>3, <2>4, <2>5
<1>5. last = n
  <2> DEFINE EndsAt(k) == after[k].rest = <<>> /\ \A m \in 0 .. k - 1 : after[m].rest # <<>>
  <2>1. n \in 0 .. MAXUDPSIZE
    BY TurnsOfAPacket
  <2>2. EndsAt(n)
    <3>1. n \in 0 .. n /\ \A m \in 0 .. n - 1 : m \in 0 .. n
      OBVIOUS
    <3>2. QED
      BY <1>4, <3>1
  <2>3. ASSUME NEW k \in Nat, EndsAt(k) PROVE k = n
    <3>1. ~(k < n)
      BY <2>2, <2>3
    <3>2. ~(n < k)
      <4> SUFFICES ASSUME n < k PROVE FALSE
        OBVIOUS
      <4>1. n \in 0 .. k - 1
        OBVIOUS
      <4>2. QED
        BY <2>2, <2>3, <4>1
    <3>3. QED
      BY <3>1, <3>2
  <2>4. 0 .. MAXUDPSIZE \subseteq Nat
    BY DEF MAXUDPSIZE
  <2> HIDE DEF EndsAt
  <2>5. last = CHOOSE k \in 0 .. MAXUDPSIZE : EndsAt(k)
    BY DEF EndsAt
  <2>6. QED
    BY <2>1, <2>2, <2>3, <2>4, <2>5
<1> HIDE DEF last
<1>6. after[n] = st[n]
  <2>1. n \in 0 .. n
    OBVIOUS
  <2>2. QED
    BY <1>4, <2>1
<1>7. QED
  BY <1>2, <1>5, <1>6

-----------------------------------------------------------------------------
\* A turn that meets nothing that closes frames reads to the end.
LEMMA ReadToEnd ==
    ASSUME NEW st, Listed(st.rest), \A i \in 1 .. Len(st.rest) : ~Closes(st.rest[i])
    PROVE  ReadOn(st).read = st.read \o st.rest /\ ReadOn(st).rest = <<>>
<1>1. PICK S : st.rest \in Seq(S)
  BY DEF Listed
<1> DEFINE closing == {i \in 1 .. Len(st.rest) : Closes(st.rest[i])}
           n == IF closing = {} THEN Len(st.rest)
                ELSE CHOOSE i \in closing : \A j \in closing : i <= j
<1>2. closing = {}
  OBVIOUS
<1>0. ReadOn(st) = [read |-> st.read \o SubSeq(st.rest, 1, n),
                    rest |-> IF closing = {} THEN <<>> ELSE st.rest[n].value.closed]
  BY DEF ReadOn
<1> HIDE DEF closing
<1>3. ReadOn(st) = [read |-> st.read \o SubSeq(st.rest, 1, Len(st.rest)), rest |-> <<>>]
  <2>1. n = Len(st.rest)
    BY <1>2
  <2> HIDE DEF n
  <2>2. ReadOn(st) = [read |-> st.read \o SubSeq(st.rest, 1, n), rest |-> <<>>]
    BY <1>0, <1>2
  <2>3. QED
    BY <2>1, <2>2, Zenon
<1>4. SubSeq(st.rest, 1, Len(st.rest)) = st.rest
  BY <1>1, SubSeqFull
<1> DEFINE both == st.read \o st.rest
<1>5. ReadOn(st) = [read |-> both, rest |-> <<>>]
  BY <1>3, <1>4, Zenon
<1> HIDE DEF both
<1>6. ReadOn(st).read = both /\ ReadOn(st).rest = <<>>
  BY <1>5
<1>7. QED
  BY <1>6 DEF both

\* One that meets it as its last goes on with what it closes.
LEMMA ReadToClosed ==
    ASSUME NEW st, Listed(st.rest), Len(st.rest) \in 1 .. 2,
           \A i \in 1 .. Len(st.rest) : Closes(st.rest[i]) <=> i = Len(st.rest)
    PROVE  /\ ReadOn(st).read = st.read \o st.rest
           /\ ReadOn(st).rest = st.rest[Len(st.rest)].value.closed
<1>1. PICK S : st.rest \in Seq(S)
  BY DEF Listed
<1> DEFINE n == Len(st.rest)
           closing == {i \in 1 .. Len(st.rest) : Closes(st.rest[i])}
           first == CHOOSE i \in closing : \A j \in closing : i <= j
           at == IF closing = {} THEN Len(st.rest)
                 ELSE CHOOSE i \in closing : \A j \in closing : i <= j
<1>0. ReadOn(st) = [read |-> st.read \o SubSeq(st.rest, 1, at),
                    rest |-> IF closing = {} THEN <<>> ELSE st.rest[at].value.closed]
  BY DEF ReadOn
<1>2. closing = {n}
  <2>1. n \in 1 .. n
    OBVIOUS
  <2>2. QED
    BY <2>1
<1>3. n \in Nat
  OBVIOUS
<1> HIDE DEF n, closing
<1>4. first = n
  BY <1>2, <1>3
<1>5. closing # {}
  BY <1>2
<1>6. ReadOn(st) = [read |-> st.read \o SubSeq(st.rest, 1, first),
                    rest |-> st.rest[first].value.closed]
  <2>1. at = first
    BY <1>5
  <2> HIDE DEF at, first
  <2>2. ReadOn(st) = [read |-> st.read \o SubSeq(st.rest, 1, at),
                      rest |-> st.rest[at].value.closed]
    BY <1>0, <1>5
  <2>3. QED
    BY <2>1, <2>2, Zenon
<1> HIDE DEF first
<1>7. SubSeq(st.rest, 1, Len(st.rest)) = st.rest
  BY <1>1, SubSeqFull
<1>8. SubSeq(st.rest, 1, first) = st.rest
  BY <1>4, <1>7 DEF n
<1> DEFINE both == st.read \o st.rest
<1>9. ReadOn(st) = [read |-> both, rest |-> st.rest[first].value.closed]
  BY <1>6, <1>8, Zenon
<1> HIDE DEF both
<1>10. ReadOn(st).read = both /\ ReadOn(st).rest = st.rest[first].value.closed
  BY <1>9
<1>11. QED
  BY <1>4, <1>10 DEF n, both

-----------------------------------------------------------------------------
\* The frames of a program with the END behind them
Body(m) == m \o <<EndFrame>>

\* A frame that only writes itself, and is made of that again
GoodFrame(f) ==
    /\ Record(f) /\ f.intact = TRUE /\ f.class \in Plain \cup {"End"}
    /\ f.class = "End" => f = EndFrame
    /\ \A rest : UpdateData(f, rest) = <<f>> \o rest

\* The END is such a frame,
LEMMA EndIsGood == GoodFrame(EndFrame) /\ EndFrame.class = "End" /\ EndFrame.known = TRUE
<1>1. /\ Record(EndFrame) /\ EndFrame.intact = TRUE /\ EndFrame.class = "End"
      /\ EndFrame.known = TRUE
  BY DEF EndFrame, FrameNew, Record
<1>2. \A rest : UpdateData(EndFrame, rest) = <<EndFrame>> \o rest
  BY <1>1 DEF UpdateData
<1>3. QED
  BY <1>1, <1>2 DEF GoodFrame

\* and so is what a program puts in;
LEMMA ContentIsGood ==
    ASSUME NEW f, Constructed(f) PROVE GoodFrame(f) /\ f.class \in Plain
<1>1. Record(f) /\ f.intact = TRUE /\ f.class \in Plain
  BY ConstructedFields
<1>2. f.class # "End"
  BY <1>1, PlainClasses
<1>3. \A rest : UpdateData(f, rest) = <<f>> \o rest
  BY PlainUpdate
<1>4. QED
  BY <1>1, <1>2, <1>3 DEF GoodFrame

\* so all frames of a body are.
LEMMA BodyFrames ==
    ASSUME NEW m \in Seq(Contents)
    PROVE  /\ Listed(m) /\ Listed(Body(m)) /\ Len(Body(m)) = Len(m) + 1 /\ Body(m) # <<>>
           /\ \A i \in 1 .. Len(m) : Body(m)[i] = m[i] /\ m[i].class \in Plain
           /\ Body(m)[Len(m) + 1] = EndFrame
           /\ \A i \in 1 .. Len(Body(m)) : GoodFrame(Body(m)[i])
<1> DEFINE b == Body(m)
           e == <<EndFrame>>
           N == Len(m)
<1>1. Listed(m)
  BY DEF Listed
<1>2. N \in Nat
  BY <1>1, ListFacts
<1>3. Listed(e) /\ Len(e) = 1 /\ e[1] = EndFrame
  BY ListOne
<1>4. b = m \o e
  BY DEF Body
<1> HIDE DEF b, e
<1>5. Listed(e)
  BY <1>3
<1>6. Listed(b)
  BY <1>1, <1>4, <1>5, ListJoin
<1>7. Len(m \o e) = Len(m) + Len(e)
  BY <1>1, <1>5, ListJoin
<1>8. \A i \in 1 .. Len(m) : (m \o e)[i] = m[i]
  BY <1>1, <1>5, ListJoin
<1>9. \A i \in 1 .. Len(e) : (m \o e)[Len(m) + i] = e[i]
  BY <1>1, <1>5, ListJoin
<1>10. /\ Len(b) = N + Len(e) /\ \A i \in 1 .. N : b[i] = m[i]
       /\ \A i \in 1 .. Len(e) : b[N + i] = e[i]
  BY <1>4, <1>7, <1>8, <1>9, Zenon
<1>11. ASSUME NEW i \in 1 .. N PROVE Constructed(m[i])
  BY NetIOAssumption
<1> HIDE DEF N
<1>12. Len(b) = N + 1 /\ b[N + 1] = EndFrame
  BY <1>2, <1>3, <1>10
<1>13. ASSUME NEW i \in 1 .. N PROVE b[i] = m[i] /\ m[i].class \in Plain /\ GoodFrame(m[i])
  BY <1>10, <1>11, ContentIsGood
<1>14. ASSUME NEW i \in 1 .. Len(b) PROVE GoodFrame(b[i])
  <2>1. i \in 1 .. N \/ i = N + 1
    BY <1>2, <1>12
  <2>2. QED
    BY <1>12, <1>13, <2>1, EndIsGood
<1>15. b # <<>>
  BY <1>2, <1>6, <1>12, ListFacts
<1>16. QED
  BY <1>1, <1>6, <1>12, <1>13, <1>14, <1>15 DEF b, N

\* A good frame closes nothing, is not special, and is the same to a receiver in all but
\* its class.
LEMMA GoodFields ==
    ASSUME NEW g, GoodFrame(g), NEW f, f = g \/ f = [g EXCEPT !.intact = FALSE]
    PROVE  /\ Record(f) /\ f.class = g.class /\ f.class \notin Special /\ ~Closes(f)
           /\ AsRead(f).class \notin Special
           /\ AsRead(f).intact = f.intact /\ (f.intact => f = g)
<1>1. Record(g) /\ g.intact = TRUE /\ g.class \in Plain \cup {"End"}
  BY DEF GoodFrame
<1>2. Record(f) /\ f.class = g.class /\ (f.intact => f = g)
  BY <1>1 DEF Record
<1>3. f.class \notin Special
  BY <1>1, <1>2 DEF Plain, Special
<1>4. ~Closes(f)
  BY <1>3 DEF Closes, Special
<1>5. AsRead(f).class \notin Special /\ AsRead(f).intact = f.intact
  <2>1. CASE f.known
    BY <1>3, <2>1 DEF AsRead
  <2>2. CASE ~f.known
    <3>1. AsRead(f) = [f EXCEPT !.class = "UnknownFrame"]
      BY <2>2 DEF AsRead
    <3>2. AsRead(f).class = "UnknownFrame" /\ AsRead(f).intact = f.intact
      BY <1>2, <3>1 DEF Record
    <3>3. QED
      BY <3>2 DEF Special
  <2>3. QED
    BY <2>1, <2>2
<1>6. QED
  BY <1>2, <1>3, <1>4, <1>5

-----------------------------------------------------------------------------
\* A list as a receiver makes it, part by part
LEMMA ReadAllFacts ==
    ASSUME NEW s, Listed(s)
    PROVE  /\ Listed(AsReadAll(s)) /\ Len(AsReadAll(s)) = Len(s)
           /\ \A i \in 1 .. Len(s) : AsReadAll(s)[i] = AsRead(s[i])
<1> DEFINE S == {AsRead(s[i]) : i \in 1 .. Len(s)}
<1>1. Len(s) \in Nat
  BY ListFacts
<1>2. AsReadAll(s) \in [1 .. Len(s) -> S]
  BY DEF AsReadAll
<1>3. AsReadAll(s) \in Seq(S) /\ Len(AsReadAll(s)) = Len(s)
  <2> HIDE DEF S
  <2>1. QED
    BY <1>1, <1>2
<1>4. \A i \in 1 .. Len(s) : AsReadAll(s)[i] = AsRead(s[i])
  BY DEF AsReadAll
<1>5. QED
  BY <1>3, <1>4 DEF Listed

\* one behind the other,
LEMMA ReadAllJoined ==
    ASSUME NEW s, NEW t, Listed(s), Listed(t)
    PROVE  AsReadAll(s \o t) = AsReadAll(s) \o AsReadAll(t)
<1> DEFINE st == s \o t
           a == AsReadAll(s)
           b == AsReadAll(t)
           ab == a \o b
           c == AsReadAll(st)
           m == Len(s)
           n == Len(t)
<1>1. m \in Nat /\ n \in Nat
  BY ListFacts
<1>2. Listed(st)
  BY ListJoin
<1>3. Len(st) = m + n
  BY ListJoin
<1>4. \A i \in 1 .. m : st[i] = s[i]
  BY ListJoin
<1>5. \A i \in 1 .. n : st[m + i] = t[i]
  BY ListJoin
<1> HIDE DEF st
<1>6. Listed(a) /\ Len(a) = m /\ \A i \in 1 .. m : a[i] = AsRead(s[i])
  BY ReadAllFacts
<1>7. Listed(b) /\ Len(b) = n /\ \A i \in 1 .. n : b[i] = AsRead(t[i])
  BY ReadAllFacts
<1>8. Listed(c) /\ Len(c) = Len(st) /\ \A i \in 1 .. Len(st) : c[i] = AsRead(st[i])
  BY <1>2, ReadAllFacts
<1> HIDE DEF a, b, c
<1>9. Listed(a) /\ Listed(b)
  BY <1>6, <1>7
<1>10. Listed(ab)
  BY <1>9, ListJoin
<1>11. Len(a \o b) = Len(a) + Len(b)
  BY <1>9, ListJoin
<1>12. \A i \in 1 .. Len(a) : (a \o b)[i] = a[i]
  BY <1>9, ListJoin
<1>13. \A i \in 1 .. Len(b) : (a \o b)[Len(a) + i] = b[i]
  BY <1>9, ListJoin
<1>14. /\ Len(ab) = Len(a) + Len(b) /\ \A i \in 1 .. Len(a) : ab[i] = a[i]
       /\ \A i \in 1 .. Len(b) : ab[Len(a) + i] = b[i]
  BY <1>11, <1>12, <1>13, Zenon
<1> HIDE DEF ab, m, n
<1>15. Len(ab) = Len(c)
  BY <1>1, <1>3, <1>6, <1>7, <1>8, <1>14
<1>16. ASSUME NEW i \in 1 .. Len(ab) PROVE ab[i] = c[i]
  <2>1. i \in 1 .. m + n /\ i \in Nat
    BY <1>1, <1>6, <1>7, <1>14
  <2>2. CASE i <= m
    <3>1. i \in 1 .. m /\ i \in 1 .. Len(a) /\ i \in 1 .. Len(st)
      BY <1>1, <1>3, <1>6, <2>1, <2>2
    <3>2. QED
      BY <1>4, <1>6, <1>8, <1>14, <3>1
  <2>3. CASE ~(i <= m)
    <3> DEFINE j == i - m
    <3>1. j \in 1 .. n /\ m + j = i
      BY <1>1, <2>1, <2>3
    <3> HIDE DEF j
    <3>2. ab[i] = b[j] /\ b[j] = AsRead(t[j])
      BY <1>6, <1>7, <1>14, <3>1
    <3>3. c[i] = AsRead(st[i]) /\ st[i] = t[j]
      BY <1>3, <1>5, <1>8, <2>1, <3>1
    <3>4. QED
      BY <3>2, <3>3
  <2>4. QED
    BY <2>2, <2>3
<1>17. ab = c
  BY <1>8, <1>10, <1>15, <1>16, ListEqual
<1>18. QED
  BY <1>17 DEF ab, a, b, c, st

\* and as AsReceived has it.
LEMMA ReceivedIsRead ==
    ASSUME NEW m \in Seq(Contents) PROVE AsReceived(m) = AsReadAll(Body(m))
<1>1. Listed(m)
  BY BodyFrames
<1>2. AsReadAll(m) = [i \in 1 .. Len(m) |->
                        IF m[i].known THEN m[i] ELSE [m[i] EXCEPT !.class = "UnknownFrame"]]
  BY DEF AsReadAll, AsRead
<1>3. AsReadAll(<<EndFrame>>) = <<EndFrame>>
  <2> DEFINE e == <<EndFrame>>
             r == AsReadAll(e)
  <2>1. Listed(e) /\ Len(e) = 1 /\ e[1] = EndFrame
    BY ListOne
  <2> HIDE DEF e
  <2>2. Listed(r) /\ Len(r) = Len(e) /\ \A i \in 1 .. Len(e) : r[i] = AsRead(e[i])
    BY <2>1, ReadAllFacts
  <2> HIDE DEF r
  <2>3. AsRead(EndFrame) = EndFrame
    BY EndIsGood DEF AsRead
  <2>4. \A i \in 1 .. Len(e) : r[i] = e[i]
    BY <2>1, <2>2, <2>3
  <2>5. r = e
    BY <2>1, <2>2, <2>4, ListEqual
  <2>6. QED
    BY <2>5 DEF e, r
<1>4. Listed(<<EndFrame>>)
  BY ListOne
<1>5. AsReadAll(Body(m)) = AsReadAll(m) \o AsReadAll(<<EndFrame>>)
  BY <1>1, <1>4, ReadAllJoined, Zenon DEF Body
<1>6. QED
  BY <1>2, <1>3, <1>5, Zenon DEF AsReceived

-----------------------------------------------------------------------------
\* The TLVs of a packet whose frames are to be seen, as they were sent or changed, and of
\* one where something closes them
IsSign(f) == f.class = "SignFrame" /\ f.known = TRUE /\ f.intact = TRUE

\* Frames as they were, or some of them changed on their way
Changed(rest, body) ==
    /\ Listed(rest) /\ Len(rest) = Len(body)
    /\ \A i \in 1 .. Len(body) :
           rest[i] = body[i] \/ rest[i] = [body[i] EXCEPT !.intact = FALSE]

OpenTlvs(t, body) ==
    \E s, rest : IsSign(s) /\ Changed(rest, body) /\ t = <<s>> \o rest

ClosedTlvs(t, body) ==
    \E s, x : /\ IsSign(s) /\ Record(x) /\ Closes(x) /\ t = <<s, x>>
              /\ \/ x.value.closed = body
                 \/ \E z : Closes(z) /\ x.value.closed = <<z>> /\ z.value.closed = body

\* Frames that a packet was wrapped in, as they are read
Wrapping(spec) ==
    /\ Listed(spec)
    /\ \A i \in 1 .. Len(spec) : IsSign(spec[i]) \/ Closes(spec[i])

\* They are special, a receiver makes them as they are, and it makes nothing of one that
\* closes frames and was changed.
LEMMA SignOrCloses ==
    ASSUME NEW f, IsSign(f) \/ Closes(f)
    PROVE  /\ f.class \in Special /\ AsRead(f) = f /\ (IsSign(f) => ~Closes(f))
           /\ \A keys : Closes(f) /\ FrameObject(f, keys) # {} => f.intact
<1>1. f.class \in Special /\ f.known /\ (IsSign(f) => ~Closes(f))
  BY DEF IsSign, Closes, Special
<1>2. AsRead(f) = f
  BY <1>1 DEF AsRead
<1>3. ASSUME NEW keys, Closes(f), FrameObject(f, keys) # {} PROVE f.intact
  <2>1. FrameObject(f, keys) = CryptFromTlv(f, keys) \/ FrameObject(f, keys) = CompressFromTlv(f)
    BY <1>1, <1>3 DEF Closes, FrameObject
  <2>2. QED
    BY <1>3, <2>1 DEF CryptFromTlv, CompressFromTlv, Inflates
<1>4. QED
  BY <1>1, <1>2, <1>3

\* What is read of an open packet is all of it, in one turn.
LEMMA OpenDecoded ==
    ASSUME NEW m \in Seq(Contents), NEW s, NEW rest, IsSign(s), Changed(rest, Body(m)), NEW keys
    PROVE  DecodeFrames(<<s>> \o rest, keys) = Objects(<<s>> \o rest, keys)
<1> DEFINE t == <<s>> \o rest
           start == [read |-> <<>>, rest |-> t]
           st == [i \in 0 .. 1 |-> IF i = 0 THEN start ELSE ReadOn(start)]
<1>1. Listed(rest) /\ Len(rest) \in Nat
  BY ListFacts DEF Changed
<1>2. /\ Listed(t) /\ Len(t) = Len(rest) + 1 /\ t[1] = s
      /\ \A i \in 1 .. Len(rest) : t[i + 1] = rest[i]
  BY <1>1, ListFirst
<1> HIDE DEF t
<1>3. ASSUME NEW i \in 1 .. Len(t) PROVE ~Closes(t[i])
  <2>1. CASE i = 1
    BY <1>2, <2>1, SignOrCloses
  <2>2. CASE i # 1
    <3> DEFINE j == i - 1
    <3>1. j \in 1 .. Len(rest) /\ i = j + 1
      BY <1>1, <1>2, <2>2
    <3> HIDE DEF j
    <3>2. t[i] = rest[j]
      BY <1>2, <3>1
    <3>3. GoodFrame(Body(m)[j]) /\ (rest[j] = Body(m)[j] \/ rest[j] = [Body(m)[j] EXCEPT !.intact = FALSE])
      BY <3>1, BodyFrames DEF Changed
    <3>4. QED
      BY <3>2, <3>3, GoodFields
  <2>3. QED
    BY <2>1, <2>2
<1>4. start.read = <<>> /\ start.rest = t
  OBVIOUS
<1>5. ReadOn(start).read = start.read \o start.rest /\ ReadOn(start).rest = <<>>
  <2> HIDE DEF start
  <2>1. Listed(start.rest) /\ \A i \in 1 .. Len(start.rest) : ~Closes(start.rest[i])
    BY <1>2, <1>3, <1>4
  <2>2. QED
    BY <2>1, ReadToEnd
<1>6. ReadOn(start).read = t
  <2>1. <<>> \o t = t
    BY <1>2, ListNothing
  <2>2. QED
    BY <1>4, <1>5, <2>1, Zenon
<1>7. t # <<>>
  BY <1>1, <1>2, ListFacts
<1>8. st[0] = start /\ st[1] = ReadOn(start)
  OBVIOUS
<1> HIDE DEF st
<1>9. DecodeFrames(t, keys) = Objects(st[1].read, keys)
  <2>1. /\ st[0] = [read |-> <<>>, rest |-> t]
        /\ \A k \in 1 .. 1 : st[k] = ReadOn(st[k - 1])
        /\ \A k \in 0 .. 1 - 1 : st[k].rest # <<>>
        /\ st[1].rest = <<>>
    <3>1. start = [read |-> <<>>, rest |-> t]
      OBVIOUS
    <3> HIDE DEF start
    <3>2. st[0].rest # <<>>
      BY <1>4, <1>7, <1>8
    <3>3. QED
      BY <1>5, <1>8, <3>1, <3>2
  <2>2. 1 \in 1 .. 3
    OBVIOUS
  <2> DEFINE one == 1
  <2>3. /\ one \in 1 .. 3
        /\ \A k \in 1 .. one : st[k] = ReadOn(st[k - 1])
        /\ \A k \in 0 .. one - 1 : st[k].rest # <<>>
        /\ st[one].rest = <<>>
    BY <2>1
  <2> HIDE DEF one
  <2>4. DecodeFrames(t, keys) = Objects(st[one].read, keys)
    BY <2>1, <2>3, DecodedAfter
  <2>5. QED
    BY <2>4 DEF one
<1>10. QED
  BY <1>6, <1>8, <1>9 DEF t

\* What is read of a closed one is what it is wrapped in, and then its frames.
LEMMA ClosedDecoded ==
    ASSUME NEW m \in Seq(Contents), NEW t, ClosedTlvs(t, Body(m)), NEW keys
    PROVE  \E spec : Wrapping(spec) /\ DecodeFrames(t, keys) = Objects(spec \o Body(m), keys)
<1>1. PICK s, x : /\ IsSign(s) /\ Closes(x) /\ t = <<s, x>>
                  /\ \/ x.value.closed = Body(m)
                     \/ \E z : Closes(z) /\ x.value.closed = <<z>> /\ z.value.closed = Body(m)
  BY DEF ClosedTlvs
<1> DEFINE body == Body(m)
           next == x.value.closed
           start == [read |-> <<>>, rest |-> t]
           s1 == ReadOn(start)
           s2 == ReadOn(s1)
           s3 == ReadOn(s2)
           st == [i \in 0 .. 3 |-> IF i = 0 THEN start ELSE IF i = 1 THEN s1
                                   ELSE IF i = 2 THEN s2 ELSE s3]
<1>2. Listed(t) /\ Len(t) = 2 /\ t[1] = s /\ t[2] = x
  BY <1>1, ListTwo
<1>3. ~Closes(s) /\ Closes(x)
  BY <1>1, SignOrCloses
<1>4. Listed(body) /\ body # <<>> /\ \A i \in 1 .. Len(body) : ~Closes(body[i])
  <2>1. ASSUME NEW i \in 1 .. Len(body) PROVE ~Closes(body[i])
    BY BodyFrames, GoodFields
  <2>2. QED
    BY <2>1, BodyFrames
<1>5. start.read = <<>> /\ start.rest = t /\ start = [read |-> <<>>, rest |-> t]
  OBVIOUS
<1>6. st[0] = start /\ st[1] = s1 /\ st[2] = s2 /\ st[3] = s3
  OBVIOUS
<1> HIDE DEF start, body, st
<1>7. s1.read = t /\ s1.rest = next
  <2>0. \A i \in 1 .. Len(t) : Closes(t[i]) <=> i = Len(t)
    <3>1. \A i \in 1 .. Len(t) : i = 1 \/ i = 2
      BY <1>2
    <3>2. ~Closes(t[1]) /\ Closes(t[2]) /\ 1 # 2
      BY <1>2, <1>3
    <3>3. QED
      BY <1>2, <3>1, <3>2
  <2>1. \A i \in 1 .. Len(start.rest) : Closes(start.rest[i]) <=> i = Len(start.rest)
    BY <1>5, <2>0
  <2>2. Listed(start.rest) /\ Len(start.rest) \in 1 .. 2
    BY <1>2, <1>5
  <2>3. /\ s1.read = start.read \o start.rest
        /\ s1.rest = start.rest[Len(start.rest)].value.closed
    BY <2>1, <2>2, ReadToClosed
  <2>4. <<>> \o t = t
    BY <1>2, ListNothing
  <2>5. s1.read = t
    BY <1>5, <2>3, <2>4, Zenon
  <2> HIDE DEF s1
  <2>6. QED
    BY <1>2, <1>5, <2>3, <2>5
<1> HIDE DEF s1
<1>8. Wrapping(t)
  BY <1>1, <1>2 DEF Wrapping
<1>9. t # <<>>
  <2>1. Listed(t) /\ Len(t) # 0
    BY <1>2
  <2>2. QED
    BY <2>1, ListFacts
<1>10. CASE next = body
  <2>1. s2.read = s1.read \o s1.rest /\ s2.rest = <<>>
    BY <1>4, <1>7, <1>10, ReadToEnd
  <2> HIDE DEF s2
  <2>2. s2.read = t \o body
    BY <1>7, <1>10, <2>1, Zenon
  <2> DEFINE two == 2
  <2>3. /\ two \in 1 .. 3
        /\ \A k \in 1 .. two : st[k] = ReadOn(st[k - 1])
        /\ \A k \in 0 .. two - 1 : st[k].rest # <<>>
        /\ st[two].rest = <<>>
    <3>1. st[1] = ReadOn(st[0]) /\ st[2] = ReadOn(st[1])
      BY <1>6 DEF s1, s2
    <3>2. st[0].rest # <<>> /\ st[1].rest # <<>>
      BY <1>4, <1>5, <1>6, <1>7, <1>9, <1>10
    <3>3. QED
      BY <1>6, <2>1, <3>1, <3>2
  <2>4. st[0] = [read |-> <<>>, rest |-> t]
    BY <1>5, <1>6
  <2> HIDE DEF two
  <2>5. DecodeFrames(t, keys) = Objects(st[two].read, keys)
    BY <2>3, <2>4, DecodedAfter
  <2>6. DecodeFrames(t, keys) = Objects(t \o body, keys)
    BY <1>6, <2>2, <2>5, Zenon DEF two
  <2>7. QED
    BY <1>8, <2>6 DEF body
<1>11. CASE \E z : Closes(z) /\ next = <<z>> /\ z.value.closed = body
  <2>1. PICK z : Closes(z) /\ next = <<z>> /\ z.value.closed = body
    BY <1>11
  <2>2. Listed(next) /\ Len(next) = 1 /\ next[1] = z
    BY <2>1, ListOne
  <2> HIDE DEF next
  <2>3. /\ s2.read = s1.read \o s1.rest
        /\ s2.rest = s1.rest[Len(s1.rest)].value.closed
    <3>1. Listed(s1.rest) /\ Len(s1.rest) \in 1 .. 2
      BY <1>7, <2>2
    <3>2. \A i \in 1 .. Len(s1.rest) : Closes(s1.rest[i]) <=> i = Len(s1.rest)
      BY <1>7, <2>1, <2>2
    <3>3. QED
      BY <3>1, <3>2, ReadToClosed
  <2> HIDE DEF s2
  <2>4. s2.read = t \o next /\ s2.rest = body
    <3>1. s2.read = t \o next
      BY <1>7, <2>3, Zenon
    <3>2. s2.rest = body
      BY <1>7, <2>1, <2>2, <2>3
    <3>3. QED
      BY <3>1, <3>2
  <2>5. s3.read = s2.read \o s2.rest /\ s3.rest = <<>>
    BY <1>4, <2>4, ReadToEnd
  <2> HIDE DEF s3
  <2> DEFINE spec == t \o next
  <2>6. s3.read = spec \o body
    BY <2>4, <2>5, Zenon
  <2>7. Wrapping(spec)
    <3>1. Listed(t) /\ Listed(next)
      BY <1>2, <2>2
    <3>2. Listed(spec)
      BY <3>1, ListJoin
    <3>3. Len(t \o next) = Len(t) + Len(next)
      BY <3>1, ListJoin
    <3>4. \A i \in 1 .. Len(t) : (t \o next)[i] = t[i]
      BY <3>1, ListJoin
    <3>5. \A i \in 1 .. Len(next) : (t \o next)[Len(t) + i] = next[i]
      BY <3>1, ListJoin
    <3>6. /\ Len(spec) = Len(t) + Len(next) /\ \A i \in 1 .. Len(t) : spec[i] = t[i]
          /\ \A i \in 1 .. Len(next) : spec[Len(t) + i] = next[i]
      BY <3>3, <3>4, <3>5, Zenon
    <3> HIDE DEF spec
    <3>7. Len(spec) = 3 /\ spec[1] = s /\ spec[2] = x /\ spec[3] = z
      BY <1>2, <2>2, <3>6
    <3>8. \A i \in 1 .. Len(spec) : i = 1 \/ i = 2 \/ i = 3
      BY <3>7
    <3>9. QED
      BY <1>1, <2>1, <3>2, <3>7, <3>8 DEF Wrapping
  <2>8. next # <<>>
    <3>1. Listed(next) /\ Len(next) # 0
      BY <2>2
    <3>2. QED
      BY <3>1, ListFacts
  <2> HIDE DEF spec
  <2> DEFINE three == 3
  <2>9. /\ three \in 1 .. 3
        /\ \A k \in 1 .. three : st[k] = ReadOn(st[k - 1])
        /\ \A k \in 0 .. three - 1 : st[k].rest # <<>>
        /\ st[three].rest = <<>>
    <3>1. st[1] = ReadOn(st[0]) /\ st[2] = ReadOn(st[1]) /\ st[3] = ReadOn(st[2])
      BY <1>6 DEF s1, s2, s3
    <3>2. st[0].rest # <<>> /\ st[1].rest # <<>> /\ st[2].rest # <<>>
      BY <1>4, <1>5, <1>6, <1>7, <1>9, <2>4, <2>8
    <3>3. QED
      BY <1>6, <2>5, <3>1, <3>2
  <2>10. st[0] = [read |-> <<>>, rest |-> t]
    BY <1>5, <1>6
  <2> HIDE DEF three
  <2>11. DecodeFrames(t, keys) = Objects(st[three].read, keys)
    BY <2>9, <2>10, DecodedAfter
  <2>12. DecodeFrames(t, keys) = Objects(spec \o body, keys)
    BY <1>6, <2>6, <2>11, Zenon DEF three
  <2>13. QED
    BY <2>7, <2>12 DEF body
<1>12. QED
  BY <1>1, <1>10, <1>11 DEF body

-----------------------------------------------------------------------------
\* What is made of the frames of a packet: nothing that was closed is changed, and what
\* is intact is as it was put in.
LEMMA OpenArrives ==
    ASSUME NEW m \in Seq(Contents), NEW t, OpenTlvs(t, Body(m)), NEW keys, DecodeFrames(t, keys).ok
    PROVE  /\ \A i \in 1 .. Len(DecodeFrames(t, keys).frames) :
                  DecodeFrames(t, keys).frames[i].class \notin Special \ {"SignFrame"}
           /\ (\A i \in 1 .. Len(DecodeFrames(t, keys).frames) :
                  DecodeFrames(t, keys).frames[i].intact)
              => WithoutSpecial(DecodeFrames(t, keys).frames) = AsReceived(m)
<1> DEFINE fr == DecodeFrames(t, keys).frames
           body == Body(m)
<1>1. PICK s, rest : IsSign(s) /\ Changed(rest, body) /\ t = <<s>> \o rest
  BY DEF OpenTlvs
<1>2. fr = AsReadAll(t)
  <2>1. DecodeFrames(t, keys) = Objects(t, keys)
    BY <1>1, OpenDecoded
  <2>2. QED
    BY <2>1, ObjectsAreRead
<1> HIDE DEF fr
<1>3. /\ Listed(rest) /\ Len(rest) = Len(body) /\ Len(rest) \in Nat
      /\ \A i \in 1 .. Len(rest) : /\ GoodFrame(body[i])
                                   /\ rest[i] = body[i] \/ rest[i] = [body[i] EXCEPT !.intact = FALSE]
  <2>1. Listed(rest) /\ Len(rest) = Len(body)
    BY <1>1 DEF Changed
  <2>2. Len(rest) \in Nat
    BY <2>1, ListFacts
  <2>3. \A i \in 1 .. Len(body) : GoodFrame(body[i])
    BY BodyFrames
  <2>4. QED
    BY <1>1, <2>1, <2>2, <2>3 DEF Changed
<1>4. /\ Listed(t) /\ Len(t) = Len(rest) + 1 /\ t[1] = s
      /\ \A i \in 1 .. Len(rest) : t[i + 1] = rest[i]
  BY <1>1, <1>3, ListFirst
<1>5. Listed(fr) /\ Len(fr) = Len(t) /\ \A i \in 1 .. Len(t) : fr[i] = AsRead(t[i])
  BY <1>2, <1>4, ReadAllFacts
<1>6. fr[1] = s /\ s.class = "SignFrame" /\ s.class \in Special
  <2>1. 1 \in 1 .. Len(t)
    BY <1>3, <1>4
  <2>2. fr[1] = AsRead(s)
    BY <1>4, <1>5, <2>1
  <2>3. AsRead(s) = s /\ s.class \in Special
    BY <1>1, SignOrCloses
  <2>4. s.class = "SignFrame"
    BY <1>1 DEF IsSign
  <2>5. QED
    BY <2>2, <2>3, <2>4, Zenon
<1>7. ASSUME NEW i \in 1 .. Len(rest)
      PROVE  /\ fr[i + 1] = AsRead(rest[i]) /\ fr[i + 1].class \notin Special
             /\ fr[i + 1].intact => rest[i] = body[i]
  <2>1. i + 1 \in 1 .. Len(t)
    BY <1>3, <1>4
  <2>2. fr[i + 1] = AsRead(rest[i])
    BY <1>4, <1>5, <2>1
  <2> DEFINE f == rest[i]
             g == body[i]
  <2>3. GoodFrame(g) /\ (f = g \/ f = [g EXCEPT !.intact = FALSE])
    BY <1>3
  <2> HIDE DEF f, g
  <2>4. AsRead(f).class \notin Special /\ AsRead(f).intact = f.intact /\ (f.intact => f = g)
    BY <2>3, GoodFields
  <2>5. QED
    BY <2>2, <2>4, Zenon DEF f, g
<1>8. \A i \in 1 .. Len(fr) : i = 1 \/ \E j \in 1 .. Len(rest) : i = j + 1
  <2> TAKE i \in 1 .. Len(fr)
  <2> DEFINE j == i - 1
  <2>1. i = 1 \/ (j \in 1 .. Len(rest) /\ i = j + 1)
    BY <1>3, <1>4, <1>5
  <2> HIDE DEF j
  <2>2. QED
    BY <2>1
<1>9. \A i \in 1 .. Len(fr) : fr[i].class \notin Special \ {"SignFrame"}
  BY <1>6, <1>7, <1>8
<1>10. ASSUME \A i \in 1 .. Len(fr) : fr[i].intact
       PROVE  WithoutSpecial(fr) = AsReceived(m)
  <2>1. ASSUME NEW i \in 1 .. Len(rest) PROVE rest[i] = body[i]
    <3>1. i + 1 \in 1 .. Len(fr)
      BY <1>3, <1>4, <1>5
    <3>2. QED
      BY <1>7, <1>10, <3>1
  <2>2. Listed(body) /\ body # <<>>
    BY BodyFrames
  <2>3. rest = body
    BY <1>3, <2>1, <2>2, ListEqual
  <2> DEFINE one == <<s>>
             read == AsReadAll(body)
  <2>4. Listed(one) /\ Len(one) = 1 /\ one[1] = s
    BY ListOne
  <2>5. t = one \o body
    BY <1>1, <2>3
  <2> HIDE DEF one
  <2>6. AsReadAll(t) = AsReadAll(one) \o read
    BY <2>2, <2>4, <2>5, ReadAllJoined, Zenon
  <2>7. /\ Listed(AsReadAll(one)) /\ Len(AsReadAll(one)) = 1
        /\ \A i \in 1 .. 1 : AsReadAll(one)[i].class \in Special
    <3>1. AsRead(s) = s
      BY <1>1, SignOrCloses
    <3>2. QED
      BY <1>6, <2>4, <3>1, ReadAllFacts
  <2>8. Listed(read) /\ Len(read) = Len(body) /\ \A i \in 1 .. Len(body) : read[i] = AsRead(body[i])
    BY <2>2, ReadAllFacts
  <2>9. 1 \in 1 .. Len(body)
    BY <1>3, <2>2, ListFacts
  <2>10. read[1].class \notin Special
    BY <1>7, <2>1, <2>8, <2>9, <1>3
  <2>11. read # <<>>
    <3>1. Len(read) # 0
      BY <2>8, <2>9
    <3>2. QED
      BY <2>8, <3>1, ListFacts
  <2> HIDE DEF read
  <2> DEFINE pre == AsReadAll(one)
  <2>12. /\ Listed(pre) /\ \A i \in 1 .. Len(pre) : pre[i].class \in Special
    BY <2>7
  <2> HIDE DEF pre
  <2>13. WithoutSpecial(pre \o read) = read
    BY <2>8, <2>10, <2>11, <2>12, BehindSpecial
  <2>14. AsReceived(m) = read
    BY ReceivedIsRead DEF read
  <2>15. fr = pre \o read
    BY <1>2, <2>6, Zenon DEF pre
  <2>16. QED
    BY <2>13, <2>14, <2>15, Zenon
<1>11. QED
  BY <1>9, <1>10 DEF fr

\* The same of what was closed: there it is all intact, or nothing comes of it.
LEMMA ClosedArrives ==
    ASSUME NEW m \in Seq(Contents), NEW t, ClosedTlvs(t, Body(m)), NEW keys, DecodeFrames(t, keys).ok
    PROVE  /\ \A i \in 1 .. Len(DecodeFrames(t, keys).frames) :
                  DecodeFrames(t, keys).frames[i].intact
           /\ WithoutSpecial(DecodeFrames(t, keys).frames) = AsReceived(m)
<1> DEFINE fr == DecodeFrames(t, keys).frames
           body == Body(m)
<1>1. PICK spec : Wrapping(spec) /\ DecodeFrames(t, keys) = Objects(spec \o body, keys)
  BY ClosedDecoded
<1> DEFINE all == spec \o body
<1>2. fr = AsReadAll(all) /\ \A i \in 1 .. Len(all) : FrameObject(all[i], keys) # {}
  BY <1>1, ObjectsAreRead
<1> HIDE DEF fr
<1>3. Listed(body) /\ body # <<>> /\ \A i \in 1 .. Len(body) : GoodFrame(body[i])
  BY BodyFrames
<1>4. Listed(spec) /\ \A i \in 1 .. Len(spec) : IsSign(spec[i]) \/ Closes(spec[i])
  BY <1>1 DEF Wrapping
<1>5. Len(spec) \in Nat /\ Len(body) \in Nat /\ Len(body) # 0
  BY <1>3, <1>4, ListFacts
<1> DEFINE pre == AsReadAll(spec)
           read == AsReadAll(body)
<1>6. fr = pre \o read
  <2>1. AsReadAll(spec \o body) = AsReadAll(spec) \o AsReadAll(body)
    BY <1>3, <1>4, ReadAllJoined
  <2>2. QED
    BY <1>2, <2>1, Zenon
<1>7. Listed(pre) /\ Len(pre) = Len(spec) /\ \A i \in 1 .. Len(spec) : pre[i] = spec[i]
  BY <1>4, ReadAllFacts, SignOrCloses
<1>8. Listed(read) /\ Len(read) = Len(body) /\ \A i \in 1 .. Len(body) : read[i] = AsRead(body[i])
  BY <1>3, ReadAllFacts
<1>9. \A i \in 1 .. Len(spec) : all[i] = spec[i]
  BY <1>3, <1>4, ListJoin
<1>10. Len(all) = Len(spec) + Len(body)
  BY <1>3, <1>4, ListJoin
<1> HIDE DEF all
<1>11. ASSUME NEW i \in 1 .. Len(spec)
       PROVE  spec[i].intact /\ pre[i].class \in Special
  <2>1. FrameObject(spec[i], keys) # {}
    <3>1. i \in 1 .. Len(all)
      BY <1>5, <1>10
    <3>2. QED
      BY <1>2, <1>9, <3>1
  <2>2. spec[i].intact
    BY <1>4, <2>1, SignOrCloses DEF IsSign
  <2>3. pre[i].class \in Special
    BY <1>4, <1>7, SignOrCloses
  <2>4. QED
    BY <2>2, <2>3
<1>12. ASSUME NEW i \in 1 .. Len(body)
       PROVE  read[i].intact /\ read[i].class \notin Special
  <2>1. GoodFrame(body[i]) /\ body[i].intact = TRUE
    BY <1>3 DEF GoodFrame
  <2>2. QED
    BY <1>8, <2>1, GoodFields
<1> HIDE DEF pre, read
<1>13. \A i \in 1 .. Len(fr) : fr[i].intact
  <2>1. Listed(pre) /\ Listed(read)
    BY <1>7, <1>8
  <2>2. Len(pre \o read) = Len(pre) + Len(read)
    BY <2>1, ListJoin
  <2>3. \A i \in 1 .. Len(pre) : (pre \o read)[i] = pre[i]
    BY <2>1, ListJoin
  <2>4. \A i \in 1 .. Len(read) : (pre \o read)[Len(pre) + i] = read[i]
    BY <2>1, ListJoin
  <2>5. /\ Len(fr) = Len(pre) + Len(read) /\ \A i \in 1 .. Len(pre) : fr[i] = pre[i]
        /\ \A i \in 1 .. Len(read) : fr[Len(pre) + i] = read[i]
    BY <1>6, <2>2, <2>3, <2>4, Zenon
  <2> TAKE i \in 1 .. Len(fr)
  <2> DEFINE j == i - Len(pre)
  <2>6. i \in 1 .. Len(pre) \/ (j \in 1 .. Len(read) /\ i = Len(pre) + j)
    BY <1>5, <1>7, <1>8, <2>5
  <2> HIDE DEF j
  <2>7. CASE i \in 1 .. Len(pre)
    BY <1>7, <1>11, <2>5, <2>7
  <2>8. CASE j \in 1 .. Len(read) /\ i = Len(pre) + j
    BY <1>8, <1>12, <2>5, <2>8
  <2>9. QED
    BY <2>6, <2>7, <2>8
<1>14. WithoutSpecial(fr) = AsReceived(m)
  <2>1. \A i \in 1 .. Len(pre) : pre[i].class \in Special
    BY <1>7, <1>11
  <2>2. read # <<>> /\ read[1].class \notin Special
    <3>1. Len(read) # 0 /\ 1 \in 1 .. Len(body)
      BY <1>5, <1>8
    <3>2. read # <<>>
      BY <1>8, <3>1, ListFacts
    <3>3. QED
      BY <1>12, <3>1, <3>2
  <2>3. WithoutSpecial(pre \o read) = read
    BY <1>7, <1>8, <2>1, <2>2, BehindSpecial
  <2>4. AsReceived(m) = read
    BY ReceivedIsRead DEF read
  <2>5. QED
    BY <1>6, <2>3, <2>4, Zenon
<1>15. QED
  BY <1>13, <1>14 DEF fr

-----------------------------------------------------------------------------
\* What the frames write that a packet is wrapped in
LEMMA SignWrites ==
    ASSUME NEW rest
    PROVE  \E s : IsSign(s) /\ UpdateData(SignFrame, rest) = <<s>> \o rest
<1> DEFINE v == [covers |-> 0]
           l == 2 + CksumSize
           f == SetValue(FrameNew("SignFrame"), v, l)
           s == [f EXCEPT !.value.covers = Dataspace(rest)]
<1>1. f = [class |-> "SignFrame", known |-> TRUE, length |-> l, value |-> v, intact |-> TRUE]
  BY NewFrame, Zenon
<1>2. SignFrame = f
  BY DEF SignFrame
<1> HIDE DEF v, l, f
<1>3. Record(f) /\ f.class = "SignFrame" /\ f.known = TRUE /\ f.intact = TRUE
  BY <1>1 DEF Record
<1>4. s = [f EXCEPT !.value = [f.value EXCEPT !.covers = Dataspace(rest)]]
  OBVIOUS
<1>5. s.class = "SignFrame" /\ s.known = TRUE /\ s.intact = TRUE
  <2> DEFINE w == [f.value EXCEPT !.covers = Dataspace(rest)]
  <2>1. s = [f EXCEPT !.value = w]
    BY <1>4
  <2> HIDE DEF s, w
  <2>2. QED
    BY <1>3, <2>1 DEF Record
<1>6. UpdateData(SignFrame, rest) = <<s>> \o rest
  <2>1. UpdateData(f, rest) = SignUpdateData(f, rest)
    BY <1>3 DEF UpdateData
  <2>2. QED
    BY <1>2, <2>1, Zenon DEF SignUpdateData
<1> HIDE DEF s
<1>7. IsSign(s)
  BY <1>5 DEF IsSign
<1>8. QED
  BY <1>6, <1>7

\* Encrypting closes all behind it in one TLV,
LEMMA CryptWrites ==
    ASSUME NEW a, NEW b, NEW rest
    PROVE  \E x : /\ Record(x) /\ Closes(x) /\ x.class = "CryptCurve25519"
                  /\ x.value.closed = rest
                  /\ UpdateData(CryptFrame(a, b), rest) = <<x>>
<1> DEFINE v == [from |-> a, to |-> b]
           f == SetValue(FrameNew("CryptCurve25519"), v, CryptSize)
           l == f.length + Dataspace(rest)
           w == [from |-> f.value.from, to |-> f.value.to, closed |-> rest]
           x == [f EXCEPT !.length = l, !.value = w]
<1>1. f = [class |-> "CryptCurve25519", known |-> TRUE, length |-> CryptSize, value |-> v,
           intact |-> TRUE]
  BY NewFrame, Zenon
<1>2. CryptFrame(a, b) = f
  BY DEF CryptFrame
<1> HIDE DEF v, f
<1>3. Record(f) /\ f.class = "CryptCurve25519" /\ f.known = TRUE
  BY <1>1 DEF Record
<1>4. UpdateData(f, rest) = <<x>>
  <2>1. UpdateData(f, rest) = CryptUpdateData(f, rest)
    BY <1>3 DEF UpdateData
  <2>2. QED
    BY <2>1, Zenon DEF CryptUpdateData
<1>5. w.closed = rest
  OBVIOUS
<1> HIDE DEF l, w
<1>6. x = [[f EXCEPT !.value = w] EXCEPT !.length = l]
  <2>1. x = [f EXCEPT !.length = l, !.value = w]
    OBVIOUS
  <2>2. QED
    BY <1>3, <2>1 DEF Record
<1> DEFINE g == [f EXCEPT !.value = w]
<1>7. Record(g) /\ g.class = f.class /\ g.known = f.known /\ g.value = w
  BY <1>3, RecordExcept DEF Record
<1>8. x = [g EXCEPT !.length = l]
  BY <1>6
<1> HIDE DEF g, x
<1>9. Record(x) /\ x.class = g.class /\ x.known = g.known /\ x.value = w
  BY <1>7, <1>8, RecordExcept DEF Record
<1>10. Closes(x)
  BY <1>3, <1>7, <1>9 DEF Closes
<1>11. QED
  BY <1>2, <1>3, <1>4, <1>5, <1>7, <1>9, <1>10

\* and so does compressing.
LEMMA CompressWrites ==
    ASSUME NEW rest
    PROVE  \E x : /\ Record(x) /\ Closes(x) /\ x.value.closed = rest
                  /\ UpdateData(CompressFrame, rest) = <<x>>
<1> DEFINE f == SetValue(FrameNew("CompressFrame"), <<>>, COMPFRAMESIZE)
           l == COMPFRAMESIZE + Deflated(Dataspace(rest))
           w == [size |-> Dataspace(rest), closed |-> rest]
           x == [f EXCEPT !.length = l, !.value = w]
<1>1. f = [class |-> "CompressFrame", known |-> TRUE, length |-> COMPFRAMESIZE,
           value |-> <<>>, intact |-> TRUE]
  BY NewFrame, Zenon
<1>2. CompressFrame = f
  BY DEF CompressFrame
<1> HIDE DEF f
<1>3. Record(f) /\ f.class = "CompressFrame" /\ f.known = TRUE
  BY <1>1 DEF Record
<1>4. UpdateData(f, rest) = <<x>>
  <2>1. UpdateData(f, rest) = CompressUpdateData(f, rest)
    BY <1>3 DEF UpdateData
  <2>2. QED
    BY <2>1, Zenon DEF CompressUpdateData
<1>5. w.closed = rest
  OBVIOUS
<1> HIDE DEF l, w
<1>6. x = [[f EXCEPT !.value = w] EXCEPT !.length = l]
  <2>1. x = [f EXCEPT !.length = l, !.value = w]
    OBVIOUS
  <2>2. QED
    BY <1>3, <2>1 DEF Record
<1> DEFINE g == [f EXCEPT !.value = w]
<1>7. Record(g) /\ g.class = f.class /\ g.known = f.known /\ g.value = w
  BY <1>3, RecordExcept DEF Record
<1>8. x = [g EXCEPT !.length = l]
  BY <1>6
<1> HIDE DEF g, x
<1>9. Record(x) /\ x.class = g.class /\ x.known = g.known /\ x.value = w
  BY <1>7, <1>8, RecordExcept DEF Record
<1>10. Closes(x)
  BY <1>3, <1>7, <1>9 DEF Closes
<1>11. QED
  BY <1>2, <1>4, <1>5, <1>9, <1>10

-----------------------------------------------------------------------------
\* The frames before those of a program: to sign, to encrypt, to compress
Compressing == {<<>>, <<CompressFrame>>}
Encrypting == {<<>>} \cup {<<CryptFrame(s, k)>> : s \in Senders, k \in NanoKeys}
Before(crypt, comp) == <<SignFrame>> \o crypt \o comp

\* The TLVs of a packet under way: its frames m are to be seen unless they are hidden, and
\* can be told from others.
Travelling(t, m, hidden) ==
    \/ ~hidden /\ OpenTlvs(t, Body(m))
    \/ ClosedTlvs(t, Body(m)) /\ (hidden => t[2].class = "CryptCurve25519")

\* They are sequences.
LEMMA BeforeIsListed ==
    ASSUME NEW crypt \in Encrypting, NEW comp \in Compressing
    PROVE  /\ Listed(crypt) /\ Listed(comp) /\ Listed(<<SignFrame>>) /\ Listed(crypt \o comp)
           /\ Listed(Before(crypt, comp))
           /\ Before(crypt, comp) = <<SignFrame>> \o (crypt \o comp)
<1>1. Listed(<<SignFrame>>)
  BY ListOne
<1>2. Listed(crypt)
  BY ListOne, ListNothing DEF Encrypting
<1>3. Listed(comp)
  BY ListOne, ListNothing DEF Compressing
<1>4. Listed(crypt \o comp) /\ Listed(<<SignFrame>> \o crypt)
  BY <1>1, <1>2, <1>3, ListJoin
<1>5. Listed(Before(crypt, comp))
  BY <1>3, <1>4, ListJoin, Zenon DEF Before
<1>6. Before(crypt, comp) = <<SignFrame>> \o (crypt \o comp)
  <2> DEFINE a == <<SignFrame>>
  <2>1. Listed(a)
    BY <1>1
  <2>2. Before(crypt, comp) = (a \o crypt) \o comp
    BY DEF Before
  <2> HIDE DEF a
  <2>3. (a \o crypt) \o comp = a \o (crypt \o comp)
    BY <1>2, <1>3, <2>1, ListAssociative
  <2>4. QED
    BY <2>2, <2>3, Zenon DEF a
<1>7. QED
  BY <1>1, <1>2, <1>3, <1>4, <1>5, <1>6

\* What is sent can be read: it is as it was put in, or closed as a whole.
LEMMA SentTravels ==
    ASSUME NEW m \in Seq(Contents), NEW crypt \in Encrypting, NEW comp \in Compressing
    PROVE  Travelling(Marshalled(Before(crypt, comp) \o Body(m)), m, crypt # <<>>)
<1> DEFINE body == Body(m)
           m1 == Marshalled(comp \o body)
           m2 == Marshalled(crypt \o (comp \o body))
<1>1. Listed(body) /\ \A i \in 1 .. Len(body) : \A rest : UpdateData(body[i], rest) = <<body[i]>> \o rest
  BY BodyFrames DEF GoodFrame
<1>2. Marshalled(body) = body
  BY <1>1, MarshalledAsIs
<1>3. /\ Listed(crypt) /\ Listed(comp) /\ Listed(<<SignFrame>>) /\ Listed(crypt \o comp)
      /\ Before(crypt, comp) = <<SignFrame>> \o (crypt \o comp)
  BY BeforeIsListed
<1> HIDE DEF body
<1>4. Listed(comp \o body)
  BY <1>1, <1>3, ListJoin
<1>5. Listed(crypt \o (comp \o body))
  BY <1>3, <1>4, ListJoin
<1>6. Before(crypt, comp) \o body = <<SignFrame>> \o (crypt \o (comp \o body))
  <2> DEFINE a == <<SignFrame>>
             b == crypt \o comp
  <2>0. Listed(a) /\ Listed(b) /\ Listed(body) /\ Listed(crypt) /\ Listed(comp)
    BY <1>1, <1>3
  <2>1. (crypt \o comp) \o body = crypt \o (comp \o body)
    <3>1. Listed(crypt) /\ Listed(comp) /\ Listed(body)
      BY <2>0
    <3> HIDE DEF a, b
    <3>2. QED
      BY <3>1, ListAssociative
  <2> HIDE DEF a, b
  <2>2. (a \o b) \o body = a \o (b \o body)
    <3>1. Listed(a) /\ Listed(b) /\ Listed(body)
      BY <2>0
    <3>2. QED
      BY <3>1, ListAssociative
  <2>3. QED
    BY <1>3, <2>1, <2>2, Zenon DEF a, b
<1> DEFINE Inner(y) == \/ y = body
                       \/ \E z : Closes(z) /\ y = <<z>> /\ z.value.closed = body
<1>7. \/ comp = <<>> /\ m1 = body
      \/ \E z : Record(z) /\ Closes(z) /\ z.value.closed = body /\ m1 = <<z>>
  <2>1. CASE comp = <<>>
    BY <1>1, <1>2, <2>1, ListNothing, Zenon
  <2>2. CASE comp = <<CompressFrame>>
    <3>1. m1 = UpdateData(CompressFrame, body)
      <4>1. Marshalled(<<CompressFrame>> \o body) = UpdateData(CompressFrame, Marshalled(body))
        BY <1>1, MarshalledFirst
      <4>2. QED
        BY <1>2, <2>2, <4>1, Zenon
    <3>2. QED
      BY <3>1, CompressWrites, Zenon
  <2>3. QED
    BY <2>1, <2>2 DEF Compressing
<1>8. Inner(m1)
  BY <1>7
<1>9. \/ crypt = <<>> /\ m2 = m1
      \/ /\ crypt # <<>>
         /\ \E x : /\ Record(x) /\ Closes(x) /\ x.class = "CryptCurve25519"
                   /\ x.value.closed = m1 /\ m2 = <<x>>
  <2>1. CASE crypt = <<>>
    BY <1>4, <2>1, ListNothing, Zenon
  <2>2. CASE \E s \in Senders, k \in NanoKeys : crypt = <<CryptFrame(s, k)>>
    <3>1. PICK s \in Senders, k \in NanoKeys : crypt = <<CryptFrame(s, k)>>
      BY <2>2
    <3>2. m2 = UpdateData(CryptFrame(s, k), m1)
      BY <1>4, <3>1, MarshalledFirst, Zenon
    <3>3. crypt # <<>>
      BY <3>1
    <3> HIDE DEF m1, m2
    <3>4. \E x : /\ Record(x) /\ Closes(x) /\ x.class = "CryptCurve25519"
                 /\ x.value.closed = m1 /\ m2 = <<x>>
      <4>1. PICK x : /\ Record(x) /\ Closes(x) /\ x.class = "CryptCurve25519"
                     /\ x.value.closed = m1
                     /\ UpdateData(CryptFrame(s, k), m1) = <<x>>
        BY CryptWrites
      <4>2. m2 = <<x>>
        BY <3>2, <4>1, Zenon
      <4>3. QED
        BY <4>1, <4>2
    <3>5. QED
      BY <3>3, <3>4
  <2>3. QED
    BY <2>1, <2>2 DEF Encrypting
<1> DEFINE t == Marshalled(Before(crypt, comp) \o body)
<1>10. PICK s : IsSign(s) /\ t = <<s>> \o m2
  <2>1. t = UpdateData(SignFrame, m2)
    BY <1>5, <1>6, MarshalledFirst, Zenon
  <2>2. QED
    BY <2>1, SignWrites, Zenon
<1> HIDE DEF t, m1, m2
<1>11. CASE m2 = body /\ crypt = <<>>
  <2>1. Changed(body, body)
    BY <1>1 DEF Changed
  <2>2. OpenTlvs(t, body)
    BY <1>10, <1>11, <2>1, Zenon DEF OpenTlvs
  <2>3. QED
    BY <1>11, <2>2 DEF Travelling, t, body
<1>12. ASSUME NEW x, Record(x), Closes(x), m2 = <<x>>, Inner(x.value.closed),
              crypt # <<>> => x.class = "CryptCurve25519"
       PROVE  Travelling(t, m, crypt # <<>>)
  <2>0. <<s>> \o <<x>> = <<s, x>> /\ <<s, x>>[2] = x
    BY ListTwo
  <2>1. t = <<s, x>> /\ t[2] = x
    BY <1>10, <1>12, <2>0, Zenon
  <2>2. ClosedTlvs(t, body)
    BY <1>10, <1>12, <2>1, Zenon DEF ClosedTlvs
  <2>3. QED
    BY <1>12, <2>1, <2>2, Zenon DEF Travelling, body
<1>13. CASE crypt # <<>>
  <2>1. PICK x : /\ Record(x) /\ Closes(x) /\ x.class = "CryptCurve25519"
                 /\ x.value.closed = m1 /\ m2 = <<x>>
    BY <1>9, <1>13
  <2>2. Inner(x.value.closed)
    BY <1>8, <2>1, Zenon
  <2>3. QED
    BY <1>12, <2>1, <2>2, Zenon DEF t, body
<1>14. CASE crypt = <<>>
  <2>1. m2 = m1
    BY <1>9, <1>14
  <2>2. CASE m1 = body
    BY <1>11, <1>14, <2>1, <2>2
  <2>3. CASE \E z : Record(z) /\ Closes(z) /\ z.value.closed = body /\ m1 = <<z>>
    <3>1. PICK z : Record(z) /\ Closes(z) /\ z.value.closed = body /\ m1 = <<z>>
      BY <2>3
    <3>2. QED
      BY <1>12, <1>14, <2>1, <3>1, Zenon DEF t, body
  <2>4. QED
    BY <1>7, <2>2, <2>3
<1>15. QED
  BY <1>13, <1>14

-----------------------------------------------------------------------------
\* The frame list of a frameset that was sent
Wrapped(list, m) ==
    \E crypt \in Encrypting, comp \in Compressing : list = Before(crypt, comp) \o Body(m)

\* Those that it is wrapped in are at most three.
LEMMA ListThree ==
    ASSUME NEW x, NEW y, NEW z
    PROVE  <<x>> \o <<y, z>> = <<x, y, z>>
<1>1. <<x, y, z>> \in Seq({x, y, z})
  OBVIOUS
<1>2. /\ Listed(<<x, y, z>>) /\ Len(<<x, y, z>>) = 3
      /\ <<x, y, z>>[1] = x /\ <<x, y, z>>[2] = y /\ <<x, y, z>>[3] = z
  BY <1>1 DEF Listed
<1> DEFINE s == <<y, z>>
           u == <<x, y, z>>
           v == <<x>> \o s
<1>3. Listed(s) /\ Len(s) = 2 /\ s[1] = y /\ s[2] = z
  BY ListTwo
<1>4. Listed(u) /\ Len(u) = 3 /\ u[1] = x /\ u[2] = y /\ u[3] = z
  BY <1>2
<1> HIDE DEF s, u
<1>5. Listed(s)
  BY <1>3
<1>6. /\ Listed(v) /\ Len(v) = Len(s) + 1 /\ v[1] = x
      /\ \A i \in 1 .. Len(s) : v[i + 1] = s[i]
  BY <1>5, ListFirst
<1> HIDE DEF v
<1>7. Len(v) = 3 /\ v[1] = x /\ v[2] = y /\ v[3] = z
  <2>1. 1 \in 1 .. Len(s) /\ 2 \in 1 .. Len(s)
    BY <1>3
  <2>2. v[1 + 1] = s[1] /\ v[2 + 1] = s[2]
    BY <1>6, <2>1
  <2>3. QED
    BY <1>3, <1>6, <2>2
<1>8. \A i \in 1 .. 3 : v[i] = u[i]
  <2>1. \A i \in 1 .. 3 : i = 1 \/ i = 2 \/ i = 3
    OBVIOUS
  <2>2. QED
    BY <1>4, <1>7, <2>1
<1>9. v = u
  BY <1>4, <1>6, <1>7, <1>8, ListEqual
<1>10. QED
  BY <1>9, Zenon DEF s, u, v

\* The classes that WrappedOnce allows, and those of a list
BeforeClasses ==
    {<<"SignFrame">>, <<"SignFrame", "CryptCurve25519">>, <<"SignFrame", "CompressFrame">>,
     <<"SignFrame", "CryptCurve25519", "CompressFrame">>}

Classes(list) == [i \in 1 .. Len(list) |-> list[i].class]

\* The classes of the frames that wrap
LEMMA WrapperClasses ==
    /\ SignFrame.class = "SignFrame" /\ CompressFrame.class = "CompressFrame"
    /\ \A s, k : CryptFrame(s, k).class = "CryptCurve25519"
<1>1. SignFrame.class = "SignFrame"
  <2> DEFINE l == 2 + CksumSize
             v == [covers |-> 0]
  <2>1. SignFrame = SetValue(FrameNew("SignFrame"), v, l)
    BY DEF SignFrame
  <2> HIDE DEF l, v
  <2>2. QED
    BY <2>1, NewFrame
<1>2. CompressFrame.class = "CompressFrame"
  BY NewFrame DEF CompressFrame
<1>3. ASSUME NEW s, NEW k PROVE CryptFrame(s, k).class = "CryptCurve25519"
  BY NewFrame DEF CryptFrame
<1>4. QED
  BY <1>1, <1>2, <1>3

\* There are four ways to wrap.
LEMMA BeforeForms ==
    ASSUME NEW crypt \in Encrypting, NEW comp \in Compressing
    PROVE  \/ Before(crypt, comp) = <<SignFrame>>
           \/ \E s \in Senders, k \in NanoKeys : Before(crypt, comp) = <<SignFrame, CryptFrame(s, k)>>
           \/ Before(crypt, comp) = <<SignFrame, CompressFrame>>
           \/ \E s \in Senders, k \in NanoKeys :
                  Before(crypt, comp) = <<SignFrame, CryptFrame(s, k), CompressFrame>>
<1>1. /\ Listed(crypt) /\ Listed(comp) /\ Listed(<<SignFrame>>)
      /\ Before(crypt, comp) = <<SignFrame>> \o (crypt \o comp)
  BY BeforeIsListed
<1>2. CASE crypt = <<>>
  <2>1. crypt \o comp = comp
    BY <1>1, <1>2, ListNothing, Zenon
  <2>2. CASE comp = <<>>
    BY <1>1, <2>1, <2>2, ListNothing, Zenon
  <2>3. CASE comp = <<CompressFrame>>
    <3>1. <<SignFrame>> \o <<CompressFrame>> = <<SignFrame, CompressFrame>>
      BY ListTwo
    <3>2. QED
      BY <1>1, <2>1, <2>3, <3>1, Zenon
  <2>4. QED
    BY <2>2, <2>3 DEF Compressing
<1>3. CASE \E s \in Senders, k \in NanoKeys : crypt = <<CryptFrame(s, k)>>
  <2>1. PICK s \in Senders, k \in NanoKeys : crypt = <<CryptFrame(s, k)>>
    BY <1>3
  <2> DEFINE c == CryptFrame(s, k)
  <2>2. crypt = <<c>>
    BY <2>1
  <2>3. CASE comp = <<>>
    <3> HIDE DEF c
    <3>1. crypt \o comp = <<c>>
      BY <1>1, <2>2, <2>3, ListNothing, Zenon
    <3>2. <<SignFrame>> \o <<c>> = <<SignFrame, c>>
      BY ListTwo
    <3>3. Before(crypt, comp) = <<SignFrame, c>>
      BY <1>1, <3>1, <3>2, Zenon
    <3>4. QED
      BY <3>3, Zenon DEF c
  <2>4. CASE comp = <<CompressFrame>>
    <3> HIDE DEF c
    <3>1. <<c>> \o <<CompressFrame>> = <<c, CompressFrame>>
      BY ListTwo
    <3>2. <<SignFrame>> \o <<c, CompressFrame>> = <<SignFrame, c, CompressFrame>>
      BY ListThree, Zenon
    <3>3. Before(crypt, comp) = <<SignFrame, c, CompressFrame>>
      BY <1>1, <2>2, <2>4, <3>1, <3>2, Zenon
    <3>4. QED
      BY <3>3, Zenon DEF c
  <2>5. QED
    BY <2>3, <2>4 DEF Compressing
<1>4. QED
  BY <1>2, <1>3 DEF Encrypting

\* Each is of one to three special frames, in an order that WrappedOnce allows.
LEMMA BeforeFacts ==
    ASSUME NEW crypt \in Encrypting, NEW comp \in Compressing
    PROVE  /\ Len(Before(crypt, comp)) \in 1 .. 3
           /\ \A i \in 1 .. Len(Before(crypt, comp)) : Before(crypt, comp)[i].class \in Special
           /\ Classes(Before(crypt, comp)) \in BeforeClasses
<1> DEFINE pre == Before(crypt, comp)
           Fits(p) == /\ Len(p) \in 1 .. 3 /\ \A i \in 1 .. Len(p) : p[i].class \in Special
                      /\ Classes(p) \in BeforeClasses
<1>0. {"SignFrame", "CryptCurve25519", "CompressFrame"} \subseteq Special
  BY DEF Special
<1>1. ASSUME NEW a, a.class = "SignFrame" PROVE Fits(<<a>>)
  <2>1. Classes(<<a>>) = <<"SignFrame">>
    BY <1>1 DEF Classes
  <2>2. QED
    BY <1>0, <1>1, <2>1 DEF BeforeClasses
<1>2. ASSUME NEW a, NEW b, a.class = "SignFrame",
             b.class \in {"CryptCurve25519", "CompressFrame"}
      PROVE  Fits(<<a, b>>)
  <2>1. Classes(<<a, b>>) = <<"SignFrame", b.class>>
    BY <1>2 DEF Classes
  <2>2. \A i \in 1 .. 2 : i = 1 \/ i = 2
    OBVIOUS
  <2>3. QED
    BY <1>0, <1>2, <2>1, <2>2 DEF BeforeClasses
<1>3. ASSUME NEW a, NEW b, NEW c, a.class = "SignFrame", b.class = "CryptCurve25519",
             c.class = "CompressFrame"
      PROVE  Fits(<<a, b, c>>)
  <2>1. Classes(<<a, b, c>>) = <<"SignFrame", b.class, c.class>>
    BY <1>3 DEF Classes
  <2>2. \A i \in 1 .. 3 : i = 1 \/ i = 2 \/ i = 3
    OBVIOUS
  <2>3. QED
    BY <1>0, <1>3, <2>1, <2>2 DEF BeforeClasses
<1> HIDE DEF Fits
<1>4. Fits(pre)
  <2> HIDE DEF pre
  <2>1. \/ pre = <<SignFrame>>
        \/ \E s \in Senders, k \in NanoKeys : pre = <<SignFrame, CryptFrame(s, k)>>
        \/ pre = <<SignFrame, CompressFrame>>
        \/ \E s \in Senders, k \in NanoKeys : pre = <<SignFrame, CryptFrame(s, k), CompressFrame>>
    BY BeforeForms, Zenon DEF pre
  <2>2. CASE pre = <<SignFrame>>
    BY <1>1, <2>2, WrapperClasses, Zenon
  <2>3. CASE \E s \in Senders, k \in NanoKeys : pre = <<SignFrame, CryptFrame(s, k)>>
    BY <1>2, <2>3, WrapperClasses, Zenon
  <2>4. CASE pre = <<SignFrame, CompressFrame>>
    BY <1>2, <2>4, WrapperClasses, Zenon
  <2>5. CASE \E s \in Senders, k \in NanoKeys : pre = <<SignFrame, CryptFrame(s, k), CompressFrame>>
    BY <1>3, <2>5, WrapperClasses, Zenon
  <2>6. QED
    BY <2>1, <2>2, <2>3, <2>4, <2>5
<1>5. QED
  BY <1>4, Zenon DEF Fits, pre

\* The frameset is wrapped anew each time it is sent.
LEMMA WrapAgain ==
    ASSUME NEW m \in Seq(Contents), NEW fs, NEW crypt \in Encrypting,
           fs.framelist = m \/ Wrapped(fs.framelist, m)
    PROVE  \E comp \in Compressing :
               Wrap(fs, crypt, TRUE) = [fs EXCEPT !.framelist = Before(crypt, comp) \o Body(m)]
<1> DEFINE list == fs.framelist
           bare == WithoutSpecial(list)
           body == Body(m)
<1>1. /\ Listed(m) /\ Listed(body) /\ Len(body) = Len(m) + 1 /\ body # <<>>
      /\ \A i \in 1 .. Len(m) : body[i] = m[i] /\ m[i].class \in Plain
      /\ body[Len(m) + 1] = EndFrame
      /\ \A i \in 1 .. Len(body) : GoodFrame(body[i])
  BY BodyFrames
<1>2. Len(m) \in Nat
  BY <1>1, ListFacts
<1> HIDE DEF list, body
<1>3. ASSUME list = m PROVE WithEnd(bare) = body
  <2>1. bare = m
    <3>1. CASE m = <<>>
      <4>1. {i \in 1 .. Len(m) : m[i].class \notin Special} = {}
        BY <3>1
      <4>2. WithoutSpecial(m) = <<>>
        BY <4>1, Zenon DEF WithoutSpecial
      <4>3. QED
        BY <1>3, <3>1, <4>2
    <3>2. CASE m # <<>>
      <4>1. Len(m) # 0
        BY <1>1, <3>2, ListFacts
      <4>2. 1 \in 1 .. Len(m)
        BY <1>2, <4>1
      <4>3. m[1].class \notin Special
        BY <1>1, <4>2, PlainClasses
      <4> DEFINE none == <<>>
      <4>4. Listed(none) /\ \A i \in 1 .. Len(none) : none[i].class \in Special
        BY ListNothing
      <4>5. none \o m = m
        BY <1>1, ListNothing
      <4> HIDE DEF none
      <4>6. WithoutSpecial(none \o m) = m
        BY <1>1, <3>2, <4>3, <4>4, BehindSpecial
      <4>7. QED
        BY <1>3, <4>5, <4>6, Zenon
    <3>3. QED
      BY <3>1, <3>2
  <2>2. WithEnd(m) = body
    <3>1. ~(m # <<>> /\ Last(m).class = "End")
      <4> SUFFICES ASSUME m # <<>> PROVE Last(m).class # "End"
        OBVIOUS
      <4>1. Len(m) # 0
        BY <1>1, ListFacts
      <4>2. Len(m) \in 1 .. Len(m)
        BY <1>2, <4>1
      <4>3. QED
        BY <1>1, <4>2, PlainClasses DEF Last
    <3>2. WithEnd(m) = Append(m, EndFrame)
      BY <3>1 DEF WithEnd
    <3>3. Append(m, EndFrame) = m \o <<EndFrame>>
      <4>1. m \in Seq(Contents \cup {EndFrame}) /\ EndFrame \in Contents \cup {EndFrame}
        BY SeqMonotonic
      <4>2. QED
        BY <4>1, AppendIsConcat
    <3>4. QED
      BY <3>2, <3>3, Zenon DEF Body, body
  <2>3. QED
    BY <2>1, <2>2 
<1>4. ASSUME Wrapped(list, m) PROVE WithEnd(bare) = body
  <2>1. PICK c \in Encrypting, d \in Compressing : list = Before(c, d) \o body
    BY <1>4 DEF Wrapped, body
  <2> DEFINE pre == Before(c, d)
  <2>2. Listed(pre) /\ \A i \in 1 .. Len(pre) : pre[i].class \in Special
    BY BeforeIsListed, BeforeFacts
  <2> HIDE DEF pre
  <2>3. body[1].class \notin Special
    <3>1. 1 \in 1 .. Len(body)
      BY <1>1, <1>2
    <3>2. QED
      BY <1>1, <3>1, GoodFields
  <2>4. WithoutSpecial(pre \o body) = body
    BY <1>1, <2>2, <2>3, BehindSpecial
  <2>5. bare = body
    BY <2>1, <2>4, Zenon DEF pre
  <2>6. Last(body).class = "End"
    <3>1. body[Len(body)] = EndFrame
      BY <1>1
    <3>2. QED
      BY <3>1, EndIsGood DEF Last
  <2>7. WithEnd(body) = body
    BY <1>1, <2>6 DEF WithEnd
  <2>8. QED
    BY <2>5, <2>7
<1>5. WithEnd(bare) = body
  <2>1. CASE list = m
    BY <1>3, <2>1
  <2>2. CASE Wrapped(list, m)
    BY <1>4, <2>2
  <2>3. QED
    BY <2>1, <2>2 DEF list
<1> DEFINE comp == CompressFor(bare, TRUE)
<1>6. comp \in Compressing
  BY DEF CompressFor, Compressing
<1>7. Wrap(fs, crypt, TRUE) = [fs EXCEPT !.framelist = Before(crypt, comp) \o WithEnd(bare)]
  BY Zenon DEF Wrap, Before, list
<1> HIDE DEF comp, bare
<1>8. Wrap(fs, crypt, TRUE) = [fs EXCEPT !.framelist = Before(crypt, comp) \o body]
  BY <1>5, <1>7, Zenon
<1>9. QED
  BY <1>6, <1>8 DEF body

\* What the first part of WrappedOnce says of a frame list
Once(list) ==
    LET classes == Classes(list)
        special == {i \in 1 .. Len(classes) : classes[i] \in Special}
    IN  /\ \E n \in 1 .. 3 :
               /\ special = 1 .. n
               /\ SubSeq(classes, 1, n) \in BeforeClasses
        /\ Cardinality({i \in 1 .. Len(classes) : classes[i] = "End"}) = 1

\* A frame list that was wrapped is wrapped once.
LEMMA WrappedIsOnce ==
    ASSUME NEW m \in Seq(Contents), NEW list, Wrapped(list, m)
    PROVE  Once(list)
<1> DEFINE body == Body(m)
<1>1. PICK crypt \in Encrypting, comp \in Compressing : list = Before(crypt, comp) \o body
  BY DEF Wrapped
<1> DEFINE pre == Before(crypt, comp)
           n == Len(pre)
           M == Len(body)
           classes == Classes(list)
<1>2. Listed(pre)
  BY BeforeIsListed
<1>3. n \in 1 .. 3 /\ \A i \in 1 .. n : pre[i].class \in Special
  BY BeforeFacts
<1>4. Classes(pre) \in BeforeClasses
  BY BeforeFacts
<1>5. /\ Listed(body) /\ M = Len(m) + 1 /\ Len(m) \in Nat
      /\ \A i \in 1 .. Len(m) : body[i] = m[i] /\ m[i].class \in Plain
      /\ body[M] = EndFrame
  BY BodyFrames, ListFacts
<1>6. \A i \in 1 .. Len(m) : body[i].class \notin Special /\ body[i].class # "End"
  BY <1>5, PlainClasses
<1>7. body[M].class = "End" /\ "End" \notin Special
  BY <1>5, EndIsGood DEF Special
<1>8. list = pre \o body
  BY <1>1
<1> HIDE DEF body, pre
<1>9. Listed(list)
  BY <1>2, <1>5, <1>8, ListJoin
<1>10. Len(pre \o body) = Len(pre) + Len(body)
  BY <1>2, <1>5, ListJoin
<1>11. \A i \in 1 .. Len(pre) : (pre \o body)[i] = pre[i]
  BY <1>2, <1>5, ListJoin
<1>12. \A i \in 1 .. Len(body) : (pre \o body)[Len(pre) + i] = body[i]
  BY <1>2, <1>5, ListJoin
<1>13. /\ Len(list) = n + M /\ \A i \in 1 .. n : list[i] = pre[i]
       /\ \A i \in 1 .. M : list[n + i] = body[i]
  BY <1>8, <1>10, <1>11, <1>12, Zenon
<1>14. /\ Len(classes) = n + M /\ Listed(classes)
       /\ \A i \in 1 .. n + M : classes[i] = list[i].class
  <2> DEFINE S == {list[i].class : i \in 1 .. Len(list)}
  <2>1. Len(list) \in Nat
    BY <1>9, ListFacts
  <2>2. classes \in [1 .. Len(list) -> S]
    BY DEF Classes
  <2>3. \A i \in 1 .. Len(list) : classes[i] = list[i].class
    BY DEF Classes
  <2> HIDE DEF S, classes
  <2>4. classes \in Seq(S) /\ Len(classes) = Len(list)
    BY <2>1, <2>2
  <2>5. QED
    BY <1>13, <2>3, <2>4 DEF Listed
<1> HIDE DEF n, M, classes
<1>15. n \in 1 .. 3 /\ M = Len(m) + 1 /\ Len(m) \in Nat
  BY <1>3, <1>5
\* Where each class is
<1>16. ASSUME NEW i \in 1 .. n PROVE classes[i] = pre[i].class /\ classes[i] \in Special
  <2>1. i \in 1 .. n + M
    BY <1>15
  <2>2. QED
    BY <1>3, <1>13, <1>14, <2>1
<1>17. ASSUME NEW i \in 1 .. M PROVE classes[n + i] = body[i].class
  <2>1. n + i \in 1 .. n + M
    BY <1>15
  <2>2. QED
    BY <1>13, <1>14, <2>1
<1>18. \A i \in 1 .. n + M : i \in 1 .. n \/ (\E j \in 1 .. Len(m) : i = n + j) \/ i = n + M
  <2> TAKE i \in 1 .. n + M
  <2> DEFINE j == i - n
  <2>1. i \in 1 .. n \/ (j \in 1 .. Len(m) /\ i = n + j) \/ i = n + M
    BY <1>15
  <2> HIDE DEF j
  <2>2. QED
    BY <2>1
<1>19. ASSUME NEW j \in 1 .. Len(m)
       PROVE  classes[n + j] \notin Special /\ classes[n + j] # "End"
  <2>1. j \in 1 .. M
    BY <1>15
  <2>2. QED
    BY <1>6, <1>17, <2>1
<1>20. classes[n + M] = "End"
  <2>1. M \in 1 .. M
    BY <1>15
  <2>2. QED
    BY <1>7, <1>17, <2>1
<1>21. {i \in 1 .. Len(classes) : classes[i] \in Special} = 1 .. n
  <2>1. ASSUME NEW i \in 1 .. n + M PROVE classes[i] \in Special <=> i \in 1 .. n
    <3>1. ASSUME i \notin 1 .. n PROVE classes[i] \notin Special
      BY <1>7, <1>18, <1>19, <1>20, <3>1
    <3>2. QED
      BY <1>16, <3>1
  <2>2. 1 .. n \subseteq 1 .. n + M
    BY <1>15
  <2>3. QED
    BY <1>14, <2>1, <2>2
<1>22. {i \in 1 .. Len(classes) : classes[i] = "End"} = {n + M}
  <2>1. ASSUME NEW i \in 1 .. n + M, i # n + M PROVE classes[i] # "End"
    <3>1. CASE i \in 1 .. n
      BY <1>7, <1>16, <3>1
    <3>2. CASE \E j \in 1 .. Len(m) : i = n + j
      BY <1>19, <3>2
    <3>3. QED
      BY <1>18, <2>1, <3>1, <3>2
  <2>2. n + M \in 1 .. n + M
    BY <1>15
  <2>3. QED
    BY <1>14, <1>20, <2>1, <2>2
<1>23. Cardinality({i \in 1 .. Len(classes) : classes[i] = "End"}) = 1
  BY <1>22, FS_Singleton, Zenon
<1>24. SubSeq(classes, 1, n) = Classes(pre)
  <2> DEFINE part == SubSeq(classes, 1, n)
             cp == Classes(pre)
  <2>1. /\ Listed(part) /\ Len(part) = IF 1 <= n THEN (n - 1) + 1 ELSE 0
        /\ \A i \in 1 .. Len(part) : part[i] = classes[(1 + i) - 1]
    <3>1. 1 \in 1 .. Len(classes) + 1 /\ n \in 0 .. Len(classes)
      BY <1>14, <1>15
    <3>2. QED
      BY <1>14, <3>1, ListPart
  <2> HIDE DEF part
  <2>2. Len(part) = n /\ \A i \in 1 .. n : part[i] = classes[i]
    BY <1>15, <2>1
  <2>3. Listed(cp) /\ Len(cp) = n /\ \A i \in 1 .. n : cp[i] = pre[i].class
    <3> DEFINE S == {pre[i].class : i \in 1 .. Len(pre)}
    <3>1. Len(pre) \in Nat
      BY <1>2, ListFacts
    <3>2. cp \in [1 .. Len(pre) -> S]
      BY DEF Classes
    <3>3. \A i \in 1 .. Len(pre) : cp[i] = pre[i].class
      BY DEF Classes
    <3> HIDE DEF S, cp
    <3>4. cp \in Seq(S) /\ Len(cp) = Len(pre)
      BY <3>1, <3>2
    <3>5. QED
      BY <3>3, <3>4 DEF Listed, n
  <2> HIDE DEF cp
  <2>4. \A i \in 1 .. n : part[i] = cp[i]
    BY <1>16, <2>2, <2>3
  <2>5. part = cp
    BY <2>1, <2>2, <2>3, <2>4, ListEqual
  <2>6. QED
    BY <2>5 DEF part, cp
<1>25. QED
  BY <1>4, <1>15, <1>21, <1>23, <1>24, Zenon DEF Once, classes

\* A frameset as a record
IsFs(fs) == fs = [fstype |-> fs.fstype, fsflags |-> fs.fsflags, framelist |-> fs.framelist]

\* A frameset that its sender keeps: as it was made, or wrapped at least once
OutSound(o) ==
    /\ o = [by |-> o.by, sent |-> o.sent, fs |-> o.fs, made |-> o.made]
    /\ o.by \in Senders \cup {None} /\ o.sent \in BOOLEAN
    /\ o.by = None => o = NothingOut
    /\ IsFs(o.fs) /\ IsFs(o.made)
    /\ o.fs.fstype = o.made.fstype /\ o.fs.fsflags = o.made.fsflags
    /\ o.made.fstype \in FsTypes \cup {None}
    /\ o.made.framelist \in Seq(Contents)
    /\ ~o.sent => o.fs = o.made
    /\ o.sent => Wrapped(o.fs.framelist, o.made.framelist)

\* A datagram that can be read as what was sent
Sound(d) ==
    /\ d = [packet |-> d.packet, missing |-> d.missing, by |-> d.by, key |-> d.key,
            made |-> d.made, whole |-> d.whole]
    /\ d.packet = [fstype |-> d.packet.fstype, fsflags |-> d.packet.fsflags,
                   len |-> d.packet.len, tlvs |-> d.packet.tlvs]
    /\ d.packet.fstype = d.made.fstype /\ d.packet.fsflags = d.made.fsflags
    /\ d.made.fstype \in FsTypes \cup {None}
    /\ d.made.framelist \in Seq(Contents)
    /\ Travelling(d.packet.tlvs, d.made.framelist, d.key # None)

\* A frameset that a listener was given
Right(d) ==
    /\ WasClosed(d.fs) => IsIntact(d.fs)
    /\ IsIntact(d.fs) =>
           /\ d.fs.fstype = d.made.fstype /\ d.fs.fsflags = d.made.fsflags
           /\ WithoutSpecial(d.fs.framelist) = AsReceived(d.made.framelist)

\* All datagrams, all framesets that were delivered, and the rest
WireSound == /\ Listed(wire) /\ Len(wire) <= MaxWire
             /\ \A i \in 1 .. Len(wire) : Sound(wire[i])
DeliveredRight == /\ Listed(delivered) /\ Len(delivered) <= MaxDelivered
                  /\ \A i \in 1 .. Len(delivered) : Right(delivered[i])
RestTyped == /\ destKey \in NanoKeys \cup {None}
             /\ dispatchers \in [FsTypes \cup {None} -> NetListeners \cup {None}]

\* The invariant: what the sender keeps, what is under way and what was delivered
NetIOInv == OutSound(out) /\ WireSound /\ DeliveredRight /\ RestTyped

-----------------------------------------------------------------------------
\* Lists with an element more, less, or changed
LEMMA ListAppend ==
    ASSUME NEW s, Listed(s), NEW x
    PROVE  /\ Listed(Append(s, x)) /\ Len(Append(s, x)) = Len(s) + 1
           /\ \A i \in 1 .. Len(s) : Append(s, x)[i] = s[i]
           /\ Append(s, x)[Len(s) + 1] = x
<1>1. PICK S : s \in Seq(S)
  BY DEF Listed
<1> DEFINE T == S \cup {x}
<1>2. s \in Seq(T) /\ x \in T
  BY <1>1, SeqMonotonic
<1> HIDE DEF T
<1>3. /\ Append(s, x) \in Seq(T) /\ Len(Append(s, x)) = Len(s) + 1
      /\ \A i \in 1 .. Len(s) : Append(s, x)[i] = s[i]
      /\ Append(s, x)[Len(s) + 1] = x
  BY <1>2, AppendProperties
<1>4. QED
  BY <1>3 DEF Listed

\* A list without one of its elements
LEMMA ListRemove ==
    ASSUME NEW s, Listed(s), NEW i \in 1 .. Len(s)
    PROVE  /\ Listed(RemoveAt(s, i)) /\ Len(RemoveAt(s, i)) = Len(s) - 1
           /\ \A j \in 1 .. Len(RemoveAt(s, i)) :
                  \E k \in 1 .. Len(s) : RemoveAt(s, i)[j] = s[k]
<1> DEFINE n == Len(s)
           a == SubSeq(s, 1, i - 1)
           b == SubSeq(s, i + 1, n)
           r == a \o b
<1>1. n \in Nat
  BY ListFacts
<1>2. /\ Listed(a) /\ Len(a) = IF 1 <= i - 1 THEN ((i - 1) - 1) + 1 ELSE 0
      /\ \A j \in 1 .. Len(a) : a[j] = s[(1 + j) - 1]
  <2>1. 1 \in 1 .. n + 1 /\ i - 1 \in 0 .. n
    BY <1>1
  <2>2. QED
    BY <2>1, ListPart
<1>3. /\ Listed(b) /\ Len(b) = IF i + 1 <= n THEN (n - (i + 1)) + 1 ELSE 0
      /\ \A j \in 1 .. Len(b) : b[j] = s[((i + 1) + j) - 1]
  <2>1. i + 1 \in 1 .. n + 1 /\ n \in 0 .. n
    BY <1>1
  <2>2. QED
    BY <2>1, ListPart
<1>4. RemoveAt(s, i) = r
  BY DEF RemoveAt
<1> HIDE DEF a, b
<1>15. Listed(a) /\ Listed(b)
  BY <1>2, <1>3
<1>5. Listed(r)
  BY <1>15, ListJoin
<1>6. Len(a \o b) = Len(a) + Len(b)
  BY <1>15, ListJoin
<1>7. \A j \in 1 .. Len(a) : (a \o b)[j] = a[j]
  BY <1>15, ListJoin
<1>8. \A j \in 1 .. Len(b) : (a \o b)[Len(a) + j] = b[j]
  BY <1>15, ListJoin
<1>9. /\ Len(r) = Len(a) + Len(b) /\ \A j \in 1 .. Len(a) : r[j] = a[j]
      /\ \A j \in 1 .. Len(b) : r[Len(a) + j] = b[j]
  BY <1>6, <1>7, <1>8, Zenon
<1> HIDE DEF r, n
<1>10. i \in 1 .. n
  BY DEF n
<1>11. Len(a) = i - 1 /\ Len(b) = n - i
  BY <1>1, <1>2, <1>3, <1>10
<1>12. ASSUME NEW j \in 1 .. Len(r) PROVE \E k \in 1 .. n : r[j] = s[k]
  <2>1. CASE j <= i - 1
    <3>1. j \in 1 .. Len(a) /\ j \in 1 .. n /\ (1 + j) - 1 = j
      BY <1>1, <1>9, <1>10, <1>11, <2>1
    <3>2. QED
      BY <1>2, <1>9, <3>1
  <2>2. CASE ~(j <= i - 1)
    <3> DEFINE l == j - (i - 1)
               k == j + 1
    <3>1. l \in 1 .. Len(b) /\ Len(a) + l = j /\ k \in 1 .. n /\ ((i + 1) + l) - 1 = k
      BY <1>1, <1>9, <1>10, <1>11, <2>2
    <3> HIDE DEF l, k
    <3>2. r[j] = b[l] /\ b[l] = s[k]
      BY <1>3, <1>9, <3>1
    <3>3. QED
      BY <3>1, <3>2
  <2>3. QED
    BY <2>1, <2>2
<1>13. Len(r) = n - 1
  BY <1>1, <1>9, <1>10, <1>11
<1>14. QED
  BY <1>4, <1>5, <1>12, <1>13 DEF n

\* A list with an element changed
LEMMA ListExcept ==
    ASSUME NEW s, Listed(s), NEW i \in 1 .. Len(s), NEW x
    PROVE  /\ Listed([s EXCEPT ![i] = x]) /\ Len([s EXCEPT ![i] = x]) = Len(s)
           /\ \A j \in 1 .. Len(s) : [s EXCEPT ![i] = x][j] = IF j = i THEN x ELSE s[j]
<1>1. PICK S : s \in Seq(S)
  BY DEF Listed
<1> DEFINE T == S \cup {x}
<1>2. s \in Seq(T) /\ x \in T
  BY <1>1, SeqMonotonic
<1> HIDE DEF T
<1>3. /\ [s EXCEPT ![i] = x] \in Seq(T) /\ Len([s EXCEPT ![i] = x]) = Len(s)
      /\ \A j \in 1 .. Len(s) : [s EXCEPT ![i] = x][j] = IF j = i THEN x ELSE s[j]
  BY <1>2, ExceptSeq
<1>4. QED
  BY <1>3 DEF Listed

\* A list without its first
LEMMA ListTail ==
    ASSUME NEW s, Listed(s), s # <<>>
    PROVE  /\ Listed(Tail(s)) /\ Len(Tail(s)) = Len(s) - 1
           /\ \A i \in 1 .. Len(Tail(s)) : Tail(s)[i] = s[i + 1]
<1>1. PICK S : s \in Seq(S)
  BY DEF Listed
<1>2. /\ Tail(s) \in Seq(S) /\ Len(Tail(s)) = Len(s) - 1
      /\ \A i \in 1 .. Len(Tail(s)) : Tail(s)[i] = s[i + 1]
  BY <1>1, HeadTailProperties
<1>3. QED
  BY <1>2 DEF Listed

-----------------------------------------------------------------------------
\* Datagrams under way, of which one is added, lost or changed, are sound as before.
LEMMA WireAdded ==
    ASSUME WireSound, Len(wire) < MaxWire, NEW d, Sound(d), wire' = Append(wire, d)
    PROVE  WireSound'
<1>1. Len(wire) \in Nat
  BY ListFacts DEF WireSound
<1>2. /\ Listed(wire') /\ Len(wire') = Len(wire) + 1
      /\ \A i \in 1 .. Len(wire) : wire'[i] = wire[i]
      /\ wire'[Len(wire) + 1] = d
  BY ListAppend DEF WireSound
<1>3. ASSUME NEW i \in 1 .. Len(wire') PROVE Sound(wire'[i])
  <2>1. i \in 1 .. Len(wire) \/ i = Len(wire) + 1
    BY <1>1, <1>2
  <2>2. QED
    BY <1>2, <2>1 DEF WireSound
<1>4. Len(wire') <= MaxWire
  BY <1>1, <1>2, NetIOAssumption
<1>5. QED
  BY <1>2, <1>3, <1>4 DEF WireSound

\* One is lost, or was received.
LEMMA WireRemoved ==
    ASSUME WireSound, NEW i \in 1 .. Len(wire), wire' = RemoveAt(wire, i)
    PROVE  WireSound'
<1>1. Len(wire) \in Nat
  BY ListFacts DEF WireSound
<1>2. /\ Listed(wire') /\ Len(wire') = Len(wire) - 1
      /\ \A j \in 1 .. Len(wire') : \E k \in 1 .. Len(wire) : wire'[j] = wire[k]
  BY ListRemove DEF WireSound
<1>3. \A j \in 1 .. Len(wire') : Sound(wire'[j])
  BY <1>2 DEF WireSound
<1>4. Len(wire') <= MaxWire
  BY <1>1, <1>2, NetIOAssumption DEF WireSound
<1>5. QED
  BY <1>2, <1>3, <1>4 DEF WireSound

\* One is changed.
LEMMA WireChanged ==
    ASSUME WireSound, NEW i \in 1 .. Len(wire), NEW d, Sound(d), wire' = [wire EXCEPT ![i] = d]
    PROVE  WireSound'
<1>1. /\ Listed(wire') /\ Len(wire') = Len(wire)
      /\ \A j \in 1 .. Len(wire) : wire'[j] = IF j = i THEN d ELSE wire[j]
  <2> DEFINE w == [wire EXCEPT ![i] = d]
  <2>0. Listed(wire)
    BY DEF WireSound
  <2>1. Listed(w)
    BY <2>0, ListExcept
  <2>2. Len(w) = Len(wire)
    BY <2>0, ListExcept
  <2>3. \A j \in 1 .. Len(wire) : w[j] = IF j = i THEN d ELSE wire[j]
    BY <2>0, ListExcept
  <2>4. wire' = w
    OBVIOUS
  <2> HIDE DEF w
  <2>5. QED
    BY <2>1, <2>2, <2>3, <2>4
<1>2. \A j \in 1 .. Len(wire') : Sound(wire'[j])
  BY <1>1 DEF WireSound
<1>3. QED
  BY <1>1, <1>2 DEF WireSound

\* A frameset that was changed by its owner
LEMMA OutChanged ==
    ASSUME OutSound(out), out.by # None, NEW fs, IsFs(fs),
           fs.fstype \in FsTypes \cup {None}, fs.framelist \in Seq(Contents), ~out.sent,
           Becomes(fs)
    PROVE  OutSound(out')
<1>1. out = [by |-> out.by, sent |-> out.sent, fs |-> out.fs, made |-> out.made]
  BY DEF OutSound
<1>2. out' = [[out EXCEPT !.fs = fs] EXCEPT !.made = fs]
  BY DEF Becomes
<1> DEFINE o == [out EXCEPT !.fs = fs]
<1>3. o = [by |-> o.by, sent |-> o.sent, fs |-> o.fs, made |-> o.made]
      /\ o.by = out.by /\ (o.sent <=> out.sent) /\ o.fs = fs
  BY <1>1
<1>31. o.sent = out.sent
  BY <1>1
<1> HIDE DEF o
<1>4. out' = [o EXCEPT !.made = fs]
  BY <1>2 DEF o
<1>5. /\ out' = [by |-> out'.by, sent |-> out'.sent, fs |-> out'.fs, made |-> out'.made]
      /\ out'.by = o.by /\ out'.fs = o.fs /\ out'.made = fs
  BY <1>3, <1>4
<1>6. out'.sent = o.sent
  BY <1>3, <1>4
<1>7. out.sent \in BOOLEAN /\ out.by \in Senders \cup {None}
  BY DEF OutSound
<1>8. out'.sent = out.sent
  BY <1>31, <1>6, Zenon
<1>9. ~out'.sent /\ out'.sent \in BOOLEAN
  BY <1>7, <1>8, Zenon
<1>10. out'.fs = fs /\ out'.made = fs /\ out'.by = out.by
  BY <1>3, <1>5
<1>11. QED
  BY <1>5, <1>7, <1>9, <1>10 DEF OutSound

\* When there is none it is sound.
LEMMA NothingOutSound == OutSound(NothingOut)
<1> DEFINE fs == FrameSet(None)
<1>1. IsFs(fs) /\ fs.fstype = None /\ fs.framelist = <<>>
  BY DEF IsFs, FrameSet
<1>2. <<>> \in Seq(Contents)
  OBVIOUS
<1> HIDE DEF fs
<1> DEFINE o == NothingOut
<1>3. o = [by |-> None, sent |-> FALSE, fs |-> fs, made |-> fs]
  BY DEF NothingOut, fs
<1> HIDE DEF o
<1>4. /\ o = [by |-> o.by, sent |-> o.sent, fs |-> o.fs, made |-> o.made]
      /\ o.by = None /\ ~o.sent /\ o.sent \in BOOLEAN /\ o.fs = fs /\ o.made = fs
  BY <1>3
<1>5. QED
  BY <1>1, <1>2, <1>4 DEF OutSound, o

\* The invariant holds at the start.
LEMMA NetIOInvInit == NetIOInit => NetIOInv
<1> SUFFICES ASSUME NetIOInit PROVE NetIOInv
  OBVIOUS
<1>1. OutSound(out)
  BY NothingOutSound DEF NetIOInit
<1>2. WireSound /\ DeliveredRight
  <2>1. Listed(wire) /\ Len(wire) = 0 /\ Listed(delivered) /\ Len(delivered) = 0
    BY ListNothing DEF NetIOInit
  <2>2. QED
    BY <2>1, NetIOAssumption DEF WireSound, DeliveredRight
<1>3. RestTyped
  BY DEF NetIOInit, RestTyped, NetListeners
<1>4. QED
  BY <1>1, <1>2, <1>3 DEF NetIOInv

\* Sending wraps the frameset once, and what goes can be read.
LEMMA SendingSound ==
    ASSUME NetIOInv, SendAFrameset
    PROVE  OutSound(out') /\ WireSound'
<1> DEFINE m == out.made.framelist
           crypt == CryptFrameFor(out.by)
           wrapped == Wrap(out.fs, crypt, TRUE)
<1>1. /\ out = [by |-> out.by, sent |-> out.sent, fs |-> out.fs, made |-> out.made]
      /\ IsFs(out.fs) /\ IsFs(out.made)
      /\ out.fs.fstype = out.made.fstype /\ out.fs.fsflags = out.made.fsflags
      /\ out.made.fstype \in FsTypes \cup {None}
      /\ m \in Seq(Contents) /\ out.by \in Senders
  BY DEF NetIOInv, OutSound, SendAFrameset
<1>2. out.fs.framelist = m \/ Wrapped(out.fs.framelist, m)
  <2>1. out.sent \/ ~out.sent
    OBVIOUS
  <2>2. out.sent => Wrapped(out.fs.framelist, m)
    BY DEF NetIOInv, OutSound
  <2>3. ~out.sent => out.fs = out.made
    BY DEF NetIOInv, OutSound
  <2>4. QED
    BY <2>1, <2>2, <2>3, Zenon
<1>3. crypt \in Encrypting /\ (crypt # <<>> <=> destKey # None)
  <2>1. destKey \in NanoKeys \cup {None}
    BY DEF NetIOInv, RestTyped
  <2>2. CASE destKey = None
    BY <2>2 DEF CryptFrameFor, Encrypting
  <2>3. CASE destKey # None
    <3>1. crypt = <<CryptFrame(out.by, destKey)>> /\ destKey \in NanoKeys
      BY <2>1, <2>3 DEF CryptFrameFor
    <3>2. <<CryptFrame(out.by, destKey)>> # <<>>
      OBVIOUS
    <3> HIDE DEF crypt
    <3>3. out.by \in Senders
      BY <1>1
    <3>4. <<CryptFrame(out.by, destKey)>> \in Encrypting
      BY <3>1, <3>3 DEF Encrypting
    <3>5. QED
      BY <2>3, <3>1, <3>2, <3>4, Zenon
  <2>4. QED
    BY <2>2, <2>3
<1>4. out' = [out EXCEPT !.fs = wrapped, !.sent = TRUE] /\ SendAPacket(Packet(wrapped))
      /\ Len(wire) < MaxWire
  BY DEF SendAFrameset
<1> HIDE DEF m, crypt
<1>5. PICK comp \in Compressing :
          wrapped = [out.fs EXCEPT !.framelist = Before(crypt, comp) \o Body(m)]
  <2>1. m \in Seq(Contents) /\ crypt \in Encrypting
    BY <1>1, <1>3
  <2>2. QED
    BY <1>2, <2>1, WrapAgain
<1> DEFINE list == Before(crypt, comp) \o Body(m)
<1>6. Wrapped(list, m)
  BY <1>3, <1>5, Zenon DEF Wrapped
<1>7. Travelling(Marshalled(list), m, crypt # <<>>)
  BY <1>1, <1>3, <1>5, SentTravels, Zenon
<1>71. wrapped = [out.fs EXCEPT !.framelist = list]
  BY <1>5, Zenon
<1> HIDE DEF list, wrapped
<1>8. /\ IsFs(wrapped) /\ wrapped.fstype = out.fs.fstype /\ wrapped.fsflags = out.fs.fsflags
      /\ wrapped.framelist = list
  BY <1>1, <1>71 DEF IsFs
<1>9. OutSound(out')
  <2> DEFINE o == [out EXCEPT !.fs = wrapped]
  <2>1. /\ o = [by |-> o.by, sent |-> o.sent, fs |-> o.fs, made |-> o.made]
        /\ o.by = out.by /\ o.fs = wrapped /\ o.made = out.made
    BY <1>1
  <2>2. out' = [o EXCEPT !.sent = TRUE]
    BY <1>4
  <2> HIDE DEF o
  <2>3. /\ out' = [by |-> out'.by, sent |-> out'.sent, fs |-> out'.fs, made |-> out'.made]
        /\ out'.by = o.by /\ out'.fs = o.fs /\ out'.made = o.made /\ out'.sent = TRUE
    BY <2>1, <2>2
  <2>4. out'.by = out.by /\ out'.fs = wrapped /\ out'.made = out.made /\ out'.sent = TRUE
    BY <2>1, <2>3
  <2>5. out'.by # None
    BY <1>1, <2>4, NetIOAssumption
  <2>6. Wrapped(out'.fs.framelist, out'.made.framelist)
    BY <1>6, <1>8, <2>4, Zenon DEF m
  <2>7. out'.made.framelist \in Seq(Contents) /\ out'.by \in Senders \cup {None}
    BY <1>1, <2>4 DEF m
  <2>8. /\ IsFs(out'.fs) /\ IsFs(out'.made)
        /\ out'.fs.fstype = out'.made.fstype /\ out'.fs.fsflags = out'.made.fsflags
        /\ out'.made.fstype \in FsTypes \cup {None}
    BY <1>1, <1>8, <2>4
  <2>9. QED
    BY <2>3, <2>4, <2>5, <2>6, <2>7, <2>8 DEF OutSound
<1>10. CASE UNCHANGED wire
  BY <1>9, <1>10 DEF NetIOInv, WireSound
<1>11. CASE wire' = Append(wire, [packet |-> Packet(wrapped), missing |-> 0, by |-> out.by,
                                  key |-> destKey, made |-> out.made, whole |-> TRUE])
  <2> DEFINE p == Packet(wrapped)
             d == [packet |-> p, missing |-> 0, by |-> out.by,
                   key |-> destKey, made |-> out.made, whole |-> TRUE]
             l == Dataspace(Marshalled(wrapped.framelist))
  <2>1. p = [fstype |-> wrapped.fstype, fsflags |-> wrapped.fsflags,
             len |-> l, tlvs |-> Marshalled(wrapped.framelist)]
    BY DEF Packet
  <2> HIDE DEF l
  <2> DEFINE tlvs == Marshalled(wrapped.framelist)
  <2>2. tlvs = Marshalled(list)
    BY <1>8, Zenon
  <2>3. p = [fstype |-> wrapped.fstype, fsflags |-> wrapped.fsflags, len |-> l, tlvs |-> tlvs]
    BY <2>1
  <2> HIDE DEF p, tlvs
  <2>4. /\ p = [fstype |-> p.fstype, fsflags |-> p.fsflags, len |-> p.len, tlvs |-> p.tlvs]
        /\ p.fstype = out.made.fstype /\ p.fsflags = out.made.fsflags /\ p.tlvs = tlvs
    BY <1>1, <1>8, <2>3
  <2>5. /\ d = [packet |-> d.packet, missing |-> d.missing, by |-> d.by, key |-> d.key,
                made |-> d.made, whole |-> d.whole]
        /\ d.packet = p /\ d.key = destKey /\ d.made = out.made
    OBVIOUS
  <2>6. wire' = Append(wire, d)
    BY <1>11 DEF p
  <2> HIDE DEF d
  <2>7. Travelling(d.packet.tlvs, d.made.framelist, d.key # None)
    <3>1. (crypt # <<>>) = (destKey # None)
      BY <1>3
    <3>2. Travelling(tlvs, m, destKey # None)
      BY <1>7, <2>2, <3>1, Zenon
    <3>3. QED
      BY <2>4, <2>5, <3>2, Zenon DEF m
  <2>8. Sound(d)
    BY <1>1, <2>4, <2>5, <2>7 DEF Sound, m
  <2>9. WireSound'
    BY <1>4, <2>6, <2>8, WireAdded DEF NetIOInv
  <2>10. QED
    BY <1>9, <2>9
<1>12. QED
  BY <1>4, <1>10, <1>11 DEF SendAPacket

-----------------------------------------------------------------------------
\* What the network changes of a packet can be read all the same.
LEMMA ChangedAgain ==
    ASSUME NEW f, NEW g, f = g \/ f = [g EXCEPT !.intact = FALSE], Record(g)
    PROVE  [f EXCEPT !.intact = FALSE] = [g EXCEPT !.intact = FALSE]
BY DEF Record

\* A packet of which one TLV was changed
LEMMA GarbledTravels ==
    ASSUME NEW m \in Seq(Contents), NEW t, NEW hidden, Travelling(t, m, hidden),
           NEW j \in 2 .. Len(t)
    PROVE  Travelling(GarbledTlv(t, j), m, hidden)
<1> DEFINE body == Body(m)
           e == [t[j] EXCEPT !.intact = FALSE]
           u == [t EXCEPT ![j] = e]
<1>0. GarbledTlv(t, j) = u
  BY DEF GarbledTlv
<1>1. CASE ~hidden /\ OpenTlvs(t, body)
  <2>1. PICK s, rest : IsSign(s) /\ Changed(rest, body) /\ t = <<s>> \o rest
    BY <1>1 DEF OpenTlvs
  <2>2. /\ Listed(rest) /\ Len(rest) = Len(body)
        /\ \A i \in 1 .. Len(body) :
               rest[i] = body[i] \/ rest[i] = [body[i] EXCEPT !.intact = FALSE]
    BY <2>1 DEF Changed
  <2>3. Len(rest) \in Nat
    BY <2>2, ListFacts
  <2>4. /\ Listed(t) /\ Len(t) = Len(rest) + 1 /\ t[1] = s
        /\ \A i \in 1 .. Len(rest) : t[i + 1] = rest[i]
    BY <2>1, <2>2, ListFirst
  <2> DEFINE k == j - 1
  <2>5. k \in 1 .. Len(rest) /\ j = k + 1 /\ j \in 1 .. Len(t)
    BY <2>3, <2>4
  <2> HIDE DEF k
  <2> DEFINE new == [rest EXCEPT ![k] = e]
             v == <<s>> \o new
  <2>6. /\ Listed(new) /\ Len(new) = Len(rest)
        /\ \A i \in 1 .. Len(rest) : new[i] = IF i = k THEN e ELSE rest[i]
    <3> HIDE DEF e
    <3>1. Listed(new)
      BY <2>2, <2>5, ListExcept
    <3>2. Len(new) = Len(rest)
      BY <2>2, <2>5, ListExcept
    <3>3. \A i \in 1 .. Len(rest) : new[i] = IF i = k THEN e ELSE rest[i]
      BY <2>2, <2>5, ListExcept
    <3>4. QED
      BY <3>1, <3>2, <3>3
  <2>7. /\ Listed(u) /\ Len(u) = Len(t)
        /\ \A i \in 1 .. Len(t) : u[i] = IF i = j THEN e ELSE t[i]
    <3> HIDE DEF e
    <3>1. Listed(u)
      BY <2>4, <2>5, ListExcept
    <3>2. Len(u) = Len(t)
      BY <2>4, <2>5, ListExcept
    <3>3. \A i \in 1 .. Len(t) : u[i] = IF i = j THEN e ELSE t[i]
      BY <2>4, <2>5, ListExcept
    <3>4. QED
      BY <3>1, <3>2, <3>3
  <2>8. e = [body[k] EXCEPT !.intact = FALSE]
    <3>1. t[j] = rest[k]
      BY <2>4, <2>5
    <3>2. Record(body[k])
      BY <2>2, <2>5, BodyFrames DEF GoodFrame
    <3>3. rest[k] = body[k] \/ rest[k] = [body[k] EXCEPT !.intact = FALSE]
      BY <2>2, <2>5
    <3>4. [rest[k] EXCEPT !.intact = FALSE] = [body[k] EXCEPT !.intact = FALSE]
      BY <3>2, <3>3, ChangedAgain
    <3>5. QED
      BY <3>1, <3>4
  <2> HIDE DEF e, new, u
  <2>9. Changed(new, body)
    <3>1. ASSUME NEW i \in 1 .. Len(body)
          PROVE  new[i] = body[i] \/ new[i] = [body[i] EXCEPT !.intact = FALSE]
      <4>1. CASE i = k
        BY <2>2, <2>6, <2>8, <4>1
      <4>2. CASE i # k
        BY <2>2, <2>6, <4>2
      <4>3. QED
        BY <4>1, <4>2
    <3>2. QED
      BY <2>2, <2>6, <3>1 DEF Changed
  <2>10. /\ Listed(v) /\ Len(v) = Len(new) + 1 /\ v[1] = s
         /\ \A i \in 1 .. Len(new) : v[i + 1] = new[i]
    BY <2>6, ListFirst
  <2> HIDE DEF v
  <2>11. ASSUME NEW i \in 1 .. Len(u) PROVE u[i] = v[i]
    <3>1. CASE i = 1
      <4>1. i # j /\ i \in 1 .. Len(t)
        BY <2>3, <2>5, <2>7, <3>1
      <4>2. QED
        BY <2>4, <2>7, <2>10, <3>1, <4>1
    <3>2. CASE i # 1
      <4> DEFINE l == i - 1
      <4>1. l \in 1 .. Len(rest) /\ i = l + 1 /\ (i = j <=> l = k) /\ i \in 1 .. Len(t)
        BY <2>3, <2>4, <2>5, <2>7, <3>2
      <4> HIDE DEF l
      <4>2. v[i] = new[l] /\ t[i] = rest[l]
        BY <2>4, <2>6, <2>10, <4>1
      <4>3. QED
        BY <2>6, <2>7, <4>1, <4>2
    <3>3. QED
      BY <3>1, <3>2
  <2>12. u = v
    BY <2>3, <2>4, <2>6, <2>7, <2>10, <2>11, ListEqual
  <2>13. OpenTlvs(u, body)
    BY <2>1, <2>9, <2>12, Zenon DEF OpenTlvs, v
  <2>14. QED
    BY <1>0, <1>1, <2>13, Zenon DEF Travelling, body, u
<1>2. CASE ClosedTlvs(t, body) /\ (hidden => t[2].class = "CryptCurve25519")
  <2>1. PICK s, x : /\ IsSign(s) /\ Record(x) /\ Closes(x) /\ t = <<s, x>>
                    /\ \/ x.value.closed = body
                       \/ \E z : Closes(z) /\ x.value.closed = <<z>> /\ z.value.closed = body
    BY <1>2 DEF ClosedTlvs
  <2> DEFINE y == [x EXCEPT !.intact = FALSE]
  <2>2. Record(y) /\ y.class = x.class /\ y.known = x.known /\ y.value = x.value
    <3>1. Record(x)
      BY <2>1
    <3>2. y = [x EXCEPT !.intact = FALSE]
      OBVIOUS
    <3> HIDE DEF y
    <3>3. Record(y) /\ y.class = x.class /\ y.value = x.value
      BY <3>1, <3>2 DEF Record
    <3>4. y.known = x.known
      BY <3>1, <3>2 DEF Record
    <3>5. QED
      BY <3>3, <3>4
  <2>3. Closes(y)
    BY <2>1, <2>2 DEF Closes
  <2>4. j = 2 /\ t[2] = x
    BY <2>1
  <2>5. u = <<s, y>>
    <3>1. t = <<s, x>>
      BY <2>1
    <3>2. e = y
      BY <2>4
    <3> HIDE DEF e, y
    <3>3. u = [t EXCEPT ![2] = y]
      BY <2>4, <3>2
    <3> HIDE DEF u
    <3>4. QED
      BY <3>1, <3>3
  <2>6. u[2] = y
    BY <2>5
  <2> HIDE DEF y, u
  <2>7. ClosedTlvs(u, body)
    BY <2>1, <2>2, <2>3, <2>5, Zenon DEF ClosedTlvs
  <2>8. hidden => u[2].class = "CryptCurve25519"
    BY <1>2, <2>2, <2>4, <2>6, Zenon
  <2>9. QED
    BY <1>0, <2>7, <2>8, Zenon DEF Travelling, body, u
<1>3. QED
  BY <1>1, <1>2 DEF Travelling

\* What the network does to a datagram leaves it sound.
LEMMA NetworkSound ==
    ASSUME WireSound, Network
    PROVE  WireSound'
<1>1. PICK i \in 1 .. Len(wire) : Lose(i) \/ Repeat(i) \/ Cut(i) \/ Garble(i)
  BY DEF Network
<1> DEFINE d == wire[i]
<1>2. Sound(d) /\ Listed(wire) /\ DOMAIN wire = 1 .. Len(wire)
  BY ListFacts DEF WireSound
<1>3. d = [packet |-> d.packet, missing |-> d.missing, by |-> d.by, key |-> d.key,
           made |-> d.made, whole |-> d.whole]
  BY <1>2 DEF Sound
<1>4. CASE Lose(i)
  BY <1>4, WireRemoved DEF Lose
<1>5. CASE Repeat(i)
  BY <1>2, <1>5, WireAdded DEF Repeat
<1>6. CASE Cut(i)
  <2> DEFINE e == [d EXCEPT !.missing = 1]
             g == [e EXCEPT !.whole = FALSE]
             w == [wire EXCEPT ![i] = e]
  <2>1. wire' = [wire EXCEPT ![i].missing = 1, ![i].whole = FALSE]
    BY <1>6 DEF Cut
  <2>2. wire' = [w EXCEPT ![i].whole = FALSE]
    BY <2>1
  <2>3. w[i] = e
    BY <1>2
  <2>4. wire' = [w EXCEPT ![i] = g]
    <3>1. wire' = [w EXCEPT ![i] = [w[i] EXCEPT !.whole = FALSE]]
      BY <2>2
    <3>2. QED
      BY <2>3, <3>1
  <2>5. wire' = [wire EXCEPT ![i] = g]
    <3> HIDE DEF e, g
    <3>1. QED
      BY <1>2, <2>4
  <2>6. /\ g = [packet |-> g.packet, missing |-> g.missing, by |-> g.by, key |-> g.key,
                made |-> g.made, whole |-> g.whole]
        /\ g.packet = d.packet /\ g.key = d.key /\ g.made = d.made
    <3> HIDE DEF d
    <3>1. /\ e = [packet |-> e.packet, missing |-> e.missing, by |-> e.by, key |-> e.key,
                  made |-> e.made, whole |-> e.whole]
          /\ e.packet = d.packet /\ e.key = d.key /\ e.made = d.made
      BY <1>3
    <3>2. g = [e EXCEPT !.whole = FALSE]
      OBVIOUS
    <3> HIDE DEF e, g
    <3>3. QED
      BY <3>1, <3>2
  <2> HIDE DEF d, e, g
  <2>7. Sound(g)
    BY <1>2, <2>6, Zenon DEF Sound
  <2>8. QED
    BY <2>5, <2>7, WireChanged
<1>7. CASE Garble(i)
  <2>1. PICK j \in 2 .. Len(d.packet.tlvs) :
            wire' = [wire EXCEPT ![i].packet.tlvs = GarbledTlv(@, j), ![i].whole = FALSE]
    BY <1>7 DEF Garble
  <2> DEFINE t == GarbledTlv(d.packet.tlvs, j)
             p == [d.packet EXCEPT !.tlvs = t]
             e == [d EXCEPT !.packet = p]
             g == [e EXCEPT !.whole = FALSE]
             w == [wire EXCEPT ![i] = e]
  <2>2. wire' = [w EXCEPT ![i].whole = FALSE]
    <3>1. e = [d EXCEPT !.packet.tlvs = t]
      OBVIOUS
    <3>2. [wire EXCEPT ![i].packet.tlvs = t] = w
      BY <3>1
    <3>3. wire' = [[wire EXCEPT ![i].packet.tlvs = t] EXCEPT ![i].whole = FALSE]
      BY <2>1
    <3>4. QED
      BY <3>2, <3>3, Zenon
  <2>3. w[i] = e
    BY <1>2
  <2>4. wire' = [w EXCEPT ![i] = g]
    <3> HIDE DEF e
    <3>1. wire' = [w EXCEPT ![i] = [w[i] EXCEPT !.whole = FALSE]]
      BY <2>2
    <3>2. QED
      BY <2>3, <3>1
  <2>5. wire' = [wire EXCEPT ![i] = g]
    <3> HIDE DEF e, g
    <3>1. QED
      BY <1>2, <2>4
  <2>6. /\ d.packet = [fstype |-> d.packet.fstype, fsflags |-> d.packet.fsflags,
                       len |-> d.packet.len, tlvs |-> d.packet.tlvs]
        /\ d.packet.fstype = d.made.fstype /\ d.packet.fsflags = d.made.fsflags
        /\ d.made.fstype \in FsTypes \cup {None}
        /\ d.made.framelist \in Seq(Contents)
        /\ Travelling(d.packet.tlvs, d.made.framelist, d.key # None)
    BY <1>2, Zenon DEF Sound
  <2> HIDE DEF d
  <2>7. Travelling(t, d.made.framelist, d.key # None)
    BY <2>6, GarbledTravels
  <2> HIDE DEF t
  <2>8. /\ p = [fstype |-> p.fstype, fsflags |-> p.fsflags, len |-> p.len, tlvs |-> p.tlvs]
        /\ p.fstype = d.packet.fstype /\ p.fsflags = d.packet.fsflags /\ p.tlvs = t
    BY <2>6
  <2> HIDE DEF p
  <2>9. /\ e = [packet |-> e.packet, missing |-> e.missing, by |-> e.by, key |-> e.key,
                made |-> e.made, whole |-> e.whole]
        /\ e.packet = p /\ e.key = d.key /\ e.made = d.made
    BY <1>3
  <2>10. g = [e EXCEPT !.whole = FALSE]
    OBVIOUS
  <2> HIDE DEF e, g
  <2>11. /\ g = [packet |-> g.packet, missing |-> g.missing, by |-> g.by, key |-> g.key,
                 made |-> g.made, whole |-> g.whole]
         /\ g.packet = p /\ g.key = d.key /\ g.made = d.made
    BY <2>9, <2>10
  <2>12. Sound(g)
    <3>1. /\ g.packet = [fstype |-> g.packet.fstype, fsflags |-> g.packet.fsflags,
                         len |-> g.packet.len, tlvs |-> g.packet.tlvs]
          /\ g.packet.fstype = g.made.fstype /\ g.packet.fsflags = g.made.fsflags
          /\ g.made.fstype \in FsTypes \cup {None}
          /\ g.made.framelist \in Seq(Contents)
      BY <2>6, <2>8, <2>11
    <3>2. Travelling(g.packet.tlvs, g.made.framelist, g.key # None)
      BY <2>7, <2>8, <2>11, Zenon
    <3>3. QED
      BY <2>11, <3>1, <3>2, Zenon DEF Sound
  <2>13. QED
    BY <2>5, <2>12, WireChanged
<1>8. QED
  BY <1>1, <1>4, <1>5, <1>6, <1>7

-----------------------------------------------------------------------------
\* A sequence of the elements of a set that has one, or none
LEMMA SeqOfOne ==
    ASSUME NEW x
    PROVE  SetToSeq({x}) = <<x>>
<1> DEFINE S == {x}
           s == SetToSeq(S)
<1>1. Cardinality(S) = 1
  BY FS_Singleton
<1>2. s = CHOOSE f \in [1 .. 1 -> S] : IsInjective(f)
  BY <1>1, Zenon DEF SetToSeq
<1>3. \E f \in [1 .. 1 -> S] : IsInjective(f)
  <2> DEFINE f == [i \in 1 .. 1 |-> x]
  <2>1. f \in [1 .. 1 -> S] /\ IsInjective(f)
    BY DEF IsInjective
  <2>2. QED
    BY <2>1
<1>4. s \in [1 .. 1 -> S]
  BY <1>2, <1>3
<1> HIDE DEF s
<1>5. s = [i \in 1 .. 1 |-> x]
  BY <1>4
<1>6. QED
  BY <1>5 DEF s

\* The same for no element
LEMMA SeqOfNone == SetToSeq({}) = <<>>
<1> DEFINE S == {}
           s == SetToSeq(S)
<1>1. Cardinality(S) = 0
  BY FS_EmptySet
<1>2. s = CHOOSE f \in [1 .. 0 -> S] : IsInjective(f)
  BY <1>1, Zenon DEF SetToSeq
<1>3. \E f \in [1 .. 0 -> S] : IsInjective(f)
  <2> DEFINE f == [i \in 1 .. 0 |-> 1]
  <2>1. f \in [1 .. 0 -> S] /\ IsInjective(f)
    BY DEF IsInjective
  <2>2. QED
    BY <2>1
<1>4. s \in [1 .. 0 -> S]
  BY <1>2, <1>3
<1> HIDE DEF s
<1>5. s = [i \in 1 .. 0 |-> 1]
  BY <1>4
<1>6. QED
  BY <1>5 DEF s

\* What is made of a datagram is a frameset as it was, or as it can be told from it.
LEMMA DatagramRight ==
    ASSUME NEW d, Sound(d), NEW fs \in Decode(d.packet, d.missing, NanoRing),
           NEW g, g.fs = fs, g.made = d.made
    PROVE  Right(g) /\ fs.fstype = d.made.fstype
<1> DEFINE D == DecodeFrames(d.packet.tlvs, NanoRing)
           m == d.made.framelist
           t == d.packet.tlvs
           body == Body(m)
<1>1. /\ d.packet.fstype = d.made.fstype /\ d.packet.fsflags = d.made.fsflags
      /\ m \in Seq(Contents)
  BY Zenon DEF Sound
<1>2. Travelling(t, m, d.key # None)
  BY Zenon DEF Sound
<1>3. D.ok /\ fs = [FrameSetOf(d.packet) EXCEPT !.framelist = D.frames]
  <2> DEFINE r == [FrameSetOf(d.packet) EXCEPT !.framelist = D.frames]
  <2>1. Decode(d.packet, d.missing, NanoRing) =
            IF IsValidTlvPacket(t, d.missing) /\ D.ok THEN {r} ELSE {}
    BY Zenon DEF Decode
  <2> HIDE DEF r
  <2>2. D.ok /\ fs = r
    BY <2>1
  <2>3. QED
    BY <2>2 DEF r
<1> HIDE DEF D
<1>4. fs.fstype = d.packet.fstype /\ fs.fsflags = d.packet.fsflags /\ fs.framelist = D.frames
  <2> DEFINE r == FrameSetOf(d.packet)
  <2>1. /\ r = [fstype |-> r.fstype, fsflags |-> r.fsflags, framelist |-> r.framelist]
        /\ r.fstype = d.packet.fstype /\ r.fsflags = {} \cup d.packet.fsflags
    BY DEF FrameSetOf, SetFlags, FrameSet
  <2>2. {} \cup d.packet.fsflags = d.packet.fsflags
    OBVIOUS
  <2> HIDE DEF r
  <2>3. fs = [r EXCEPT !.framelist = D.frames]
    BY <1>3 DEF r
  <2>4. QED
    BY <2>1, <2>2, <2>3
<1>5. CASE OpenTlvs(t, body)
  <2>1. \A i \in 1 .. Len(D.frames) : D.frames[i].class \notin Special \ {"SignFrame"}
    BY <1>1, <1>3, <1>5, OpenArrives DEF D
  <2>2. (\A i \in 1 .. Len(D.frames) : D.frames[i].intact)
        => WithoutSpecial(D.frames) = AsReceived(m)
    BY <1>1, <1>3, <1>5, OpenArrives DEF D
  <2>3. ~WasClosed(fs)
    BY <1>4, <2>1 DEF WasClosed
  <2>4. IsIntact(fs) => WithoutSpecial(fs.framelist) = AsReceived(m)
    BY <1>4, <2>2 DEF IsIntact
  <2>5. QED
    BY <1>1, <1>4, <2>3, <2>4 DEF Right
<1>6. CASE ClosedTlvs(t, body)
  <2>1. \A i \in 1 .. Len(D.frames) : D.frames[i].intact
    BY <1>1, <1>3, <1>6, ClosedArrives DEF D
  <2>2. WithoutSpecial(D.frames) = AsReceived(m)
    BY <1>1, <1>3, <1>6, ClosedArrives DEF D
  <2>3. IsIntact(fs)
    BY <1>4, <2>1 DEF IsIntact
  <2>4. WithoutSpecial(fs.framelist) = AsReceived(m)
    BY <1>4, <2>2, Zenon
  <2>5. QED
    BY <1>1, <1>4, <2>3, <2>4 DEF Right
<1>7. QED
  BY <1>2, <1>5, <1>6 DEF Travelling

\* A frameset that is received is given to a listener as it should be.
LEMMA ReceivedRight ==
    ASSUME NetIOInv, NEW i \in 1 .. Len(wire), ReceiveDatagram(i)
    PROVE  NetIOInv'
<1> DEFINE d == wire[i]
           Given(fs, to) == [fs |-> fs, to |-> to, by |-> d.by, made |-> d.made,
                             obeyed |-> to = "auth" /\ Authenticated(fs)]
           G(fs) == Given(fs, ListenerFor(fs.fstype))
           got == Decode(d.packet, d.missing, NanoRing)
           added == SetToSeq({G(fs) : fs \in got})
<1>1. /\ Len(delivered) < MaxDelivered /\ wire' = RemoveAt(wire, i)
      /\ delivered' = delivered \o added
      /\ UNCHANGED <<out, destKey, dispatchers>>
  BY Zenon DEF ReceiveDatagram
<1>2. WireSound /\ DeliveredRight /\ OutSound(out) /\ RestTyped
  BY DEF NetIOInv
<1>3. WireSound'
  BY <1>1, <1>2, WireRemoved
<1>4. OutSound(out)' /\ RestTyped'
  BY <1>1, <1>2 DEF RestTyped
<1>5. Sound(d)
  BY <1>2 DEF WireSound
<1>6. ASSUME NEW fs \in got PROVE Right(G(fs))
  <2> DEFINE g == G(fs)
  <2>1. g.fs = fs /\ g.made = d.made
    OBVIOUS
  <2> HIDE DEF g, d
  <2>2. QED
    BY <1>5, <2>1, DatagramRight DEF g
<1>7. got = {} \/ \E fs : got = {fs}
  BY Zenon DEF Decode
<1> HIDE DEF d, G, got
<1>8. /\ Listed(added) /\ Len(added) <= 1
      /\ \A j \in 1 .. Len(added) : Right(added[j])
  <2>1. CASE got = {}
    <3>1. {G(fs) : fs \in got} = {}
      BY <2>1
    <3>2. added = <<>>
      BY <3>1, SeqOfNone
    <3> HIDE DEF added
    <3>3. QED
      BY <3>2, ListNothing
  <2>2. CASE \E fs : got = {fs}
    <3>1. PICK fs : got = {fs}
      BY <2>2
    <3>2. {G(x) : x \in got} = {G(fs)}
      BY <3>1
    <3>3. added = <<G(fs)>>
      BY <3>2, SeqOfOne
    <3>4. Right(G(fs))
      BY <1>6, <3>1
    <3> HIDE DEF added
    <3>5. Listed(added) /\ Len(added) = 1 /\ added[1] = G(fs)
      BY <3>3, ListOne
    <3>6. QED
      BY <3>4, <3>5
  <2>3. QED
    BY <1>7, <2>1, <2>2
<1> HIDE DEF added
<1>9. DeliveredRight'
  <2>0. Listed(delivered) /\ Listed(added)
    BY <1>2, <1>8 DEF DeliveredRight
  <2> DEFINE s == delivered \o added
  <2>1. Listed(s)
    BY <2>0, ListJoin
  <2>2. Len(s) = Len(delivered) + Len(added)
    BY <2>0, ListJoin
  <2>3. \A j \in 1 .. Len(delivered) : s[j] = delivered[j]
    BY <2>0, ListJoin
  <2>4. \A j \in 1 .. Len(added) : s[Len(delivered) + j] = added[j]
    BY <2>0, ListJoin
  <2>5. Len(delivered) \in Nat /\ Len(added) \in Nat
    BY <2>0, ListFacts
  <2>6. delivered' = s
    BY <1>1
  <2> HIDE DEF s
  <2>7. Len(s) <= MaxDelivered
    BY <1>1, <1>8, <2>2, <2>5, NetIOAssumption
  <2>8. ASSUME NEW j \in 1 .. Len(s) PROVE Right(s[j])
    <3>1. CASE j <= Len(delivered)
      <4>1. j \in 1 .. Len(delivered)
        BY <2>2, <2>5, <3>1
      <4>2. QED
        BY <1>2, <2>3, <4>1 DEF DeliveredRight
    <3>2. CASE ~(j <= Len(delivered))
      <4> DEFINE k == j - Len(delivered)
      <4>1. k \in 1 .. Len(added) /\ j = Len(delivered) + k
        BY <2>2, <2>5, <3>2
      <4> HIDE DEF k
      <4>2. QED
        BY <1>8, <2>4, <4>1
    <3>3. QED
      BY <3>1, <3>2
  <2>9. QED
    BY <2>1, <2>6, <2>7, <2>8 DEF DeliveredRight
<1>10. QED
  BY <1>3, <1>4, <1>9 DEF NetIOInv

\* A listener that is done with one leaves the others.
LEMMA HandledRight ==
    ASSUME NetIOInv, Handled
    PROVE  NetIOInv'
<1>1. /\ delivered # <<>> /\ delivered' = Tail(delivered)
      /\ UNCHANGED <<out, destKey, wire, dispatchers>>
  BY DEF Handled
<1>2. WireSound /\ DeliveredRight /\ OutSound(out) /\ RestTyped
  BY DEF NetIOInv
<1>3. Listed(delivered) /\ Len(delivered) \in Nat
  BY <1>2, ListFacts DEF DeliveredRight
<1>4. /\ Listed(delivered') /\ Len(delivered') = Len(delivered) - 1
      /\ \A i \in 1 .. Len(delivered') : delivered'[i] = delivered[i + 1]
  BY <1>1, <1>3, ListTail
<1>5. ASSUME NEW i \in 1 .. Len(delivered') PROVE Right(delivered'[i])
  <2> DEFINE j == i + 1
  <2>1. j \in 1 .. Len(delivered) /\ delivered'[i] = delivered[j]
    BY <1>3, <1>4
  <2> HIDE DEF j
  <2>2. QED
    BY <1>2, <2>1 DEF DeliveredRight
<1>6. Len(delivered') <= MaxDelivered
  BY <1>2, <1>3, <1>4, NetIOAssumption DEF DeliveredRight
<1>7. DeliveredRight'
  BY <1>4, <1>5, <1>6 DEF DeliveredRight
<1>8. OutSound(out)' /\ RestTyped' /\ WireSound'
  BY <1>1, <1>2 DEF RestTyped, WireSound
<1>9. QED
  BY <1>7, <1>8 DEF NetIOInv

\* Where datagrams and what was delivered stay, the invariant is about the sender only.
LEMMA OthersUnchanged ==
    ASSUME NetIOInv, UNCHANGED <<wire, delivered>>, OutSound(out'), RestTyped'
    PROVE  NetIOInv'
<1>1. WireSound' /\ DeliveredRight'
  BY DEF NetIOInv, WireSound, DeliveredRight
<1>2. QED
  BY <1>1 DEF NetIOInv

\* Each action keeps the invariant.
LEMMA NetIOInvNext == NetIOInv /\ [NetIONext]_netIOVars => NetIOInv'
<1> SUFFICES ASSUME NetIOInv, [NetIONext]_netIOVars PROVE NetIOInv'
  OBVIOUS
<1>0. OutSound(out) /\ WireSound /\ DeliveredRight /\ RestTyped
  BY DEF NetIOInv
<1>1. CASE DissociateListener
  <2>1. UNCHANGED <<out, destKey, wire, delivered>>
        /\ dispatchers' = [t \in DOMAIN dispatchers |->
                              IF t \in Commands THEN None ELSE dispatchers[t]]
    BY <1>1 DEF DissociateListener
  <2>2. RestTyped'
    BY <1>0, <2>1 DEF RestTyped
  <2>3. QED
    BY <1>0, <2>1, <2>2, OthersUnchanged
<1>2. ASSUME NEW s \in Senders, NEW t \in FsTypes, NEW key \in NanoKeys \cup {None},
             NewFrameSet(s, t, key)
      PROVE  NetIOInv'
  <2> DEFINE fs == FrameSet(t)
  <2>1. /\ out' = [by |-> s, sent |-> FALSE, fs |-> fs, made |-> fs]
        /\ destKey' = key /\ UNCHANGED <<wire, dispatchers, delivered>>
    BY <1>2 DEF NewFrameSet
  <2>2. IsFs(fs) /\ fs.fstype = t /\ fs.framelist = <<>>
    BY DEF IsFs, FrameSet
  <2>3. <<>> \in Seq(Contents) /\ s # None
    BY NetIOAssumption
  <2> HIDE DEF fs
  <2>4. /\ out' = [by |-> out'.by, sent |-> out'.sent, fs |-> out'.fs, made |-> out'.made]
        /\ out'.by = s /\ ~out'.sent /\ out'.sent \in BOOLEAN
        /\ out'.fs = fs /\ out'.made = fs
    BY <2>1
  <2>5. OutSound(out')
    BY <2>2, <2>3, <2>4 DEF OutSound
  <2>6. RestTyped'
    BY <1>0, <2>1 DEF RestTyped
  <2>7. QED
    BY <2>1, <2>5, <2>6, OthersUnchanged
<1>3. ASSUME NEW f \in Contents, AddFrame(f) PROVE NetIOInv'
  <2> DEFINE fs == AppendFrame(out.fs, f)
  <2>1. /\ out.by # None /\ ~out.sent /\ Becomes(fs)
        /\ UNCHANGED <<destKey, wire, dispatchers, delivered>>
    BY <1>3 DEF AddFrame
  <2>2. /\ IsFs(out.fs) /\ out.fs.fstype \in FsTypes \cup {None}
        /\ out.fs.framelist \in Seq(Contents)
    BY <1>0, <2>1 DEF OutSound
  <2>3. /\ IsFs(fs) /\ fs.fstype = out.fs.fstype
        /\ fs.framelist = Append(out.fs.framelist, f)
    <3> DEFINE old == out.fs
               list == Append(old.framelist, f)
    <3>1. fs = [old EXCEPT !.framelist = list]
      BY DEF AppendFrame
    <3> HIDE DEF fs, list
    <3>2. IsFs(fs) /\ fs.fstype = old.fstype /\ fs.framelist = list
      BY <2>2, <3>1 DEF IsFs
    <3>3. QED
      BY <3>2 DEF list
  <2>4. fs.framelist \in Seq(Contents)
    BY <2>2, <2>3, AppendProperties
  <2> HIDE DEF fs
  <2>5. OutSound(out')
    BY <1>0, <2>1, <2>2, <2>3, <2>4, OutChanged
  <2>6. RestTyped'
    BY <1>0, <2>1 DEF RestTyped
  <2>7. QED
    BY <2>1, <2>5, <2>6, OthersUnchanged
<1>4. CASE ChangeFlags
  <2> DEFINE fs == IF out.fs.fsflags = {} THEN SetFlags(out.fs, {1}) ELSE ClearFlags(out.fs, {1})
  <2>1. /\ out.by # None /\ ~out.sent /\ Becomes(fs)
        /\ UNCHANGED <<destKey, wire, dispatchers, delivered>>
    BY <1>4 DEF ChangeFlags
  <2>2. /\ IsFs(out.fs) /\ out.fs.fstype \in FsTypes \cup {None}
        /\ out.fs.framelist \in Seq(Contents)
    BY <1>0, <2>1 DEF OutSound
  <2>3. \E bits : fs = [out.fs EXCEPT !.fsflags = bits]
    BY DEF SetFlags, ClearFlags
  <2> HIDE DEF fs
  <2>4. IsFs(fs) /\ fs.fstype = out.fs.fstype /\ fs.framelist = out.fs.framelist
    BY <2>2, <2>3 DEF IsFs
  <2>5. OutSound(out')
    BY <1>0, <2>1, <2>2, <2>4, OutChanged
  <2>6. RestTyped'
    BY <1>0, <2>1 DEF RestTyped
  <2>7. QED
    BY <2>1, <2>5, <2>6, OthersUnchanged
<1>5. ASSUME NEW k \in NanoKeys, SetDestKey(k) PROVE NetIOInv'
  <2>1. RestTyped' /\ UNCHANGED <<out, wire, delivered>>
    BY <1>0, <1>5 DEF SetDestKey, RestTyped
  <2>2. QED
    BY <1>0, <2>1, OthersUnchanged
<1>6. CASE SendAFrameset
  <2>1. OutSound(out') /\ WireSound'
    BY <1>6, SendingSound
  <2>2. UNCHANGED <<destKey, dispatchers, delivered>>
    BY <1>6 DEF SendAFrameset
  <2>3. RestTyped' /\ DeliveredRight'
    BY <1>0, <2>2 DEF RestTyped, DeliveredRight
  <2>4. QED
    BY <2>1, <2>3 DEF NetIOInv
<1>7. CASE SendingDone
  <2>1. out' = NothingOut /\ destKey' = None /\ UNCHANGED <<wire, dispatchers, delivered>>
    BY <1>7 DEF SendingDone
  <2>2. RestTyped'
    BY <1>0, <2>1 DEF RestTyped
  <2>3. OutSound(out')
    BY <2>1, NothingOutSound
  <2>4. QED
    BY <2>1, <2>2, <2>3, OthersUnchanged
<1>8. CASE Network
  <2>1. WireSound'
    BY <1>0, <1>8, NetworkSound
  <2>2. UNCHANGED <<out, destKey, dispatchers, delivered>>
    BY <1>8 DEF Network
  <2>3. RestTyped' /\ DeliveredRight' /\ OutSound(out')
    BY <1>0, <2>2 DEF RestTyped, DeliveredRight
  <2>4. QED
    BY <2>1, <2>3 DEF NetIOInv
<1>9. ASSUME NEW i \in 1 .. Len(wire), ReceiveDatagram(i) PROVE NetIOInv'
  BY <1>9, ReceivedRight
<1>10. CASE Handled
  BY <1>10, HandledRight
<1>11. CASE UNCHANGED netIOVars
  <2>1. UNCHANGED <<out, destKey, wire, dispatchers, delivered>>
    BY <1>11 DEF netIOVars
  <2>2. RestTyped' /\ OutSound(out')
    BY <1>0, <2>1 DEF RestTyped
  <2>3. QED
    BY <2>1, <2>2, OthersUnchanged
<1>12. QED
  BY <1>1, <1>2, <1>3, <1>4, <1>5, <1>6, <1>7, <1>8, <1>9, <1>10, <1>11 DEF NetIONext

\* The invariant of NetIO holds always: what is under way can be read as what was made, or
\* can be told from it.
THEOREM NetIOInvariant == NetIOSpec => []NetIOInv
BY NetIOInvInit, NetIOInvNext, PTL DEF NetIOSpec

\* NetIO is type correct.
THEOREM NetIOTypes == NetIOSpec => []NetIOTypeOK
<1>1. NetIOInv => NetIOTypeOK
  BY DEF NetIOInv, OutSound, WireSound, DeliveredRight, RestTyped, NetIOTypeOK
<1>2. QED
  BY <1>1, NetIOInvariant, PTL

\* A frameset of any frames, wrapped in whatever way and however often it was sent, arrives
\* with its type, its flags and its frames in their order, or can be told from it
\* (ArrivesAsMade).
THEOREM ArriveAsMade == NetIOSpec => []ArrivesAsMade
<1>1. NetIOInv => ArrivesAsMade
  BY DEF NetIOInv, DeliveredRight, Right, ArrivesAsMade
<1>2. QED
  BY <1>1, NetIOInvariant, PTL

\* A frameset of any frames that is sent again has one wrapping, whose frames are before all
\* others and in their order, and what is sent with a key is encrypted (WrappedOnce).
THEOREM AreWrappedOnce == NetIOSpec => []WrappedOnce
<1>1. ASSUME NetIOInv PROVE WrappedOnce
  <2>1. ASSUME out.sent PROVE Once(out.fs.framelist)
    BY <1>1, <2>1, WrappedIsOnce DEF NetIOInv, OutSound
  <2>2. ASSUME NEW i \in 1 .. Len(wire), wire[i].key # None
        PROVE  Len(wire[i].packet.tlvs) = 2 /\ wire[i].packet.tlvs[2].class = "CryptCurve25519"
    <3> DEFINE t == wire[i].packet.tlvs
               m == wire[i].made.framelist
    <3>1. Travelling(t, m, wire[i].key # None)
      BY <1>1 DEF NetIOInv, WireSound, Sound
    <3>2. ClosedTlvs(t, Body(m)) /\ t[2].class = "CryptCurve25519"
      BY <2>2, <3>1, Zenon DEF Travelling
    <3> HIDE DEF t
    <3>3. PICK s, x : t = <<s, x>>
      BY <3>2 DEF ClosedTlvs
    <3>4. Len(t) = 2
      BY <3>3
    <3>5. QED
      BY <3>2, <3>4 DEF t
  <2>3. out.sent =>
        LET classes == [i \in 1 .. Len(out.fs.framelist) |-> out.fs.framelist[i].class]
            special == {i \in 1 .. Len(classes) : classes[i] \in Special}
        IN  /\ \E n \in 1 .. 3 :
                /\ special = 1 .. n
                /\ SubSeq(classes, 1, n) \in {<<"SignFrame">>, <<"SignFrame", "CryptCurve25519">>,
                                              <<"SignFrame", "CompressFrame">>,
                                              <<"SignFrame", "CryptCurve25519", "CompressFrame">>}
            /\ Cardinality({i \in 1 .. Len(classes) : classes[i] = "End"}) = 1
    BY <2>1, Zenon DEF Once, Classes, BeforeClasses
  <2>4. QED
    BY <2>2, <2>3, Zenon DEF WrappedOnce
<1>2. QED
  BY <1>1, NetIOInvariant, PTL
===============================================================================
