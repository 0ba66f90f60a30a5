--------------------------- MODULE NetSocket_proofs ---------------------------
(*****************************************************************************)
(* Proofs about NetSocket and NetAddrs for any addresses, aliases and sizes: *)
(* that equality and hash of IP addresses fit, that the socket is type       *)
(* correct, that packets go to whom they are meant for (SentToWhomMeant),    *)
(* that equal addresses have the same alias (EqualAddressesAlike), and that  *)
(* the text of an address is read as this address, or as an equal one where  *)
(* an IPv4 address that IPv6 has is written as IPv4 (TextReadsBack).         *)
(*                                                                           *)
(* The argument: each IP address has one canonical IPv6 body, which is what  *)
(* is hashed; two addresses are equal when and only when their ports and     *)
(* these bodies are, for each of the cases that _netaddr_equal tells apart.  *)
(* The socket address of an address has its canonical body.  For the latter  *)
(* the invariant has to say of the address a packet came from, to which an   *)
(* answer may be sent, that it is an IP address and not the one of no host.  *)
(*                                                                           *)
(* Of IPv6 text: what is written of the first n words, and what the reader   *)
(* has after n turns, are given in closed form (Writing, PlainState and      *)
(* GapState) for every body, whether a run of two or more zeros is left out  *)
(* of it (the words after the p-th, to the q-th) or none is; one turn of     *)
(* either loop leads from the form for n to the form for n + 1.              *)
(*****************************************************************************)
EXTENDS NetSocket, TLAPS, SequenceTheorems

\* An IPv4 address as IPv6 has it
Mapped(b) == v4prefix \o b

\* Numbers that are words, under a name that keeps them from the arithmetic
LEMMA SomeWords ==
    Word \subseteq Nat /\ 0 \in Word /\ 1 \in Word /\ 127 * 256 \in Word /\ 65535 \in Word
BY DEF Word

\* Two sequences of a set, one behind the other
LEMMA Joined ==
    ASSUME NEW S, NEW s \in Seq(S), NEW t \in Seq(S)
    PROVE  /\ s \o t \in Seq(S) /\ Len(s \o t) = Len(s) + Len(t)
           /\ \A i \in 1 .. Len(s) : (s \o t)[i] = s[i]
           /\ \A i \in 1 .. Len(t) : (s \o t)[Len(s) + i] = t[i]
<1> DEFINE m == Len(s)
           n == Len(t)
<1>0. m \in Nat /\ n \in Nat
  BY LenProperties
<1>1. /\ s \o t \in Seq(S) /\ Len(s \o t) = m + n
      /\ \A i \in 1 .. m + n : (s \o t)[i] = IF i <= m THEN s[i] ELSE t[i - m]
  BY ConcatProperties
<1> HIDE DEF m, n
<1>2. ASSUME NEW i \in 1 .. n PROVE (s \o t)[m + i] = t[i]
  <2>1. m + i \in 1 .. m + n /\ ~(m + i <= m) /\ (m + i) - m = i
    BY <1>0
  <2>2. QED
    BY <1>1, <2>1
<1>3. ASSUME NEW i \in 1 .. m PROVE (s \o t)[i] = s[i]
  BY <1>0, <1>1
<1>4. QED
  BY <1>1, <1>2, <1>3 DEF m, n

\* A sequence with an element behind it
LEMMA Behind ==
    ASSUME NEW S, NEW s \in Seq(S), NEW w \in S
    PROVE  /\ s \o <<w>> \in Seq(S) /\ Len(s \o <<w>>) = Len(s) + 1
           /\ \A i \in 1 .. Len(s) : (s \o <<w>>)[i] = s[i]
           /\ (s \o <<w>>)[Len(s) + 1] = w
<1>1. <<w>> \in Seq(S) /\ Len(<<w>>) = 1 /\ <<w>>[1] = w
  OBVIOUS
<1> DEFINE t == <<w>>
<1>2. t \in Seq(S) /\ Len(t) = 1 /\ t[1] = w
  BY <1>1
<1> HIDE DEF t
<1>3. /\ s \o t \in Seq(S) /\ Len(s \o t) = Len(s) + Len(t)
      /\ \A i \in 1 .. Len(s) : (s \o t)[i] = s[i]
      /\ \A i \in 1 .. Len(t) : (s \o t)[Len(s) + i] = t[i]
  BY <1>2, Joined
<1>4. QED
  BY <1>2, <1>3 DEF t

\* The prefix of the IPv4 addresses that IPv6 has: five zeros and one that is none
LEMMA PrefixWords ==
    /\ v4prefix \in Seq(Word) /\ Len(v4prefix) = 6
    /\ \A i \in 1 .. 5 : v4prefix[i] = 0
    /\ v4prefix[6] # 0
<1> DEFINE z == Zeros(5)
           w == 65535
<1>1. z \in Seq(Word) /\ Len(z) = 5 /\ \A i \in 1 .. 5 : z[i] = 0
  BY SomeWords DEF Zeros
<1>2. w \in Word /\ w # 0
  BY SomeWords
<1>3. v4prefix = z \o <<w>>
  BY DEF v4prefix
<1> HIDE DEF z, w
<1>4. QED
  <2> DEFINE m == z \o <<w>>
  <2>1. /\ m \in Seq(Word) /\ Len(m) = Len(z) + 1
        /\ \A i \in 1 .. Len(z) : m[i] = z[i]
        /\ m[Len(z) + 1] = w
    BY <1>1, <1>2, Behind, ZenonT(60)
  <2> HIDE DEF m
  <2>2. QED
    BY <1>1, <1>2, <1>3, <2>1 DEF m

\* The words of an address are a sequence,
LEMMA WordsAreSeq ==
    ASSUME NEW n \in Nat, NEW b \in Words(n)
    PROVE  b \in Seq(Word) /\ Len(b) = n
BY DEF Words

\* and the other way round.
LEMMA SeqIsWords ==
    ASSUME NEW b \in Seq(Word)
    PROVE  b \in Words(Len(b))
BY LenProperties DEF Words

\* Word by word, what an IPv4 address is in IPv6
LEMMA MappedWords ==
    ASSUME NEW b \in Words(2)
    PROVE  /\ Mapped(b) \in Words(8)
           /\ \A i \in 1 .. 5 : Mapped(b)[i] = 0
           /\ Mapped(b)[6] # 0
           /\ \A i \in 1 .. 6 : Mapped(b)[i] = v4prefix[i]
           /\ Mapped(b)[7] = b[1] /\ Mapped(b)[8] = b[2]
<1>1. b \in Seq(Word) /\ Len(b) = 2
  BY WordsAreSeq
<1>2. /\ Mapped(b) \in Seq(Word) /\ Len(Mapped(b)) = 8
      /\ \A i \in 1 .. 6 : Mapped(b)[i] = v4prefix[i]
      /\ \A i \in 1 .. 2 : Mapped(b)[6 + i] = b[i]
  <2>1. v4prefix \in Seq(Word) /\ Len(v4prefix) = 6
    BY PrefixWords
  <2> DEFINE m == v4prefix \o b
  <2>2. /\ m \in Seq(Word) /\ Len(m) = Len(v4prefix) + Len(b)
        /\ \A i \in 1 .. Len(v4prefix) : m[i] = v4prefix[i]
        /\ \A i \in 1 .. Len(b) : m[Len(v4prefix) + i] = b[i]
    <3>1. v4prefix \in Seq(Word) /\ b \in Seq(Word)
      BY <1>1, <2>1
    <3>2. QED
      BY <3>1, Joined
  <2>3. Mapped(b) = m
    BY DEF Mapped
  <2> HIDE DEF m
  <2>4. QED
    BY <1>1, <2>1, <2>2, <2>3
<1>3. Mapped(b) \in Words(8)
  BY <1>2, SeqIsWords
<1>4. QED
  BY <1>2, <1>3, PrefixWords

\* Different IPv4 addresses are different in IPv6.
LEMMA MappedInjective ==
    ASSUME NEW a \in Words(2), NEW b \in Words(2), Mapped(a) = Mapped(b)
    PROVE  a = b
<1>1. a[1] = b[1] /\ a[2] = b[2]
  BY MappedWords
<1>2. QED
  BY <1>1 DEF Words

\* The bodies of the addresses that the code has names for
LEMMA KnownBodies ==
    /\ ipv4loop \in Words(2) /\ ipv6loop \in Words(8)
    /\ v4anyaddr \in Words(2) /\ v6anyaddr \in Words(8)
    /\ ipv6loop[6] = 0 /\ v6anyaddr[6] = 0
<1>1. ipv4loop \in Words(2)
  BY SomeWords DEF ipv4loop, Words
<1>2. Zeros(7) \in Seq(Word) /\ Len(Zeros(7)) = 7 /\ \A i \in 1 .. 7 : Zeros(7)[i] = 0
  BY SomeWords DEF Zeros
<1>3. ipv6loop \in Seq(Word) /\ Len(ipv6loop) = 8 /\ ipv6loop[6] = Zeros(7)[6]
  <2> DEFINE z == Zeros(7)
             m == z \o <<1>>
  <2>1. z \in Seq(Word) /\ Len(z) = 7 /\ ipv6loop = m
    BY <1>2 DEF ipv6loop
  <2> HIDE DEF z
  <2>2. /\ m \in Seq(Word) /\ Len(m) = Len(z) + 1
        /\ \A i \in 1 .. Len(z) : m[i] = z[i]
    <3>1. z \in Seq(Word) /\ 1 \in Word
      BY <2>1, SomeWords
    <3>2. QED
      BY <3>1, Behind
  <2> HIDE DEF m
  <2>3. QED
    BY <2>1, <2>2 DEF z
<1>5. ipv6loop \in Words(8) /\ ipv6loop[6] = 0
  <2>1. ipv6loop \in Words(Len(ipv6loop))
    BY <1>3, SeqIsWords
  <2>2. 6 \in 1 .. 7
    OBVIOUS
  <2>3. QED
    BY <1>2, <1>3, <2>1, <2>2, Zenon
<1>6. v4anyaddr \in Words(2) /\ v6anyaddr \in Words(8) /\ v6anyaddr[6] = 0
  BY SomeWords DEF v4anyaddr, v6anyaddr, Zeros, Words
<1>7. QED
  BY <1>1, <1>5, <1>6

\* The IPv6 loopback is not all zeros.
LEMMA LastOfLoop == ipv6loop[8] = 1
<1> DEFINE z == Zeros(7)
           m == z \o <<1>>
<1>1. z \in Seq(Word) /\ Len(z) = 7 /\ ipv6loop = m /\ 1 \in Word
  BY SomeWords DEF ipv6loop, Zeros
<1> HIDE DEF z
<1>2. m[Len(z) + 1] = 1
  BY <1>1, Behind, ZenonT(60)
<1> HIDE DEF m
<1>3. QED
  BY <1>1, <1>2

\* It is no IPv4 address in IPv6, and neither is the address of no host.
LEMMA LoopsDiffer == \A b \in Words(2) : Mapped(b) # ipv6loop /\ Mapped(b) # v6anyaddr
  BY MappedWords, KnownBodies

-----------------------------------------------------------------------------
\* What an IP address is made of
LEMMA IpFields ==
    ASSUME NEW a \in IpAddrs
    PROVE  /\ a.type \in {"v4", "v6"} /\ IsIp(a) /\ a.port \in Word
           /\ a.type = "v4" => a.body \in Words(2)
           /\ a.type = "v6" => a.body \in Words(8)
           /\ a = NetAddr(a.type, a.body, a.port)
BY DEF IpAddrs, IsIp, NetAddr

\* An IPv4 address made of its parts
LEMMA MadeV4 ==
    ASSUME NEW b \in Words(2), NEW p \in Word
    PROVE  /\ Ipv4(b, p) \in IpAddrs
           /\ Ipv4(b, p).type = "v4" /\ Ipv4(b, p).body = b /\ Ipv4(b, p).port = p
BY DEF Ipv4, NetAddr, IpAddrs

\* An IPv6 address made of its parts
LEMMA MadeV6 ==
    ASSUME NEW b \in Words(8), NEW p \in Word
    PROVE  /\ Ipv6(b, p) \in IpAddrs
           /\ Ipv6(b, p).type = "v6" /\ Ipv6(b, p).body = b /\ Ipv6(b, p).port = p
BY DEF Ipv6, NetAddr, IpAddrs

\* What stands for a body in the hash: one IPv6 body for all forms of an address
Canonical(a) ==
    IF a.type = "v4" THEN (IF a.body = ipv4loop THEN ipv6loop ELSE Mapped(a.body))
    ELSE IF a.body = Mapped(ipv4loop) THEN ipv6loop ELSE a.body

\* _netaddr_hash hashes that body.
LEMMA HashIsCanonical ==
    ASSUME NEW a \in IpAddrs
    PROVE  AddrHash(a) = <<"v6", a.port, Canonical(a)>>
<1>1. CASE a.type = "v4"
  <2>1. a.body \in Words(2) /\ a.port \in Word
    BY <1>1, IpFields
  <2>2. ToIPv6(a) = Ipv6(Canonical(a), a.port)
    BY <1>1 DEF ToIPv6, Canonical, Mapped
  <2>3. Canonical(a) \in Words(8)
    BY <1>1, <2>1, KnownBodies, MappedWords DEF Canonical
  <2>4. AddrHash(a) = <<ToIPv6(a).type, ToIPv6(a).port, ToIPv6(a).body>>
    BY <1>1 DEF AddrHash
  <2>5. QED
    BY <2>1, <2>2, <2>3, <2>4, MadeV6
<1>2. CASE a.type = "v6" /\ a.body = Mapped(ipv4loop)
  <2>1. AddrHash(a) = <<Ipv6(ipv6loop, a.port).type, Ipv6(ipv6loop, a.port).port,
                        Ipv6(ipv6loop, a.port).body>>
    BY <1>2 DEF AddrHash, Mapped
  <2>2. QED
    BY <1>2, <2>1, IpFields, KnownBodies, MadeV6 DEF Canonical
<1>3. CASE a.type = "v6" /\ a.body # Mapped(ipv4loop)
  BY <1>3 DEF AddrHash, Mapped, Canonical
<1>4. QED
  BY <1>1, <1>2, <1>3, IpFields

\* _netaddr_equal compares that body, whatever forms the two addresses have.
LEMMA EqualIsCanonical ==
    ASSUME NEW a \in IpAddrs, NEW b \in IpAddrs
    PROVE  AddrEqual(a, b) <=> a.port = b.port /\ Canonical(a) = Canonical(b)
<1>0. IsIp(a) /\ IsIp(b) /\ a.type \in {"v4", "v6"} /\ b.type \in {"v4", "v6"}
  BY IpFields
<1> DEFINE P == a.port = b.port
           Q == Canonical(a) = Canonical(b)
<1>1. CASE a.type = "v6" /\ b.type = "v4"
  <2>1. a.body \in Words(8) /\ b.body \in Words(2)
    BY <1>1, IpFields
  <2>2. AddrEqual(a, b) <=> P /\ SameAcross(a, b)
    BY <1>0, <1>1 DEF AddrEqual
  <2>3. SameAcross(a, b) <=> Q
    BY <1>1, <2>1, KnownBodies, LoopsDiffer, MappedInjective DEF SameAcross, Canonical, Mapped
  <2>4. QED
    BY <2>2, <2>3
<1>2. CASE a.type = "v4" /\ b.type = "v6"
  <2>1. a.body \in Words(2) /\ b.body \in Words(8)
    BY <1>2, IpFields
  <2>2. AddrEqual(a, b) <=> P /\ SameAcross(b, a)
    BY <1>0, <1>2 DEF AddrEqual
  <2>3. SameAcross(b, a) <=> Q
    BY <1>2, <2>1, KnownBodies, LoopsDiffer, MappedInjective DEF SameAcross, Canonical, Mapped
  <2>4. QED
    BY <2>2, <2>3
<1>3. CASE a.type = "v4" /\ b.type = "v4"
  <2>1. a.body \in Words(2) /\ b.body \in Words(2)
    BY <1>3, IpFields
  <2>2. AddrEqual(a, b) <=> P /\ a.body = b.body
    BY <1>0, <1>3 DEF AddrEqual, SameBody
  <2>3. Q => a.body = b.body
    BY <1>3, <2>1, LoopsDiffer, MappedInjective DEF Canonical
  <2>4. a.body = b.body => Q
    BY <1>3 DEF Canonical
  <2>5. QED
    BY <2>2, <2>3, <2>4
<1>4. CASE a.type = "v6" /\ b.type = "v6"
  <2>1. AddrEqual(a, b) <=> P /\ SameBody(a, b)
    BY <1>0, <1>4 DEF AddrEqual
  <2>2. SameBody(a, b) <=> a.body = b.body \/ {a.body, b.body} = {ipv6loop, Mapped(ipv4loop)}
    BY <1>4 DEF SameBody, Loopbacks6, Mapped
  <2>3. {a.body, b.body} = {ipv6loop, Mapped(ipv4loop)}
          <=> \/ a.body = ipv6loop /\ b.body = Mapped(ipv4loop)
              \/ b.body = ipv6loop /\ a.body = Mapped(ipv4loop)
    BY KnownBodies, LoopsDiffer
  <2>4. SameBody(a, b) <=> Q
    BY <1>4, <2>2, <2>3 DEF Canonical
  <2>5. QED
    BY <2>1, <2>4
<1>5. QED
  BY <1>0, <1>1, <1>2, <1>3, <1>4

\* Any two IP addresses are equal (_netaddr_equal) when and only when the same goes into
\* their hashes (_netaddr_hash): so equality is an equivalence, the three loopbacks
\* included, and a hash table that has addresses as keys finds what it has.
THEOREM HashFitsEqual ==
    \A a, b \in IpAddrs : AddrEqual(a, b) <=> AddrHash(a) = AddrHash(b)
<1> SUFFICES ASSUME NEW a \in IpAddrs, NEW b \in IpAddrs
             PROVE  AddrEqual(a, b) <=> AddrHash(a) = AddrHash(b)
  OBVIOUS
<1> QED
  BY HashIsCanonical, EqualIsCanonical

-----------------------------------------------------------------------------
\* Addresses as text

\* The two delimiters are no words, and differ.
LEMMA Delimiters ==
    /\ Colon \in Nat /\ DoubleColon \in Nat /\ Colon # DoubleColon /\ ~(DoubleColon < Colon)
    /\ \A w \in Word : w \in Nat /\ w < Colon /\ w # Colon /\ w # DoubleColon
BY DEF Colon, DoubleColon, Word

\* The first n words of b with ":" between them, which t begins with
Begins(t, b, n) ==
    /\ \A i \in 1 .. n : t[2 * i - 1] = b[i]
    /\ \A i \in 1 .. n - 1 : t[2 * i] = Colon

\* The words of b after the m-th, to the n-th, behind the first d of t
Goes(t, d, b, m, n) ==
    /\ \A i \in 1 .. n - m : t[d + 2 * i - 1] = b[m + i]
    /\ \A i \in 1 .. n - m - 1 : t[d + 2 * i] = Colon

\* How long that is
ColonsLen(n) == IF n = 0 THEN 0 ELSE 2 * n - 1

\* The text of the first n words
IsPlainText(t, b, n) ==
    /\ t \in Seq(Nat) /\ Len(t) = ColonsLen(n) /\ Begins(t, b, n)

\* Where the "::" is behind p words
At(p) == IF p = 0 THEN 1 ELSE 2 * p

\* The text of the first n words without those after the p-th to the q-th
IsGappedText(t, b, p, q, n) ==
    /\ t \in Seq(Nat) /\ Len(t) = At(p) + ColonsLen(n - q)
    /\ t[At(p)] = DoubleColon
    /\ Begins(t, b, p) /\ Goes(t, At(p), b, q, n)

\* A sequence of naturals with one or two behind it
LEMMA OneBehind ==
    ASSUME NEW t \in Seq(Nat), NEW w \in Nat
    PROVE  /\ t \o <<w>> \in Seq(Nat) /\ Len(t \o <<w>>) = Len(t) + 1
           /\ \A i \in 1 .. Len(t) : (t \o <<w>>)[i] = t[i]
           /\ (t \o <<w>>)[Len(t) + 1] = w
OBVIOUS

\* A sequence with two elements more,
LEMMA TwoOfAnyBehind ==
    ASSUME NEW S, NEW t \in Seq(S), NEW v \in S, NEW w \in S
    PROVE  /\ t \o <<v, w>> \in Seq(S) /\ Len(t \o <<v, w>>) = Len(t) + 2
           /\ \A i \in 1 .. Len(t) : (t \o <<v, w>>)[i] = t[i]
           /\ (t \o <<v, w>>)[Len(t) + 1] = v /\ (t \o <<v, w>>)[Len(t) + 2] = w
<1> DEFINE e == <<v, w>>
<1>1. e \in Seq(S) /\ Len(e) = 2 /\ e[1] = v /\ e[2] = w
  OBVIOUS
<1> HIDE DEF e
<1>2. /\ t \o e \in Seq(S) /\ Len(t \o e) = Len(t) + Len(e)
      /\ \A i \in 1 .. Len(t) : (t \o e)[i] = t[i]
      /\ \A i \in 1 .. Len(e) : (t \o e)[Len(t) + i] = e[i]
  <2>1. e \in Seq(S)
    BY <1>1
  <2>2. QED
    BY <2>1, Joined
<1>3. /\ Len(t \o e) = Len(t) + 2
      /\ (t \o e)[Len(t) + 1] = v /\ (t \o e)[Len(t) + 2] = w
  <2>1. 1 \in 1 .. Len(e) /\ 2 \in 1 .. Len(e)
    BY <1>1
  <2>2. QED
    BY <1>1, <1>2, <2>1, ZenonT(60)
<1>4. QED
  BY <1>2, <1>3 DEF e

\* which may be a text with two words or delimiters more.
LEMMA TwoBehind ==
    ASSUME NEW t \in Seq(Nat), NEW v \in Nat, NEW w \in Nat
    PROVE  /\ t \o <<v, w>> \in Seq(Nat) /\ Len(t \o <<v, w>>) = Len(t) + 2
           /\ \A i \in 1 .. Len(t) : (t \o <<v, w>>)[i] = t[i]
           /\ (t \o <<v, w>>)[Len(t) + 1] = v /\ (t \o <<v, w>>)[Len(t) + 2] = w
<1> DEFINE S == Nat
<1>1. t \in Seq(S) /\ v \in S /\ w \in S
  OBVIOUS
<1> HIDE DEF S
<1>2. /\ t \o <<v, w>> \in Seq(S) /\ Len(t \o <<v, w>>) = Len(t) + 2
      /\ \A i \in 1 .. Len(t) : (t \o <<v, w>>)[i] = t[i]
      /\ (t \o <<v, w>>)[Len(t) + 1] = v /\ (t \o <<v, w>>)[Len(t) + 2] = w
  BY <1>1, TwoOfAnyBehind
<1>3. QED
  BY <1>2 DEF S

\* In particular with a ":" and a word.
LEMMA ColonBehind ==
    ASSUME NEW t \in Seq(Nat), Colon \in Nat, NEW w \in Nat
    PROVE  /\ t \o <<Colon, w>> \in Seq(Nat) /\ Len(t \o <<Colon, w>>) = Len(t) + 2
           /\ \A i \in 1 .. Len(t) : (t \o <<Colon, w>>)[i] = t[i]
           /\ (t \o <<Colon, w>>)[Len(t) + 1] = Colon /\ (t \o <<Colon, w>>)[Len(t) + 2] = w
<1>1. \A v \in Nat :
          /\ t \o <<v, w>> \in Seq(Nat) /\ Len(t \o <<v, w>>) = Len(t) + 2
          /\ \A i \in 1 .. Len(t) : (t \o <<v, w>>)[i] = t[i]
          /\ (t \o <<v, w>>)[Len(t) + 1] = v /\ (t \o <<v, w>>)[Len(t) + 2] = w
  BY TwoBehind
<1>2. QED
  BY <1>1

\* Each word of an IPv6 address is a number.
LEMMA WordAt ==
    ASSUME NEW b \in Words(8), NEW i \in 1 .. 8
    PROVE  b[i] \in Word /\ b[i] \in Nat
<1>1. b[i] \in Word
  BY DEF Words
<1>2. QED
  BY <1>1, Delimiters

\* The first word is written without a ":",
LEMMA PlainStarts ==
    ASSUME NEW b \in Words(8)
    PROVE  IsPlainText(<<b[1]>>, b, 1)
<1>1. b[1] \in Nat
  BY WordAt
<1>2. QED
  BY <1>1 DEF IsPlainText, Begins, ColonsLen

\* each other one with a ":" before it.
LEMMA PlainGrows ==
    ASSUME NEW b \in Words(8), NEW n \in 1 .. 7, NEW t, IsPlainText(t, b, n)
    PROVE  IsPlainText(t \o <<Colon, b[n + 1]>>, b, n + 1)
<1> DEFINE u == t \o <<Colon, b[n + 1]>>
           k == 2 * n - 1
<1>1. b[n + 1] \in Nat /\ Colon \in Nat
  BY WordAt, Delimiters
<1>2. t \in Seq(Nat) /\ Len(t) = k /\ k \in Nat /\ k + 1 = 2 * n /\ k + 2 = 2 * n + 1
  BY DEF IsPlainText, ColonsLen
<1> HIDE DEF k
<1>0. /\ u \in Seq(Nat) /\ Len(u) = k + 2 /\ \A i \in 1 .. k : u[i] = t[i]
      /\ u[k + 1] = Colon /\ u[k + 2] = b[n + 1]
  <2> DEFINE w == b[n + 1]
  <2>1. t \in Seq(Nat) /\ Colon \in Nat /\ w \in Nat
    BY <1>1, <1>2
  <2> HIDE DEF w
  <2>2. /\ t \o <<Colon, w>> \in Seq(Nat) /\ Len(t \o <<Colon, w>>) = Len(t) + 2
        /\ \A i \in 1 .. Len(t) : (t \o <<Colon, w>>)[i] = t[i]
        /\ (t \o <<Colon, w>>)[Len(t) + 1] = Colon /\ (t \o <<Colon, w>>)[Len(t) + 2] = w
    BY <2>1, ColonBehind
  <2>3. Len(t) = k
    BY <1>2
  <2>4. u = t \o <<Colon, w>>
    BY DEF w
  <2> HIDE DEF u
  <2>5. QED
    BY <2>2, <2>3, <2>4 DEF w
<1> HIDE DEF u
<1>3. /\ u \in Seq(Nat) /\ Len(u) = 2 * n + 1 /\ \A i \in 1 .. 2 * n - 1 : u[i] = t[i]
      /\ u[2 * n] = Colon /\ u[2 * n + 1] = b[n + 1]
  BY <1>0, <1>2 DEF k
<1>4. \A i \in 1 .. n : t[2 * i - 1] = b[i]
  BY DEF IsPlainText, Begins
<1>5. \A i \in 1 .. n - 1 : t[2 * i] = Colon
  BY DEF IsPlainText, Begins
<1>6. ASSUME NEW i \in 1 .. n + 1 PROVE u[2 * i - 1] = b[i]
  <2>1. CASE i = n + 1
    BY <1>3, <2>1
  <2>2. CASE i # n + 1
    <3>1. i \in 1 .. n /\ 2 * i - 1 \in 1 .. 2 * n - 1
      BY <2>2
    <3>2. QED
      BY <1>3, <1>4, <3>1
  <2>3. QED
    BY <2>1, <2>2
<1>7. ASSUME NEW i \in 1 .. n PROVE u[2 * i] = Colon
  <2>1. CASE i = n
    BY <1>3, <2>1
  <2>2. CASE i # n
    <3>1. i \in 1 .. n - 1 /\ 2 * i \in 1 .. 2 * n - 1
      BY <2>2
    <3>2. QED
      BY <1>3, <1>5, <3>1
  <2>3. QED
    BY <2>1, <2>2
<1>8. Begins(u, b, n + 1)
  BY <1>6, <1>7 DEF Begins
<1>9. QED
  BY <1>3, <1>8 DEF IsPlainText, ColonsLen, u

\* A "::" behind the words that are written, for those that are left out
LEMMA GapOpens ==
    ASSUME NEW b \in Words(8), NEW p \in 0 .. 8, NEW q \in p .. 8, NEW t, IsPlainText(t, b, p)
    PROVE  IsGappedText(t \o <<DoubleColon>>, b, p, q, q)
<1> DEFINE u == t \o <<DoubleColon>>
<1>1. t \in Seq(Nat) /\ Len(t) + 1 = At(p) /\ Len(t) = ColonsLen(p)
  BY DEF IsPlainText, ColonsLen, At
<1>2. /\ u \in Seq(Nat) /\ Len(u) = At(p) /\ u[At(p)] = DoubleColon
      /\ \A i \in 1 .. Len(t) : u[i] = t[i]
  BY <1>1, OneBehind, Delimiters
<1> HIDE DEF u
<1>3. Begins(u, b, p)
  <2>1. ASSUME NEW i \in 1 .. p PROVE u[2 * i - 1] = b[i]
    <3>1. 2 * i - 1 \in 1 .. Len(t)
      BY <1>1 DEF ColonsLen
    <3>2. t[2 * i - 1] = b[i]
      BY DEF IsPlainText, Begins
    <3>3. QED
      BY <1>2, <3>1, <3>2
  <2>2. ASSUME NEW i \in 1 .. p - 1 PROVE u[2 * i] = Colon
    <3>1. 2 * i \in 1 .. Len(t)
      BY <1>1 DEF ColonsLen
    <3>2. t[2 * i] = Colon
      BY DEF IsPlainText, Begins
    <3>3. QED
      BY <1>2, <3>1, <3>2
  <2>3. QED
    BY <2>1, <2>2 DEF Begins
<1>4. Goes(u, At(p), b, q, q)
  BY DEF Goes
<1>5. Len(u) = At(p) + ColonsLen(q - q)
  BY <1>2 DEF ColonsLen, At
<1>6. QED
  BY <1>2, <1>3, <1>4, <1>5 DEF IsGappedText, u

\* The first word behind the "::" is written without a ":",
LEMMA GapStarts ==
    ASSUME NEW b \in Words(8), NEW p \in 0 .. 8, NEW q \in p .. 7, NEW t,
           IsGappedText(t, b, p, q, q)
    PROVE  IsGappedText(t \o <<b[q + 1]>>, b, p, q, q + 1)
<1> DEFINE u == t \o <<b[q + 1]>>
<1>0. At(p) \in Nat /\ At(p) >= 1 /\ 2 * p - 1 <= At(p)
  BY DEF At
<1>1. t \in Seq(Nat) /\ Len(t) = At(p)
  BY <1>0 DEF IsGappedText, ColonsLen
<1>2. b[q + 1] \in Nat
  BY WordAt
<1>3. /\ u \in Seq(Nat) /\ Len(u) = At(p) + 1 /\ u[At(p) + 1] = b[q + 1]
      /\ \A i \in 1 .. At(p) : u[i] = t[i]
  BY <1>1, <1>2, OneBehind
<1> HIDE DEF u
<1>4. Begins(u, b, p)
  <2>1. /\ \A i \in 1 .. p : t[2 * i - 1] = b[i]
        /\ \A i \in 1 .. p - 1 : t[2 * i] = Colon
    BY DEF IsGappedText, Begins, Goes
  <2>2. /\ \A i \in 1 .. p : 2 * i - 1 \in 1 .. At(p)
        /\ \A i \in 1 .. p - 1 : 2 * i \in 1 .. At(p)
    BY <1>0
  <2>3. QED
    BY <1>3, <2>1, <2>2 DEF Begins, Goes
<1>5. Goes(u, At(p), b, q, q + 1)
  BY <1>0, <1>3 DEF Begins, Goes
<1>6. u[At(p)] = DoubleColon
  BY <1>0, <1>3 DEF IsGappedText
<1>7. Len(u) = At(p) + ColonsLen((q + 1) - q)
  BY <1>0, <1>3 DEF ColonsLen
<1>8. QED
  BY <1>3, <1>4, <1>5, <1>6, <1>7 DEF IsGappedText, u

\* each other one with a ":" before it.
LEMMA GapGrows ==
    ASSUME NEW b \in Words(8), NEW p \in 0 .. 8, NEW q \in p .. 7, NEW n \in q + 1 .. 7, NEW t,
           IsGappedText(t, b, p, q, n)
    PROVE  IsGappedText(t \o <<Colon, b[n + 1]>>, b, p, q, n + 1)
<1> DEFINE u == t \o <<Colon, b[n + 1]>>
           k == At(p) + 2 * (n - q) - 1
<1>0. At(p) \in Nat /\ At(p) >= 1 /\ 2 * p - 1 <= At(p) /\ k >= At(p)
  BY DEF At
<1>1. t \in Seq(Nat) /\ Len(t) = k
  BY <1>0 DEF IsGappedText, ColonsLen
<1>2. b[n + 1] \in Nat /\ Colon \in Nat
  BY WordAt, Delimiters
<1>3. /\ u \in Seq(Nat) /\ Len(u) = k + 2 /\ u[k + 1] = Colon /\ u[k + 2] = b[n + 1]
      /\ \A i \in 1 .. k : u[i] = t[i]
  <2> DEFINE w == b[n + 1]
  <2>1. t \in Seq(Nat) /\ Colon \in Nat /\ w \in Nat
    BY <1>1, <1>2
  <2> HIDE DEF w
  <2>2. /\ t \o <<Colon, w>> \in Seq(Nat) /\ Len(t \o <<Colon, w>>) = Len(t) + 2
        /\ \A i \in 1 .. Len(t) : (t \o <<Colon, w>>)[i] = t[i]
        /\ (t \o <<Colon, w>>)[Len(t) + 1] = Colon /\ (t \o <<Colon, w>>)[Len(t) + 2] = w
    BY <2>1, ColonBehind
  <2>3. Len(t) = k
    BY <1>1
  <2>4. u = t \o <<Colon, w>>
    BY DEF w
  <2> HIDE DEF u
  <2>5. QED
    BY <2>2, <2>3, <2>4 DEF w
<1> HIDE DEF u
<1>4. Begins(u, b, p)
  <2>1. /\ \A i \in 1 .. p : t[2 * i - 1] = b[i]
        /\ \A i \in 1 .. p - 1 : t[2 * i] = Colon
    BY DEF IsGappedText, Begins, Goes
  <2>2. /\ \A i \in 1 .. p : 2 * i - 1 \in 1 .. k
        /\ \A i \in 1 .. p - 1 : 2 * i \in 1 .. k
    BY <1>0
  <2>3. QED
    BY <1>3, <2>1, <2>2 DEF Begins, Goes
<1>5. Goes(u, At(p), b, q, n + 1)
  <2>1. /\ \A i \in 1 .. n - q : t[At(p) + 2 * i - 1] = b[q + i]
        /\ \A i \in 1 .. n - q - 1 : t[At(p) + 2 * i] = Colon
    BY DEF IsGappedText, Begins, Goes
  <2>2. ASSUME NEW i \in 1 .. n + 1 - q PROVE u[At(p) + 2 * i - 1] = b[q + i]
    <3>1. CASE i = n + 1 - q
      <4>1. At(p) + 2 * i - 1 = k + 2 /\ q + i = n + 1
        BY <1>0, <3>1
      <4>2. QED
        BY <1>3, <4>1
    <3>2. CASE i # n + 1 - q
      <4>1. i \in 1 .. n - q /\ At(p) + 2 * i - 1 \in 1 .. k
        BY <1>0, <3>2
      <4>2. QED
        BY <1>3, <2>1, <4>1
    <3>3. QED
      BY <3>1, <3>2
  <2>3. ASSUME NEW i \in 1 .. n - q PROVE u[At(p) + 2 * i] = Colon
    <3>1. CASE i = n - q
      <4>1. At(p) + 2 * i = k + 1
        BY <1>0, <3>1
      <4>2. QED
        BY <1>3, <4>1
    <3>2. CASE i # n - q
      <4>1. i \in 1 .. n - q - 1 /\ At(p) + 2 * i \in 1 .. k
        BY <1>0, <3>2
      <4>2. QED
        BY <1>3, <2>1, <4>1
    <3>3. QED
      BY <3>1, <3>2
  <2>4. QED
    BY <2>2, <2>3 DEF Begins, Goes
<1>6. u[At(p)] = DoubleColon
  <2>1. At(p) \in 1 .. k /\ t[At(p)] = DoubleColon
    BY <1>0 DEF IsGappedText
  <2>2. QED
    BY <1>3, <2>1
<1>7. Len(u) = At(p) + ColonsLen((n + 1) - q)
  BY <1>0, <1>3 DEF ColonsLen
<1>8. QED
  BY <1>3, <1>4, <1>5, <1>6, <1>7 DEF IsGappedText, u

WriterInit == [parts |-> <<>>, zeros |-> 0, first |-> TRUE, double |-> FALSE]

\* What the writer has done after the first n words: the last of them wait if they are
\* zeros, and those before them are written; or it has left out those after the p-th, to
\* the q-th.
Writing(st, b, n) ==
    /\ st = [parts |-> st.parts, zeros |-> st.zeros, first |-> st.first, double |-> st.double]
    /\ st.zeros \in 0 .. n /\ st.first \in BOOLEAN /\ st.double \in BOOLEAN
    /\ \/ /\ ~st.double /\ (st.first <=> n = 0)
          /\ \A i \in n - st.zeros + 1 .. n : b[i] = 0
          /\ IsPlainText(st.parts, b, n - st.zeros)
       \/ /\ st.double /\ ~st.first /\ st.zeros = 0
          /\ \E p \in 0 .. 6, q \in 2 .. 7 :
                /\ p + 2 <= q /\ q + 1 <= n
                /\ \A i \in p + 1 .. q : b[i] = 0
                /\ IsGappedText(st.parts, b, p, q, n)

\* The text is that of all words, or of all but some zeros.
IsTextOf(t, b) ==
    \/ IsPlainText(t, b, 8)
    \/ \E p \in 0 .. 6, q \in 2 .. 8 :
          /\ p + 2 <= q
          /\ \A i \in p + 1 .. q : b[i] = 0
          /\ IsGappedText(t, b, p, q, 8)

\* Nothing is a sequence, and adds nothing to another.
LEMMA NothingBehind ==
    /\ <<>> \in Seq(Nat) /\ Len(<<>>) = 0
    /\ \A t \in Seq(Nat) : t \o <<>> = t /\ <<>> \o t = t
OBVIOUS

\* Nothing is the text of no words,
LEMMA NoWords == \A b : IsPlainText(<<>>, b, 0)
BY NothingBehind DEF IsPlainText, Begins, ColonsLen

\* and of no others.
LEMMA OnlyNoWords ==
    ASSUME NEW b, NEW t, NEW n \in 0 .. 8, IsPlainText(t, b, n)
    PROVE  t = <<>> <=> n = 0
<1>1. t \in Seq(Nat) /\ Len(t) = ColonsLen(n)
  BY DEF IsPlainText
<1>2. ColonsLen(n) = 0 <=> n = 0
  BY DEF ColonsLen
<1>3. t = <<>> <=> Len(t) = 0
  BY <1>1
<1>4. QED
  BY <1>1, <1>2, <1>3

\* One more word behind n words, whether or not there are any
LEMMA PlainNext ==
    ASSUME NEW b \in Words(8), NEW n \in 0 .. 7, NEW t, IsPlainText(t, b, n)
    PROVE  IsPlainText(t \o (IF n = 0 THEN <<b[n + 1]>> ELSE <<Colon, b[n + 1]>>), b, n + 1)
<1>1. CASE n = 0
  <2>1. t = <<>> /\ b[1] \in Nat
    BY <1>1, OnlyNoWords, WordAt
  <2>2. t \o <<b[1]>> = <<b[1]>>
    BY <2>1
  <2>3. QED
    <3>1. IsPlainText(t \o <<b[1]>>, b, 1)
      BY <2>2, PlainStarts
    <3>2. n + 1 = 1
      BY <1>1
    <3>3. QED
      BY <1>1, <3>1, <3>2
<1>2. CASE n # 0
  <2>1. n \in 1 .. 7
    BY <1>2
  <2>2. QED
    BY <1>2, <2>1, PlainGrows
<1>3. QED
  BY <1>1, <1>2

\* A state in which nothing waits, and nothing was left out
LEMMA NotWaiting ==
    ASSUME NEW b, NEW n \in 0 .. 7, NEW st,
           st = [parts |-> st.parts, zeros |-> st.zeros, first |-> st.first,
                 double |-> st.double],
           st.zeros = 0, st.first = FALSE, st.double \in BOOLEAN, ~st.double,
           IsPlainText(st.parts, b, n + 1)
    PROVE  Writing(st, b, n + 1)
<1>1. /\ (n + 1) - st.zeros = n + 1 /\ st.zeros \in 0 .. n + 1 /\ n + 1 # 0
      /\ \A i \in (n + 1) - st.zeros + 1 .. n + 1 : b[i] = 0
  OBVIOUS
<1>2. IsPlainText(st.parts, b, (n + 1) - st.zeros)
  BY <1>1
<1>3. QED
  BY <1>1, <1>2 DEF Writing

\* A state in which some zeros have been left out
LEMMA LeftOut ==
    ASSUME NEW b, NEW n \in 0 .. 7, NEW st,
           st = [parts |-> st.parts, zeros |-> st.zeros, first |-> st.first,
                 double |-> st.double],
           st.zeros = 0, st.first = FALSE, st.double \in BOOLEAN, st.double,
           NEW p \in 0 .. 6, NEW q \in 2 .. 7, p + 2 <= q, q + 1 <= n + 1,
           \A i \in p + 1 .. q : b[i] = 0,
           IsGappedText(st.parts, b, p, q, n + 1)
    PROVE  Writing(st, b, n + 1)
<1>1. st.zeros \in 0 .. n + 1
  OBVIOUS
<1>2. QED
  BY <1>1 DEF Writing

\* A word that is not left out, while none have been
LEMMA WritesPlain ==
    ASSUME NEW b \in Words(8), NEW n \in 0 .. 7, NEW st, Writing(st, b, n), ~st.double,
           b[n + 1] # 0
    PROVE  Writing(WriteWord(st, b[n + 1]), b, n + 1)
<1> DEFINE w == b[n + 1]
           m == n - st.zeros
           new == WriteWord(st, w)
           ends == IF st.first \/ st.zeros > 1 THEN <<w>> ELSE <<Colon, w>>
<1>1. ~LeavesOut(st, w)
  BY DEF LeavesOut
<1>2. /\ new.parts = st.parts \o Gap(st) \o ends
      /\ new.zeros = 0 /\ new.first = FALSE /\ new.double = (st.double \/ st.zeros > 1)
      /\ new = [parts |-> new.parts, zeros |-> new.zeros, first |-> new.first,
                double |-> new.double]
  BY <1>1 DEF WriteWord
<1>3. /\ st.zeros \in 0 .. n /\ (st.first <=> n = 0) /\ m \in 0 .. 7
      /\ \A i \in m + 1 .. n : b[i] = 0
      /\ IsPlainText(st.parts, b, m)
  BY DEF Writing
<1> HIDE DEF m, new
<1>4. CASE st.zeros = 0
  <2>1. m = n /\ Gap(st) = <<>> /\ ~new.double
    <3>1. m = n
      BY <1>3, <1>4 DEF m
    <3>2. Gap(st) = <<>>
      BY <1>4 DEF Gap
    <3>3. ~(st.zeros > 1)
      BY <1>4
    <3>4. ~new.double
      BY <1>2, <3>3, Zenon
    <3>5. QED
      BY <3>1, <3>2, <3>4
  <2>2. st.parts \o Gap(st) = st.parts
    BY <1>3, <2>1, NothingBehind DEF IsPlainText
  <2>3. ends = IF n = 0 THEN <<w>> ELSE <<Colon, w>>
    BY <1>3, <1>4
  <2>4. IsPlainText(new.parts, b, n + 1)
    <3>1. IsPlainText(st.parts, b, n)
      BY <1>3, <2>1
    <3>2. IsPlainText(st.parts \o (IF n = 0 THEN <<b[n + 1]>> ELSE <<Colon, b[n + 1]>>), b, n + 1)
      BY <3>1, PlainNext
    <3>3. new.parts = st.parts \o ends
      BY <1>2, <2>2
    <3>4. QED
      BY <2>3, <3>2, <3>3, Zenon
  <2>5. QED
    BY <1>2, <2>1, <2>4, NotWaiting DEF new
<1>5. CASE st.zeros = 1
  <2>1. m + 1 = n /\ ~new.double /\ n # 0 /\ ~st.first /\ b[m + 1] = 0
    <3>1. m + 1 = n /\ n # 0 /\ n \in m + 1 .. n
      BY <1>3, <1>5 DEF m
    <3>2. b[m + 1] = 0
      BY <1>3, <3>1
    <3>3. ~(st.zeros > 1)
      BY <1>5
    <3>4. ~new.double
      BY <1>2, <3>3, Zenon
    <3>5. QED
      BY <1>3, <3>1, <3>2, <3>4
  <2>2. st.parts \o Gap(st) = st.parts \o (IF m = 0 THEN <<b[m + 1]>> ELSE <<Colon, b[m + 1]>>)
    <3>1. st.parts = <<>> <=> m = 0
      BY <1>3, OnlyNoWords
    <3>2. QED
      <4>1. Gap(st) = IF st.parts = <<>> THEN <<0>> ELSE <<Colon, 0>>
        BY <1>5 DEF Gap
      <4>2. Gap(st) = IF m = 0 THEN <<b[m + 1]>> ELSE <<Colon, b[m + 1]>>
        BY <2>1, <3>1, <4>1, Zenon
      <4>3. QED
        BY <4>2, Zenon
  <2>3. IsPlainText(st.parts \o Gap(st), b, n)
    BY <1>3, <2>1, <2>2, PlainNext
  <2>4. ends = <<Colon, w>>
    BY <1>5, <2>1
  <2>5. IsPlainText(new.parts, b, n + 1)
    BY <1>2, <2>1, <2>3, <2>4, PlainNext
  <2>6. QED
    BY <1>2, <2>1, <2>5, NotWaiting DEF new
<1>6. CASE st.zeros > 1
  <2>1. new.double /\ Gap(st) = <<DoubleColon>> /\ ends = <<w>>
    <3>1. Gap(st) = <<DoubleColon>>
      BY <1>3, <1>6 DEF Gap
    <3>2. new.double /\ ends = <<w>>
      BY <1>2, <1>6, Zenon
    <3>3. QED
      BY <3>1, <3>2
  <2>2. m \in 0 .. 5 /\ n \in 2 .. 7 /\ m + 2 <= n
    BY <1>3, <1>6 DEF m
  <2>3. IsGappedText(st.parts \o Gap(st), b, m, n, n)
    BY <1>3, <2>1, <2>2, GapOpens
  <2>4. IsGappedText(new.parts, b, m, n, n + 1)
    <3>1. m \in 0 .. 8 /\ n \in m .. 7
      BY <2>2
    <3>2. IsGappedText(st.parts \o Gap(st) \o <<b[n + 1]>>, b, m, n, n + 1)
      BY <2>3, <3>1, GapStarts
    <3>3. new.parts = st.parts \o Gap(st) \o <<w>>
      BY <1>2, <2>1
    <3>4. QED
      BY <3>2, <3>3, Zenon
  <2>5. QED
    <3>1. m \in 0 .. 6 /\ n \in 2 .. 7 /\ m + 2 <= n /\ n + 1 <= n + 1
      BY <2>2
    <3>2. QED
      <4>1. new.double \in BOOLEAN
        BY <2>1, Zenon
      <4>2. \A i \in m + 1 .. n : b[i] = 0
        BY <1>3
      <4>3. n \in 0 .. 7 /\ new.zeros = 0 /\ new.first = FALSE /\ new.double
        BY <1>2, <2>1
      <4>4. Writing(new, b, n + 1)
        BY <1>2, <2>4, <3>1, <4>1, <4>2, <4>3, LeftOut, Zenon
      <4>5. QED
        BY <4>4 DEF new
<1>7. QED
  BY <1>3, <1>4, <1>5, <1>6

\* Each turn of the writer
LEMMA Writes ==
    ASSUME NEW b \in Words(8), NEW n \in 0 .. 7, NEW st, Writing(st, b, n)
    PROVE  Writing(WriteWord(st, b[n + 1]), b, n + 1)
<1> DEFINE w == b[n + 1]
           new == WriteWord(st, w)
<1>1. CASE ~st.double /\ w # 0
  BY <1>1, WritesPlain
<1>2. CASE ~st.double /\ w = 0
  <2>1. LeavesOut(st, w)
    BY <1>2 DEF LeavesOut
  <2>2. /\ new.parts = st.parts /\ new.zeros = st.zeros + 1 /\ new.first = FALSE
        /\ new.double = st.double
        /\ new = [parts |-> new.parts, zeros |-> new.zeros, first |-> new.first,
                  double |-> new.double]
    BY <2>1 DEF WriteWord, Writing
  <2>3. /\ st.zeros \in 0 .. n /\ \A i \in n - st.zeros + 1 .. n : b[i] = 0
        /\ IsPlainText(st.parts, b, n - st.zeros)
    BY <1>2 DEF Writing
  <2> HIDE DEF new
  <2>4. (n + 1) - new.zeros = n - st.zeros /\ new.zeros \in 0 .. n + 1
    BY <2>2, <2>3
  <2>5. \A i \in (n + 1) - new.zeros + 1 .. n + 1 : b[i] = 0
    <3> SUFFICES ASSUME NEW i \in n - st.zeros + 1 .. n + 1 PROVE b[i] = 0
      BY <2>4
    <3>1. i = n + 1 \/ i \in n - st.zeros + 1 .. n
      BY <2>3
    <3>2. QED
      BY <1>2, <2>3, <3>1
  <2>6. IsPlainText(new.parts, b, (n + 1) - new.zeros)
    BY <2>2, <2>3, <2>4
  <2>7. QED
    <3>1. new.double \in BOOLEAN /\ ~new.double /\ new.first \in BOOLEAN /\ ~new.first
      <4>1. st.double \in BOOLEAN
        BY DEF Writing
      <4>2. QED
        BY <1>2, <2>2, <4>1, Zenon
    <3>2. n + 1 # 0
      OBVIOUS
    <3>3. Writing(new, b, n + 1)
      BY <2>2, <2>4, <2>5, <2>6, <3>1, <3>2 DEF Writing
    <3>4. QED
      BY <3>3 DEF new
<1>3. CASE st.double
  <2>1. ~LeavesOut(st, w)
    BY <1>3 DEF LeavesOut
  <2>2. /\ new.parts = st.parts \o Gap(st)
                         \o (IF st.first \/ st.zeros > 1 THEN <<w>> ELSE <<Colon, w>>)
        /\ new.zeros = 0 /\ new.first = FALSE /\ new.double = (st.double \/ st.zeros > 1)
        /\ new = [parts |-> new.parts, zeros |-> new.zeros, first |-> new.first,
                  double |-> new.double]
    BY <2>1 DEF WriteWord
  <2>3. ~st.first /\ st.zeros = 0
    BY <1>3 DEF Writing
  <2>4. PICK p \in 0 .. 6, q \in 2 .. 7 :
           /\ p + 2 <= q /\ q + 1 <= n
           /\ \A i \in p + 1 .. q : b[i] = 0
           /\ IsGappedText(st.parts, b, p, q, n)
    BY <1>3 DEF Writing
  <2> HIDE DEF new
  <2>5. st.parts \o Gap(st) = st.parts
    BY <2>3, <2>4, NothingBehind DEF Gap, IsGappedText
  <2>6. new.parts = st.parts \o <<Colon, w>> /\ new.double
    <3>1. ~(st.zeros > 1)
      BY <2>3
    <3>2. QED
      BY <1>3, <2>2, <2>3, <2>5, <3>1, Zenon
  <2>7. IsGappedText(new.parts, b, p, q, n + 1)
    <3>1. p \in 0 .. 8 /\ q \in p .. 7 /\ n \in q + 1 .. 7
      BY <2>4
    <3>2. IsGappedText(st.parts \o <<Colon, b[n + 1]>>, b, p, q, n + 1)
      BY <2>4, <3>1, GapGrows
    <3>3. QED
      BY <2>6, <3>2, Zenon
  <2>8. QED
    <3>1. q + 1 <= n + 1
      BY <2>4
    <3>2. QED
      BY <2>2, <2>4, <2>6, <2>7, <3>1, LeftOut DEF new
<1>4. QED
  BY <1>1, <1>2, <1>3

\* There is such a function of any words,
LEMMA WriterExists ==
    ASSUME NEW b
    PROVE  \E turn : turn = [n \in 0 .. 8 |->
               IF n = 0 THEN WriterInit ELSE WriteWord(turn[n - 1], b[n])]
<1> DEFINE s1 == WriteWord(WriterInit, b[1])
           s2 == WriteWord(s1, b[2])
           s3 == WriteWord(s2, b[3])
           s4 == WriteWord(s3, b[4])
           s5 == WriteWord(s4, b[5])
           s6 == WriteWord(s5, b[6])
           s7 == WriteWord(s6, b[7])
           s8 == WriteWord(s7, b[8])
           turn == [n \in 0 .. 8 |->
                      IF n = 0 THEN WriterInit ELSE IF n = 1 THEN s1 ELSE IF n = 2 THEN s2
                      ELSE IF n = 3 THEN s3 ELSE IF n = 4 THEN s4 ELSE IF n = 5 THEN s5
                      ELSE IF n = 6 THEN s6 ELSE IF n = 7 THEN s7 ELSE s8]
<1>1. /\ s1 = WriteWord(WriterInit, b[1]) /\ s2 = WriteWord(s1, b[2])
      /\ s3 = WriteWord(s2, b[3]) /\ s4 = WriteWord(s3, b[4]) /\ s5 = WriteWord(s4, b[5])
      /\ s6 = WriteWord(s5, b[6]) /\ s7 = WriteWord(s6, b[7]) /\ s8 = WriteWord(s7, b[8])
  OBVIOUS
<1> HIDE DEF s1, s2, s3, s4, s5, s6, s7, s8
<1>2. /\ turn[0] = WriterInit /\ turn[1] = s1 /\ turn[2] = s2 /\ turn[3] = s3 /\ turn[4] = s4
      /\ turn[5] = s5 /\ turn[6] = s6 /\ turn[7] = s7 /\ turn[8] = s8
  OBVIOUS
<1>3. turn = [n \in 0 .. 8 |-> turn[n]]
  OBVIOUS
<1> HIDE DEF turn
<1>4. ASSUME NEW n \in 1 .. 8 PROVE turn[n] = WriteWord(turn[n - 1], b[n])
  <2>1. n = 1 \/ n = 2 \/ n = 3 \/ n = 4 \/ n = 5 \/ n = 6 \/ n = 7 \/ n = 8
    OBVIOUS
  <2>2. QED
    BY <1>1, <1>2, <2>1
<1>5. turn = [n \in 0 .. 8 |-> IF n = 0 THEN WriterInit ELSE WriteWord(turn[n - 1], b[n])]
  <2>1. \A n \in 0 .. 8 : turn[n] = IF n = 0 THEN WriterInit ELSE WriteWord(turn[n - 1], b[n])
    BY <1>2, <1>4
  <2>2. QED
    BY <1>3, <2>1
<1>6. QED
  BY <1>5

\* What is written of an IPv6 address is its text.
LEMMA WritesText ==
    ASSUME NEW b \in Words(8)
    PROVE  IsTextOf(WriteIPv6(b), b)
<1> DEFINE turn == CHOOSE t : t = [n \in 0 .. 8 |->
                      IF n = 0 THEN WriterInit ELSE WriteWord(t[n - 1], b[n])]
           st == turn[8]
           ends == CASE st.zeros = 1 -> <<Colon, 0>> [] st.zeros > 1 -> <<DoubleColon>>
                     [] OTHER -> <<>>
<1>1. WriteIPv6(b) = st.parts \o ends
  <2>1. Len(b) = 8
    BY WordsAreSeq
  <2>2. QED
    BY <2>1 DEF WriteIPv6, WriterInit
<1>2. turn = [n \in 0 .. 8 |-> IF n = 0 THEN WriterInit ELSE WriteWord(turn[n - 1], b[n])]
  BY WriterExists
<1> HIDE DEF turn
<1>3. turn[0] = WriterInit /\ \A n \in 0 .. 7 : turn[n + 1] = WriteWord(turn[n], b[n + 1])
  <2>1. \A n \in 0 .. 8 : turn[n] = IF n = 0 THEN WriterInit ELSE WriteWord(turn[n - 1], b[n])
    BY <1>2
  <2>2. ASSUME NEW n \in 0 .. 7 PROVE turn[n + 1] = WriteWord(turn[n], b[n + 1])
    <3>1. n + 1 \in 0 .. 8 /\ n + 1 # 0 /\ (n + 1) - 1 = n
      OBVIOUS
    <3>2. QED
      BY <2>1, <3>1
  <2>3. QED
    BY <2>1, <2>2
<1>4. Writing(turn[0], b, 0)
  BY <1>3, NoWords DEF Writing, WriterInit
<1>5. \A n \in 0 .. 7 : Writing(turn[n], b, n) => Writing(turn[n + 1], b, n + 1)
  BY <1>3, Writes
<1>6. Writing(st, b, 8)
  <2> HIDE DEF Writing
  <2>1. Writing(turn[1], b, 1)
    BY <1>4, <1>5
  <2>2. Writing(turn[2], b, 2)
    BY <2>1, <1>5
  <2>3. Writing(turn[3], b, 3)
    BY <2>2, <1>5
  <2>4. Writing(turn[4], b, 4)
    BY <2>3, <1>5
  <2>5. Writing(turn[5], b, 5)
    BY <2>4, <1>5
  <2>6. Writing(turn[6], b, 6)
    BY <2>5, <1>5
  <2>7. Writing(turn[7], b, 7)
    BY <2>6, <1>5
  <2>8. QED
    BY <2>7, <1>5
<1> HIDE DEF st
<1>7. CASE st.zeros = 0
  <2>1. ends = <<>> /\ st.parts \in Seq(Nat)
    BY <1>6, <1>7 DEF Writing, IsPlainText, IsGappedText
  <2>2. st.parts \o ends = st.parts
    BY <2>1, NothingBehind
  <2>3. CASE ~st.double
    BY <1>1, <1>6, <1>7, <2>2, <2>3 DEF Writing, IsTextOf
  <2>4. CASE st.double
    <3>1. PICK p \in 0 .. 6, q \in 2 .. 7 :
             /\ p + 2 <= q /\ q + 1 <= 8
             /\ \A i \in p + 1 .. q : b[i] = 0
             /\ IsGappedText(st.parts, b, p, q, 8)
      BY <1>6, <2>4 DEF Writing
    <3>2. q \in 2 .. 8
      OBVIOUS
    <3>3. QED
      BY <1>1, <2>2, <3>1, <3>2 DEF IsTextOf
  <2>5. QED
    BY <2>3, <2>4, <1>6 DEF Writing
<1>8. CASE st.zeros = 1
  <2>1. ends = <<Colon, 0>> /\ b[8] = 0 /\ IsPlainText(st.parts, b, 7)
    BY <1>6, <1>8 DEF Writing
  <2>2. IsPlainText(st.parts \o <<Colon, b[7 + 1]>>, b, 7 + 1)
    <3>1. 7 \in 1 .. 7
      OBVIOUS
    <3>2. QED
      BY <2>1, <3>1, PlainGrows, Zenon
  <2>3. IsPlainText(WriteIPv6(b), b, 8)
    <3>1. 7 + 1 = 8
      OBVIOUS
    <3>2. WriteIPv6(b) = st.parts \o <<Colon, b[7 + 1]>>
      BY <1>1, <2>1, <3>1, Zenon
    <3>3. QED
      BY <2>2, <3>1, <3>2, Zenon
  <2>4. QED
    BY <2>3, Zenon DEF IsTextOf
<1>9. CASE st.zeros > 1
  <2> DEFINE p == 8 - st.zeros
  <2>1. /\ ends = <<DoubleColon>> /\ p \in 0 .. 6 /\ IsPlainText(st.parts, b, p)
        /\ \A i \in p + 1 .. 8 : b[i] = 0
    BY <1>6, <1>9 DEF Writing
  <2> HIDE DEF p
  <2>2. IsGappedText(st.parts \o ends, b, p, 8, 8)
    <3>1. p \in 0 .. 8 /\ 8 \in p .. 8
      BY <2>1
    <3>2. QED
      BY <2>1, <3>1, GapOpens, Zenon
  <2>3. p + 2 <= 8
    BY <2>1
  <2>4. QED
    BY <1>1, <2>1, <2>2, <2>3 DEF IsTextOf
<1>10. QED
  BY <1>6, <1>7, <1>8, <1>9 DEF Writing

\* The first n of c
First(c, n) == [i \in 1 .. n |-> c[i]]

\* One more is the next one behind.
LEMMA FirstGrows ==
    ASSUME NEW e \in Nat, NEW c \in [1 .. e -> Word], NEW n \in Nat, n + 1 <= e
    PROVE  /\ Append(First(c, n), c[n + 1]) = First(c, n + 1)
           /\ Len(Append(First(c, n), c[n + 1])) = n + 1
<1> DEFINE f == First(c, n)
           g == First(c, n + 1)
           w == c[n + 1]
           a == Append(f, w)
<1>1. f \in Seq(Word) /\ Len(f) = n /\ \A i \in 1 .. n : f[i] = c[i]
  BY DEF First
<1>2. g \in Seq(Word) /\ Len(g) = n + 1 /\ \A i \in 1 .. n + 1 : g[i] = c[i]
  BY DEF First
<1>3. w \in Word
  OBVIOUS
<1> HIDE DEF f, g
<1>4. /\ a \in Seq(Word) /\ Len(a) = n + 1 /\ a[n + 1] = w
      /\ \A i \in 1 .. n : a[i] = f[i]
  BY <1>1, <1>3, AppendProperties
<1> HIDE DEF a
<1>5. ASSUME NEW i \in 1 .. n + 1 PROVE a[i] = g[i]
  <2>1. i \in 1 .. n \/ i = n + 1
    OBVIOUS
  <2>2. QED
    BY <1>1, <1>2, <1>4, <2>1
<1>6. a = g
  BY <1>2, <1>4, <1>5, SeqEqual
<1>7. QED
  BY <1>4, <1>6 DEF a, f, g

-----------------------------------------------------------------------------
\* One turn of the reader

\* When it is done nothing changes.
LEMMA ReadStays ==
    ASSUME NEW t, Len(t) \in Nat, NEW st, st.pos \in Nat, st.end # "none" \/ st.pos > Len(t)
    PROVE  ReadChunk(t, st) = st
BY DEF ReadChunk

\* A word is read, whatever is behind it.
LEMMA ReadWord ==
    ASSUME NEW t, NEW pos \in Nat, NEW chunks, NEW gap \in Int, Len(t) \in Nat,
           pos <= Len(t), t[pos] < Colon
    PROVE  LET st == [pos |-> pos, chunks |-> chunks, gap |-> gap, end |-> "none"]
               Turn(newgap, end) == [pos |-> pos + 2, chunks |-> Append(chunks, t[pos]),
                                     gap |-> newgap, end |-> end]
           IN  /\ pos = Len(t) => ReadChunk(t, st) = Turn(gap, "text")
               /\ pos < Len(t) /\ t[pos + 1] = Colon => ReadChunk(t, st) = Turn(gap, "none")
               /\ pos < Len(t) /\ t[pos + 1] = DoubleColon /\ gap < 0
                  => ReadChunk(t, st) = Turn(Len(Append(chunks, t[pos])), "none")
<1> DEFINE st == [pos |-> pos, chunks |-> chunks, gap |-> gap, end |-> "none"]
           read == Append(chunks, t[pos])
           Turn(newgap, end) == [pos |-> pos + 2, chunks |-> read, gap |-> newgap, end |-> end]
<1>1. st.pos = pos /\ st.chunks = chunks /\ st.gap = gap /\ st.end = "none"
  OBVIOUS
<1>2. (pos + 1) + 1 = pos + 2
  OBVIOUS
<1> HIDE DEF st, read
<1>3. ASSUME pos = Len(t) PROVE ReadChunk(t, st) = Turn(gap, "text")
  <2>1. ~(pos > Len(t)) /\ pos + 1 > Len(t) /\ ~(pos + 1 <= Len(t))
    BY <1>3
  <2>2. QED
    BY <1>1, <1>2, <2>1 DEF ReadChunk, read
<1>4. ASSUME pos < Len(t), t[pos + 1] = Colon PROVE ReadChunk(t, st) = Turn(gap, "none")
  <2>1. ~(pos > Len(t)) /\ ~(pos + 1 > Len(t)) /\ t[pos + 1] # DoubleColon
    BY <1>4, Delimiters
  <2>2. QED
    BY <1>1, <1>2, <2>1 DEF ReadChunk, read
<1>5. ASSUME pos < Len(t), t[pos + 1] = DoubleColon, gap < 0
      PROVE  ReadChunk(t, st) = Turn(Len(read), "none")
  <2>1. ~(pos > Len(t)) /\ ~(pos + 1 > Len(t)) /\ pos + 1 <= Len(t) /\ ~(gap >= 0)
    BY <1>5
  <2>2. QED
    BY <1>1, <1>2, <1>5, <2>1 DEF ReadChunk, read
<1>6. QED
  BY <1>3, <1>4, <1>5 DEF st, read

-----------------------------------------------------------------------------
\* All turns
ReaderInit(pos, gap) == [pos |-> pos, chunks |-> <<>>, gap |-> gap, end |-> "none"]

\* There is such a function of any text,
LEMMA ReaderExists ==
    ASSUME NEW t, NEW pos, NEW gap
    PROVE  \E turn : turn = [n \in 0 .. 8 |->
               IF n = 0 THEN ReaderInit(pos, gap) ELSE ReadChunk(t, turn[n - 1])]
<1> DEFINE s0 == ReaderInit(pos, gap)
           s1 == ReadChunk(t, s0)
           s2 == ReadChunk(t, s1)
           s3 == ReadChunk(t, s2)
           s4 == ReadChunk(t, s3)
           s5 == ReadChunk(t, s4)
           s6 == ReadChunk(t, s5)
           s7 == ReadChunk(t, s6)
           s8 == ReadChunk(t, s7)
           turn == [n \in 0 .. 8 |->
                      IF n = 0 THEN s0 ELSE IF n = 1 THEN s1 ELSE IF n = 2 THEN s2
                      ELSE IF n = 3 THEN s3 ELSE IF n = 4 THEN s4 ELSE IF n = 5 THEN s5
                      ELSE IF n = 6 THEN s6 ELSE IF n = 7 THEN s7 ELSE s8]
<1>1. /\ s1 = ReadChunk(t, s0) /\ s2 = ReadChunk(t, s1) /\ s3 = ReadChunk(t, s2)
      /\ s4 = ReadChunk(t, s3) /\ s5 = ReadChunk(t, s4) /\ s6 = ReadChunk(t, s5)
      /\ s7 = ReadChunk(t, s6) /\ s8 = ReadChunk(t, s7)
  OBVIOUS
<1> HIDE DEF s1, s2, s3, s4, s5, s6, s7, s8
<1>2. /\ turn[0] = s0 /\ turn[1] = s1 /\ turn[2] = s2 /\ turn[3] = s3 /\ turn[4] = s4
      /\ turn[5] = s5 /\ turn[6] = s6 /\ turn[7] = s7 /\ turn[8] = s8
  OBVIOUS
<1>3. turn = [n \in 0 .. 8 |-> turn[n]]
  OBVIOUS
<1> HIDE DEF turn
<1>4. ASSUME NEW n \in 1 .. 8 PROVE turn[n] = ReadChunk(t, turn[n - 1])
  <2>1. n = 1 \/ n = 2 \/ n = 3 \/ n = 4 \/ n = 5 \/ n = 6 \/ n = 7 \/ n = 8
    OBVIOUS
  <2>2. QED
    BY <1>1, <1>2, <2>1
<1>5. turn = [n \in 0 .. 8 |-> IF n = 0 THEN s0 ELSE ReadChunk(t, turn[n - 1])]
  <2>1. \A n \in 0 .. 8 : turn[n] = IF n = 0 THEN s0 ELSE ReadChunk(t, turn[n - 1])
    BY <1>2, <1>4
  <2>2. QED
    BY <1>3, <2>1
<1>6. QED
  BY <1>5

\* and ReadChunks is made of what it has last.
LEMMA ReadsTurns ==
    ASSUME NEW t, NEW pos, NEW gap
    PROVE  \E turn :
              /\ turn[0] = ReaderInit(pos, gap)
              /\ \A n \in 0 .. 7 : turn[n + 1] = ReadChunk(t, turn[n])
              /\ ReadChunks(t, pos, gap) =
                    [chunks |-> turn[8].chunks, gap |-> turn[8].gap,
                     k |-> IF turn[8].end = "text" THEN Len(turn[8].chunks) - 1
                           ELSE Len(turn[8].chunks),
                     ok |-> \/ turn[8].end = "text"
                            \/ /\ turn[8].end = "none" /\ turn[8].pos > Len(t)
                               /\ t = <<>> \/ t[Len(t)] # Colon]
<1> DEFINE turn == CHOOSE s : s = [n \in 0 .. 8 |->
                      IF n = 0 THEN ReaderInit(pos, gap) ELSE ReadChunk(t, s[n - 1])]
<1>1. ReadChunks(t, pos, gap) =
         [chunks |-> turn[8].chunks, gap |-> turn[8].gap,
          k |-> IF turn[8].end = "text" THEN Len(turn[8].chunks) - 1
                ELSE Len(turn[8].chunks),
          ok |-> \/ turn[8].end = "text"
                 \/ /\ turn[8].end = "none" /\ turn[8].pos > Len(t)
                    /\ t = <<>> \/ t[Len(t)] # Colon]
  BY DEF ReadChunks, ReaderInit
<1>2. turn = [n \in 0 .. 8 |->
                 IF n = 0 THEN ReaderInit(pos, gap) ELSE ReadChunk(t, turn[n - 1])]
  BY ReaderExists
<1> HIDE DEF turn
<1>3. \A n \in 0 .. 8 : turn[n] = IF n = 0 THEN ReaderInit(pos, gap)
                                  ELSE ReadChunk(t, turn[n - 1])
  BY <1>2
<1>4. ASSUME NEW n \in 0 .. 7 PROVE turn[n + 1] = ReadChunk(t, turn[n])
  <2>1. n + 1 \in 0 .. 8 /\ n + 1 # 0 /\ (n + 1) - 1 = n
    OBVIOUS
  <2>2. QED
    BY <1>3, <2>1
<1>5. turn[0] = ReaderInit(pos, gap)
  BY <1>3
<1>6. QED
  BY <1>1, <1>4, <1>5

\* Eight turns, one after the other
LEMMA EightTurns ==
    ASSUME NEW S, 0 \in S, \A n \in 0 .. 7 : n \in S => n + 1 \in S
    PROVE  8 \in S
<1>1. 1 \in S
  OBVIOUS
<1>2. 2 \in S
  BY <1>1
<1>3. 3 \in S
  BY <1>2
<1>4. 4 \in S
  BY <1>3
<1>5. 5 \in S
  BY <1>4
<1>6. 6 \in S
  BY <1>5
<1>7. 7 \in S
  BY <1>6
<1>8. QED
  BY <1>7

-----------------------------------------------------------------------------
\* What is read of a text with a "::"

\* The words before it, and those behind it
GapWords(b, p, q) == [i \in 1 .. p + 8 - q |-> IF i <= p THEN b[i] ELSE b[q + i - p]]

\* The reader after n of these words
GapState(b, p, q, n) ==
    [pos |-> IF n < p THEN 2 * n + 1 ELSE At(p) + 1 + 2 * (n - p),
     chunks |-> First(GapWords(b, p, q), n),
     gap |-> IF n < p THEN -1 ELSE p,
     end |-> IF n = p + 8 - q /\ q < 8 THEN "text" ELSE "none"]

\* What the words of a text with a gap are made of
LEMMA GapWordsAre ==
    ASSUME NEW b \in Words(8), NEW p \in 0 .. 6, NEW q \in 2 .. 8, p + 2 <= q
    PROVE  /\ p + 8 - q \in 0 .. 6
           /\ GapWords(b, p, q) \in [1 .. p + 8 - q -> Word]
           /\ \A i \in 1 .. p : GapWords(b, p, q)[i] = b[i]
           /\ \A i \in 1 .. 8 - q : GapWords(b, p, q)[p + i] = b[q + i]
<1>1. p + 8 - q \in 0 .. 6
  OBVIOUS
<1>2. ASSUME NEW i \in 1 .. p + 8 - q
      PROVE  (IF i <= p THEN b[i] ELSE b[q + i - p]) \in Word
  <2>1. CASE i <= p
    <3>1. i \in 1 .. 8
      BY <2>1
    <3>2. QED
      BY <2>1, <3>1, WordAt
  <2>2. CASE ~(i <= p)
    <3>1. q + i - p \in 1 .. 8
      BY <2>2
    <3>2. QED
      BY <2>2, <3>1, WordAt
  <2>3. QED
    BY <2>1, <2>2
<1>3. ASSUME NEW i \in 1 .. p PROVE GapWords(b, p, q)[i] = b[i]
  <2>1. i \in 1 .. p + 8 - q /\ i <= p
    OBVIOUS
  <2>2. QED
    BY <2>1 DEF GapWords
<1>4. ASSUME NEW i \in 1 .. 8 - q PROVE GapWords(b, p, q)[p + i] = b[q + i]
  <2>1. p + i \in 1 .. p + 8 - q /\ ~(p + i <= p) /\ q + (p + i) - p = q + i
    OBVIOUS
  <2>2. QED
    BY <2>1 DEF GapWords
<1>5. QED
  BY <1>1, <1>2, <1>3, <1>4 DEF GapWords

\* Each turn reads one of them,
LEMMA GapReads ==
    ASSUME NEW b \in Words(8), NEW p \in 0 .. 6, NEW q \in 2 .. 8, p + 2 <= q,
           NEW t, IsGappedText(t, b, p, q, 8), NEW n \in 0 .. 5, n < p + 8 - q
    PROVE  ReadChunk(t, GapState(b, p, q, n)) = GapState(b, p, q, n + 1)
<1> DEFINE c == GapWords(b, p, q)
           e == p + 8 - q
           pos == IF n < p THEN 2 * n + 1 ELSE At(p) + 1 + 2 * (n - p)
           gap == IF n < p THEN -1 ELSE p
           Turn(newgap, end) == [pos |-> pos + 2, chunks |-> First(c, n + 1),
                                 gap |-> newgap, end |-> end]
<1>0. /\ e \in 0 .. 6 /\ c \in [1 .. e -> Word]
      /\ \A i \in 1 .. p : c[i] = b[i]
      /\ \A i \in 1 .. 8 - q : c[p + i] = b[q + i]
  BY GapWordsAre
<1>1. At(p) \in Nat /\ At(p) >= 1 /\ (p > 0 => At(p) = 2 * p) /\ (p = 0 => At(p) = 1)
  BY DEF At
<1>2. /\ Len(t) = At(p) + ColonsLen(8 - q) /\ t[At(p)] = DoubleColon
      /\ \A i \in 1 .. p : t[2 * i - 1] = b[i]
      /\ \A i \in 1 .. p - 1 : t[2 * i] = Colon
      /\ \A i \in 1 .. 8 - q : t[At(p) + 2 * i - 1] = b[q + i]
      /\ \A i \in 1 .. 8 - q - 1 : t[At(p) + 2 * i] = Colon
  BY DEF IsGappedText, Begins, Goes
<1>3. Len(t) = At(p) + (IF q = 8 THEN 0 ELSE 2 * (8 - q) - 1) /\ Len(t) \in Nat
  BY <1>1, <1>2 DEF ColonsLen
<1>4. pos \in Nat /\ pos <= Len(t) /\ gap \in Int
  BY <1>1, <1>3
<1>5. t[pos] = c[n + 1]
  <2>1. CASE n < p
    <3>1. n + 1 \in 1 .. p /\ pos = 2 * (n + 1) - 1
      BY <2>1
    <3>2. QED
      BY <1>0, <1>2, <3>1
  <2>2. CASE ~(n < p)
    <3> DEFINE i == n - p + 1
    <3>1. i \in 1 .. 8 - q /\ pos = At(p) + 2 * i - 1 /\ p + i = n + 1
      BY <1>1, <2>2
    <3> HIDE DEF i
    <3>2. t[At(p) + 2 * i - 1] = b[q + i] /\ c[p + i] = b[q + i]
      BY <1>0, <1>2, <3>1
    <3>3. QED
      BY <3>1, <3>2, Zenon
  <2>3. QED
    BY <2>1, <2>2
<1>6. t[pos] < Colon
  <2>1. n + 1 \in 1 .. e
    BY <1>0
  <2>2. c[n + 1] \in Word
    BY <1>0, <2>1
  <2>3. QED
    BY <1>5, <2>2, Delimiters
<1>7. /\ Append(First(c, n), t[pos]) = First(c, n + 1)
      /\ Len(Append(First(c, n), t[pos])) = n + 1
  <2>1. e \in Nat /\ n \in Nat /\ n + 1 <= e
    BY <1>0
  <2> HIDE DEF c, e, pos
  <2>2. /\ Append(First(c, n), c[n + 1]) = First(c, n + 1)
        /\ Len(Append(First(c, n), c[n + 1])) = n + 1
    BY <1>0, <2>1, FirstGrows
  <2>3. QED
    BY <1>5, <2>2, Zenon
<1> DEFINE st == [pos |-> pos, chunks |-> First(c, n), gap |-> gap, end |-> "none"]
<1>8. GapState(b, p, q, n) = st
  BY DEF GapState
<1> HIDE DEF c
<1>9. /\ pos = Len(t) => ReadChunk(t, st) = Turn(gap, "text")
      /\ pos < Len(t) /\ t[pos + 1] = Colon => ReadChunk(t, st) = Turn(gap, "none")
      /\ pos < Len(t) /\ t[pos + 1] = DoubleColon /\ gap < 0
         => ReadChunk(t, st) = Turn(n + 1, "none")
  <2> DEFINE chunks == First(c, n)
             Turn2(newgap, end) == [pos |-> pos + 2, chunks |-> Append(chunks, t[pos]),
                                     gap |-> newgap, end |-> end]
  <2> HIDE DEF pos, gap
  <2>1. /\ pos = Len(t) => ReadChunk(t, st) = Turn2(gap, "text")
        /\ pos < Len(t) /\ t[pos + 1] = Colon => ReadChunk(t, st) = Turn2(gap, "none")
        /\ pos < Len(t) /\ t[pos + 1] = DoubleColon /\ gap < 0
           => ReadChunk(t, st) = Turn2(Len(Append(chunks, t[pos])), "none")
    BY <1>3, <1>4, <1>6, ReadWord, Zenon
  <2>2. QED
    BY <1>7, <2>1
<1>10. GapState(b, p, q, n + 1) =
          [pos |-> IF n + 1 < p THEN 2 * (n + 1) + 1 ELSE At(p) + 1 + 2 * (n + 1 - p),
           chunks |-> First(c, n + 1), gap |-> IF n + 1 < p THEN -1 ELSE p,
           end |-> IF n + 1 = e /\ q < 8 THEN "text" ELSE "none"]
  BY DEF GapState, c
<1> HIDE DEF st, Turn
<1>11. CASE n + 1 < p
  <2>1. n + 1 \in 1 .. p - 1 /\ pos + 1 = 2 * (n + 1) /\ pos < Len(t) /\ ~(n + 1 = e /\ q < 8)
    BY <1>1, <1>3, <1>11
  <2>2. t[pos + 1] = Colon
    BY <1>2, <2>1
  <2>3. ReadChunk(t, st) = Turn(gap, "none")
    BY <1>9, <2>1, <2>2
  <2>4. GapState(b, p, q, n + 1) = Turn(gap, "none")
    BY <1>10, <1>11, <2>1 DEF Turn
  <2>5. QED
    BY <1>8, <2>3, <2>4, Zenon
<1>12. CASE n + 1 = p
  <2>0. pos = 2 * n + 1 /\ gap = -1
    BY <1>12
  <2> HIDE DEF pos, gap
  <2>1. /\ pos + 1 = At(p) /\ pos < Len(t) /\ gap < 0 /\ pos + 2 = At(p) + 1
        /\ ~(n + 1 = e /\ q < 8) /\ ~(n + 1 < p) /\ n + 1 - p = 0
    BY <1>1, <1>3, <1>12, <2>0
  <2>2. t[pos + 1] = DoubleColon
    BY <1>2, <2>1
  <2>3. ReadChunk(t, st) = Turn(n + 1, "none")
    BY <1>9, <2>1, <2>2
  <2>4. GapState(b, p, q, n + 1) = Turn(n + 1, "none")
    BY <1>1, <1>10, <1>12, <2>1 DEF Turn
  <2>5. QED
    BY <1>8, <2>3, <2>4, Zenon
<1>13. CASE n >= p /\ n + 1 < e
  <2> DEFINE i == n - p + 1
  <2>0. pos = At(p) + 1 + 2 * (n - p) /\ gap = p
    BY <1>13
  <2> HIDE DEF pos, gap
  <2>1. /\ i \in 1 .. 8 - q - 1 /\ pos + 1 = At(p) + 2 * i /\ pos < Len(t)
        /\ ~(n + 1 = e /\ q < 8) /\ ~(n + 1 < p) /\ gap = p
        /\ pos + 2 = At(p) + 1 + 2 * (n + 1 - p)
    <3>1. At(p) \in Nat /\ n - p \in Nat /\ n + 1 - p = (n - p) + 1
      BY <1>1, <1>13
    <3>2. i \in 1 .. 8 - q - 1 /\ i = (n - p) + 1
      BY <1>13
    <3>3. pos + 1 = At(p) + 2 * i /\ pos + 2 = At(p) + 1 + 2 * (n + 1 - p)
      BY <2>0, <3>1, <3>2
    <3>4. Len(t) = At(p) + 2 * (8 - q) - 1
      BY <1>3, <3>2
    <3>5. pos < Len(t)
      BY <2>0, <3>1, <3>2, <3>4
    <3>6. QED
      BY <1>13, <2>0, <3>2, <3>3, <3>5
  <2> HIDE DEF i
  <2>2. t[pos + 1] = Colon
    BY <1>2, <2>1
  <2>3. ReadChunk(t, st) = Turn(gap, "none")
    BY <1>9, <2>1, <2>2
  <2>4. GapState(b, p, q, n + 1) = Turn(gap, "none")
    BY <1>10, <2>1 DEF Turn
  <2>5. QED
    BY <1>8, <2>3, <2>4, Zenon
<1>14. CASE n >= p /\ n + 1 = e
  <2>0. pos = At(p) + 1 + 2 * (n - p) /\ gap = p
    BY <1>14
  <2> HIDE DEF pos, gap
  <2>1. /\ pos = Len(t) /\ n + 1 = e /\ q < 8 /\ ~(n + 1 < p) /\ gap = p
        /\ pos + 2 = At(p) + 1 + 2 * (n + 1 - p)
    <3>1. At(p) \in Nat /\ n - p = 7 - q /\ n + 1 - p = (n - p) + 1 /\ q < 8
      BY <1>1, <1>14
    <3>2. pos + 2 = At(p) + 1 + 2 * (n + 1 - p)
      BY <2>0, <3>1
    <3>3. Len(t) = At(p) + 2 * (8 - q) - 1
      BY <1>3, <3>1
    <3>4. pos = Len(t)
      BY <2>0, <3>1, <3>3
    <3>5. QED
      BY <1>14, <2>0, <3>1, <3>2, <3>4
  <2>3. ReadChunk(t, st) = Turn(gap, "text")
    BY <1>9, <2>1
  <2>4. GapState(b, p, q, n + 1) = Turn(gap, "text")
    BY <1>10, <2>1 DEF Turn
  <2>5. QED
    BY <1>8, <2>3, <2>4, Zenon
<1>15. QED
  <2>1. n + 1 < p \/ n + 1 = p \/ (n >= p /\ n + 1 < e) \/ (n >= p /\ n + 1 = e)
    OBVIOUS
  <2>2. QED
    BY <1>11, <1>12, <1>13, <1>14, <2>1

\* until there are no more, and then none does.
LEMMA GapAllRead ==
    ASSUME NEW b \in Words(8), NEW p \in 0 .. 6, NEW q \in 2 .. 8, p + 2 <= q,
           NEW t, IsGappedText(t, b, p, q, 8),
           NEW turn, turn[0] = GapState(b, p, q, 0),
           \A n \in 0 .. 7 : turn[n + 1] = ReadChunk(t, turn[n])
    PROVE  turn[8] = GapState(b, p, q, p + 8 - q)
<1> DEFINE e == p + 8 - q
           Upto(n) == IF n < e THEN n ELSE e
           S == {n \in 0 .. 8 : turn[n] = GapState(b, p, q, Upto(n))}
<1>1. e \in 0 .. 6
  OBVIOUS
<1>2. ReadChunk(t, GapState(b, p, q, e)) = GapState(b, p, q, e)
  <2> DEFINE st == GapState(b, p, q, e)
  <2>1. st.end = (IF q < 8 THEN "text" ELSE "none") /\ st.pos = At(p) + 1 + 2 * (8 - q)
    <3>1. ~(e < p) /\ e - p = 8 - q
      OBVIOUS
    <3>2. QED
      BY <3>1 DEF GapState
  <2>2. Len(t) = At(p) + ColonsLen(8 - q) /\ At(p) \in Nat
    BY DEF IsGappedText, At
  <2>3. Len(t) \in Nat
    BY <2>2 DEF ColonsLen
  <2>4. q = 8 => st.pos > Len(t)
    BY <2>1, <2>2 DEF ColonsLen
  <2>5. st.pos \in Nat
    <3>1. 8 - q \in Nat
      OBVIOUS
    <3>2. At(p) + 1 + 2 * (8 - q) \in Nat
      BY <2>2, <3>1
    <3>3. QED
      BY <2>1, <3>2, Zenon
  <2> HIDE DEF st
  <2>6. st.end # "none" \/ st.pos > Len(t)
    BY <2>1, <2>4
  <2>7. ReadChunk(t, st) = st
    BY <2>3, <2>5, <2>6, ReadStays
  <2>8. QED
    BY <2>7 DEF st
<1>3. 0 \in S
  BY <1>1
<1>4. ASSUME NEW n \in 0 .. 7, n \in S PROVE n + 1 \in S
  <2>1. turn[n + 1] = ReadChunk(t, GapState(b, p, q, Upto(n)))
    BY <1>4
  <2>2. CASE n < e
    <3>1. n \in 0 .. 5 /\ n < p + 8 - q /\ Upto(n) = n /\ Upto(n + 1) = n + 1
      BY <1>1, <2>2
    <3>2. ReadChunk(t, GapState(b, p, q, n)) = GapState(b, p, q, n + 1)
      BY <3>1, GapReads
    <3>3. turn[n + 1] = GapState(b, p, q, Upto(n + 1))
      BY <2>1, <3>1, <3>2, Zenon
    <3>4. QED
      BY <3>3
  <2>3. CASE ~(n < e)
    <3>1. Upto(n) = e /\ Upto(n + 1) = e
      BY <1>1, <2>3
    <3>2. turn[n + 1] = GapState(b, p, q, Upto(n + 1))
      BY <1>2, <2>1, <3>1, Zenon
    <3>3. QED
      BY <3>2
  <2>4. QED
    BY <2>2, <2>3
<1>5. 8 \in S
  <2> HIDE DEF S
  <2>1. QED
    BY <1>3, <1>4, EightTurns
<1>6. Upto(8) = e
  BY <1>1
<1>7. QED
  BY <1>5, <1>6

\* Three sequences, one behind the other, that are together the words of b
LEMMA ThreeTogether ==
    ASSUME NEW b \in Words(8), NEW x \in Seq(Word), NEW y \in Seq(Word), NEW z \in Seq(Word),
           Len(x) + Len(y) + Len(z) = 8,
           \A i \in 1 .. Len(x) : x[i] = b[i],
           \A i \in 1 .. Len(y) : y[i] = b[Len(x) + i],
           \A i \in 1 .. Len(z) : z[i] = b[Len(x) + Len(y) + i]
    PROVE  x \o y \o z = b
<1> DEFINE xy == x \o y
           all == xy \o z
           m == Len(x)
           n == Len(y)
           k == Len(z)
<1>0. m \in Nat /\ n \in Nat /\ k \in Nat
  BY LenProperties
<1>1. /\ xy \in Seq(Word) /\ Len(xy) = m + n
      /\ \A i \in 1 .. m : xy[i] = x[i]
      /\ \A i \in 1 .. n : xy[m + i] = y[i]
  BY Joined
<1> HIDE DEF xy
<1>2. /\ all \in Seq(Word) /\ Len(all) = Len(xy) + k
      /\ \A i \in 1 .. Len(xy) : all[i] = xy[i]
      /\ \A i \in 1 .. k : all[Len(xy) + i] = z[i]
  BY <1>1, Joined
<1> HIDE DEF all
<1>3. b \in Seq(Word) /\ Len(b) = 8
  BY WordsAreSeq
<1>5. m + n + k = 8
  OBVIOUS
<1>6. /\ \A i \in 1 .. m : x[i] = b[i]
      /\ \A i \in 1 .. n : y[i] = b[m + i]
      /\ \A i \in 1 .. k : z[i] = b[m + n + i]
  OBVIOUS
<1> HIDE DEF m, n, k
<1>7. ASSUME NEW i \in 1 .. 8 PROVE all[i] = b[i]
  <2>1. CASE i <= m
    <3>1. i \in 1 .. m /\ i \in 1 .. m + n
      BY <1>0, <2>1
    <3>2. QED
      BY <1>1, <1>2, <1>6, <3>1
  <2>2. CASE i > m /\ i <= m + n
    <3> DEFINE j == i - m
    <3>1. j \in 1 .. n /\ m + j = i /\ i \in 1 .. m + n
      BY <1>0, <2>2
    <3> HIDE DEF j
    <3>2. xy[m + j] = y[j] /\ y[j] = b[m + j] /\ all[i] = xy[i]
      BY <1>1, <1>2, <1>6, <3>1
    <3>3. QED
      BY <3>1, <3>2, Zenon
  <2>3. CASE i > m + n
    <3> DEFINE j == i - (m + n)
    <3>1. j \in 1 .. k /\ m + n + j = i
      BY <1>0, <1>5, <2>3
    <3> HIDE DEF j
    <3>2. all[Len(xy) + j] = z[j] /\ z[j] = b[m + n + j]
      BY <1>2, <1>6, <3>1
    <3>3. QED
      BY <1>1, <3>1, <3>2
  <2>4. QED
    BY <1>0, <2>1, <2>2, <2>3
<1>8. Len(all) = 8
  BY <1>1, <1>2, <1>5
<1>9. all = b
  BY <1>2, <1>3, <1>7, <1>8, SeqEqual
<1>10. QED
  BY <1>9 DEF all, xy

\* A text with a "::" is read as the words it is of.
LEMMA ReadsGapped ==
    ASSUME NEW b \in Words(8), NEW p \in 0 .. 6, NEW q \in 2 .. 8, p + 2 <= q,
           \A i \in p + 1 .. q : b[i] = 0,
           NEW t, IsGappedText(t, b, p, q, 8)
    PROVE  ReadIPv6(t) = {b}
<1> DEFINE atstart == t # <<>> /\ t[1] = DoubleColon
           pos == IF atstart THEN 2 ELSE 1
           gap == IF atstart THEN 0 ELSE -1
           r == ReadChunks(t, pos, gap)
           chunk(j) == IF j <= Len(r.chunks) THEN r.chunks[j] ELSE 0
           upTo(m, n) == [j \in 1 .. n - m + 1 |-> chunk(m + j - 1)]
           body == IF r.gap < 0 THEN upTo(1, r.k + 1)
                   ELSE upTo(1, r.gap) \o Zeros(7 - r.k) \o upTo(r.gap + 1, r.k + 1)
           e == p + 8 - q
           c == GapWords(b, p, q)
           k == IF q < 8 THEN e - 1 ELSE e
<1>0. /\ e \in 0 .. 6 /\ c \in [1 .. e -> Word]
      /\ \A i \in 1 .. p : c[i] = b[i]
      /\ \A i \in 1 .. 8 - q : c[p + i] = b[q + i]
  BY GapWordsAre
<1>1. /\ At(p) \in Nat /\ At(p) >= 1 /\ (p = 0 => At(p) = 1)
      /\ Len(t) = At(p) + ColonsLen(8 - q) /\ t[At(p)] = DoubleColon /\ t \in Seq(Nat)
      /\ \A i \in 1 .. p : t[2 * i - 1] = b[i]
  BY DEF At, IsGappedText, Begins
<1>2. t # <<>> /\ (q = 8 => Len(t) = At(p)) /\ Len(t) \in Nat
  <2>1. Len(t) >= 1 /\ (q = 8 => Len(t) = At(p)) /\ Len(t) \in Nat
    BY <1>1 DEF ColonsLen
  <2>2. QED
    BY <2>1
<1>3. atstart <=> p = 0
  <2>1. CASE p = 0
    BY <1>1, <1>2, <2>1
  <2>2. CASE p # 0
    <3>1. 1 \in 1 .. p /\ 2 * 1 - 1 = 1 /\ 1 \in 1 .. 8
      BY <2>2
    <3>2. t[1] = b[1]
      BY <1>1, <3>1
    <3>3. b[1] \in Word
      BY <3>1, WordAt
    <3>4. QED
      BY <2>2, <3>2, <3>3, Delimiters
  <2>3. QED
    BY <2>1, <2>2
<1>4. GapState(b, p, q, 0) = ReaderInit(pos, gap)
  <2>1. First(c, 0) = <<>>
    BY DEF First
  <2>2. ~(0 = e /\ q < 8)
    OBVIOUS
  <2>3. CASE p = 0
    <3>1. ~(0 < p) /\ At(p) + 1 + 2 * (0 - p) = 2
      BY <1>1, <2>3
    <3>2. QED
      BY <1>3, <2>1, <2>2, <2>3, <3>1 DEF GapState, ReaderInit
  <2>4. CASE p # 0
    <3>1. 0 < p /\ 2 * 0 + 1 = 1
      BY <2>4
    <3>2. QED
      BY <1>3, <2>1, <2>2, <2>4, <3>1 DEF GapState, ReaderInit
  <2>5. QED
    BY <2>3, <2>4
<1> HIDE DEF atstart, pos, gap
<1>5. PICK turn :
         /\ turn[0] = GapState(b, p, q, 0)
         /\ \A n \in 0 .. 7 : turn[n + 1] = ReadChunk(t, turn[n])
         /\ r = [chunks |-> turn[8].chunks, gap |-> turn[8].gap,
                 k |-> IF turn[8].end = "text" THEN Len(turn[8].chunks) - 1
                       ELSE Len(turn[8].chunks),
                 ok |-> \/ turn[8].end = "text"
                        \/ /\ turn[8].end = "none" /\ turn[8].pos > Len(t)
                           /\ t = <<>> \/ t[Len(t)] # Colon]
  BY <1>4, ReadsTurns
<1> HIDE DEF r
<1>6. turn[8] = GapState(b, p, q, e)
  BY <1>5, GapAllRead
<1>7. /\ turn[8].chunks = First(c, e) /\ turn[8].gap = p
      /\ turn[8].end = (IF q < 8 THEN "text" ELSE "none")
      /\ turn[8].pos = At(p) + 1 + 2 * (8 - q)
  <2>1. ~(e < p) /\ e - p = 8 - q
    OBVIOUS
  <2>2. QED
    BY <1>6, <2>1 DEF GapState
<1>8. Len(First(c, e)) = e /\ First(c, e) = c
  BY <1>0 DEF First
<1>9. r.chunks = c /\ r.gap = p /\ r.k = k /\ Len(r.chunks) = e
  <2>1. r.chunks = c /\ r.gap = p /\ Len(r.chunks) = e
    BY <1>5, <1>7, <1>8
  <2>2. r.k = IF q < 8 THEN Len(First(c, e)) - 1 ELSE Len(First(c, e))
    BY <1>5, <1>7
  <2>3. r.k = k
    BY <1>8, <2>2
  <2>4. QED
    BY <2>1, <2>3
<1>10. r.ok
  <2>1. CASE q < 8
    BY <1>5, <1>7, <2>1
  <2>2. CASE q = 8
    <3>1. turn[8].end = "none" /\ turn[8].pos > Len(t) /\ t[Len(t)] # Colon
      BY <1>1, <1>2, <1>7, <2>2, Delimiters
    <3>2. QED
      BY <1>5, <3>1
  <2>3. QED
    BY <2>1, <2>2
<1> DEFINE x == upTo(1, r.gap)
           y == Zeros(7 - r.k)
           z == upTo(r.gap + 1, r.k + 1)
<1>11. x \in Seq(Word) /\ Len(x) = p /\ \A i \in 1 .. p : x[i] = b[i]
  <2>1. x = [j \in 1 .. p |-> IF j <= e THEN c[j] ELSE 0]
    <3>1. p - 1 + 1 = p /\ \A j \in 1 .. p : 1 + j - 1 = j
      OBVIOUS
    <3>2. QED
      BY <1>9, <3>1
  <2>2. \A j \in 1 .. p : j <= e /\ j \in 1 .. e
    OBVIOUS
  <2>3. x = [j \in 1 .. p |-> c[j]]
    BY <2>1, <2>2
  <2> HIDE DEF x, c, e
  <2>4. \A j \in 1 .. p : c[j] \in Word
    BY <1>0, <2>2
  <2>5. QED
    BY <1>0, <2>3, <2>4
<1>12. y \in Seq(Word) /\ Len(y) = 7 - k /\ \A i \in 1 .. 7 - k : y[i] = 0
  <2>1. 7 - k \in Nat /\ 7 - r.k = 7 - k
    BY <1>9
  <2>2. QED
    <3>1. \A i \in 1 .. 7 - k : 0 \in Word
      BY SomeWords
    <3>2. y = [i \in 1 .. 7 - k |-> 0]
      BY <2>1, Zenon DEF Zeros
    <3> HIDE DEF y
    <3>3. QED
      BY <2>1, <3>1, <3>2
<1>13. z \in Seq(Word) /\ Len(z) = k + 1 - p /\ \A i \in 1 .. k + 1 - p : z[i] = b[p + 7 - k + i]
  <2>1. z = [j \in 1 .. k + 1 - p |-> IF p + j <= e THEN c[p + j] ELSE 0]
    <3>1. (k + 1) - (p + 1) + 1 = k + 1 - p /\ \A j \in 1 .. k + 1 - p : p + 1 + j - 1 = p + j
      OBVIOUS
    <3>2. QED
      BY <1>9, <3>1
  <2> HIDE DEF x, c, z
  <2>2. CASE q < 8
    <3>1. k + 1 - p = 8 - q /\ \A j \in 1 .. 8 - q : p + j <= e /\ p + 7 - k + j = q + j
      BY <2>2
    <3>2. \A j \in 1 .. 8 - q : c[p + j] = b[q + j]
      BY <1>0
    <3> HIDE DEF k, e
    <3>3. z = [j \in 1 .. 8 - q |-> b[q + j]]
      BY <2>1, <3>1, <3>2
    <3>4. \A j \in 1 .. 8 - q : b[q + j] \in Word
      <4>1. \A j \in 1 .. 8 - q : q + j \in 1 .. 8
        OBVIOUS
      <4>2. QED
        BY <4>1, WordAt
    <3>5. z \in Seq(Word) /\ Len(z) = 8 - q /\ \A j \in 1 .. 8 - q : z[j] = b[q + j]
      BY <3>3, <3>4
    <3>6. QED
      BY <3>1, <3>5
  <2>3. CASE q = 8
    <3>1. k + 1 - p = 1 /\ ~(p + 1 <= e) /\ p + 7 - k + 1 = 8
      BY <2>3
    <3>2. b[8] = 0
      BY <2>3
    <3>3. z = [j \in 1 .. 1 |-> 0]
      BY <2>1, <3>1
    <3>4. z \in Seq(Word) /\ Len(z) = 1 /\ z[1] = 0
      BY <3>3, SomeWords
    <3>5. QED
      BY <3>1, <3>2, <3>4
  <2>4. QED
    BY <2>2, <2>3
<1>14. body = x \o y \o z
  <2>1. ~(r.gap < 0)
    BY <1>9
  <2>2. QED
    BY <2>1, Zenon
<1> HIDE DEF x, y, z, body, c
<1>15. x \o y \o z = b
  <2>1. k \in 0 .. 6 /\ Len(x) + Len(y) + Len(z) = 8
    BY <1>11, <1>12, <1>13
  <2>2. ASSUME NEW i \in 1 .. Len(y) PROVE y[i] = b[Len(x) + i]
    <3>1. i \in 1 .. 7 - k /\ p + i \in p + 1 .. q
      BY <1>12, <2>1
    <3>2. QED
      BY <1>11, <1>12, <3>1
  <2>3. ASSUME NEW i \in 1 .. Len(z) PROVE z[i] = b[Len(x) + Len(y) + i]
    <3>1. i \in 1 .. k + 1 - p /\ Len(x) + Len(y) + i = p + 7 - k + i
      BY <1>11, <1>12, <1>13, <2>1
    <3>2. QED
      BY <1>13, <3>1
  <2>4. QED
    BY <1>11, <1>12, <1>13, <2>1, <2>2, <2>3, ThreeTogether
<1>16. /\ r.gap >= 0 => r.k < 7
       /\ r.gap < 0 => r.k = 7
       /\ Len(body) = 8
  <2>1. Len(b) = 8
    BY WordsAreSeq
  <2>2. QED
    BY <1>9, <1>14, <1>15, <2>1
<1>17. QED
  <2>1. ReadIPv6(t) = IF r.ok /\ (r.gap >= 0 => r.k < 7) /\ (r.gap < 0 => r.k = 7)
                         /\ Len(body) = 8
                      THEN {body} ELSE {}
    BY DEF ReadIPv6, body, r, atstart, pos, gap
  <2>2. QED
    BY <1>10, <1>14, <1>15, <1>16, <2>1

\* The reader after n words of a text that has all eight
PlainState(b, n) ==
    [pos |-> 2 * n + 1, chunks |-> First(b, n), gap |-> -1,
     end |-> IF n = 8 THEN "text" ELSE "none"]

\* Each turn reads a word, and the last one ends with the text.
LEMMA PlainReads ==
    ASSUME NEW b \in Words(8), NEW t, IsPlainText(t, b, 8), NEW n \in 0 .. 7
    PROVE  ReadChunk(t, PlainState(b, n)) = PlainState(b, n + 1)
<1> DEFINE pos == 2 * n + 1
           chunks == First(b, n)
           st == [pos |-> pos, chunks |-> chunks, gap |-> -1, end |-> "none"]
           Turn(newgap, end) == [pos |-> pos + 2, chunks |-> First(b, n + 1),
                                 gap |-> newgap, end |-> end]
           Turn2(newgap, end) == [pos |-> pos + 2, chunks |-> Append(chunks, t[pos]),
                                  gap |-> newgap, end |-> end]
<1>1. /\ Len(t) = 15 /\ Len(t) \in Nat /\ pos \in Nat /\ pos <= Len(t) /\ -1 \in Int
      /\ \A i \in 1 .. 8 : t[2 * i - 1] = b[i]
      /\ \A i \in 1 .. 7 : t[2 * i] = Colon
  <2>1. ColonsLen(8) = 15
    BY DEF ColonsLen
  <2>2. Begins(t, b, 8) /\ Len(t) = 15
    BY <2>1 DEF IsPlainText
  <2>3. /\ \A i \in 1 .. 8 : t[2 * i - 1] = b[i]
        /\ \A i \in 1 .. 8 - 1 : t[2 * i] = Colon
    BY <2>2 DEF Begins
  <2>4. 8 - 1 = 7 /\ pos \in Nat /\ pos <= 15 /\ 15 \in Nat /\ -1 \in Int
    OBVIOUS
  <2>5. \A i \in 1 .. 7 : t[2 * i] = Colon
    BY <2>3, <2>4
  <2> HIDE DEF pos
  <2>6. QED
    BY <2>2, <2>3, <2>4, <2>5
<1>2. t[pos] = b[n + 1] /\ t[pos] < Colon
  <2>1. n + 1 \in 1 .. 8 /\ 2 * (n + 1) - 1 = pos
    OBVIOUS
  <2>2. t[pos] = b[n + 1]
    BY <1>1, <2>1
  <2>3. b[n + 1] \in Word
    BY <2>1, WordAt
  <2>4. QED
    BY <2>2, <2>3, Delimiters
<1>3. Append(chunks, t[pos]) = First(b, n + 1)
  <2>1. 8 \in Nat /\ b \in [1 .. 8 -> Word] /\ n \in Nat /\ n + 1 <= 8
    BY DEF Words
  <2>2. Append(First(b, n), b[n + 1]) = First(b, n + 1)
    BY <2>1, FirstGrows
  <2>3. QED
    BY <1>2, <2>2, Zenon
<1>4. PlainState(b, n) = st
  <2>1. n # 8
    OBVIOUS
  <2>2. QED
    BY <2>1, Zenon DEF PlainState
<1>5. /\ pos = Len(t) => ReadChunk(t, st) = Turn2(-1, "text")
      /\ pos < Len(t) /\ t[pos + 1] = Colon => ReadChunk(t, st) = Turn2(-1, "none")
  <2> DEFINE gap == -1
  <2>1. pos \in Nat /\ pos <= Len(t) /\ Len(t) \in Nat /\ gap \in Int /\ t[pos] < Colon
    BY <1>1, <1>2
  <2> HIDE DEF pos, chunks, gap
  <2> DEFINE at == [pos |-> pos, chunks |-> chunks, gap |-> gap, end |-> "none"]
  <2>2. /\ pos = Len(t) => ReadChunk(t, at) = Turn2(gap, "text")
        /\ pos < Len(t) /\ t[pos + 1] = Colon => ReadChunk(t, at) = Turn2(gap, "none")
    BY <2>1, ReadWord, Zenon
  <2>3. QED
    BY <2>2, Zenon DEF gap
<1>6. pos + 2 = 2 * (n + 1) + 1
  OBVIOUS
<1>7. CASE n = 7
  <2>1. pos = Len(t) /\ n + 1 = 8
    BY <1>1, <1>7
  <2>2. ReadChunk(t, st) = Turn(-1, "text")
    BY <1>3, <1>5, <2>1, Zenon
  <2>3. PlainState(b, n + 1) = Turn(-1, "text")
    BY <1>6, <2>1, Zenon DEF PlainState
  <2>4. QED
    BY <1>4, <2>2, <2>3, Zenon
<1>8. CASE n # 7
  <2>1. pos < Len(t) /\ n + 1 # 8 /\ n + 1 \in 1 .. 7 /\ pos + 1 = 2 * (n + 1)
    BY <1>1, <1>8
  <2>2. t[pos + 1] = Colon
    BY <1>1, <2>1
  <2>3. ReadChunk(t, st) = Turn(-1, "none")
    BY <1>3, <1>5, <2>1, <2>2, Zenon
  <2>4. PlainState(b, n + 1) = Turn(-1, "none")
    BY <1>6, <2>1, Zenon DEF PlainState
  <2>5. QED
    BY <1>4, <2>3, <2>4, Zenon
<1>9. QED
  BY <1>7, <1>8

\* A text of all words is read as these.
LEMMA ReadsPlain ==
    ASSUME NEW b \in Words(8), NEW t, IsPlainText(t, b, 8)
    PROVE  ReadIPv6(t) = {b}
<1> DEFINE atstart == t # <<>> /\ t[1] = DoubleColon
           pos == IF atstart THEN 2 ELSE 1
           gap == IF atstart THEN 0 ELSE -1
           r == ReadChunks(t, pos, gap)
           chunk(j) == IF j <= Len(r.chunks) THEN r.chunks[j] ELSE 0
           upTo(m, n) == [j \in 1 .. n - m + 1 |-> chunk(m + j - 1)]
           body == IF r.gap < 0 THEN upTo(1, r.k + 1)
                   ELSE upTo(1, r.gap) \o Zeros(7 - r.k) \o upTo(r.gap + 1, r.k + 1)
<1>1. ~atstart
  <2>1. \A i \in 1 .. 8 : t[2 * i - 1] = b[i]
    BY DEF IsPlainText, Begins
  <2>2. 1 \in 1 .. 8 /\ 2 * 1 - 1 = 1
    OBVIOUS
  <2>3. t[1] = b[1] /\ b[1] \in Word
    BY <2>1, <2>2, WordAt
  <2>4. QED
    BY <2>3, Delimiters
<1>2. pos = 1 /\ gap = -1
  BY <1>1
<1> HIDE DEF atstart, pos, gap
<1>3. PICK turn :
         /\ turn[0] = ReaderInit(pos, gap)
         /\ \A n \in 0 .. 7 : turn[n + 1] = ReadChunk(t, turn[n])
         /\ r = [chunks |-> turn[8].chunks, gap |-> turn[8].gap,
                 k |-> IF turn[8].end = "text" THEN Len(turn[8].chunks) - 1
                       ELSE Len(turn[8].chunks),
                 ok |-> \/ turn[8].end = "text"
                        \/ /\ turn[8].end = "none" /\ turn[8].pos > Len(t)
                           /\ t = <<>> \/ t[Len(t)] # Colon]
  BY ReadsTurns
<1> HIDE DEF r
<1>4. turn[0] = PlainState(b, 0)
  <2>1. First(b, 0) = <<>> /\ 2 * 0 + 1 = 1 /\ 0 # 8
    BY DEF First
  <2>2. QED
    BY <1>2, <1>3, <2>1 DEF PlainState, ReaderInit
<1>5. turn[8] = PlainState(b, 8)
  <2> DEFINE S == {n \in 0 .. 8 : turn[n] = PlainState(b, n)}
  <2>1. 0 \in S
    BY <1>4
  <2>2. ASSUME NEW n \in 0 .. 7, n \in S PROVE n + 1 \in S
    <3>1. turn[n + 1] = ReadChunk(t, PlainState(b, n))
      BY <1>3, <2>2
    <3>2. turn[n + 1] = PlainState(b, n + 1)
      BY <3>1, PlainReads
    <3>3. QED
      BY <3>2
  <2> HIDE DEF S
  <2>3. 8 \in S
    BY <2>1, <2>2, EightTurns
  <2>4. QED
    BY <2>3 DEF S
<1>6. turn[8].chunks = First(b, 8) /\ turn[8].gap = -1 /\ turn[8].end = "text"
  BY <1>5 DEF PlainState
<1>7. First(b, 8) = b /\ Len(b) = 8
  BY WordsAreSeq DEF First, Words
<1>8. r.chunks = b /\ r.gap = -1 /\ r.k = 7 /\ r.ok
  BY <1>3, <1>6, <1>7
<1>9. body = b
  <2>1. body = upTo(1, r.k + 1)
    BY <1>8
  <2>2. upTo(1, r.k + 1) = [j \in 1 .. 8 |-> IF j <= 8 THEN b[j] ELSE 0]
    <3>1. (7 + 1) - 1 + 1 = 8 /\ \A j \in 1 .. 8 : 1 + j - 1 = j
      OBVIOUS
    <3>2. QED
      BY <1>7, <1>8, <3>1
  <2>3. [j \in 1 .. 8 |-> IF j <= 8 THEN b[j] ELSE 0] = b
    BY DEF Words
  <2>4. QED
    BY <2>1, <2>2, <2>3, Zenon
<1> HIDE DEF body
<1>10. ReadIPv6(t) = IF r.ok /\ (r.gap >= 0 => r.k < 7) /\ (r.gap < 0 => r.k = 7)
                        /\ Len(body) = 8
                     THEN {body} ELSE {}
  BY DEF ReadIPv6, body, r, atstart, pos, gap
<1>11. QED
  BY <1>7, <1>8, <1>9, <1>10

\* What is written of the words of an IPv6 address is read as these words: by
\* _netaddr_toStringflex, with "::" for some of its zeros or without, and by
\* _netaddr_string_ipv6_new.
THEOREM IPv6ReadsBack == \A b \in Words(8) : ReadIPv6(WriteIPv6(b)) = {b}
<1> SUFFICES ASSUME NEW b \in Words(8) PROVE ReadIPv6(WriteIPv6(b)) = {b}
  OBVIOUS
<1> DEFINE t == WriteIPv6(b)
<1>1. IsTextOf(t, b)
  BY WritesText
<1> HIDE DEF t
<1>2. CASE IsPlainText(t, b, 8)
  BY <1>2, ReadsPlain DEF t
<1>3. CASE ~IsPlainText(t, b, 8)
  <2>1. PICK p \in 0 .. 6, q \in 2 .. 8 :
           /\ p + 2 <= q
           /\ \A i \in p + 1 .. q : b[i] = 0
           /\ IsGappedText(t, b, p, q, 8)
    BY <1>1, <1>3 DEF IsTextOf
  <2>2. QED
    BY <2>1, ReadsGapped DEF t
<1>4. QED
  BY <1>2, <1>3

\* Any address that is written is read as an equal one, and as itself unless it was an
\* IPv4 address that IPv6 has, written as IPv4.
LEMMA AddressReadsBack ==
    ASSUME NEW a, a \in IpAddrs \/ (\E b : a = Mac(b)), NEW canon
    PROVE  \E x \in StringNew(AddrToString(a, canon)) : AddrEqual(x, a) /\ (canon \/ x = a)
<1> DEFINE text == AddrToString(a, canon)
<1>1. CASE a \in IpAddrs /\ a.type = "v4"
  <2>1. /\ a.body \in Words(2) /\ a = Ipv4(a.body, a.port) /\ ~IsMapped(a)
    BY <1>1, IpFields DEF Ipv4, IsMapped
  <2>2. SubSeq(a.body, Len(a.body) - 1, Len(a.body)) = a.body
    <3>1. a.body \in Seq(Word) /\ Len(a.body) = 2 /\ 2 - 1 = 1
      <4>1. 2 \in Nat
        OBVIOUS
      <4>2. a.body \in Seq(Word) /\ Len(a.body) = 2
        BY <4>1, <2>1, WordsAreSeq, Zenon
      <4>3. QED
        BY <4>2
    <3>2. SubSeq(a.body, 1, 2) = a.body
      BY <3>1
    <3>3. QED
      BY <3>1, <3>2
  <2>3. text = Text("dotted", a.body, a.port)
    BY <1>1, <2>1, <2>2 DEF AddrToString
  <2>4. StringNew(text) = {Ipv4(a.body, a.port)}
    BY <2>3 DEF StringNew, Text
  <2>5. AddrEqual(a, a)
    BY <1>1, HashFitsEqual
  <2>6. QED
    BY <2>1, <2>4, <2>5
<1>2. CASE a \in IpAddrs /\ a.type = "v6" /\ IsMapped(a)
  <2> DEFINE low == SubSeq(a.body, 7, 8)
  <2>1. a.body \in Words(8) /\ a = Ipv6(a.body, a.port)
    BY <1>2, IpFields DEF Ipv6
  <2>2. a.body \in Seq(Word) /\ Len(a.body) = 8
    BY <2>1, WordsAreSeq
  <2>3. low \in Seq(Word) /\ Len(low) = 2 /\ low[1] = a.body[7] /\ low[2] = a.body[8]
    BY <2>2
  <2>4. low \in Words(2)
    BY <2>3, SeqIsWords
  <2>5. v4prefix \o low = a.body
    <3>1. \A i \in 1 .. 6 : SubSeq(a.body, 1, 6)[i] = a.body[i]
      BY <2>2
    <3>2. SubSeq(a.body, 1, 6) = v4prefix
      BY <1>2 DEF IsMapped
    <3> HIDE DEF low
    <3>3. /\ Mapped(low) \in Words(8) /\ Mapped(low)[7] = a.body[7] /\ Mapped(low)[8] = a.body[8]
          /\ \A i \in 1 .. 6 : Mapped(low)[i] = v4prefix[i]
      BY <2>3, <2>4, MappedWords
    <3>4. \A i \in 1 .. 8 : Mapped(low)[i] = a.body[i]
      BY <3>1, <3>2, <3>3
    <3>5. Mapped(low) = a.body
      BY <2>1, <3>3, <3>4 DEF Words
    <3>6. QED
      BY <3>5 DEF Mapped
  <2>6. CASE canon
    <3>1. SubSeq(a.body, Len(a.body) - 1, Len(a.body)) = low
      <4>1. Len(a.body) - 1 = 7
        BY <2>2
      <4>2. QED
        BY <2>2, <4>1, Zenon
    <3> HIDE DEF low
    <3>2. text = Text("dotted", low, a.port)
      BY <1>2, <2>6, <3>1 DEF AddrToString
    <3>3. StringNew(text) = {Ipv4(low, a.port)}
      BY <3>2 DEF StringNew, Text
    <3> DEFINE x == Ipv4(low, a.port)
    <3>4. x.type = "v4" /\ x.body = low /\ x.port = a.port
      BY DEF Ipv4, NetAddr
    <3> HIDE DEF x
    <3>5. AddrEqual(x, a)
      BY <1>2, <2>5, <3>4 DEF AddrEqual, SameAcross, IsIp
    <3>6. QED
      BY <2>6, <3>3, <3>5 DEF x
  <2>7. CASE ~canon
    <3> HIDE DEF low
    <3>1. text = Text("ffff", low, a.port)
      BY <1>2, <2>7 DEF AddrToString, low
    <3>2. StringNew(text) = {Ipv6(v4prefix \o low, a.port)}
      BY <3>1 DEF StringNew, Text
    <3>3. StringNew(text) = {a}
      BY <2>1, <2>5, <3>2
    <3>4. AddrEqual(a, a)
      BY <1>2, HashFitsEqual
    <3>5. QED
      BY <3>3, <3>4
  <2>8. QED
    BY <2>6, <2>7
<1>3. CASE a \in IpAddrs /\ a.type = "v6" /\ ~IsMapped(a)
  <2>1. a.body \in Words(8) /\ a = Ipv6(a.body, a.port)
    BY <1>3, IpFields DEF Ipv6
  <2> DEFINE parts == WriteIPv6(a.body)
  <2>2. ReadIPv6(parts) = {a.body}
    BY <2>1, IPv6ReadsBack
  <2> HIDE DEF parts
  <2>3. text = Text("colons", parts, a.port)
    BY <1>3 DEF AddrToString, parts
  <2>4. text.form = "colons" /\ text.parts = parts /\ text.port = a.port
    BY <2>3 DEF Text
  <2> HIDE DEF text
  <2>5. StringNew(text) = {Ipv6(body, text.port) : body \in ReadIPv6(text.parts)}
    BY <2>4 DEF StringNew
  <2>6. a \in StringNew(text)
    BY <2>1, <2>2, <2>4, <2>5
  <2>7. AddrEqual(a, a)
    BY <1>3, HashFitsEqual
  <2>8. QED
    BY <2>6, <2>7 DEF text
<1>4. ASSUME NEW b, a = Mac(b) PROVE \E x \in StringNew(text) : AddrEqual(x, a) /\ (canon \/ x = a)
  <2>1. a.type = "mac" /\ a.body = b /\ ~IsMapped(a)
    BY <1>4 DEF Mac, NetAddr, IsMapped
  <2>2. text = Text("dashes", b, 0)
    BY <2>1 DEF AddrToString
  <2>3. text.form = "dashes" /\ text.parts = b
    BY <2>2 DEF Text
  <2> HIDE DEF text
  <2>4. StringNew(text) = {a}
    BY <1>4, <2>3 DEF StringNew
  <2>5. AddrEqual(a, a)
    BY <2>1 DEF AddrEqual, SameBody, IsIp
  <2>6. QED
    BY <2>4, <2>5 DEF text
<1>5. QED
  BY <1>1, <1>2, <1>3, <1>4, IpFields

-----------------------------------------------------------------------------
IsSocket(s) ==
    /\ s = [family |-> s.family, v4only |-> s.v4only, bound |-> s.bound, usable |-> s.usable,
            group |-> s.group, privileged |-> s.privileged, bufsize |-> s.bufsize,
            asked |-> s.asked]
    /\ s.family \in {"v4", "v6"} /\ s.v4only \in BOOLEAN
    /\ s.family = "v4" => s.v4only

\* written is an address of Texts and its text.
WrittenAsMade ==
    \/ written = NotWritten
    \/ \E a \in Texts, canon \in BOOLEAN :
          written = [of |-> a, text |-> AddrToString(a, canon), canon |-> canon]

SocketTyped ==
    /\ IsSocket(socket)
    /\ aliases \subseteq [from : AliasFrom, to : Peers]
    /\ from = NoAddr \/ (from \in IpAddrs /\ from.body # v6anyaddr)
    /\ WrittenAsMade

\* The socket as it is made is typed.
LEMMA SocketTypedInit == NetSocketInit => SocketTyped
BY DEF NetSocketInit, SocketTyped, IsSocket, WrittenAsMade

\* What _netaddr_toIPv4 makes is an address equal to the one it is made of.
LEMMA ToIPv4Equal ==
    ASSUME NEW a \in IpAddrs, a.body # v6anyaddr, NEW b \in ToIPv4(a)
    PROVE  /\ b \in IpAddrs /\ b.type = "v4" /\ AddrEqual(b, a)
           /\ ToIPv4(a) = {b}
<1>1. CASE a.type = "v4"
  <2>1. ToIPv4(a) = {a}
    BY <1>1 DEF ToIPv4, IsMapped
  <2>2. QED
    BY <1>1, <2>1, EqualIsCanonical
<1>2. CASE a.type = "v6"
  <2>0. a.body \in Words(8) /\ a.port \in Word
    BY <1>2, IpFields
  <2>1. CASE IsMapped(a)
    <3> DEFINE low == SubSeq(a.body, 7, 8)
    <3>1. a.body \in Seq(Word) /\ Len(a.body) = 8
      BY <2>0, WordsAreSeq
    <3>2. low \in Seq(Word) /\ Len(low) = 2 /\ low[1] = a.body[7] /\ low[2] = a.body[8]
      BY <3>1
    <3>3. low \in Words(2)
      BY <3>2, SeqIsWords
    <3>4. \A i \in 1 .. 6 : SubSeq(a.body, 1, 6)[i] = a.body[i]
      BY <3>1
    <3>5. SubSeq(a.body, 1, 6) = v4prefix
      BY <2>1 DEF IsMapped
    <3>6. ToIPv4(a) = {Ipv4(low, a.port)}
      <4>1. a.body[6] # 0
        BY <3>4, <3>5, PrefixWords
      <4>2. a.body # ipv6loop
        BY <4>1, KnownBodies
      <4>3. QED
        BY <1>2, <2>1, <4>2 DEF ToIPv4
    <3> HIDE DEF low
    <3>7. \A i \in 1 .. 6 : Mapped(low)[i] = v4prefix[i]
      BY <3>3, MappedWords
    <3>8. Mapped(low) \in Words(8) /\ Mapped(low)[7] = a.body[7] /\ Mapped(low)[8] = a.body[8]
      BY <3>2, <3>3, MappedWords
    <3>9. \A i \in 1 .. 8 : Mapped(low)[i] = a.body[i]
      BY <3>4, <3>5, <3>7, <3>8
    <3>10. Mapped(low) = a.body
      BY <2>0, <3>8, <3>9 DEF Words
    <3> DEFINE m == Ipv4(low, a.port)
    <3>11. m \in IpAddrs /\ m.type = "v4" /\ m.body = low /\ m.port = a.port
      BY <2>0, <3>3, MadeV4
    <3> HIDE DEF m
    <3>12. b = m
      BY <3>6 DEF m
    <3>13. Canonical(b) = Canonical(a)
      BY <1>2, <3>3, <3>10, <3>11, <3>12, MappedInjective, KnownBodies DEF Canonical
    <3>14. QED
      BY <3>6, <3>11, <3>12, <3>13, EqualIsCanonical
  <2>2. CASE ~IsMapped(a)
    <3>1. a.body = ipv6loop /\ ToIPv4(a) = {Ipv4(ipv4loop, a.port)}
      BY <1>2, <2>2 DEF ToIPv4
    <3> DEFINE m == Ipv4(ipv4loop, a.port)
    <3>2. m \in IpAddrs /\ m.type = "v4" /\ m.body = ipv4loop /\ m.port = a.port
      BY <2>0, KnownBodies, MadeV4
    <3> HIDE DEF m
    <3>3. b = m
      BY <3>1 DEF m
    <3>4. Canonical(b) = Canonical(a)
      BY <1>2, <3>1, <3>2, <3>3, KnownBodies, LoopsDiffer DEF Canonical
    <3>5. QED
      BY <3>1, <3>2, <3>3, <3>4, EqualIsCanonical DEF m
  <2>3. QED
    BY <2>1, <2>2
<1>3. QED
  BY <1>1, <1>2, IpFields

\* The IPv6 socket address for an address is one equal to it.
LEMMA Ipv6SockAddrEqual ==
    ASSUME NEW a \in IpAddrs
    PROVE  /\ Ipv6SockAddr(a) \in IpAddrs /\ Ipv6SockAddr(a).type = "v6"
           /\ a.body # v6anyaddr => Ipv6SockAddr(a).body # v6anyaddr
           /\ AddrEqual(Ipv6SockAddr(a), a)
<1>1. CASE a.type = "v4"
  <2>1. a.body \in Words(2) /\ a.port \in Word
    BY <1>1, IpFields
  <2> DEFINE m == Ipv6(Mapped(a.body), a.port)
  <2>2. m \in IpAddrs /\ m.type = "v6" /\ m.body = Mapped(a.body) /\ m.port = a.port
    BY <2>1, MappedWords, MadeV6
  <2>3. Ipv6SockAddr(a) = m
    BY <1>1 DEF Ipv6SockAddr, Mapped
  <2> HIDE DEF m
  <2>4. Canonical(m) = Canonical(a)
    BY <1>1, <2>1, <2>2, MappedInjective, KnownBodies DEF Canonical
  <2>5. m.body # v6anyaddr
    BY <2>1, <2>2, LoopsDiffer
  <2>6. QED
    BY <2>2, <2>3, <2>4, <2>5, EqualIsCanonical
<1>2. CASE a.type = "v6"
  <2>1. Ipv6SockAddr(a) = a
    BY <1>2 DEF Ipv6SockAddr
  <2>2. QED
    BY <1>2, <2>1, EqualIsCanonical
<1>3. QED
  BY <1>1, <1>2, IpFields

\* Whom a packet is said to be from is an IP address, and not that of no host.
LEMMA SourceTyped ==
    ASSUME SocketTyped, NetSocketAssumption, NEW at \in IpAddrs, at.body # v6anyaddr
    PROVE  SourceOf(at) \in IpAddrs /\ SourceOf(at).body # v6anyaddr
<1> DEFINE src == IF at.body = v4prefix \o v4anyaddr THEN Ipv6(v4prefix \o ipv4loop, at.port)
                  ELSE at
           loop == Ipv6(Mapped(ipv4loop), at.port)
<1>1. at.port \in Word
  BY IpFields
<1>2. loop \in IpAddrs /\ loop.body = Mapped(ipv4loop) /\ loop.body # v6anyaddr
  BY <1>1, KnownBodies, MappedWords, MadeV6, LoopsDiffer
<1>3. src = loop \/ src = at
  BY DEF Mapped
<1> HIDE DEF loop
<1>4. src \in IpAddrs /\ src.body # v6anyaddr
  BY <1>2, <1>3
<1>5. src.port \in Word
  BY <1>4, IpFields
<1>6. CASE AliasOf(src) = {}
  BY <1>4, <1>6 DEF SourceOf
<1>7. CASE AliasOf(src) # {}
  <2> DEFINE e == CHOOSE x \in AliasOf(src) : TRUE
             to == ToIPv6(e.to)
  <2>1. e \in AliasOf(src)
    BY <1>7
  <2>2. e \in aliases
    BY <2>1 DEF AliasOf
  <2>3. SourceOf(at) = [to EXCEPT !.port = src.port]
    BY <1>7 DEF SourceOf
  <2> HIDE DEF e
  <2>4. e.to \in Peers
    BY <2>2 DEF SocketTyped
  <2>5. e.to \in IpAddrs /\ e.to.body # v6anyaddr
    BY <2>4 DEF NetSocketAssumption
  <2>6. e.to.port \in Word /\ e.to.type \in {"v4", "v6"}
    BY <2>5, IpFields
  <2>7. to \in IpAddrs /\ to.type = "v6" /\ to.body # v6anyaddr
    <3>1. CASE e.to.type = "v6"
      BY <2>5, <3>1 DEF ToIPv6
    <3>2. CASE e.to.type = "v4"
      <4> DEFINE b == IF e.to.body = ipv4loop THEN ipv6loop ELSE Mapped(e.to.body)
      <4>1. e.to.body \in Words(2)
        BY <2>5, <3>2, IpFields
      <4>2. b \in Words(8) /\ b # v6anyaddr
        <5>1. ipv6loop # v6anyaddr
          <6>1. v6anyaddr[8] = 0
            BY DEF v6anyaddr, Zeros
          <6>2. ipv6loop[8] = 1
            BY LastOfLoop
          <6>3. QED
            BY <6>1, <6>2
        <5>2. QED
          BY <4>1, <5>1, KnownBodies, MappedWords, LoopsDiffer
      <4>3. to = Ipv6(b, e.to.port)
        BY <3>2 DEF ToIPv6, Mapped
      <4> HIDE DEF b
      <4>4. QED
        BY <2>6, <4>2, <4>3, MadeV6
    <3>3. QED
      BY <2>6, <3>1, <3>2
  <2> HIDE DEF to
  <2>8. to.body \in Words(8) /\ to = NetAddr(to.type, to.body, to.port)
    BY <2>7, IpFields
  <2>9. [to EXCEPT !.port = src.port] = Ipv6(to.body, src.port)
    BY <2>7, <2>8 DEF NetAddr, Ipv6
  <2> DEFINE p == src.port
  <2>10. p \in Word /\ SourceOf(at) = Ipv6(to.body, p)
    BY <1>5, <2>3, <2>9
  <2> HIDE DEF p
  <2>11. QED
    BY <2>7, <2>8, <2>10, MadeV6
<1>8. QED
  BY <1>6, <1>7

\* _netio_sendapacket_v4 sends to an equal address, or not at all.
LEMMA SendV4Meant ==
    ASSUME NEW dest \in IpAddrs, dest.body # v6anyaddr, SendV4(dest), SentToWhomMeant
    PROVE  SentToWhomMeant'
<1> DEFINE at == Ipv4SockAddr(dest)
<1>1. CASE UNCHANGED sentto
  BY <1>1 DEF SentToWhomMeant
<1>2. CASE at # NoSockAddr /\ sentto' = [meant |-> dest, at |-> at]
  <2>1. ToIPv4(dest) # {} /\ at = CHOOSE v4 \in ToIPv4(dest) : TRUE
    BY <1>2 DEF Ipv4SockAddr
  <2>2. at \in ToIPv4(dest)
    BY <2>1
  <2> HIDE DEF at
  <2>3. AddrEqual(at, dest)
    BY <2>2, ToIPv4Equal
  <2>4. QED
    BY <1>2, <2>3 DEF SentToWhomMeant
<1>3. QED
  BY <1>1, <1>2 DEF SendV4

NetSocketInv == SocketTyped /\ SentToWhomMeant

\* The invariant holds at the start,
LEMMA NetSocketInvInit == NetSocketInit => NetSocketInv
BY SocketTypedInit DEF NetSocketInit, NetSocketInv, SentToWhomMeant

\* and each action keeps it.
LEMMA NetSocketInvNext ==
    ASSUME NetSocketInv, [NetSocketNext]_netSocketVars
    PROVE  NetSocketInv'
<1> USE NetSocketAssumption
<1>0. SocketTyped /\ SentToWhomMeant
  BY DEF NetSocketInv
<1> DEFINE Sockets == IsSocket(socket)'
           Aliases == aliases' \subseteq [from : AliasFrom, to : Peers]
           From == (from = NoAddr \/ (from \in IpAddrs /\ from.body # v6anyaddr))'
           Written == WrittenAsMade'
           Sent == SentToWhomMeant'
<1>u1. UNCHANGED socket => Sockets
  BY <1>0 DEF SocketTyped
<1>u2. UNCHANGED aliases => Aliases
  BY <1>0 DEF SocketTyped
<1>u3. UNCHANGED from => From
  BY <1>0 DEF SocketTyped
<1>u4. UNCHANGED written => Written
  BY <1>0 DEF SocketTyped, WrittenAsMade
<1>u5. UNCHANGED sentto => Sent
  BY <1>0 DEF SentToWhomMeant
<1>goal. Sockets /\ Aliases /\ From /\ Written /\ Sent => NetSocketInv'
  BY DEF NetSocketInv, SocketTyped
<1>1. ASSUME NEW n \in SockBufSizes, SetSockBufSize(n) PROVE NetSocketInv'
  <2>1. Sockets
    <3> DEFINE set == KernelSets(n)
               size == IF set >= n THEN set ELSE Maximized(set \div 2, n, set)
    <3> HIDE DEF size
    <3>1. socket' = [socket EXCEPT !.asked = n, !.bufsize = size]
      BY <1>1 DEF SetSockBufSize, size
    <3>2. IsSocket(socket)
      BY <1>0 DEF SocketTyped
    <3>3. QED
      BY <3>1, <3>2 DEF IsSocket
  <2>2. QED
    BY <1>1, <2>1, <1>u2, <1>u3, <1>u4, <1>u5, <1>goal DEF SetSockBufSize
<1>2. ASSUME NEW a \in LocalAddrs, NEW anyport \in BOOLEAN, Bind(a, anyport) PROVE NetSocketInv'
  <2>1. Sockets
    <3>1. IsSocket(socket)
      BY <1>0 DEF SocketTyped
    <3>2. \/ \E b : socket' = [socket EXCEPT !.bound = b]
          \/ socket' = [socket EXCEPT !.usable = FALSE]
      BY <1>2 DEF Bind
    <3>3. QED
      BY <3>1, <3>2 DEF IsSocket
  <2>2. QED
    BY <1>2, <2>1, <1>u2, <1>u3, <1>u4, <1>u5, <1>goal DEF Bind
<1>3. ASSUME NEW a \in LocalAddrs, McastJoin(a) PROVE NetSocketInv'
  <2>1. Sockets
    BY <1>0, <1>3 DEF McastJoin, SocketTyped, IsSocket
  <2>2. QED
    BY <1>3, <2>1, <1>u2, <1>u3, <1>u4, <1>u5, <1>goal DEF McastJoin
<1>4. ASSUME NEW a \in {p \in Peers \cup ({from} \ {NoAddr}) : p.port # 0}, SendToAddr(a)
      PROVE  NetSocketInv'
  <2>1. a \in IpAddrs /\ a.body # v6anyaddr
    BY <1>0, <1>4 DEF SocketTyped, NetSocketAssumption
  <2>2. Sockets
    BY <1>0, <1>4 DEF SendToAddr, SocketTyped, IsSocket
  <2>3. Sent
    <3>1. CASE SendV4(a)
      BY <1>0, <2>1, <3>1, SendV4Meant
    <3>2. CASE sentto' = [meant |-> a, at |-> Ipv6SockAddr(a)]
      <4>1. AddrEqual(Ipv6SockAddr(a), a)
        BY <2>1, Ipv6SockAddrEqual
      <4>2. QED
        BY <3>2, <4>1 DEF SentToWhomMeant
    <3>3. QED
      BY <1>4, <3>1, <3>2 DEF SendToAddr
  <2>4. QED
    BY <1>4, <2>2, <2>3, <1>u2, <1>u3, <1>u4, <1>goal DEF SendToAddr
<1>5. ASSUME NEW a \in AliasFrom, NEW to \in Peers, AddAlias(a, to) PROVE NetSocketInv'
  <2>1. Aliases
    BY <1>0, <1>5 DEF AddAlias, SocketTyped
  <2>2. QED
    BY <1>5, <2>1, <1>u1, <1>u3, <1>u4, <1>u5, <1>goal DEF AddAlias
<1>6. ASSUME NEW a \in Peers, ReceiveFrom(a) PROVE NetSocketInv'
  <2>1. a \in IpAddrs /\ a.body # v6anyaddr
    BY DEF NetSocketAssumption
  <2>2. PICK at \in IF socket.family = "v6" THEN {Ipv6SockAddr(a)} ELSE ToIPv4(a) :
            from' = SourceOf(at)
    BY <1>6 DEF ReceiveFrom
  <2>3. at \in IpAddrs /\ at.body # v6anyaddr
    <3>1. CASE at = Ipv6SockAddr(a)
      BY <2>1, <3>1, Ipv6SockAddrEqual
    <3>2. CASE at \in ToIPv4(a)
      <4>1. at \in IpAddrs /\ at.type = "v4"
        BY <2>1, <3>2, ToIPv4Equal
      <4>2. at.body \in Words(2)
        BY <4>1, IpFields
      <4>3. Len(at.body) = 2 /\ Len(v6anyaddr) = 8
        BY <4>2, WordsAreSeq, KnownBodies
      <4>4. QED
        BY <4>1, <4>3
    <3>3. QED
      BY <2>2, <3>1, <3>2
  <2>4. From
    BY <1>0, <2>2, <2>3, SourceTyped
  <2>5. QED
    BY <1>6, <2>4, <1>u1, <1>u2, <1>u4, <1>u5, <1>goal DEF ReceiveFrom
<1>7. ASSUME NEW a \in Texts, NEW canon \in BOOLEAN, WriteAddr(a, canon) PROVE NetSocketInv'
  <2>1. Written
    BY <1>7 DEF WriteAddr, WrittenAsMade
  <2>2. QED
    BY <1>7, <2>1, <1>u1, <1>u2, <1>u3, <1>u5, <1>goal DEF WriteAddr
<1>8. ASSUME ReadAddr PROVE NetSocketInv'
  <2>1. Written
    BY <1>8 DEF ReadAddr, WrittenAsMade
  <2>2. QED
    BY <1>8, <2>1, <1>u1, <1>u2, <1>u3, <1>u5, <1>goal DEF ReadAddr
<1>9. CASE UNCHANGED netSocketVars
  BY <1>9, <1>u1, <1>u2, <1>u3, <1>u4, <1>u5, <1>goal DEF netSocketVars
<1>10. QED
  BY <1>1, <1>2, <1>3, <1>4, <1>5, <1>6, <1>7, <1>8, <1>9 DEF NetSocketNext

\* A table of any content has the same alias for equal addresses.
LEMMA TypedAlike ==
    ASSUME SocketTyped PROVE EqualAddressesAlike
<1> USE NetSocketAssumption
<1> SUFFICES ASSUME NEW a \in Peers \cup AliasFrom, NEW b \in Peers \cup AliasFrom,
                    AddrEqual(a, b)
             PROVE  AliasOf(a) = AliasOf(b)
  BY DEF EqualAddressesAlike
<1>1. a \in IpAddrs /\ b \in IpAddrs
  BY DEF NetSocketAssumption
<1>2. AddrHash(a) = AddrHash(b)
  BY <1>1, HashFitsEqual
<1>3. ASSUME NEW e \in aliases
      PROVE  AddrEqual(e.from, a) <=> AddrEqual(e.from, b)
  <2>1. e.from \in AliasFrom
    BY DEF SocketTyped
  <2>2. e.from \in IpAddrs
    BY <2>1 DEF NetSocketAssumption
  <2>3. (AddrEqual(e.from, a) <=> AddrHash(e.from) = AddrHash(a))
    BY <1>1, <2>2, HashFitsEqual
  <2>4. (AddrEqual(e.from, b) <=> AddrHash(e.from) = AddrHash(b))
    BY <1>1, <2>2, HashFitsEqual
  <2>5. QED
    BY <1>2, <2>3, <2>4
<1>4. QED
  BY <1>2, <1>3, Zenon DEF AliasOf

\* So it holds always.
LEMMA NetSocketInvHolds == NetSocketSpec => []NetSocketInv
<1>1. NetSocketInit => NetSocketInv
  BY NetSocketInvInit
<1>2. NetSocketInv /\ [NetSocketNext]_netSocketVars => NetSocketInv'
  BY NetSocketInvNext
<1>3. QED
  BY <1>1, <1>2, PTL DEF NetSocketSpec

\* NetSocket is type correct.
THEOREM NetSocketTypes == NetSocketSpec => []NetSocketTypeOK
<1>1. NetSocketInv => NetSocketTypeOK
  <2>1. WrittenAsMade => written.of = NoAddr \/ written.of \in Texts
    BY DEF WrittenAsMade, NotWritten
  <2>2. QED
    BY <2>1 DEF NetSocketInv, SocketTyped, IsSocket, NetSocketTypeOK
<1>2. QED
  BY <1>1, NetSocketInvHolds, PTL

\* Whatever addresses there are, a packet goes to a socket address equal to the one it is
\* for, or nowhere, over either kind of socket and when IPv6 is given up (SentToWhomMeant).
THEOREM SentAsMeant == NetSocketSpec => []SentToWhomMeant
<1>1. NetSocketInv => SentToWhomMeant
  BY DEF NetSocketInv
<1>2. QED
  BY <1>1, NetSocketInvHolds, PTL

\* Whatever the alias table has, equal addresses find the same alias in it
\* (EqualAddressesAlike).
THEOREM EqualAlike == NetSocketSpec => []EqualAddressesAlike
<1>1. NetSocketInv => EqualAddressesAlike
  BY TypedAlike DEF NetSocketInv
<1>2. QED
  BY <1>1, NetSocketInvHolds, PTL

\* Whatever address is written, its text is read as this address, and its canonical text
\* as an equal one (TextReadsBack).
THEOREM TextsReadBack == NetSocketSpec => []TextReadsBack
<1>1. NetSocketInv => TextReadsBack
  <2> SUFFICES ASSUME NetSocketInv, written # NotWritten
               PROVE  \E x \in StringNew(written.text) :
                         AddrEqual(x, written.of) /\ (written.canon \/ x = written.of)
    BY DEF TextReadsBack
  <2>1. PICK a \in Texts, canon \in BOOLEAN :
            written = [of |-> a, text |-> AddrToString(a, canon), canon |-> canon]
    BY DEF NetSocketInv, SocketTyped, WrittenAsMade
  <2>2. written.of = a /\ written.text = AddrToString(a, canon) /\ written.canon = canon
    BY <2>1
  <2>3. a \in IpAddrs \/ \E b : a = Mac(b)
    BY NetSocketAssumption DEF NetSocketAssumption
  <2>4. \E x \in StringNew(AddrToString(a, canon)) : AddrEqual(x, a) /\ (canon \/ x = a)
    BY <2>3, AddressReadsBack
  <2>5. QED
    BY <2>2, <2>4, Zenon
<1>2. QED
  BY <1>1, NetSocketInvHolds, PTL
===============================================================================
