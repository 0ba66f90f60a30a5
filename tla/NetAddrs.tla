------------------------------- MODULE NetAddrs -------------------------------
(***************************************************************************)
(* Network addresses (netaddr.c): which are equivalent, what they hash to, *)
(* how they become socket addresses, and how they are written and read     *)
(* again.  An address body is a sequence of 16-bit words: two for IPv4,    *)
(* eight for IPv6, three or four for a MAC address.  Operators only.       *)
(***************************************************************************)
EXTENDS Integers, Sequences

NetAddr(type, body, port) == [type |-> type, body |-> body, port |-> port]
Ipv4(body, port) == NetAddr("v4", body, port)
Ipv6(body, port) == NetAddr("v6", body, port)
Mac(body) == NetAddr("mac", body, 0)

\* The IP addresses there are
Word == 0 .. 65535
Words(n) == [1 .. n -> Word]
IpAddrs ==
    [type : {"v4"}, body : Words(2), port : Word]
    \cup [type : {"v6"}, body : Words(8), port : Word]

Zeros(n) == [i \in 1 .. n |-> 0]
v4prefix == Zeros(5) \o <<65535>>
ipv4loop == <<127 * 256, 1>>
ipv6loop == Zeros(7) \o <<1>>
v4anyaddr == Zeros(2)
v6anyaddr == Zeros(8)

IsIp(a) == a.type \in {"v4", "v6"}
IsMapped(a) == a.type = "v6" /\ SubSeq(a.body, 1, 6) = v4prefix

\* _netaddr_toIPv6 of an IP address
ToIPv6(a) ==
    IF a.type = "v6" THEN a
    ELSE Ipv6(IF a.body = ipv4loop THEN ipv6loop ELSE v4prefix \o a.body, a.port)

\* Mutant: any IPv6 address ends in an IPv4 address.
ToIPv4Cut(a) == {Ipv4(SubSeq(a.body, Len(a.body) - 1, Len(a.body)), a.port)}

\* _netaddr_toIPv4: at most one address
ToIPv4(a) ==
    CASE a.type = "v4" -> {a}
      [] IsMapped(a) -> {Ipv4(SubSeq(a.body, 7, 8), a.port)}
      [] a.type = "v6" /\ a.body = ipv6loop -> {Ipv4(ipv4loop, a.port)}
      [] a.type = "v6" /\ a.body = v6anyaddr -> {Ipv4(v4anyaddr, a.port)}
      [] OTHER -> {}

\* The IPv6 loopback, and the IPv4 one where IPv6 has IPv4 addresses
Loopbacks6 == {ipv6loop, v4prefix \o ipv4loop}

\* Mutant: the two IPv6 loopbacks differ, although each is equal to the IPv4 one.
SameBodyOnly(self, other) == self.body = other.body

\* The end of _netaddr_equal, and what it does for two IPv6 addresses
SameBody(self, other) ==
    \/ self.body = other.body
    \/ self.type = "v6" /\ {self.body, other.body} = Loopbacks6

\* _netaddr_equal of an IPv6 and an IPv4 address
SameAcross(v6, v4) ==
    v6.body = v4prefix \o v4.body \/ (v6.body = ipv6loop /\ v4.body = ipv4loop)

\* _netaddr_equal
AddrEqual(self, other) ==
    /\ IsIp(self) /\ IsIp(other) => self.port = other.port
    /\ CASE self.type = "v6" /\ other.type = "v4" -> SameAcross(self, other)
         [] self.type = "v4" /\ other.type = "v6" -> SameAcross(other, self)
         [] OTHER -> self.type = other.type /\ SameBody(self, other)

\* _netaddr_hash: what goes into the hash
AddrHash(a) ==
    LET use == IF a.type = "v4" THEN ToIPv6(a)
               ELSE IF a.type = "v6" /\ a.body = v4prefix \o ipv4loop THEN Ipv6(ipv6loop, a.port)
               ELSE a
    IN  <<use.type, use.port, use.body>>

\* _netaddr_ismcast, which knows IPv4 only
IsMcast(a) == a.type = "v4" /\ a.body[1] \div 256 \in 224 .. 239

\* _netaddr_ipv6sockaddr: any IPv4 address goes where IPv6 has them, loopback too.
Ipv6SockAddr(a) == IF a.type = "v4" THEN Ipv6(v4prefix \o a.body, a.port) ELSE a

\* _netaddr_ipv4sockaddr: all zeros, port and family too, when there is none
NoSockAddr == NetAddr("unspec", v4anyaddr, 0)
Ipv4SockAddr(a) == IF ToIPv4(a) = {} THEN NoSockAddr ELSE CHOOSE v4 \in ToIPv4(a) : TRUE

-----------------------------------------------------------------------------
\* Addresses as text.  IPv6 text is a sequence of hexadecimal words, ":" and "::"; of
\* the other forms the parts matter only.

Colon == 65536
DoubleColon == 65537

Text(form, parts, port) == [form |-> form, parts |-> parts, port |-> port]

\* Mutant: every run of zeros is left out.
LeavesOutAlways(st, word) == word = 0

\* Zeros wait until it is known how many they are, but not after a "::".
LeavesOut(st, word) == ~st.double /\ word = 0

\* What is written for the zeros that wait when another word comes
Gap(st) ==
    CASE st.zeros = 0 -> <<>>
      [] st.zeros = 1 -> IF st.parts = <<>> THEN <<0>> ELSE <<Colon, 0>>
      [] st.zeros > 1 -> <<DoubleColon>>

\* One turn of the loop of _netaddr_toStringflex over the words of an IPv6 address
WriteWord(st, word) ==
    IF LeavesOut(st, word) THEN [st EXCEPT !.zeros = @ + 1, !.first = FALSE]
    ELSE [parts |-> st.parts \o Gap(st)
                      \o (IF st.first \/ st.zeros > 1 THEN <<word>> ELSE <<Colon, word>>),
          zeros |-> 0, first |-> FALSE, double |-> st.double \/ st.zeros > 1]

\* _netaddr_toStringflex for IPv6
WriteIPv6(body) ==
    LET turn[n \in 0 .. Len(body)] ==
            IF n = 0 THEN [parts |-> <<>>, zeros |-> 0, first |-> TRUE, double |-> FALSE]
            ELSE WriteWord(turn[n - 1], body[n])
        st == turn[Len(body)]
    IN  st.parts \o (CASE st.zeros = 1 -> <<Colon, 0>> [] st.zeros > 1 -> <<DoubleColon>>
                       [] OTHER -> <<>>)

\* _netaddr_toString_ipv6_ipv4, and _netaddr_toStringflex for all others
AddrToString(a, canon) ==
    CASE a.type = "v4" \/ (IsMapped(a) /\ canon) ->
            Text("dotted", SubSeq(a.body, Len(a.body) - 1, Len(a.body)), a.port)
      [] IsMapped(a) /\ ~canon -> Text("ffff", SubSeq(a.body, 7, 8), a.port)
      [] a.type = "v6" /\ ~IsMapped(a) -> Text("colons", WriteIPv6(a.body), a.port)
      [] OTHER -> Text("dashes", a.body, 0)

\* One turn of the loop of _netaddr_string_ipv6_new.  pos is where a chunk begins, chunks
\* are those read, gap is how many of them are before the "::", or -1.  A turn ends the
\* loop where the text ends with its chunk, or has a second "::".
ReadChunk(text, st) ==
    LET isword == text[st.pos] < Colon
        bad == IF isword THEN st.pos + 1 ELSE st.pos
        read == Append(st.chunks, IF isword THEN text[st.pos] ELSE 0)
        Turn(gap, end) == [pos |-> bad + 1, chunks |-> read, gap |-> gap, end |-> end]
    IN  CASE st.end # "none" \/ st.pos > Len(text) -> st
          [] st.end = "none" /\ st.pos <= Len(text) /\ bad > Len(text) -> Turn(st.gap, "text")
          [] st.end = "none" /\ bad <= Len(text) /\ text[bad] = DoubleColon ->
               IF st.gap >= 0 THEN Turn(st.gap, "bad") ELSE Turn(Len(read), "none")
          [] OTHER -> Turn(st.gap, "none")

\* The loop, of eight turns at most; k is chunkindex after it.
ReadChunks(text, pos, gap) ==
    LET turn[n \in 0 .. 8] ==
            IF n = 0 THEN [pos |-> pos, chunks |-> <<>>, gap |-> gap, end |-> "none"]
            ELSE ReadChunk(text, turn[n - 1])
        st == turn[8]
    IN  [chunks |-> st.chunks, gap |-> st.gap,
         k |-> IF st.end = "text" THEN Len(st.chunks) - 1 ELSE Len(st.chunks),
         ok |-> \/ st.end = "text"
                \/ /\ st.end = "none" /\ st.pos > Len(text)
                   /\ text = <<>> \/ text[Len(text)] # Colon]

\* _netaddr_string_ipv6_new without the port: the bodies it makes, at most one
ReadIPv6(text) ==
    LET atstart == text # <<>> /\ text[1] = DoubleColon
        r == ReadChunks(text, IF atstart THEN 2 ELSE 1, IF atstart THEN 0 ELSE -1)
        chunk(j) == IF j <= Len(r.chunks) THEN r.chunks[j] ELSE 0
        upTo(m, n) == [j \in 1 .. n - m + 1 |-> chunk(m + j - 1)]
        body == IF r.gap < 0 THEN upTo(1, r.k + 1)
                ELSE upTo(1, r.gap) \o Zeros(7 - r.k) \o upTo(r.gap + 1, r.k + 1)
    IN  IF r.ok /\ (r.gap >= 0 => r.k < 7) /\ (r.gap < 0 => r.k = 7) /\ Len(body) = 8
        THEN {body} ELSE {}

\* netaddr_string_new of each form, with _netaddr_string_ipv4_new,
\* _netaddr_string_macaddr_new and the IPv4 part of _netaddr_string_ipv6_new
StringNew(text) ==
    CASE text.form = "dotted" -> {Ipv4(text.parts, text.port)}
      [] text.form = "ffff" -> {Ipv6(v4prefix \o text.parts, text.port)}
      [] text.form = "colons" -> {Ipv6(body, text.port) : body \in ReadIPv6(text.parts)}
      [] text.form = "dashes" -> {Mac(text.parts)}
=============================================================================
