------------------------------- MODULE Packets -------------------------------
(***************************************************************************)
(* Frames, framesets, and the packets they travel in: the classes of       *)
(* frames with what their constructors build, what they hold to be valid   *)
(* and what they take from a packet; frameset_construct_packet, which      *)
(* wraps and marshals a frameset; and packetdecoder.c, which makes a       *)
(* frameset of a packet again.  Operators only: NetIO has the state.       *)
(*                                                                         *)
(* A frame is the same record in memory and as a TLV of a packet.  What    *)
(* is encrypted or compressed is the sequence of TLVs that was closed.     *)
(***************************************************************************)
EXTENDS Naturals, Sequences, SequencesExt

CONSTANT Threshold      \* compression_threshold
ASSUME ThresholdAssumption == Threshold \in Nat

\* Sizes in bytes
GENERICTLV_HDRSZ == 5
FRAMESET_INITSIZE == GENERICTLV_HDRSZ + 2
COMPFRAMESIZE == 4
MAXUDPSIZE == 65507
MAXUNCOMPRESSEDSIZE == 4 * 1024 * 1024
CksumSize == 32         \* of the glib checksum that signs: SHA-256
CryptSize == 60         \* of two key ids, the nonce and the MAC
SeqnoSize == 4 + 8 + 2

ADDR_FAMILY_IPV4 == 1
ADDR_FAMILY_IPV6 == 2
ADDR_FAMILY_802 == 6

\* A type is known when the decoder has a constructor for it; intact is history:
\* whether the network left the frame as it was.
FrameNew(class) ==
    [class |-> class, known |-> TRUE, length |-> 0, value |-> <<>>, intact |-> TRUE]

\* _frame_setvalue
SetValue(f, value, length) == [f EXCEPT !.value = value, !.length = length]

-----------------------------------------------------------------------------
\* Making frames.  A constructor that may refuse is the set of what it makes.

\* A frame of a version of the program that we do not know
NewerFrame(length) == [SetValue(FrameNew("Frame"), <<>>, length) EXCEPT !.known = FALSE]

\* _addrframe_setaddr
AddrSetAddr(family, size) == SetValue(FrameNew("AddrFrame"), [family |-> family], 2 + size)

AddrFrameIpv4 == AddrSetAddr(ADDR_FAMILY_IPV4, 4)
AddrFrameIpv6 == AddrSetAddr(ADDR_FAMILY_IPV6, 16)
AddrFrameMac48 == AddrSetAddr(ADDR_FAMILY_802, 6)
AddrFrameMac64 == AddrSetAddr(ADDR_FAMILY_802, 8)

\* _ipportframe_setaddr
IpPortSetAddr(family, port, size) ==
    SetValue(FrameNew("IpPortFrame"), [family |-> family, port |-> port], 4 + size)

IpPortFrameIpv4(port) == IF port = 0 THEN {} ELSE {IpPortSetAddr(ADDR_FAMILY_IPV4, port, 4)}
IpPortFrameIpv6(port) == IF port = 0 THEN {} ELSE {IpPortSetAddr(ADDR_FAMILY_IPV6, port, 16)}

\* ipportframe_netaddr_new, for an address of whatever family
IpPortFrameNetAddr(family, port) ==
    CASE family = ADDR_FAMILY_IPV4 -> IpPortFrameIpv4(port)
      [] family = ADDR_FAMILY_IPV6 -> IpPortFrameIpv6(port)
      [] OTHER -> {}

\* cstringframe_new with setvalue; nul is where the first NUL is, from 1.
CstringFrame(length, nul) == SetValue(FrameNew("CstringFrame"), [nul |-> nul], length)

\* seqnoframe_new, which sets the session too, and seqnoframe_new_init
SeqnoNew == SetValue(FrameNew("SeqnoFrame"), [reqid |-> 0, qid |-> 0], SeqnoSize)
SeqnoFrame(reqid, qid) == SetValue(SeqnoNew, [reqid |-> reqid, qid |-> qid], SeqnoSize)

IntSizes == {1, 2, 3, 4, 8}

\* intframe_new
IntNew(bytes) ==
    IF bytes \in IntSizes THEN {SetValue(FrameNew("IntFrame"), [int |-> 0], bytes)} ELSE {}

\* _intframe_setint leaves the frame alone when the value is too large for it.  The
\* limits of 4 and 8 bytes are beyond TLC.
SetInt(f, int) ==
    IF f.length > 3 \/ int < 256 ^ f.length THEN SetValue(f, [int |-> int], f.length) ELSE f

IntFrame(bytes, int) == {SetInt(f, int) : f \in IntNew(bytes)}

\* signframe_glib_new; covers is how many bytes the checksum was made over.
SignFrame == SetValue(FrameNew("SignFrame"), [covers |-> 0], 2 + CksumSize)

\* compressframe_new and cryptcurve25519_new
CompressFrame == SetValue(FrameNew("CompressFrame"), <<>>, COMPFRAMESIZE)
CryptFrame(from, to) ==
    SetValue(FrameNew("CryptCurve25519"), [from |-> from, to |-> to], CryptSize)

EndFrame == FrameNew("End")

\* What programs put into framesets: frames that one of the constructors made
Constructed(f) ==
    \/ f \in {AddrFrameIpv4, AddrFrameIpv6, AddrFrameMac48, AddrFrameMac64}
    \/ f.class = "IpPortFrame" /\ f \in IpPortFrameNetAddr(f.value.family, f.value.port)
    \/ f.class = "IntFrame" /\ f.value.int \in Nat /\ f \in IntFrame(f.length, f.value.int)
    \/ f.class = "CstringFrame" /\ f.length \in Nat \ {0} /\ f = CstringFrame(f.length, f.length)
    \/ f.class = "SeqnoFrame" /\ f = SeqnoFrame(f.value.reqid, f.value.qid)
    \/ f.class = "Frame" /\ f = NewerFrame(f.length)

Special == {"SignFrame", "CryptCurve25519", "CompressFrame"}

-----------------------------------------------------------------------------
\* isvalid of each class.  frameset_construct_packet warns of a frame that is not
\* valid, and sends it.

\* _addrframe_default_isvalid
AddrIsValid(f) ==
    LET addrlen == f.length - 2
        family == f.value.family
    IN  /\ f.length > 2
        /\ \/ family = ADDR_FAMILY_IPV4 /\ addrlen = 4
           \/ family = ADDR_FAMILY_IPV6 /\ addrlen = 16
           \/ family = ADDR_FAMILY_802 /\ addrlen \in {6, 8}
           \/ /\ family \in (ADDR_FAMILY_IPV4 .. 31)
                   \ {ADDR_FAMILY_IPV4, ADDR_FAMILY_IPV6, ADDR_FAMILY_802}
              /\ addrlen \in 4 .. 32

\* _ipportframe_default_isvalid
IpPortIsValid(f) ==
    /\ f.value.port # 0
    /\ \/ f.value.family = ADDR_FAMILY_IPV4 /\ f.length = 4 + 4
       \/ f.value.family = ADDR_FAMILY_IPV6 /\ f.length = 4 + 16

IntIsValid(f) == f.length \in IntSizes
CstringIsValid(f) == f.length > 0 /\ f.value.nul = f.length
SeqnoIsValid(f) == f.length = SeqnoSize
SignIsValid(f) == f.length > 2
UnknownIsValid(f) == FALSE

IsValid(f) ==
    CASE f.class = "AddrFrame" -> AddrIsValid(f)
      [] f.class = "IpPortFrame" -> IpPortIsValid(f)
      [] f.class = "IntFrame" -> IntIsValid(f)
      [] f.class = "CstringFrame" -> CstringIsValid(f)
      [] f.class = "SeqnoFrame" -> SeqnoIsValid(f)
      [] f.class = "SignFrame" -> SignIsValid(f)
      [] f.class = "UnknownFrame" -> UnknownIsValid(f)
      [] OTHER -> TRUE

-----------------------------------------------------------------------------
\* tlvconstructor of each class: the frames it makes of a TLV, which are one or none

\* frame_tlvconstructor and cstringframe_tlvconstructor look at nothing.
FrameFromTlv(f) == {f}
CstringFromTlv(f) == {f}

AddrFromTlv(f) == {g \in {f} : AddrIsValid(g)}
IpPortFromTlv(f) == {g \in {f} : IpPortIsValid(g)}
IntFromTlv(f) == {g \in {f} : IntIsValid(g)}
SeqnoFromTlv(f) == {g \in {f} : SeqnoIsValid(g)}

\* signframe_tlvconstructor does not compare the checksum with the packet.
SignFromTlv(f) == {g \in {f} : SignIsValid(g)}

\* cryptcurve25519_tlvconstructor: both keys are known, and the MAC agrees.
CryptFromTlv(f, keys) ==
    {g \in {f} : g.intact /\ g.value.from \in keys.pub /\ g.value.to \in keys.priv}

\* z_decompressbuf: what was changed does not inflate.
Inflates(f) == f.intact

\* compressframe_tlvconstructor
CompressFromTlv(f) == {g \in {f} : g.value.size \in 17 .. MAXUNCOMPRESSEDSIZE /\ Inflates(g)}

\* unknownframe_tlvconstructor keeps the bytes.
UnknownFromTlv(f) == {[f EXCEPT !.class = "UnknownFrame"]}

\* _decode_packet_framedata_to_frameobject, by the table of packetdecoder_new
FrameObject(f, keys) ==
    CASE ~f.known -> UnknownFromTlv(f)
      [] f.known /\ f.class = "AddrFrame" -> AddrFromTlv(f)
      [] f.known /\ f.class = "IpPortFrame" -> IpPortFromTlv(f)
      [] f.known /\ f.class = "IntFrame" -> IntFromTlv(f)
      [] f.known /\ f.class = "CstringFrame" -> CstringFromTlv(f)
      [] f.known /\ f.class = "SeqnoFrame" -> SeqnoFromTlv(f)
      [] f.known /\ f.class = "SignFrame" -> SignFromTlv(f)
      [] f.known /\ f.class = "CompressFrame" -> CompressFromTlv(f)
      [] f.known /\ f.class = "CryptCurve25519" -> CryptFromTlv(f, keys)
      [] OTHER -> FrameFromTlv(f)

-----------------------------------------------------------------------------
\* From a frameset to a packet

\* frameset_new
FrameSet(fstype) == [fstype |-> fstype, fsflags |-> {}, framelist |-> <<>>]

\* frameset_append_frame, frameset_set_flags, frameset_clear_flags
AppendFrame(fs, f) == [fs EXCEPT !.framelist = Append(@, f)]
SetFlags(fs, bits) == [fs EXCEPT !.fsflags = @ \cup bits]
ClearFlags(fs, bits) == [fs EXCEPT !.fsflags = @ \ bits]

\* The sum of dataspace() over some frames
Dataspace(frames) ==
    FoldLeft(LAMBDA sum, f : sum + GENERICTLV_HDRSZ + f.length, 0, frames)

\* Mutant: only one frame of an earlier packet is removed.
WithoutFirst(frames) ==
    IF frames # <<>> /\ Head(frames).class \in Special THEN Tail(frames) ELSE frames

\* The frames behind those that an earlier packet was wrapped with
WithoutSpecial(frames) ==
    LET bare == {i \in 1 .. Len(frames) : frames[i].class \notin Special}
    IN  IF bare = {} THEN <<>>
        ELSE SubSeq(frames, CHOOSE i \in bare : \A j \in bare : i <= j, Len(frames))

\* Mutant: there is an END already, and the last frame is taken for it.
WithEndInPlace(frames) ==
    IF frames = <<>> THEN <<EndFrame>> ELSE [frames EXCEPT ![Len(frames)] = EndFrame]

WithEnd(frames) ==
    IF frames # <<>> /\ Last(frames).class = "End" THEN frames ELSE Append(frames, EndFrame)

\* _intframe_updatedata writes as many bytes as the frame has.
IntUpdateData(f, rest) ==
    <<IF f.length > 3 THEN f ELSE [f EXCEPT !.value.int = @ % 256 ^ f.length]>> \o rest

\* _signframe_updatedata: the checksum of all that follows
SignUpdateData(f, rest) == <<[f EXCEPT !.value.covers = Dataspace(rest)]>> \o rest

\* z_compressbuf.  How well a packet compresses makes no difference here.
Deflated(bytes) == bytes \div 2

\* _compressframe_updatedata and _cryptcurve25519_updatedata close what follows.
CompressUpdateData(f, rest) ==
    <<[f EXCEPT !.length = COMPFRAMESIZE + Deflated(Dataspace(rest)),
                !.value = [size |-> Dataspace(rest), closed |-> rest]]>>

CryptUpdateData(f, rest) ==
    <<[f EXCEPT !.length = @ + Dataspace(rest),
                !.value = [from |-> @.from, to |-> @.to, closed |-> rest]]>>

\* updatedata of each class: the TLVs of a frame and of those behind it
UpdateData(f, rest) ==
    CASE f.class = "CompressFrame" -> CompressUpdateData(f, rest)
      [] f.class = "CryptCurve25519" -> CryptUpdateData(f, rest)
      [] f.class = "SignFrame" -> SignUpdateData(f, rest)
      [] f.class = "IntFrame" -> IntUpdateData(f, rest)
      [] OTHER -> <<f>> \o rest

\* The frames write themselves from the last to the first.
Marshalled(frames) ==
    LET from[i \in 1 .. Len(frames) + 1] ==
            IF i > Len(frames) THEN <<>> ELSE UpdateData(frames[i], from[i + 1])
    IN  from[1]

\* Whether frameset_construct_packet compresses, which it finds out before the
\* frameset has its last frame
CompressFor(body, compressing) ==
    IF compressing /\ FRAMESET_INITSIZE + Dataspace(body) > Threshold
    THEN <<CompressFrame>> ELSE <<>>

\* frameset_construct_packet: the frame list it leaves.  crypt is <<>> or one frame.
Wrap(fs, crypt, compressing) ==
    LET body == WithoutSpecial(fs.framelist)
    IN  [fs EXCEPT !.framelist =
            <<SignFrame>> \o crypt \o CompressFor(body, compressing) \o WithEnd(body)]

\* ... and the packet it makes of that
Packet(fs) ==
    LET tlvs == Marshalled(fs.framelist)
    IN  [fstype |-> fs.fstype, fsflags |-> fs.fsflags,
         len |-> Dataspace(tlvs), tlvs |-> tlvs]

-----------------------------------------------------------------------------
\* From a packet to a frameset

Undecodable == [ok |-> FALSE, frames |-> <<>>]

\* Frames that put what they close in the place of the rest of the packet
Closes(f) == f.known /\ f.class \in {"CryptCurve25519", "CompressFrame"}

\* What is read up to the next of them, or to the end, and what is to be read then
ReadOn(st) ==
    LET closing == {i \in 1 .. Len(st.rest) : Closes(st.rest[i])}
        n == IF closing = {} THEN Len(st.rest)
             ELSE CHOOSE i \in closing : \A j \in closing : i <= j
    IN  [read |-> st.read \o SubSeq(st.rest, 1, n),
         rest |-> IF closing = {} THEN <<>> ELSE st.rest[n].value.closed]

\* The inner loop of _pktdata_to_framesetlist, with the keys we have, until all is read;
\* a packet has fewer frames than bytes.
DecodeFrames(tlvs, keys) ==
    LET after[n \in Nat] ==
            IF n = 0 THEN [read |-> <<>>, rest |-> tlvs] ELSE ReadOn(after[n - 1])
        last == CHOOSE n \in 0 .. MAXUDPSIZE :
                    after[n].rest = <<>> /\ \A m \in 0 .. n - 1 : after[m].rest # <<>>
        read == after[last].read
        made == [i \in 1 .. Len(read) |-> FrameObject(read[i], keys)]
    IN  IF \E i \in DOMAIN made : made[i] = {} THEN Undecodable
        ELSE [ok |-> TRUE, frames |-> [i \in DOMAIN made |-> CHOOSE f \in made[i] : TRUE]]

\* is_valid_generic_tlv_packet: nothing is missing, and a signature comes first.
IsValidTlvPacket(tlvs, missing) ==
    missing = 0 /\ tlvs # <<>> /\ Head(tlvs).class = "SignFrame"

\* _decode_packet_get_frameset_data
FrameSetOf(packet) == SetFlags(FrameSet(packet.fstype), packet.fsflags)

\* _pktdata_to_framesetlist for a packet of one frameset, which is what is sent, and
\* of which some bytes at the end may be missing: no frameset, or this one.
Decode(packet, missing, keys) ==
    LET decoded == DecodeFrames(packet.tlvs, keys)
    IN  IF IsValidTlvPacket(packet.tlvs, missing) /\ decoded.ok
        THEN {[FrameSetOf(packet) EXCEPT !.framelist = decoded.frames]}
        ELSE {}

\* frameset_sender_key_id: only the second frame can say who encrypted a frameset.
SenderKeyIds(fs) ==
    {f.value.from : f \in {g \in ToSet(SubSeq(fs.framelist, 2, 2)) : g.class = "CryptCurve25519"}}
=============================================================================
