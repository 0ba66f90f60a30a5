-------------------------------- MODULE NetIO --------------------------------
(***************************************************************************)
(* How framesets get from one system to another: netio.c sends and         *)
(* receives them as packets, with the loss that tests ask for; netgsource.c*)
(* hands each frameset to the listener of its type, and authlistener.c     *)
(* obeys and acknowledges commands.  Packets are made and read by the      *)
(* operators of Packets.  A frameset may be sent again, as fsprotocol.c    *)
(* does, when the key for its destination changed meanwhile; the network   *)
(* loses, repeats, cuts and garbles.  The socket itself is in NetSocket.   *)
(***************************************************************************)
EXTENDS Packets, FiniteSets

CONSTANTS
    FsTypes,        \* types of framesets
    Commands,       \* those in the action map of the AuthListener
    Contents,       \* frames that framesets are made of
    Cma, Other,     \* systems that send, and the ids of their keys
    NanoKeys,       \* keys to encrypt with for the nanoprobe that receives
    LostKeys,       \* those it does not have the private key of any more
    None,
    MaxFrames, MaxWire, MaxDelivered    \* bounds

Senders == {Cma, Other}
NetListeners == {"auth", "heartbeat", "other"}

ASSUME NetIOAssumption ==
    /\ Commands \subseteq FsTypes /\ LostKeys \subseteq NanoKeys
    /\ \A f \in Contents : Constructed(f)
    /\ MaxWire \in Nat /\ MaxDelivered \in Nat
    /\ Cma # Other /\ None \notin Senders \cup NanoKeys \cup FsTypes

VARIABLES
    out,            \* a frameset that is built, sent, and kept to be sent again;
                    \* made is history: what it was before it was wrapped
    destKey,        \* what its sender encrypts with (cryptframe_set_dest_key_id)
    wire,           \* datagrams under way
    dispatchers,    \* the listener of each type, and of None for the other types
    delivered       \* framesets that listeners were given

netIOVars == <<out, destKey, wire, dispatchers, delivered>>

NothingOut == [by |-> None, sent |-> FALSE, fs |-> FrameSet(None), made |-> FrameSet(None)]

\* main adds the listeners: of commands, of heartbeats, and of everything else.
NetIOInit ==
    /\ out = NothingOut
    /\ destKey = None
    /\ dispatchers = [t \in FsTypes \cup {None} |->
                         IF t = None THEN "other"
                         ELSE IF t \in Commands THEN "auth" ELSE "heartbeat"]
    /\ wire = <<>> /\ delivered = <<>>

NetIOTypeOK ==
    /\ out.by \in Senders \cup {None} /\ out.sent \in BOOLEAN
    /\ out.by = None => out = NothingOut
    /\ out.fs.fstype \in FsTypes \cup {None}
    /\ destKey \in NanoKeys \cup {None}
    /\ Len(wire) <= MaxWire /\ Len(delivered) <= MaxDelivered
    /\ dispatchers \in [FsTypes \cup {None} -> NetListeners \cup {None}]

-----------------------------------------------------------------------------
\* _authlistener_dissociate: a listener that goes leaves no other in its place.
DissociateListener ==
    /\ \E t \in Commands : dispatchers[t] = "auth"
    /\ dispatchers' = [t \in DOMAIN dispatchers |->
                          IF t \in Commands THEN None ELSE dispatchers[t]]
    /\ UNCHANGED <<out, destKey, wire, delivered>>

-----------------------------------------------------------------------------
\* Sending

\* A bound: one frameset is under way at a time.  Framesets have nothing to do with
\* one another here; their order is the business of FsProtocol.
\* Its sender may have a key for the destination already.
NewFrameSet(s, t, key) ==
    /\ out = NothingOut /\ wire = <<>> /\ delivered = <<>>
    /\ out' = [by |-> s, sent |-> FALSE, fs |-> FrameSet(t), made |-> FrameSet(t)]
    /\ destKey' = key
    /\ UNCHANGED <<wire, dispatchers, delivered>>

Becomes(fs) == out' = [out EXCEPT !.fs = fs, !.made = fs]

AddFrame(f) ==
    /\ out.by # None /\ ~out.sent /\ Len(out.fs.framelist) < MaxFrames
    /\ Becomes(AppendFrame(out.fs, f))
    /\ UNCHANGED <<destKey, wire, dispatchers, delivered>>

ChangeFlags ==
    /\ out.by # None /\ ~out.sent
    /\ Becomes(IF out.fs.fsflags = {} THEN SetFlags(out.fs, {1}) ELSE ClearFlags(out.fs, {1}))
    /\ UNCHANGED <<destKey, wire, dispatchers, delivered>>

\* cryptframe_set_dest_key_id
SetDestKey(k) ==
    /\ out.by # None
    /\ destKey' = k
    /\ UNCHANGED <<out, wire, dispatchers, delivered>>

\* cryptframe_new_by_destaddr
CryptFrameFor(s) == IF destKey = None THEN <<>> ELSE <<CryptFrame(s, destKey)>>

\* _netio_sendapacket.  A packet may be thrown away as tests ask for, or not go because
\* of its size; what sendto says is told to nobody.
SendAPacket(packet) ==
    \/ UNCHANGED wire
    \/ /\ FRAMESET_INITSIZE + packet.len <= MAXUDPSIZE
       /\ wire' = Append(wire, [packet |-> packet, missing |-> 0, by |-> out.by,
                                key |-> destKey, made |-> out.made, whole |-> TRUE])

\* _netio_sendaframeset, for the first time or once more
SendAFrameset ==
    /\ out.by # None /\ Len(wire) < MaxWire
    /\ LET wrapped == Wrap(out.fs, CryptFrameFor(out.by), TRUE)
       IN  /\ out' = [out EXCEPT !.fs = wrapped, !.sent = TRUE]
           /\ SendAPacket(Packet(wrapped))
    /\ UNCHANGED <<destKey, dispatchers, delivered>>

\* It is acknowledged, or needs no acknowledgement, or its sender gives up.
SendingDone ==
    /\ out.sent
    /\ out' = NothingOut /\ destKey' = None
    /\ UNCHANGED <<wire, dispatchers, delivered>>

-----------------------------------------------------------------------------
\* The network

GarbledTlv(tlvs, i) == [tlvs EXCEPT ![i].intact = FALSE]

Lose(i) == wire' = RemoveAt(wire, i)
Repeat(i) == Len(wire) < MaxWire /\ wire' = Append(wire, wire[i])
\* A bound: one thing happens to a datagram at most.
Cut(i) ==
    wire[i].whole /\ wire' = [wire EXCEPT ![i].missing = 1, ![i].whole = FALSE]

\* Some bytes of one TLV arrive changed, so that it is still one of its type.
Garble(i) ==
    wire[i].whole /\ \E j \in 2 .. Len(wire[i].packet.tlvs) :
        wire' = [wire EXCEPT ![i].packet.tlvs = GarbledTlv(@, j), ![i].whole = FALSE]

Network ==
    /\ \E i \in 1 .. Len(wire) : Lose(i) \/ Repeat(i) \/ Cut(i) \/ Garble(i)
    /\ UNCHANGED <<out, destKey, dispatchers, delivered>>

-----------------------------------------------------------------------------
\* Receiving

NanoRing == [pub |-> Senders \cup NanoKeys, priv |-> NanoKeys \ LostKeys]

\* _nanoprobe_is_cma_frameset with encryption on
Authenticated(fs) == Cma \in SenderKeyIds(fs)

\* _netgsource_dispatch
ListenerFor(fstype) ==
    IF dispatchers[fstype] # None THEN dispatchers[fstype] ELSE dispatchers[None]

\* A datagram is read (_netio_recvapacket), decoded and dispatched, in any order; one
\* that is thrown away here as tests ask for is one that Network loses.
\* _authlistener_got_frameset obeys what the CMA sent, and acknowledges the rest too.
ReceiveDatagram(i) ==
    LET d == wire[i]
        got == Decode(d.packet, d.missing, NanoRing)
        Given(fs, to) == [fs |-> fs, to |-> to, by |-> d.by, made |-> d.made,
                          obeyed |-> to = "auth" /\ Authenticated(fs)]
    IN  /\ Len(delivered) < MaxDelivered
        /\ wire' = RemoveAt(wire, i)
        /\ delivered' = delivered \o
              SetToSeq({Given(fs, ListenerFor(fs.fstype)) : fs \in got})
        /\ UNCHANGED <<out, destKey, dispatchers>>

\* A listener is done with a frameset.
Handled ==
    /\ delivered # <<>>
    /\ delivered' = Tail(delivered)
    /\ UNCHANGED <<out, destKey, wire, dispatchers>>

NetIONext ==
    \/ DissociateListener
    \/ \E s \in Senders, t \in FsTypes, key \in NanoKeys \cup {None} : NewFrameSet(s, t, key)
    \/ \E f \in Contents : AddFrame(f)
    \/ ChangeFlags
    \/ \E k \in NanoKeys : SetDestKey(k)
    \/ SendAFrameset \/ SendingDone
    \/ Network
    \/ \E i \in 1 .. Len(wire) : ReceiveDatagram(i)
    \/ Handled

NetIOSpec == NetIOInit /\ [][NetIONext]_netIOVars

-----------------------------------------------------------------------------
\* Properties

IsIntact(fs) == \A i \in 1 .. Len(fs.framelist) : fs.framelist[i].intact
WasClosed(fs) ==
    \E i \in 1 .. Len(fs.framelist) : fs.framelist[i].class \in Special \ {"SignFrame"}

\* The frames that the sender put in, as a decoder sees them and with the END behind
AsReceived(frames) ==
    [i \in 1 .. Len(frames) |->
        IF frames[i].known THEN frames[i] ELSE [frames[i] EXCEPT !.class = "UnknownFrame"]]
    \o <<EndFrame>>

\* A frameset arrives as it was made: with its type, its flags and its frames in their
\* order, whatever it was wrapped in, however often it was sent again with other keys,
\* and whatever frames of it the receiver has never heard of.  What was changed on its
\* way does not, but can be told from it, and nothing at all arrives of what was changed
\* after it was encrypted or compressed.
ArrivesAsMade ==
    \A i \in 1 .. Len(delivered) :
        LET d == delivered[i]
        IN  /\ WasClosed(d.fs) => IsIntact(d.fs)
            /\ IsIntact(d.fs) =>
                /\ d.fs.fstype = d.made.fstype /\ d.fs.fsflags = d.made.fsflags
                /\ WithoutSpecial(d.fs.framelist) = AsReceived(d.made.framelist)

\* A frameset that is sent again is wrapped once: one frame to sign, encrypt and
\* compress at most, in this order and before all others, and one END.  From when its
\* sender has a key for the destination, nothing but a signature and what is encrypted
\* is to be seen of its packets.
WrappedOnce ==
    /\ out.sent =>
        LET classes == [i \in 1 .. Len(out.fs.framelist) |-> out.fs.framelist[i].class]
            special == {i \in 1 .. Len(classes) : classes[i] \in Special}
        IN  /\ \E n \in 1 .. 3 :
                /\ special = 1 .. n
                /\ SubSeq(classes, 1, n) \in {<<"SignFrame">>, <<"SignFrame", "CryptCurve25519">>,
                                              <<"SignFrame", "CompressFrame">>,
                                              <<"SignFrame", "CryptCurve25519", "CompressFrame">>}
            /\ Cardinality({i \in 1 .. Len(classes) : classes[i] = "End"}) = 1
    /\ \A i \in 1 .. Len(wire) :
        wire[i].key # None =>
            /\ Len(wire[i].packet.tlvs) = 2
            /\ wire[i].packet.tlvs[2].class = "CryptCurve25519"
=============================================================================
