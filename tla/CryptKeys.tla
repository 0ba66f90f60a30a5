------------------------------ MODULE CryptKeys ------------------------------
(***************************************************************************)
(* The encryption keys of a nanoprobe: the key files, the maps of          *)
(* cryptframe.c that cache them, the making of the nanoprobe's own key     *)
(* pair (cryptcurve25519.c), the start of it all                           *)
(* (nanoprobe_initialize_keys), and what the keys say of a packet.  The    *)
(* nanoprobe may crash between any two writes to a key file.               *)
(***************************************************************************)
EXTENDS Naturals, FiniteSets

CONSTANTS
    OwnKeys,    \* key ids that begin with the name of this system and '@'
    CmaKeys,    \* key ids that begin with CMA_KEY_PREFIX
    OtherKeys,  \* key ids of other systems
    Addrs       \* addresses packets come from and go to

CONSTANTS NoKey, CMA, NoIdentity

Keys == OwnKeys \cup CmaKeys \cup OtherKeys
Identities == {CMA}

ASSUME CryptKeysAssumption ==
    /\ OwnKeys \cap CmaKeys = {} /\ OwnKeys \cap OtherKeys = {} /\ CmaKeys \cap OtherKeys = {}
    /\ NoKey \notin Keys
    /\ CMA # NoIdentity

VARIABLES
    disk,       \* the key files: "short" is one that was created and not written
    maps,       \* the maps of cryptframe.c, and the default signing key
    enabled,    \* is_encryption_enabled
    phase,      \* where the nanoprobe is in its start
    signed      \* history: the keys this system was ever ready to sign with

cryptKeysVars == <<disk, maps, enabled, phase, signed>>

File == {"none", "short", "good"}

NoMaps == [pub |-> {}, priv |-> {}, identity |-> [k \in Keys |-> NoIdentity],
           keys |-> [i \in Identities |-> {}], signing |-> NoKey,
           dest |-> [a \in Addrs |-> NoKey]]

\* The steps of making a key pair; each names what was done last.
Making == {"key made", "public created", "public saved", "private created", "private saved"}

CryptKeysTypeOK ==
    /\ disk \in [Keys -> [pub : File, priv : File]]
    /\ maps \in [pub : SUBSET Keys, priv : SUBSET Keys,
                 identity : [Keys -> Identities \cup {NoIdentity}],
                 keys : [Identities -> SUBSET Keys], signing : Keys \cup {NoKey},
                 dest : [Addrs -> Keys \cup {NoKey}]]
    /\ enabled \in BOOLEAN
    /\ phase \in [is : {"down", "up"} \cup Making, key : Keys \cup {NoKey}]
    /\ signed \subseteq Keys
    /\ \A i \in Identities : maps.keys[i] = {k \in Keys : maps.identity[k] = i}

KeysDown == [is |-> "down", key |-> NoKey]
KeysUp == [is |-> "up", key |-> NoKey]

CryptKeysInit ==
    /\ disk = [k \in Keys |-> [pub |-> "none", priv |-> "none"]]
    /\ maps = NoMaps /\ enabled = FALSE /\ phase = KeysDown /\ signed = {}

-----------------------------------------------------------------------------
\* The maps

\* cryptframe_publickey_new and cryptframe_privatekey_new keep a key that is there.
PublicKeyNew(m, k) == [m EXCEPT !.pub = @ \cup {k}]
PrivateKeyNew(m, k) == [m EXCEPT !.priv = @ \cup {k}]

\* _cache_curve25519_keypair.  A private key that cannot be used is no reason not
\* to cache the public one, and then it is not looked for again.
CacheKeypair(m, k) ==
    IF k \in m.pub \/ disk[k].pub # "good" THEN m
    ELSE IF disk[k].priv = "good" THEN PrivateKeyNew(PublicKeyNew(m, k), k)
    ELSE PublicKeyNew(m, k)

\* cryptcurve25519_cache_all_keypairs
CacheAllKeypairs(m) ==
    LET found == {k \in Keys : disk[k].pub = "good"} \ m.pub
    IN  [m EXCEPT !.pub = @ \cup found,
                  !.priv = @ \cup {k \in found : disk[k].priv = "good"}]

\* cryptframe_dissociate_identity
DissociateIdentity(m, k) ==
    IF m.identity[k] = NoIdentity THEN m
    ELSE [m EXCEPT !.keys[m.identity[k]] = @ \ {k}, !.identity[k] = NoIdentity]

\* cryptframe_purge_key_id.  A destination keeps its reference to the public key.
PurgeKeyId(m, k) ==
    LET gone == DissociateIdentity(m, k)
    IN  [gone EXCEPT !.pub = @ \ {k}, !.priv = @ \ {k}]

\* cryptframe_set_signing_key_id
SetSigningKeyId(m, k) == IF k \in m.priv THEN [m EXCEPT !.signing = k] ELSE m

\* cryptframe_set_dest_key_id
SetDestKeyId(m, a, k) == IF k \in m.pub THEN [m EXCEPT !.dest[a] = k] ELSE m

-----------------------------------------------------------------------------
\* Starting: nanoprobe_initialize_keys

\* Mutant: only one of the two maps of identities is filled.
AssociateAllOneMap(m) ==
    [m EXCEPT !.identity = [k \in Keys |-> IF k \in CmaKeys \cap m.pub THEN CMA ELSE @[k]]]

\* cryptframe_associate_identity for the keys of the CMA, of which there may be many
AssociateAll(m) ==
    [m EXCEPT !.identity = [k \in Keys |-> IF k \in CmaKeys \cap m.pub THEN CMA ELSE @[k]],
              !.keys[CMA] = @ \cup (CmaKeys \cap m.pub)]

\* The key ids come in any order, and the last one that can sign stays.
Signing(m) ==
    IF OwnKeys \cap m.priv = {} THEN {m}
    ELSE {SetSigningKeyId(m, k) : k \in OwnKeys \cap m.priv}

InitializeKeys ==
    /\ phase = KeysDown
    /\ \E m \in Signing(AssociateAll(CacheAllKeypairs(NoMaps))) :
          /\ maps' = m
          /\ \/ m.keys[CMA] = {} /\ enabled' = FALSE /\ phase' = KeysUp /\ signed' = signed
             \/ /\ m.keys[CMA] # {} /\ m.signing # NoKey
                /\ enabled' = TRUE /\ phase' = KeysUp /\ signed' = signed \cup {m.signing}
             \/ /\ m.keys[CMA] # {} /\ m.signing = NoKey
                /\ enabled' = FALSE /\ signed' = signed
                /\ \E k \in OwnKeys :   \* a new pair has a new id, its checksum
                      /\ disk[k] = [pub |-> "none", priv |-> "none"]
                      /\ phase' = [is |-> "key made", key |-> k]
    /\ UNCHANGED disk

\* cryptcurve25519_gen_persistent_keypair: _cryptcurve25519_save_a_key opens and
\* writes the public key, then the private one.
SaveAKey ==
    LET k == phase.key
        Goes(at, file, to) ==
            /\ phase.is = at
            /\ disk' = [disk EXCEPT ![k] = file]
            /\ phase' = [phase EXCEPT !.is = to]
    IN  /\ \/ Goes("key made", [pub |-> "short", priv |-> "none"], "public created")
           \/ Goes("public created", [pub |-> "good", priv |-> "none"], "public saved")
           \/ Goes("public saved", [pub |-> "good", priv |-> "short"], "private created")
           \/ Goes("private created", [pub |-> "good", priv |-> "good"], "private saved")
        /\ UNCHANGED <<maps, enabled, signed>>

\* Both are saved: the pair is cached, signs, and encryption is on.
Generated ==
    LET k == phase.key
    IN  /\ phase.is = "private saved"
        /\ maps' = SetSigningKeyId(PublicKeyNew(PrivateKeyNew(maps, k), k), k)
        /\ enabled' = TRUE /\ phase' = KeysUp /\ signed' = signed \cup {k}
        /\ UNCHANGED disk

\* Mutant: nobody looks whether the files were written.
GenerateFailsUnseen ==
    LET k == phase.key
    IN  /\ phase.is \in Making \ {"private saved"}
        /\ maps' = SetSigningKeyId(PublicKeyNew(PrivateKeyNew(maps, k), k), k)
        /\ enabled' = TRUE /\ phase' = KeysUp /\ signed' = signed \cup {k}
        /\ UNCHANGED disk

\* A file cannot be created or written: cryptcurve25519_purge_keypair.
GenerateFails ==
    LET k == phase.key
    IN  /\ phase.is \in Making \ {"private saved"}
        /\ disk' = [disk EXCEPT ![k] = [pub |-> "none", priv |-> "none"]]
        /\ maps' = PurgeKeyId(maps, k)
        /\ phase' = KeysUp
        /\ UNCHANGED <<enabled, signed>>

\* The end of the process; cryptframe_shutdown does what the end does anyway.
Crash ==
    /\ phase # KeysDown
    /\ maps' = NoMaps /\ enabled' = FALSE /\ phase' = KeysDown
    /\ UNCHANGED <<disk, signed>>

\* The public key of the CMA, or of another system, is put in the directory.
Install(k) ==
    /\ k \notin OwnKeys /\ disk[k].pub = "none"
    /\ disk' = [disk EXCEPT ![k].pub = "good"]
    /\ UNCHANGED <<maps, enabled, phase, signed>>

-----------------------------------------------------------------------------
\* Packets

\* cryptframe_new_by_destaddr: whether a packet for an address is encrypted
Encrypts(a) == enabled /\ maps.signing # NoKey /\ maps.dest[a] # NoKey

\* _is_valid_curve25519_key_id for both key ids of a packet, which caches them
CacheBoth(from, to) == CacheKeypair(CacheKeypair(maps, from), to)

\* cryptcurve25519_tlvconstructor opens what the key of the sender closed for us.
Opens(m, from, to) == from \in m.pub /\ to \in m.priv

\* _nanoprobe_is_cma_frameset, with NoKey for a frameset that was not encrypted
IsCmaFrameset(m, from) ==
    ~enabled \/ (from # NoKey /\ m.identity[from] = CMA)

\* _nanoprobe_associate_cma_addrs, for the addresses of the CMA in a configuration
AssociateCmaAddrs(m, addrs, k) ==
    [m EXCEPT !.dest = [a \in Addrs |-> IF a \in addrs /\ k \in m.pub THEN k ELSE @[a]]]

\* Mutant: the key of any sender is used to answer it.
ReceiveFromAnyone(a, from, to, addrs) ==
    /\ phase = KeysUp
    /\ LET m == CacheBoth(from, to)
       IN  maps' = IF Opens(m, from, to) THEN SetDestKeyId(m, a, from) ELSE m
    /\ UNCHANGED <<disk, enabled, phase, signed>>

\* An encrypted packet with a command comes from an address.  One of the CMA makes
\* its key the one to answer that address with; and a configuration in it, the one
\* for the addresses that it has of the CMA.
Receive(a, from, to, addrs) ==
    /\ phase = KeysUp
    /\ LET m == CacheBoth(from, to)
           heard == IF enabled THEN SetDestKeyId(m, a, from) ELSE m
       IN  maps' = IF Opens(m, from, to) /\ IsCmaFrameset(m, from)
                   THEN AssociateCmaAddrs(heard, addrs, from) ELSE m
    /\ UNCHANGED <<disk, enabled, phase, signed>>

CryptKeysNext ==
    \/ InitializeKeys \/ SaveAKey \/ Generated \/ GenerateFails \/ Crash
    \/ \E k \in Keys : Install(k)
    \/ \E a \in Addrs, from \in Keys, to \in OwnKeys, addrs \in SUBSET Addrs :
          Receive(a, from, to, addrs)

CryptKeysSpec == CryptKeysInit /\ [][CryptKeysNext]_cryptKeysVars

-----------------------------------------------------------------------------
\* Properties

\* A system signs with one key for good, whatever crashes and failures there were
\* while keys were made: the CMA refuses a nanoprobe that comes with another one
\* (dispatchtarget.py).
OneSigningKey == Cardinality(signed) <= 1

\* With encryption on there is what encrypting takes: cryptcurve25519_new, which
\* aborts without the private key of the sender, finds it, the next start finds it
\* too, and what is encrypted can be read by the CMA and nobody else.
CanEncrypt ==
    enabled =>
        /\ maps.signing \in maps.priv \cap maps.pub
        /\ disk[maps.signing] = [pub |-> "good", priv |-> "good"]
        /\ \A a \in Addrs : Encrypts(a) => maps.dest[a] \in CmaKeys \cap maps.pub

=============================================================================
