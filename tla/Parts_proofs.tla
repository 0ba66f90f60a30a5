---------------------------- MODULE Parts_proofs -----------------------------
(***************************************************************************)
(* Proofs about Parts, and about those of its parts whose proofs are not   *)
(* in a module of their own, for any constants.                            *)
(*                                                                         *)
(* CryptKeys: that it is type correct, that a system signs with one key    *)
(* for good (OneSigningKey) and that it can encrypt when it says so        *)
(* (CanEncrypt).  At most one own key has both its files (Paired).  A new  *)
(* pair is made only when no own key has both, which caching them all has  *)
(* shown, and all keys that ever signed have them still.                   *)
(*                                                                         *)
(* PidFile: that it is type correct, and that the pid file names the one   *)
(* nanoprobe that runs (PidFileNamesTheOne).  As long as nobody overlapped *)
(* with anybody, one process at most is between looking at the file and    *)
(* acting on it, and what it saw stays true: when it saw nobody, nobody    *)
(* runs until it has acted.                                                *)
(*                                                                         *)
(* Capture: that it is type correct, that the CMA knows the switch         *)
(* (SwitchIsKnown) and the ARP map (ArpMapIsSent).  What is cached of a    *)
(* switch is what was sent of it last, and the string in the configuration *)
(* is what was sent of the ARP map, if the discovery that runs has sent    *)
(* anything.  Neither is so before the CMA is known.                       *)
(*                                                                         *)
(* Parts: that a behaviour of all the parts is one of each part, so that   *)
(* what is proved of a part holds here, as its type invariant does.        *)
(***************************************************************************)
EXTENDS Parts, ResourceCmd_proofs, NetIO_proofs, NetSocket_proofs, FiniteSetTheorems, TLAPS

\* Keys

Maps == [pub : SUBSET Keys, priv : SUBSET Keys,
         identity : [Keys -> Identities \cup {NoIdentity}],
         keys : [Identities -> SUBSET Keys], signing : Keys \cup {NoKey},
         dest : [Addrs -> Keys \cup {NoKey}]]

\* The two maps of identities agree.
Agree(m) == \A i \in Identities : m.keys[i] = {k \in Keys : m.identity[k] = i}

Paired(k) == disk[k].pub = "good" /\ disk[k].priv = "good"

\* What is cached of own private keys is on disk, with the public one.
CachedIsPaired ==
    /\ maps.priv \subseteq maps.pub
    /\ \A k \in OwnKeys \cap maps.priv : Paired(k)

SignsWithOwn == maps.signing # NoKey => maps.signing \in OwnKeys \cap maps.priv

OnlyCmaIdentified == \A k \in Keys : maps.identity[k] # NoIdentity => k \in CmaKeys

OnePair == \A k, l \in OwnKeys : Paired(k) /\ Paired(l) => k = l

SignedArePaired == \A k \in signed : k \in OwnKeys /\ Paired(k)

\* While a pair is made nothing is on yet, and no other own key has a pair.
MakingAlone ==
    phase.is \in Making =>
        /\ phase.key \in OwnKeys /\ ~enabled
        /\ maps.priv \cap OwnKeys = {} /\ maps.signing = NoKey
        /\ maps.dest = [a \in Addrs |-> NoKey]
        /\ signed = {}
        /\ \A k \in OwnKeys : Paired(k) => k = phase.key
        /\ phase.is = "private saved" => Paired(phase.key)

AnswersTheCma ==
    enabled =>
        /\ phase = KeysUp /\ maps.signing # NoKey
        /\ \A a \in Addrs : maps.dest[a] # NoKey => maps.dest[a] \in CmaKeys \cap maps.pub

KeysInv ==
    /\ CryptKeysTypeOK
    /\ CachedIsPaired /\ SignsWithOwn /\ OnlyCmaIdentified
    /\ OnePair /\ SignedArePaired /\ MakingAlone /\ AnswersTheCma

-----------------------------------------------------------------------------
\* What the operators on maps make, for the files of a state that is type correct.

Disks == [Keys -> [pub : File, priv : File]]

\* What is said of the constants: no key is NoKey, and the CMA is an identity.
LEMMA ConstantsDiffer == NoKey \notin Keys /\ CMA # NoIdentity /\ CMA \in Identities
BY CryptKeysAssumption DEF Identities

\* No maps at all are maps.
LEMMA NoMapsAreMaps == NoMaps \in Maps /\ Agree(NoMaps)
BY ConstantsDiffer DEF NoMaps, Maps, Agree, Identities

\* A key that is cached comes from its file, with its private half if that is good.
LEMMA CacheKeypairMakes ==
    ASSUME disk \in Disks, NEW m \in Maps, Agree(m), NEW k \in Keys,
           m.priv \subseteq m.pub
    PROVE  LET c == CacheKeypair(m, k)
           IN  /\ c \in Maps /\ Agree(c)
               /\ c.identity = m.identity /\ c.signing = m.signing /\ c.dest = m.dest
               /\ m.pub \subseteq c.pub /\ m.priv \subseteq c.priv /\ c.priv \subseteq c.pub
               /\ \A j \in c.priv \ m.priv : Paired(j)
<1> DEFINE withPub == PublicKeyNew(m, k)
           withBoth == PrivateKeyNew(withPub, k)
<1>1. /\ withPub \in Maps /\ Agree(withPub)
      /\ withPub.identity = m.identity /\ withPub.signing = m.signing /\ withPub.dest = m.dest
      /\ withPub.pub = m.pub \cup {k} /\ withPub.priv = m.priv
  BY DEF Maps, Agree, PublicKeyNew
<1>2. /\ withBoth \in Maps /\ Agree(withBoth)
      /\ withBoth.identity = m.identity /\ withBoth.signing = m.signing
      /\ withBoth.dest = m.dest
      /\ withBoth.pub = m.pub \cup {k} /\ withBoth.priv = m.priv \cup {k}
  BY <1>1 DEF Maps, Agree, PrivateKeyNew
<1>3. CASE k \in m.pub \/ disk[k].pub # "good"
  BY <1>3 DEF CacheKeypair
<1>4. CASE k \notin m.pub /\ disk[k].pub = "good" /\ disk[k].priv = "good"
  <2>1. CacheKeypair(m, k) = withBoth
    BY <1>4 DEF CacheKeypair
  <2> QED
    BY <1>2, <1>4, <2>1 DEF Paired
<1>5. CASE k \notin m.pub /\ disk[k].pub = "good" /\ disk[k].priv # "good"
  <2>1. CacheKeypair(m, k) = withPub
    BY <1>5 DEF CacheKeypair
  <2> QED
    BY <1>1, <2>1
<1> QED
  BY <1>3, <1>4, <1>5

\* What a start caches: every key with a good public file, every pair, and the keys of
\* the CMA under its name.
LEMMA StartMakes ==
    ASSUME disk \in Disks
    PROVE  LET all == AssociateAll(CacheAllKeypairs(NoMaps))
           IN  /\ all \in Maps /\ Agree(all)
               /\ all.priv = {k \in Keys : Paired(k)} /\ all.priv \subseteq all.pub
               /\ all.signing = NoKey
               /\ all.dest = [a \in Addrs |-> NoKey]
               /\ \A k \in Keys : all.identity[k] # NoIdentity => k \in CmaKeys
<1> DEFINE good == {k \in Keys : disk[k].pub = "good"}
           cached == CacheAllKeypairs(NoMaps)
           all == AssociateAll(cached)
<1>1. /\ cached \in Maps
      /\ cached.pub = good /\ cached.priv = {k \in Keys : Paired(k)}
      /\ cached.identity = [k \in Keys |-> NoIdentity] /\ cached.signing = NoKey
      /\ cached.keys = [i \in Identities |-> {}]
      /\ cached.dest = [a \in Addrs |-> NoKey]
  BY NoMapsAreMaps DEF Maps, NoMaps, CacheAllKeypairs, Paired
<1> HIDE DEF cached
<1> DEFINE identities == [k \in Keys |-> IF k \in CmaKeys \cap good THEN CMA ELSE NoIdentity]
           ids == [i \in Identities |-> CmaKeys \cap good]
<1>2. /\ identities \in [Keys -> Identities \cup {NoIdentity}]
      /\ ids \in [Identities -> SUBSET Keys]
  BY DEF Identities, Keys
<1>3. [k \in Keys |-> IF k \in CmaKeys \cap cached.pub THEN CMA ELSE cached.identity[k]]
         = identities
  BY <1>1
<1>4. [cached.keys EXCEPT ![CMA] = @ \cup (CmaKeys \cap cached.pub)] = ids
  BY <1>1 DEF Identities
<1>5. all = [cached EXCEPT !.identity = identities, !.keys = ids]
  BY <1>1, <1>3, <1>4 DEF AssociateAll, Maps
<1> HIDE DEF identities, ids
<1>6. /\ all.pub = cached.pub /\ all.priv = cached.priv
      /\ all.signing = cached.signing /\ all.dest = cached.dest
      /\ all.identity = identities /\ all.keys = ids
      /\ all \in Maps
  BY <1>1, <1>2, <1>5 DEF Maps
<1> HIDE DEF all
<1>7. Agree(all)
  BY <1>6, ConstantsDiffer DEF Agree, Identities, Keys, identities, ids
<1>8. \A k \in Keys : all.identity[k] # NoIdentity => k \in CmaKeys
  BY <1>6 DEF identities
<1> QED
  BY <1>1, <1>6, <1>7, <1>8 DEF all, cached, Paired

\* The key to sign with is an own key whose private half is cached.
LEMMA SigningMakes ==
    ASSUME NEW m \in Maps, Agree(m), m.signing = NoKey, NEW s \in Signing(m)
    PROVE  /\ s \in Maps /\ Agree(s)
           /\ s.pub = m.pub /\ s.priv = m.priv /\ s.identity = m.identity
           /\ s.dest = m.dest /\ s.keys = m.keys
           /\ s.signing # NoKey => s.signing \in OwnKeys \cap m.priv
           /\ s.signing = NoKey => OwnKeys \cap m.priv = {}
<1>1. CASE OwnKeys \cap m.priv = {}
  BY <1>1 DEF Signing
<1>2. CASE OwnKeys \cap m.priv # {}
  <2>1. PICK k \in OwnKeys \cap m.priv : s = SetSigningKeyId(m, k)
    BY <1>2 DEF Signing
  <2>2. s = [m EXCEPT !.signing = k] /\ k \in Keys /\ k # NoKey
    BY <2>1, ConstantsDiffer DEF SetSigningKeyId, Keys
  <2> QED
    BY <2>1, <2>2 DEF Maps, Agree
<1> QED
  BY <1>1, <1>2

\* A key that is purged is in no map of keys any more.
LEMMA PurgeMakes ==
    ASSUME NEW m \in Maps, Agree(m), NEW k \in Keys
    PROVE  LET p == PurgeKeyId(m, k)
           IN  /\ p \in Maps /\ Agree(p)
               /\ p.pub = m.pub \ {k} /\ p.priv = m.priv \ {k}
               /\ p.signing = m.signing /\ p.dest = m.dest
               /\ \A j \in Keys : p.identity[j] # NoIdentity => m.identity[j] # NoIdentity
<1> DEFINE gone == DissociateIdentity(m, k)
<1>1. /\ gone \in Maps /\ Agree(gone)
      /\ gone.pub = m.pub /\ gone.priv = m.priv
      /\ gone.signing = m.signing /\ gone.dest = m.dest
      /\ \A j \in Keys : gone.identity[j] # NoIdentity => m.identity[j] # NoIdentity
  <2>1. CASE m.identity[k] = NoIdentity
    BY <2>1 DEF DissociateIdentity
  <2>2. CASE m.identity[k] # NoIdentity
    <3> DEFINE owner == m.identity[k]
               identities == [m.identity EXCEPT ![k] = NoIdentity]
               ids == [m.keys EXCEPT ![owner] = @ \ {k}]
    <3>1. owner \in Identities
      BY <2>2 DEF Maps
    <3>2. identities \in [Keys -> Identities \cup {NoIdentity}] /\ ids \in [Identities -> SUBSET Keys]
      BY <3>1 DEF Maps
    <3>3. gone = [m EXCEPT !.identity = identities, !.keys = ids]
      BY <2>2 DEF DissociateIdentity, Maps
    <3>4. \A j \in Keys : identities[j] = IF j = k THEN NoIdentity ELSE m.identity[j]
      BY DEF Maps
    <3>5. \A j \in Identities : ids[j] = {l \in Keys : identities[l] = j}
      BY <3>1, <3>4, ConstantsDiffer DEF Maps, Agree, Identities
    <3> HIDE DEF identities, ids, gone
    <3>6. /\ gone \in Maps
          /\ gone.pub = m.pub /\ gone.priv = m.priv
          /\ gone.signing = m.signing /\ gone.dest = m.dest
          /\ gone.identity = identities /\ gone.keys = ids
      BY <3>2, <3>3 DEF Maps
    <3> QED
      BY <3>4, <3>5, <3>6 DEF Agree
  <2> QED
    BY <2>1, <2>2
<1> HIDE DEF gone
<1> DEFINE p == PurgeKeyId(m, k)
<1>2. p = [gone EXCEPT !.pub = @ \ {k}, !.priv = @ \ {k}]
  BY DEF PurgeKeyId, gone
<1> HIDE DEF p
<1>3. /\ p \in Maps
      /\ p.pub = m.pub \ {k} /\ p.priv = m.priv \ {k}
      /\ p.signing = m.signing /\ p.dest = m.dest
      /\ p.identity = gone.identity /\ p.keys = gone.keys
  BY <1>1, <1>2 DEF Maps
<1> QED
  BY <1>1, <1>3 DEF Agree, p

-----------------------------------------------------------------------------
\* The invariant

\* The type of the keys, variable by variable
LEMMA KeysTypeParts ==
    CryptKeysTypeOK <=>
        /\ disk \in Disks /\ maps \in Maps /\ Agree(maps)
        /\ enabled \in BOOLEAN
        /\ phase \in [is : {"down", "up"} \cup Making, key : Keys \cup {NoKey}]
        /\ signed \subseteq Keys
BY DEF CryptKeysTypeOK, Disks, Maps, Agree

\* A system that was never started satisfies KeysInv.
LEMMA KeysInitInv == CryptKeysInit => KeysInv
<1> SUFFICES ASSUME CryptKeysInit
             PROVE  KeysInv
  OBVIOUS
<1>1. /\ maps.pub = {} /\ maps.priv = {} /\ maps.signing = NoKey
      /\ maps.identity = [k \in Keys |-> NoIdentity]
  BY DEF CryptKeysInit, NoMaps
<1>2. \A k \in Keys : ~Paired(k)
  BY DEF CryptKeysInit, Paired
<1>3. CryptKeysTypeOK
  BY NoMapsAreMaps, KeysTypeParts DEF CryptKeysInit, Disks, File, KeysDown
<1>4. MakingAlone /\ AnswersTheCma
  BY DEF MakingAlone, AnswersTheCma, CryptKeysInit, KeysDown, Making
<1>5. OnePair /\ SignedArePaired /\ CachedIsPaired /\ SignsWithOwn /\ OnlyCmaIdentified
  BY <1>1, <1>2 DEF OnePair, SignedArePaired, CachedIsPaired, SignsWithOwn, OnlyCmaIdentified,
     Keys, CryptKeysInit
<1> QED
  BY <1>3, <1>4, <1>5 DEF KeysInv

\* Starting: what is there is cached, and a pair is made when there is none.
LEMMA InitializeKeysInv == KeysInv /\ InitializeKeys => KeysInv'
<1> SUFFICES ASSUME KeysInv, InitializeKeys
             PROVE  KeysInv'
  OBVIOUS
<1> DEFINE all == AssociateAll(CacheAllKeypairs(NoMaps))
<1>1. /\ disk \in Disks /\ signed \subseteq Keys
      /\ OnePair /\ SignedArePaired /\ disk' = disk /\ phase = KeysDown
  BY KeysTypeParts DEF KeysInv, InitializeKeys
<1>2. PICK m \in Signing(all) :
        /\ maps' = m
        /\ \/ m.keys[CMA] = {} /\ enabled' = FALSE /\ phase' = KeysUp /\ signed' = signed
           \/ /\ m.keys[CMA] # {} /\ m.signing # NoKey
              /\ enabled' = TRUE /\ phase' = KeysUp /\ signed' = signed \cup {m.signing}
           \/ /\ m.keys[CMA] # {} /\ m.signing = NoKey
              /\ enabled' = FALSE /\ signed' = signed
              /\ \E k \in OwnKeys :
                    /\ disk[k] = [pub |-> "none", priv |-> "none"]
                    /\ phase' = [is |-> "key made", key |-> k]
  BY DEF InitializeKeys
<1>3. /\ all \in Maps /\ Agree(all)
      /\ all.priv = {k \in Keys : Paired(k)} /\ all.priv \subseteq all.pub
      /\ all.signing = NoKey
      /\ all.dest = [a \in Addrs |-> NoKey]
      /\ \A k \in Keys : all.identity[k] # NoIdentity => k \in CmaKeys
  BY <1>1, StartMakes
<1> HIDE DEF all
<1>4. /\ m \in Maps /\ Agree(m)
      /\ m.priv = {k \in Keys : Paired(k)} /\ m.priv \subseteq m.pub
      /\ m.dest = [a \in Addrs |-> NoKey]
      /\ \A k \in Keys : m.identity[k] # NoIdentity => k \in CmaKeys
      /\ m.signing # NoKey => m.signing \in OwnKeys \cap m.priv
      /\ m.signing = NoKey => OwnKeys \cap m.priv = {}
  BY <1>2, <1>3, SigningMakes
<1>5. \A k : Paired(k)' <=> Paired(k)
  BY <1>1 DEF Paired
<1> DEFINE isMaking == \E k \in OwnKeys : phase' = [is |-> "key made", key |-> k]
<1>6. /\ \/ enabled' = FALSE /\ signed' = signed
         \/ /\ enabled' = TRUE /\ phase' = KeysUp
            /\ m.signing # NoKey /\ signed' = signed \cup {m.signing}
      /\ phase' = KeysUp \/ (isMaking /\ m.signing = NoKey /\ enabled' = FALSE)
  BY <1>2, Zenon
<1>6a. /\ phase' \in [is : {"down", "up"} \cup Making, key : Keys \cup {NoKey}]
       /\ phase'.is \in Making => phase'.key \in OwnKeys /\ phase'.is = "key made"
  <2>1. CASE phase' = KeysUp
    BY <2>1 DEF KeysUp, Making
  <2>2. CASE isMaking
    <3>1. PICK k \in OwnKeys : phase' = [is |-> "key made", key |-> k]
      BY <2>2
    <3> QED
      BY <3>1 DEF Making, Keys
  <2> QED
    BY <1>6, <2>1, <2>2
<1>6b. enabled' \in BOOLEAN /\ signed' \subseteq Keys
  BY <1>1, <1>4, <1>6 DEF Keys
<1>7. CryptKeysTypeOK'
  BY <1>1, <1>2, <1>4, <1>6a, <1>6b DEF CryptKeysTypeOK, Disks, Maps, Agree
<1>8. CachedIsPaired' /\ SignsWithOwn' /\ OnlyCmaIdentified' /\ OnePair'
  BY <1>1, <1>2, <1>4, <1>5 DEF CachedIsPaired, SignsWithOwn, OnlyCmaIdentified, OnePair
<1>9. SignedArePaired'
  BY <1>1, <1>4, <1>5, <1>6 DEF SignedArePaired, Keys
<1>10. MakingAlone'
  <2> SUFFICES ASSUME phase'.is \in Making
               PROVE  MakingAlone'
    BY DEF MakingAlone
  <2>1. m.signing = NoKey /\ enabled' = FALSE /\ signed' = signed
    <3>1. KeysUp.is \notin Making
      BY DEF KeysUp, Making
    <3> QED
      BY <1>6, <3>1
  <2>2. phase'.key \in OwnKeys /\ phase'.is = "key made"
    BY <1>6a
  <2>3. \A k \in OwnKeys : ~Paired(k)
    BY <1>4, <2>1 DEF Keys
  <2>4. signed = {}
    BY <1>1, <2>3 DEF SignedArePaired
  <2>5. \A k \in OwnKeys : ~Paired(k)'
    BY <1>5, <2>3
  <2> QED
    BY <1>2, <1>4, <2>1, <2>2, <2>4, <2>5 DEF MakingAlone
<1>11. AnswersTheCma'
  BY <1>2, <1>4, <1>6 DEF AnswersTheCma
<1> QED
  BY <1>7, <1>8, <1>9, <1>10, <1>11 DEF KeysInv

\* Making a pair: only the files of its key change, and they are not both good before
\* the last step.
LEMMA SaveAKeyInv == KeysInv /\ SaveAKey => KeysInv'
<1> SUFFICES ASSUME KeysInv, SaveAKey
             PROVE  KeysInv'
  OBVIOUS
<1>1. /\ disk \in Disks /\ maps \in Maps /\ Agree(maps) /\ enabled \in BOOLEAN
      /\ phase \in [is : {"down", "up"} \cup Making, key : Keys \cup {NoKey}]
      /\ signed \subseteq Keys
  BY KeysTypeParts DEF KeysInv
<1>2. /\ phase.is \in Making \ {"private saved"}
      /\ maps' = maps /\ enabled' = enabled /\ signed' = signed
  BY DEF SaveAKey, Making
<1>3. /\ phase.key \in OwnKeys /\ ~enabled /\ maps.priv \cap OwnKeys = {}
      /\ maps.signing = NoKey /\ maps.dest = [a \in Addrs |-> NoKey] /\ signed = {}
      /\ \A k \in OwnKeys : Paired(k) => k = phase.key
  BY <1>2 DEF KeysInv, MakingAlone
<1>4. PICK file \in [pub : File, priv : File], to \in Making :
        /\ disk' = [disk EXCEPT ![phase.key] = file]
        /\ phase' = [phase EXCEPT !.is = to]
        /\ to = "private saved" => file.pub = "good" /\ file.priv = "good"
  BY DEF SaveAKey, File, Making
<1>5. \A k \in Keys : disk'[k] = IF k = phase.key THEN file ELSE disk[k]
  BY <1>1, <1>4 DEF Disks
<1>6. /\ disk' \in Disks /\ phase'.is = to /\ phase'.key = phase.key
      /\ phase' \in [is : {"down", "up"} \cup Making, key : Keys \cup {NoKey}]
  BY <1>1, <1>4 DEF Disks
<1>7. CryptKeysTypeOK'
  BY <1>1, <1>2, <1>6 DEF CryptKeysTypeOK, Disks, Maps, Agree
<1>8. \A k \in OwnKeys : Paired(k)' => k = phase.key
  BY <1>3, <1>5 DEF Paired, Keys
<1>9. to = "private saved" => Paired(phase.key)'
  BY <1>3, <1>4, <1>5, <1>6 DEF Paired, Keys
<1>10. MakingAlone'
  BY <1>2, <1>3, <1>6, <1>8, <1>9 DEF MakingAlone
<1>11. CachedIsPaired' /\ SignsWithOwn' /\ OnlyCmaIdentified'
  BY <1>2, <1>3 DEF KeysInv, CachedIsPaired, SignsWithOwn, OnlyCmaIdentified
<1>12. OnePair' /\ SignedArePaired' /\ AnswersTheCma'
  BY <1>2, <1>3, <1>8 DEF OnePair, SignedArePaired, AnswersTheCma
<1> QED
  BY <1>7, <1>10, <1>11, <1>12 DEF KeysInv

\* A pair is made: it is the only one, and signs.
LEMMA GeneratedInv == KeysInv /\ Generated => KeysInv'
<1> SUFFICES ASSUME KeysInv, Generated
             PROVE  KeysInv'
  OBVIOUS
<1> DEFINE k == phase.key
           cached == PublicKeyNew(PrivateKeyNew(maps, k), k)
<1>1. /\ disk \in Disks /\ maps \in Maps /\ Agree(maps) /\ enabled \in BOOLEAN
      /\ signed \subseteq Keys /\ disk' = disk /\ enabled' = TRUE /\ phase' = KeysUp
      /\ signed' = signed \cup {k}
  BY KeysTypeParts DEF KeysInv, Generated
<1>2. /\ phase.is = "private saved" /\ k \in OwnKeys /\ k \in Keys /\ k # NoKey
      /\ maps.dest = [a \in Addrs |-> NoKey] /\ signed = {} /\ Paired(k)
      /\ \A j \in OwnKeys : Paired(j) => j = k
  BY ConstantsDiffer DEF KeysInv, MakingAlone, Generated, Making, Keys
<1>3. /\ cached \in Maps /\ Agree(cached)
      /\ cached.pub = maps.pub \cup {k} /\ cached.priv = maps.priv \cup {k}
      /\ cached.identity = maps.identity /\ cached.dest = maps.dest
  BY <1>1, <1>2 DEF Maps, Agree, PublicKeyNew, PrivateKeyNew
<1>4. maps' = SetSigningKeyId(cached, k)
  BY DEF Generated
<1> HIDE DEF cached, k
<1>5. maps' = [cached EXCEPT !.signing = k]
  BY <1>3, <1>4 DEF SetSigningKeyId
<1>6. /\ maps' \in Maps /\ Agree(maps')
      /\ maps'.pub = maps.pub \cup {k} /\ maps'.priv = maps.priv \cup {k}
      /\ maps'.identity = maps.identity /\ maps'.dest = maps.dest /\ maps'.signing = k
  BY <1>2, <1>3, <1>5 DEF Maps, Agree
<1>7. \A j : Paired(j)' <=> Paired(j)
  BY <1>1 DEF Paired
<1>8. CryptKeysTypeOK'
  BY <1>1, <1>2, <1>6 DEF CryptKeysTypeOK, Disks, Maps, Agree, KeysUp
<1>9. CachedIsPaired' /\ SignsWithOwn' /\ OnlyCmaIdentified'
  BY <1>2, <1>6, <1>7 DEF KeysInv, CachedIsPaired, SignsWithOwn, OnlyCmaIdentified
<1>10. OnePair' /\ SignedArePaired' /\ MakingAlone'
  BY <1>1, <1>2, <1>7 DEF OnePair, SignedArePaired, MakingAlone, KeysUp, Making
<1>11. AnswersTheCma'
  BY <1>1, <1>2, <1>6 DEF AnswersTheCma
<1> QED
  BY <1>8, <1>9, <1>10, <1>11 DEF KeysInv

\* A pair that cannot be made leaves nothing behind.
LEMMA GenerateFailsInv == KeysInv /\ GenerateFails => KeysInv'
<1> SUFFICES ASSUME KeysInv, GenerateFails
             PROVE  KeysInv'
  OBVIOUS
<1> DEFINE k == phase.key
<1>1. /\ disk \in Disks /\ maps \in Maps /\ Agree(maps) /\ enabled \in BOOLEAN
      /\ signed \subseteq Keys
      /\ disk' = [disk EXCEPT ![k] = [pub |-> "none", priv |-> "none"]]
      /\ maps' = PurgeKeyId(maps, k)
      /\ phase' = KeysUp /\ enabled' = enabled /\ signed' = signed
  BY KeysTypeParts DEF KeysInv, GenerateFails
<1>2. /\ k \in OwnKeys /\ k \in Keys /\ ~enabled /\ maps.priv \cap OwnKeys = {}
      /\ maps.signing = NoKey /\ signed = {}
      /\ \A j \in OwnKeys : Paired(j) => j = k
  BY DEF KeysInv, MakingAlone, GenerateFails, Keys
<1> HIDE DEF k
<1>3. /\ maps' \in Maps /\ Agree(maps')
      /\ maps'.pub = maps.pub \ {k} /\ maps'.priv = maps.priv \ {k}
      /\ maps'.signing = maps.signing
      /\ \A j \in Keys : maps'.identity[j] # NoIdentity => maps.identity[j] # NoIdentity
  BY <1>1, <1>2, PurgeMakes
<1>4. disk' \in Disks /\ \A j \in OwnKeys : ~Paired(j)'
  BY <1>1, <1>2 DEF Disks, File, Paired, Keys
<1>5. CryptKeysTypeOK'
  BY <1>1, <1>3, <1>4 DEF CryptKeysTypeOK, Disks, Maps, Agree, KeysUp
<1>6. CachedIsPaired' /\ SignsWithOwn' /\ OnlyCmaIdentified'
  BY <1>2, <1>3 DEF KeysInv, CachedIsPaired, SignsWithOwn, OnlyCmaIdentified
<1>7. OnePair' /\ SignedArePaired' /\ MakingAlone' /\ AnswersTheCma'
  BY <1>1, <1>2, <1>4 DEF OnePair, SignedArePaired, MakingAlone, AnswersTheCma, KeysUp, Making
<1> QED
  BY <1>5, <1>6, <1>7 DEF KeysInv

\* A crash leaves the files.
LEMMA CrashInv == KeysInv /\ Crash => KeysInv'
<1> SUFFICES ASSUME KeysInv, Crash
             PROVE  KeysInv'
  OBVIOUS
<1>1. /\ disk \in Disks /\ signed \subseteq Keys
      /\ disk' = disk /\ signed' = signed /\ enabled' = FALSE /\ phase' = KeysDown
      /\ maps' = NoMaps
  BY KeysTypeParts DEF KeysInv, Crash
<1>2. \A k : Paired(k)' <=> Paired(k)
  BY <1>1 DEF Paired
<1>3. CryptKeysTypeOK'
  BY <1>1, NoMapsAreMaps DEF CryptKeysTypeOK, Disks, Maps, Agree, KeysDown
<1>4. CachedIsPaired' /\ SignsWithOwn' /\ OnlyCmaIdentified'
  BY <1>1 DEF CachedIsPaired, SignsWithOwn, OnlyCmaIdentified, NoMaps
<1>5. OnePair' /\ SignedArePaired' /\ MakingAlone' /\ AnswersTheCma'
  BY <1>1, <1>2 DEF KeysInv, OnePair, SignedArePaired, MakingAlone, AnswersTheCma, KeysDown, Making
<1> QED
  BY <1>3, <1>4, <1>5 DEF KeysInv

\* Keys of others are not own keys.
LEMMA InstallInv == ASSUME NEW j \in Keys PROVE KeysInv /\ Install(j) => KeysInv'
<1> SUFFICES ASSUME KeysInv, Install(j)
             PROVE  KeysInv'
  OBVIOUS
<1>1. /\ disk \in Disks /\ maps \in Maps /\ Agree(maps) /\ enabled \in BOOLEAN
      /\ phase \in [is : {"down", "up"} \cup Making, key : Keys \cup {NoKey}]
      /\ signed \subseteq Keys
      /\ j \notin OwnKeys /\ disk' = [disk EXCEPT ![j].pub = "good"]
      /\ maps' = maps /\ enabled' = enabled /\ phase' = phase /\ signed' = signed
  BY KeysTypeParts DEF KeysInv, Install
<1>2. disk' \in Disks
  BY <1>1 DEF Disks, File
<1>3. \A k \in OwnKeys : Paired(k)' <=> Paired(k)
  BY <1>1 DEF Paired, Disks, Keys
<1>4. CryptKeysTypeOK'
  BY <1>1, <1>2 DEF CryptKeysTypeOK, Disks, Maps, Agree
<1>5. CachedIsPaired' /\ SignsWithOwn' /\ OnlyCmaIdentified'
  BY <1>1, <1>3 DEF KeysInv, CachedIsPaired, SignsWithOwn, OnlyCmaIdentified
<1>6. OnePair' /\ SignedArePaired' /\ MakingAlone' /\ AnswersTheCma'
  BY <1>1, <1>3 DEF KeysInv, OnePair, SignedArePaired, MakingAlone, AnswersTheCma
<1> QED
  BY <1>4, <1>5, <1>6 DEF KeysInv

\* A packet: both its keys are cached from their files, and one of the CMA gives the key
\* to answer with.
LEMMA ReceiveInv ==
    ASSUME NEW a \in Addrs, NEW sender \in Keys, NEW to \in OwnKeys, NEW addrs \in SUBSET Addrs
    PROVE  KeysInv /\ Receive(a, sender, to, addrs) => KeysInv'
<1> SUFFICES ASSUME KeysInv, Receive(a, sender, to, addrs)
             PROVE  KeysInv'
  OBVIOUS
<1> DEFINE first == CacheKeypair(maps, sender)
           m == CacheBoth(sender, to)
           heard == IF enabled THEN SetDestKeyId(m, a, sender) ELSE m
           all == AssociateCmaAddrs(heard, addrs, sender)
<1>1. /\ disk \in Disks /\ maps \in Maps /\ Agree(maps) /\ enabled \in BOOLEAN
      /\ signed \subseteq Keys /\ phase = KeysUp
      /\ disk' = disk /\ enabled' = enabled /\ phase' = phase /\ signed' = signed
      /\ maps.priv \subseteq maps.pub
  BY KeysTypeParts DEF KeysInv, Receive, CachedIsPaired
<1>2. /\ first \in Maps /\ Agree(first)
      /\ first.identity = maps.identity /\ first.signing = maps.signing
      /\ first.dest = maps.dest
      /\ maps.pub \subseteq first.pub /\ maps.priv \subseteq first.priv
      /\ first.priv \subseteq first.pub
      /\ \A j \in first.priv \ maps.priv : Paired(j)
  BY <1>1, CacheKeypairMakes
<1> HIDE DEF first
<1>3. m = CacheKeypair(first, to) /\ to \in Keys
  BY DEF CacheBoth, first, Keys
<1> HIDE DEF m
<1>4. /\ m \in Maps /\ Agree(m)
      /\ m.identity = maps.identity /\ m.signing = maps.signing /\ m.dest = maps.dest
      /\ maps.pub \subseteq m.pub /\ maps.priv \subseteq m.priv /\ m.priv \subseteq m.pub
      /\ \A j \in m.priv \ maps.priv : Paired(j)
  <2>1. /\ m \in Maps /\ Agree(m)
        /\ m.identity = first.identity /\ m.signing = first.signing /\ m.dest = first.dest
        /\ first.pub \subseteq m.pub /\ first.priv \subseteq m.priv /\ m.priv \subseteq m.pub
        /\ \A j \in m.priv \ first.priv : Paired(j)
    BY <1>1, <1>2, <1>3, CacheKeypairMakes
  <2> QED
    BY <1>2, <2>1
<1>5. /\ heard \in Maps
      /\ heard.pub = m.pub /\ heard.priv = m.priv /\ heard.identity = m.identity
      /\ heard.keys = m.keys /\ heard.signing = m.signing
      /\ \A b \in Addrs : heard.dest[b] # m.dest[b] => heard.dest[b] = sender /\ sender \in m.pub
  BY <1>4 DEF SetDestKeyId, Maps
<1> HIDE DEF heard
<1>6. /\ all \in Maps
      /\ all.pub = m.pub /\ all.priv = m.priv /\ all.identity = m.identity
      /\ all.keys = m.keys /\ all.signing = m.signing
      /\ \A b \in Addrs : all.dest[b] # m.dest[b] => all.dest[b] = sender /\ sender \in m.pub
  <2> DEFINE dest == [b \in Addrs |-> IF b \in addrs /\ sender \in heard.pub THEN sender
                                      ELSE heard.dest[b]]
  <2>1. dest \in [Addrs -> Keys \cup {NoKey}]
    BY <1>5 DEF Maps
  <2>2. \A b \in Addrs : dest[b] # m.dest[b] => dest[b] = sender /\ sender \in m.pub
    BY <1>5
  <2>3. all = [heard EXCEPT !.dest = dest]
    BY DEF AssociateCmaAddrs
  <2> HIDE DEF dest, all
  <2> QED
    BY <1>5, <2>1, <2>2, <2>3 DEF Maps
<1> HIDE DEF all
<1>7. /\ maps' \in Maps /\ Agree(maps')
      /\ maps'.pub = m.pub /\ maps'.priv = m.priv /\ maps'.identity = maps.identity
      /\ maps'.signing = maps.signing
      /\ enabled => \A b \in Addrs : maps'.dest[b] # maps.dest[b] =>
                       /\ maps'.dest[b] = sender /\ sender \in m.pub
                       /\ maps.identity[sender] = CMA
  <2>1. maps' = IF Opens(m, sender, to) /\ IsCmaFrameset(m, sender) THEN all ELSE m
    BY DEF Receive, all, heard, m
  <2>2. CASE Opens(m, sender, to) /\ IsCmaFrameset(m, sender)
    <3>1. enabled => maps.identity[sender] = CMA
      BY <1>4, <2>2 DEF IsCmaFrameset
    <3> QED
      BY <1>4, <1>6, <2>1, <2>2, <3>1 DEF Agree
  <2>3. CASE ~(Opens(m, sender, to) /\ IsCmaFrameset(m, sender))
    BY <1>4, <2>1, <2>3
  <2> QED
    BY <2>2, <2>3
<1>8. \A j : Paired(j)' <=> Paired(j)
  BY <1>1 DEF Paired
<1>9. CryptKeysTypeOK'
  BY <1>1, <1>7 DEF CryptKeysTypeOK, Disks, Maps, Agree, KeysUp
<1>10. CachedIsPaired'
  <2>1. \A k \in OwnKeys \cap m.priv : Paired(k)
    BY <1>4 DEF KeysInv, CachedIsPaired
  <2> QED
    BY <1>4, <1>7, <1>8, <2>1 DEF CachedIsPaired
<1>11. SignsWithOwn' /\ OnlyCmaIdentified'
  BY <1>4, <1>7 DEF KeysInv, SignsWithOwn, OnlyCmaIdentified
<1>12. OnePair' /\ SignedArePaired' /\ MakingAlone'
  BY <1>1, <1>8 DEF KeysInv, OnePair, SignedArePaired, MakingAlone, KeysUp, Making
<1>13. AnswersTheCma'
  <2> SUFFICES ASSUME enabled, NEW b \in Addrs, maps'.dest[b] # NoKey
               PROVE  maps'.dest[b] \in CmaKeys \cap m.pub
    BY <1>1, <1>7 DEF KeysInv, AnswersTheCma
  <2>1. CASE maps'.dest[b] = maps.dest[b]
    BY <1>4, <2>1 DEF KeysInv, AnswersTheCma
  <2>2. CASE maps'.dest[b] # maps.dest[b]
    BY <1>7, <2>2, ConstantsDiffer DEF KeysInv, OnlyCmaIdentified
  <2> QED
    BY <2>1, <2>2
<1> QED
  BY <1>9, <1>10, <1>11, <1>12, <1>13 DEF KeysInv

\* A step that changes nothing keeps KeysInv.
LEMMA KeysStutterInv == KeysInv /\ UNCHANGED cryptKeysVars => KeysInv'
<1> SUFFICES ASSUME KeysInv, UNCHANGED cryptKeysVars
             PROVE  KeysInv'
  OBVIOUS
<1>1. disk' = disk /\ maps' = maps /\ enabled' = enabled /\ phase' = phase /\ signed' = signed
  BY DEF cryptKeysVars
<1>2. CryptKeysTypeOK'
  BY <1>1 DEF KeysInv, CryptKeysTypeOK
<1>3. \A k : Paired(k)' <=> Paired(k)
  BY <1>1 DEF Paired
<1>4. CachedIsPaired' /\ SignsWithOwn' /\ OnlyCmaIdentified'
  BY <1>1, <1>3 DEF KeysInv, CachedIsPaired, SignsWithOwn, OnlyCmaIdentified
<1>5. OnePair' /\ SignedArePaired' /\ MakingAlone' /\ AnswersTheCma'
  BY <1>1, <1>3 DEF KeysInv, OnePair, SignedArePaired, MakingAlone, AnswersTheCma
<1> QED
  BY <1>2, <1>4, <1>5 DEF KeysInv

\* The key files, the maps and what was signed satisfy KeysInv in every state: each step of
\* cryptframe.c and cryptcurve25519.c keeps it.
THEOREM KeysInvariance == CryptKeysSpec => []KeysInv
<1>1. CryptKeysInit => KeysInv
  BY KeysInitInv
<1>2. KeysInv /\ [CryptKeysNext]_cryptKeysVars => KeysInv'
  <2> SUFFICES ASSUME KeysInv, [CryptKeysNext]_cryptKeysVars
               PROVE  KeysInv'
    OBVIOUS
  <2>1. CASE InitializeKeys
    BY <2>1, InitializeKeysInv
  <2>2. CASE SaveAKey
    BY <2>2, SaveAKeyInv
  <2>3. CASE Generated
    BY <2>3, GeneratedInv
  <2>4. CASE GenerateFails
    BY <2>4, GenerateFailsInv
  <2>5. CASE Crash
    BY <2>5, CrashInv
  <2>6. CASE \E k \in Keys : Install(k)
    BY <2>6, InstallInv
  <2>7. CASE \E a \in Addrs, sender \in Keys, to \in OwnKeys, addrs \in SUBSET Addrs :
                Receive(a, sender, to, addrs)
    BY <2>7, ReceiveInv
  <2>8. CASE UNCHANGED cryptKeysVars
    BY <2>8, KeysStutterInv
  <2> QED
    BY <2>1, <2>2, <2>3, <2>4, <2>5, <2>6, <2>7, <2>8 DEF CryptKeysNext
<1> QED
  BY <1>1, <1>2, PTL DEF CryptKeysSpec

-----------------------------------------------------------------------------
\* The properties that the runs check, for any number of keys and addresses

\* The types of all that is kept about keys, the agreement of the two maps of
\* identities in cryptframe.c included
THEOREM KeysTypeCorrect == CryptKeysSpec => []CryptKeysTypeOK
<1>1. KeysInv => CryptKeysTypeOK
  BY DEF KeysInv
<1> QED
  BY <1>1, KeysInvariance, PTL

\* A system signs with one key for good, wherever it crashes while it makes its key
\* pair (cryptcurve25519_gen_persistent_keypair) and however that fails.
THEOREM SignsWithOne == CryptKeysSpec => []OneSigningKey
<1>1. KeysInv => OneSigningKey
  <2> SUFFICES ASSUME KeysInv
               PROVE  Cardinality(signed) <= 1
    BY DEF OneSigningKey
  <2>1. CASE signed = {}
    BY <2>1, FS_EmptySet
  <2>2. CASE signed # {}
    <3>1. PICK k \in signed : TRUE
      BY <2>2
    <3>2. signed = {k}
      BY <3>1 DEF KeysInv, OnePair, SignedArePaired
    <3> QED
      BY <3>2, FS_Singleton
  <2> QED
    BY <2>1, <2>2
<1> QED
  BY <1>1, KeysInvariance, PTL

\* When encryption is on, the own key pair is in the maps and on disk, and what is
\* encrypted for an address can be opened by the CMA only.
THEOREM CanAlwaysEncrypt == CryptKeysSpec => []CanEncrypt
<1>1. KeysInv => CanEncrypt
  <2> SUFFICES ASSUME KeysInv, enabled
               PROVE  /\ maps.signing \in maps.priv \cap maps.pub
                      /\ disk[maps.signing] = [pub |-> "good", priv |-> "good"]
                      /\ \A a \in Addrs : Encrypts(a) => maps.dest[a] \in CmaKeys \cap maps.pub
    BY DEF CanEncrypt
  <2>1. /\ maps.signing \in OwnKeys \cap maps.priv /\ maps.priv \subseteq maps.pub
        /\ Paired(maps.signing)
    BY DEF KeysInv, AnswersTheCma, SignsWithOwn, CachedIsPaired
  <2>2. disk[maps.signing] \in [pub : File, priv : File]
    BY <2>1, KeysTypeParts DEF KeysInv, Disks, Keys
  <2>3. disk[maps.signing] = [pub |-> "good", priv |-> "good"]
    BY <2>1, <2>2 DEF Paired
  <2> QED
    BY <2>1, <2>3 DEF KeysInv, AnswersTheCma, Encrypts
<1> QED
  BY <1>1, KeysInvariance, PTL

-----------------------------------------------------------------------------
\* The pid file

OneActs == \A p, q \in Acting : p = q

SeenIsTrue ==
    \A p \in Acting :
        process[p].stat # "PID_RUNNING" => \A q \in Pids : process[q].is # "running"

RunningIsNamed == \A p \in Pids : process[p].is = "running" => pidfile = p

PidFileInv ==
    /\ PidFileTypeOK
    /\ ~overlapped => OneActs /\ SeenIsTrue /\ RunningIsNamed

-----------------------------------------------------------------------------

PidProcess == [is : Stages, stat : PidRunningStat]

\* What are_we_already_running says is one of its four answers.
LEMMA AnswerIsStat == PidFileTypeOK => AlreadyRunning \in PidRunningStat
  BY PidAssumption DEF PidFileTypeOK, AlreadyRunning, PidRunningStat

\* When it says that nobody runs, and who runs is named by the file, nobody runs.
LEMMA NobodyRuns ==
    ASSUME PidFileTypeOK, RunningIsNamed, AlreadyRunning # "PID_RUNNING"
    PROVE  \A q \in Pids : process[q].is # "running"
<1> SUFFICES ASSUME NEW q \in Pids, process[q].is = "running" PROVE FALSE
  OBVIOUS
<1>1. pidfile = q
  BY DEF RunningIsNamed
<1>2. pidfile \notin {NoFile, BadPid}
  BY <1>1, PidAssumption
<1> QED
  BY <1>1, <1>2 DEF AlreadyRunning

\* Before any process started PidFileInv holds.
LEMMA PidFileInitHolds == PidFileInit => PidFileInv
<1> SUFFICES ASSUME PidFileInit PROVE PidFileInv
  OBVIOUS
<1>1. NoProcess \in PidProcess
  BY DEF NoProcess, PidProcess, Stages, PidRunningStat
<1>2. PidFileTypeOK
  BY <1>1 DEF PidFileInit, PidFileTypeOK, PidProcess, NoProcess
<1>3. Acting = {}
  BY DEF PidFileInit, Acting, NoProcess
<1>4. RunningIsNamed
  BY DEF PidFileInit, RunningIsNamed, NoProcess
<1> QED
  BY <1>2, <1>3, <1>4 DEF PidFileInv, OneActs, SeenIsTrue

-----------------------------------------------------------------------------
\* Steps that change one process and nothing else, so that nobody begins to act or to
\* run: the process leaves, or goes to a stage where it neither acts nor runs.

\* A process that neither acts nor runs any more disturbs nobody.
LEMMA GoesAside ==
    ASSUME PidFileInv, NEW p \in Pids, NEW new \in PidProcess,
           new.is \notin {"creating", "writing", "killing", "running"},
           process' = [process EXCEPT ![p] = new], UNCHANGED overlapped,
           \/ UNCHANGED pidfile
           \/ /\ pidfile' \in Pids \cup {NoFile, BadPid}
              /\ ~overlapped => \A q \in Pids \ {p} : process[q].is # "running"
    PROVE  PidFileInv'
<1> USE DEF PidProcess
<1>1. PidFileTypeOK'
  BY DEF PidFileInv, PidFileTypeOK
<1>2. process \in [Pids -> PidProcess]
  BY DEF PidFileInv, PidFileTypeOK
<1>3. process'[p] = new /\ \A q \in Pids \ {p} : process'[q] = process[q]
  BY <1>2
<1>4. Acting' \subseteq Acting \ {p}
  BY <1>3 DEF Acting
<1>5. \A q \in Pids : process'[q].is = "running" => q # p /\ process[q].is = "running"
  BY <1>3
<1>6. ASSUME ~overlapped' PROVE (OneActs /\ SeenIsTrue /\ RunningIsNamed)'
  <2>1. OneActs /\ SeenIsTrue /\ RunningIsNamed /\ ~overlapped
    BY <1>6 DEF PidFileInv
  <2>2. OneActs'
    BY <2>1, <1>4 DEF OneActs
  <2>3. SeenIsTrue'
    <3> SUFFICES ASSUME NEW q \in Acting', process'[q].stat # "PID_RUNNING", NEW r \in Pids,
                        process'[r].is = "running"
                 PROVE  FALSE
      BY DEF SeenIsTrue
    <3>1. q \in Acting /\ q # p /\ q \in Pids
      BY <1>4 DEF Acting
    <3>2. process[q].stat # "PID_RUNNING"
      BY <3>1, <1>3
    <3> QED
      BY <3>1, <3>2, <1>5, <2>1 DEF SeenIsTrue
  <2>4. RunningIsNamed'
    BY <2>1, <1>5 DEF RunningIsNamed
  <2> QED
    BY <2>2, <2>3, <2>4
<1> QED
  BY <1>1, <1>6 DEF PidFileInv

\* A process looks, and goes on to act on what it saw.
LEMMA LooksKeeps ==
    ASSUME PidFileInv, NEW p \in Pids, NEW stage \in {"creating", "killing"},
           process[p].is \notin {"creating", "writing", "killing", "running"},
           stage = "creating" => AlreadyRunning # "PID_RUNNING",
           Looks(p, stage), UNCHANGED pidfile
    PROVE  PidFileInv'
<1> USE DEF PidProcess
<1> DEFINE new == [is |-> stage, stat |-> AlreadyRunning]
<1>1. process' = [process EXCEPT ![p] = new] /\ overlapped' = (overlapped \/ Acting # {})
  BY DEF Looks, Continues
<1>2. PidFileTypeOK /\ process \in [Pids -> PidProcess] /\ overlapped \in BOOLEAN
  BY DEF PidFileInv, PidFileTypeOK
<1>3. new \in PidProcess
  BY <1>2, AnswerIsStat DEF Stages
<1>4. process'[p] = new /\ \A q \in Pids \ {p} : process'[q] = process[q]
  BY <1>1, <1>2
<1>5. PidFileTypeOK'
  <2>1. process' \in [Pids -> PidProcess]
    BY <1>1, <1>2, <1>3
  <2>2. \A q \in Pids :
           process'[q].is \in {"creating", "writing"} => process'[q].stat # "PID_RUNNING"
    BY <1>2, <1>4 DEF PidFileTypeOK
  <2>3. overlapped' \in BOOLEAN
    BY <1>1, <1>2
  <2> QED
    BY <2>1, <2>2, <2>3, <1>2 DEF PidFileTypeOK
<1>6. ASSUME ~overlapped' PROVE (OneActs /\ SeenIsTrue /\ RunningIsNamed)'
  <2>1. RunningIsNamed /\ Acting = {}
    BY <1>1, <1>2, <1>6 DEF PidFileInv
  <2>2. Acting' \subseteq {p}
    BY <2>1, <1>4 DEF Acting
  <2>3. \A q \in Pids : process'[q].is = "running" => process[q].is = "running"
    BY <1>4
  <2>4. SeenIsTrue'
    <3> SUFFICES ASSUME process'[p].stat # "PID_RUNNING", NEW r \in Pids,
                        process'[r].is = "running"
                 PROVE  FALSE
      BY <2>2 DEF SeenIsTrue
    <3>1. AlreadyRunning # "PID_RUNNING"
      BY <1>4
    <3> QED
      BY <3>1, <2>1, <2>3, <1>2, NobodyRuns
  <2>5. RunningIsNamed'
    BY <2>1, <2>3 DEF RunningIsNamed
  <2> QED
    BY <2>2, <2>4, <2>5 DEF OneActs
<1> QED
  BY <1>5, <1>6 DEF PidFileInv

-----------------------------------------------------------------------------
\* create_pid_file goes on: what it saw still holds.

\* create_pid_file removes a stale file only when nobody runs.
LEMMA CreateUnlinksKeeps ==
    ASSUME PidFileInv, NEW p \in Pids, CreateUnlinks(p) PROVE PidFileInv'
<1> USE DEF PidProcess
<1> DEFINE new == [is |-> "writing", stat |-> process[p].stat]
<1>1. process' = [process EXCEPT ![p] = new] /\ overlapped' = overlapped
  BY DEF CreateUnlinks, Continues
<1>2. PidFileTypeOK /\ process \in [Pids -> PidProcess] /\ p \in Acting
  BY DEF PidFileInv, PidFileTypeOK, CreateUnlinks, Acting
<1>3. new \in PidProcess /\ process[p].stat # "PID_RUNNING"
  BY <1>2 DEF PidFileTypeOK, Stages, CreateUnlinks
<1>4. process'[p] = new /\ \A q \in Pids \ {p} : process'[q] = process[q]
  BY <1>1, <1>2
<1>5. pidfile' \in {pidfile, NoFile}
  BY DEF CreateUnlinks
<1>6. PidFileTypeOK'
  <2>1. process' \in [Pids -> PidProcess]
    BY <1>1, <1>2, <1>3
  <2>2. \A q \in Pids :
           process'[q].is \in {"creating", "writing"} => process'[q].stat # "PID_RUNNING"
    BY <1>2, <1>3, <1>4 DEF PidFileTypeOK
  <2> QED
    BY <2>1, <2>2, <1>1, <1>2, <1>5 DEF PidFileTypeOK
<1>7. ASSUME ~overlapped' PROVE (OneActs /\ SeenIsTrue /\ RunningIsNamed)'
  <2>1. OneActs /\ SeenIsTrue
    BY <1>1, <1>7 DEF PidFileInv
  <2>2. Acting' = Acting
    BY <1>2, <1>4 DEF Acting
  <2>3. \A q \in Pids : process'[q].is # "running"
    BY <2>1, <1>2, <1>3, <1>4 DEF SeenIsTrue
  <2> QED
    BY <2>1, <2>2, <2>3 DEF OneActs, SeenIsTrue, RunningIsNamed
<1> QED
  BY <1>6, <1>7 DEF PidFileInv

\* create_pid_file writes the file only when nobody runs, so that it names the one that does.
LEMMA CreateWritesKeeps ==
    ASSUME PidFileInv, NEW p \in Pids, process[p].is = "writing", UNCHANGED overlapped,
           pidfile' = p, Continues(p, "running", "PID_NOTRUNNING")
    PROVE  PidFileInv'
<1> USE DEF PidProcess
<1> DEFINE new == [is |-> "running", stat |-> "PID_NOTRUNNING"]
<1>1. process' = [process EXCEPT ![p] = new]
  BY DEF Continues
<1>2. PidFileTypeOK /\ process \in [Pids -> PidProcess] /\ p \in Acting
  BY DEF PidFileInv, PidFileTypeOK, Acting
<1>3. new \in PidProcess /\ process[p].stat # "PID_RUNNING"
  BY <1>2 DEF PidFileTypeOK, Stages, PidRunningStat
<1>4. process'[p] = new /\ \A q \in Pids \ {p} : process'[q] = process[q]
  BY <1>1, <1>2
<1>5. PidFileTypeOK'
  <2>1. process' \in [Pids -> PidProcess]
    BY <1>1, <1>2, <1>3
  <2>2. \A q \in Pids :
           process'[q].is \in {"creating", "writing"} => process'[q].stat # "PID_RUNNING"
    BY <1>2, <1>4 DEF PidFileTypeOK
  <2> QED
    BY <2>1, <2>2, <1>2 DEF PidFileTypeOK
<1>6. ASSUME ~overlapped' PROVE (OneActs /\ SeenIsTrue /\ RunningIsNamed)'
  <2>1. OneActs /\ SeenIsTrue
    BY <1>6 DEF PidFileInv
  <2>2. Acting' = {}
    BY <2>1, <1>2, <1>4 DEF Acting, OneActs
  <2>3. \A q \in Pids \ {p} : process'[q].is # "running"
    BY <2>1, <1>2, <1>3, <1>4 DEF SeenIsTrue
  <2> QED
    BY <2>2, <2>3 DEF OneActs, SeenIsTrue, RunningIsNamed
<1> QED
  BY <1>5, <1>6 DEF PidFileInv

-----------------------------------------------------------------------------

\* One step per action
LEMMA PidFileStepHolds == PidFileInv /\ [PidFileNext]_pidFileVars => PidFileInv'
<1> SUFFICES ASSUME PidFileInv, [PidFileNext]_pidFileVars PROVE PidFileInv'
  OBVIOUS
<1>t. PidFileTypeOK /\ process \in [Pids -> PidProcess]
  BY DEF PidFileInv, PidFileTypeOK, PidProcess
<1>n. NoProcess \in PidProcess /\ NoProcess.is = "none"
  BY DEF NoProcess, PidProcess, Stages, PidRunningStat
<1>1. CASE UNCHANGED pidFileVars
  BY <1>1 DEF pidFileVars, PidFileInv, PidFileTypeOK, OneActs, SeenIsTrue, RunningIsNamed, Acting
<1>2. ASSUME NEW p \in Pids, Exits(p), UNCHANGED <<pidfile, overlapped>> PROVE PidFileInv'
  BY <1>2, <1>n, GoesAside DEF Exits
<1>3. ASSUME NEW p \in Pids, NEW stage \in {"other", "forked", "looked twice", "ending", "kill"},
             Continues(p, stage, "PID_NOTRUNNING"), UNCHANGED <<pidfile, overlapped>>
      PROVE  PidFileInv'
  <2>1. [is |-> stage, stat |-> "PID_NOTRUNNING"] \in PidProcess
    BY DEF PidProcess, Stages, PidRunningStat
  <2> QED
    BY <1>3, <2>1, GoesAside DEF Continues
<1>4. ASSUME NEW p \in Pids, Start(p) PROVE PidFileInv'
  BY <1>3, <1>4 DEF Start
<1>5. ASSUME NEW p \in Pids, LookAgain(p) PROVE PidFileInv'
  BY <1>2, <1>3, <1>5 DEF LookAgain
<1>6. ASSUME NEW p \in Pids, CreateLooks(p) PROVE PidFileInv'
  BY <1>2, <1>6, LooksKeeps DEF CreateLooks
<1>7. ASSUME NEW p \in Pids, CreateUnlinks(p) PROVE PidFileInv'
  BY <1>7, CreateUnlinksKeeps
<1>8. ASSUME NEW p \in Pids, CreateWrites(p) PROVE PidFileInv'
  BY <1>2, <1>8, CreateWritesKeeps DEF CreateWrites
<1>9. ASSUME NEW p \in Pids, RemovePidFile(p) PROVE PidFileInv'
  <2>1. [is |-> "ending", stat |-> "PID_NOTRUNNING"] \in PidProcess
    BY DEF PidProcess, Stages, PidRunningStat
  <2>2. ~overlapped => \A q \in Pids \ {p} : process[q].is # "running"
    BY <1>9 DEF RemovePidFile, PidFileInv, RunningIsNamed
  <2> QED
    BY <1>9, <2>1, <2>2, GoesAside DEF RemovePidFile, Continues
<1>10. ASSUME NEW p \in Pids, Exit(p) PROVE PidFileInv'
  BY <1>2, <1>10 DEF Exit
<1>11. ASSUME NEW p \in Pids, OtherProgram(p) PROVE PidFileInv'
  BY <1>3, <1>11 DEF OtherProgram
<1>12. ASSUME NEW p \in Pids, Kill(p) PROVE PidFileInv'
  BY <1>3, <1>12 DEF Kill
<1>13. ASSUME NEW p \in Pids, KillLooks(p) PROVE PidFileInv'
  BY <1>13, LooksKeeps DEF KillLooks
<1>14. ASSUME NEW p \in Pids, KillPidService(p) PROVE PidFileInv'
  <2>1. [is |-> "ending", stat |-> "PID_NOTRUNNING"] \in PidProcess
    BY DEF PidProcess, Stages, PidRunningStat
  <2>2. p \in Acting
    BY <1>14 DEF KillPidService, Acting
  <2>3. \/ UNCHANGED pidfile
        \/ /\ pidfile' = NoFile
           /\ ~overlapped => \A q \in Pids \ {p} : process[q].is # "running"
    BY <1>14, <2>2 DEF KillPidService, PidFileInv, SeenIsTrue
  <2> QED
    BY <1>14, <2>1, <2>3, GoesAside DEF KillPidService, Continues
<1> QED
  BY <1>1, <1>4, <1>5, <1>6, <1>7, <1>8, <1>9, <1>10, <1>11, <1>12, <1>13, <1>14
  DEF PidFileNext

-----------------------------------------------------------------------------

\* PidFileInv holds in every state.
LEMMA PidFileInvariance == PidFileSpec => []PidFileInv
  BY PidFileInitHolds, PidFileStepHolds, PTL DEF PidFileSpec

\* Every process is in a stage of the program, what it saw is an answer of
\* are_we_already_running, and nobody creates a pid file who saw another one run.
THEOREM PidFileTypeCorrect == PidFileSpec => []PidFileTypeOK
<1>1. PidFileInv => PidFileTypeOK
  BY DEF PidFileInv
<1> QED
  BY <1>1, PidFileInvariance, PTL

\* One nanoprobe runs at most, and the pid file that create_pid_file wrote names it, for
\* any number of processes that start, end, crash and are killed, as long as no two were
\* between looking at the file and acting on it at the same time.
THEOREM NamesTheOne == PidFileSpec => []PidFileNamesTheOne
<1>1. PidFileInv => PidFileNamesTheOne
  BY DEF PidFileInv, PidFileNamesTheOne, RunningIsNamed
<1> QED
  BY <1>1, PidFileInvariance, PTL

-----------------------------------------------------------------------------
\* Discovery by listening

CachedIsSent == switch.ids # NoIds => cmaKnown /\ sentIds = switch.ids

TextIsSent == arp.sentyet => cmaKnown /\ sentMap = arpText

\* The fields that the argument is about are there to be set.
CaptureHasFields ==
    /\ switch \in [is : BOOLEAN, protocols : SUBSET Protocols,
                   ids : {NoIds} \cup UNION {SwitchIds(p) : p \in LinkPackets}]
    /\ arp \in [is : BOOLEAN, timer : {"none", "first", "repeat"}, source : BOOLEAN,
                map : [IPs -> Macs \cup {NoMac}], sentyet : BOOLEAN]
    /\ cmaKnown \in BOOLEAN

CaptureInv == CaptureHasFields /\ CachedIsSent /\ TextIsSent /\ SwitchIsKnown

-----------------------------------------------------------------------------

\* What a discovery is that is not there
LEMMA NothingCaptured ==
    /\ NoSwitch \in [is : BOOLEAN, protocols : SUBSET Protocols,
                     ids : {NoIds} \cup UNION {SwitchIds(p) : p \in LinkPackets}]
    /\ NoArp \in [is : BOOLEAN, timer : {"none", "first", "repeat"}, source : BOOLEAN,
                  map : [IPs -> Macs \cup {NoMac}], sentyet : BOOLEAN]
    /\ NoSwitch.ids = NoIds /\ ~NoArp.sentyet
  BY DEF NoSwitch, NoArp, NoMap

\* Before anything was captured CaptureInv holds.
LEMMA CaptureInitHolds == CaptureInit => CaptureInv
  BY NothingCaptured DEF CaptureInit, CaptureInv, CaptureHasFields, CachedIsSent, TextIsSent, SwitchIsKnown

-----------------------------------------------------------------------------

\* A new discovery has no ids and has sent nothing, whether it stays or goes at once.
LEMMA StartSwitchKeeps ==
    ASSUME CaptureInv, NEW names \in SUBSET (Protocols \cup {"unknown"}), NEW opens \in BOOLEAN,
           StartSwitch(names, opens)
    PROVE  CaptureInv'
<1>1. Listens(SetProtocols(names), opens) \in SUBSET Protocols
  BY DEF Listens, SetProtocols
<1>2. switch' \in [is : BOOLEAN, protocols : SUBSET Protocols,
                   ids : {NoIds} \cup UNION {SwitchIds(p) : p \in LinkPackets}]
      /\ switch'.ids = NoIds
  BY <1>1, NothingCaptured DEF StartSwitch
<1> QED
  BY <1>2 DEF StartSwitch, CaptureInv, CaptureHasFields, CachedIsSent, TextIsSent, SwitchIsKnown

\* Starting the discovery of ARP forgets what was sent before.
LEMMA StartArpKeeps ==
    ASSUME CaptureInv, NEW opens \in BOOLEAN, StartArp(opens) PROVE CaptureInv'
<1>1. arp' \in [is : BOOLEAN, timer : {"none", "first", "repeat"}, source : BOOLEAN,
                map : [IPs -> Macs \cup {NoMac}], sentyet : BOOLEAN]
      /\ ~arp'.sentyet
  BY NothingCaptured DEF StartArp
<1> QED
  BY <1>1 DEF StartArp, CaptureInv, CaptureHasFields, CachedIsSent, TextIsSent, SwitchIsKnown

\* A discovery that stops has nothing cached.
LEMMA StopCaptureKeeps == ASSUME CaptureInv, StopCapture PROVE CaptureInv'
  BY NothingCaptured DEF StopCapture, CaptureInv, CaptureHasFields, CachedIsSent, TextIsSent, SwitchIsKnown

\* Nothing counts as sent before the CMA is known.
LEMMA KnowCmaKeeps == ASSUME CaptureInv, KnowCma PROVE CaptureInv'
  BY DEF KnowCma, CaptureInv, CaptureHasFields, CachedIsSent, TextIsSent, SwitchIsKnown

\* A packet of a switch is cached when it is sent.
LEMMA SwitchDispatchKeeps ==
    ASSUME CaptureInv, NEW p \in LinkPackets, SwitchDispatch(p) PROVE CaptureInv'
<1>1. PICK ids \in SwitchIds(p) :
         /\ switch' = IF cmaKnown THEN [switch EXCEPT !.ids = ids] ELSE switch
         /\ sentIds' = IF cmaKnown /\ IsNewSwitch(ids) THEN ids ELSE sentIds
         /\ heardIds' = IF cmaKnown THEN ids ELSE heardIds
  BY DEF SwitchDispatch
<1>2. UNCHANGED <<arp, arpText, cmaKnown, sentMap>>
  BY DEF SwitchDispatch
<1>3. ids # NoIds /\ ids \in UNION {SwitchIds(q) : q \in LinkPackets}
  BY <1>1, IdsAssumption
<1>4. CASE ~cmaKnown
  BY <1>1, <1>2, <1>4 DEF CaptureInv, CaptureHasFields, CachedIsSent, TextIsSent, SwitchIsKnown
<1>5. CASE cmaKnown
  <2>1. CaptureHasFields' /\ switch'.ids = ids
    BY <1>1, <1>2, <1>3, <1>5 DEF CaptureInv, CaptureHasFields
  <2>2. sentIds' = ids    \* if they are not new, they were sent
    BY <1>1, <1>3, <1>5 DEF CaptureInv, CachedIsSent, IsNewSwitch
  <2> QED
    BY <1>1, <1>2, <1>5, <2>1, <2>2 DEF CaptureInv, CachedIsSent, TextIsSent, SwitchIsKnown
<1> QED
  BY <1>4, <1>5 DEF CaptureInv, CaptureHasFields

\* A packet of ARP changes the map, not what was sent of it.
LEMMA ArpDispatchKeeps ==
    ASSUME CaptureInv, NEW ip \in IPs, NEW mac \in Macs, ArpDispatch(ip, mac) PROVE CaptureInv'
  BY DEF ArpDispatch, CaptureInv, CaptureHasFields, CachedIsSent, TextIsSent, SwitchIsKnown

\* The timer sends the map, unless the CMA has it.
LEMMA ArpTimerSends ==
    ASSUME CaptureInv, ArpTimer PROVE CaptureInv' /\ (cmaKnown => sentMap' = arp.map)
<1>1. SendArpCache /\ UNCHANGED <<switch, cmaKnown, sentIds, heardIds>>
  BY DEF ArpTimer, FirstDiscovery, GSourceFunc
<1>2. arp' \in [is : BOOLEAN, timer : {"none", "first", "repeat"}, source : BOOLEAN,
                map : [IPs -> Macs \cup {NoMac}], sentyet : BOOLEAN]
      /\ arp'.sentyet = (arp.sentyet \/ cmaKnown)
  BY <1>1 DEF SendArpCache, CaptureInv, CaptureHasFields
<1>3. CASE cmaKnown
  <2>1. arpText' = arp.map /\ sentMap' = arp.map
    BY <1>1, <1>3 DEF SendArpCache, IsNewMap, CaptureInv, TextIsSent
  <2> QED
    BY <1>1, <1>2, <1>3, <2>1 DEF CaptureInv, CaptureHasFields, CachedIsSent, TextIsSent, SwitchIsKnown
<1>4. CASE ~cmaKnown
  BY <1>1, <1>2, <1>4 DEF CaptureInv, CaptureHasFields, CachedIsSent, TextIsSent, SwitchIsKnown
<1> QED
  BY <1>3, <1>4

\* Each step keeps CaptureInv.
LEMMA CaptureStepHolds == CaptureInv /\ [CaptureNext]_captureVars => CaptureInv'
<1> SUFFICES ASSUME CaptureInv, [CaptureNext]_captureVars PROVE CaptureInv'
  OBVIOUS
<1>1. CASE UNCHANGED captureVars
  BY <1>1 DEF captureVars, CaptureInv, CaptureHasFields, CachedIsSent, TextIsSent, SwitchIsKnown
<1>2. CASE CaptureNext
  BY <1>2, StartSwitchKeeps, StartArpKeeps, StopCaptureKeeps, KnowCmaKeeps,
     SwitchDispatchKeeps, ArpDispatchKeeps, ArpTimerSends
  DEF CaptureNext
<1> QED
  BY <1>1, <1>2

\* CaptureInv holds in every state.
LEMMA CaptureInvariance == CaptureSpec => []CaptureInv
  BY CaptureInitHolds, CaptureStepHolds, PTL DEF CaptureSpec

-----------------------------------------------------------------------------

\* The CMA was sent the switch and port that a packet gave last, for any packets, in any
\* order, and however often the discovery was started anew.
THEOREM SwitchKnown == CaptureSpec => []SwitchIsKnown
<1>1. CaptureInv => SwitchIsKnown
  BY DEF CaptureInv
<1> QED
  BY <1>1, CaptureInvariance, PTL

\* Whenever the timer of _arpdiscovery_gsourcefunc runs and the CMA is known, the CMA
\* has the ARP map after it.
THEOREM ArpMapSent == CaptureSpec => ArpMapIsSent
<1>1. CaptureInv /\ [CaptureNext]_captureVars
      => [ArpTimer /\ cmaKnown => sentMap' = arp.map]_captureVars
  BY ArpTimerSends DEF captureVars
<1> QED
  BY <1>1, CaptureInvariance, PTL DEF CaptureSpec, ArpMapIsSent

\* A discovery that is not has nothing, and one of ARP that is has a timer.
ListensWhileItIs ==
    /\ switch.is \/ switch = NoSwitch
    /\ (arp.is <=> arp.timer # "none") /\ (arp.source => arp.is)

\* Capture is type correct.
THEOREM CaptureTypeCorrect == CaptureSpec => []CaptureTypeOK
<1>0. NoArp.timer = "none" /\ ~NoArp.is /\ ~NoArp.source
  BY DEF NoArp
<1>1. CaptureInit => ListensWhileItIs
  BY <1>0 DEF CaptureInit, ListensWhileItIs
<1>2. CaptureInv /\ ListensWhileItIs /\ [CaptureNext]_captureVars => ListensWhileItIs'
  <2> SUFFICES ASSUME CaptureInv, ListensWhileItIs, [CaptureNext]_captureVars
               PROVE  ListensWhileItIs'
    OBVIOUS
  <2>1. /\ switch = [is |-> switch.is, protocols |-> switch.protocols, ids |-> switch.ids]
        /\ arp = [is |-> arp.is, timer |-> arp.timer, source |-> arp.source, map |-> arp.map,
                  sentyet |-> arp.sentyet]
        /\ arp.is \in BOOLEAN /\ arp.source \in BOOLEAN
    BY DEF CaptureInv, CaptureHasFields
  <2>2. NoArp.timer = "none" /\ ~NoArp.is /\ ~NoArp.source /\ NoSwitch.protocols = {}
    BY DEF NoArp, NoSwitch
  <2>3. ASSUME NEW names \in SUBSET (Protocols \cup {"unknown"}), NEW opens \in BOOLEAN,
               StartSwitch(names, opens)
        PROVE  ListensWhileItIs'
    BY <2>3 DEF StartSwitch, ListensWhileItIs
  <2>4. ASSUME NEW opens \in BOOLEAN, StartArp(opens) PROVE ListensWhileItIs'
    BY <2>2, <2>4 DEF StartArp, NoArp, ListensWhileItIs
  <2>5. CASE StopCapture
    BY <1>0, <2>5 DEF StopCapture, ListensWhileItIs
  <2>6. CASE KnowCma
    BY <2>6 DEF KnowCma, ListensWhileItIs
  <2>7. ASSUME NEW p \in LinkPackets, SwitchDispatch(p) PROVE ListensWhileItIs'
    <3>1. switch.is /\ UNCHANGED arp
      BY <2>2, <2>7 DEF SwitchDispatch, ListensWhileItIs
    <3>2. switch'.is = switch.is
      BY <2>1, <2>7 DEF SwitchDispatch
    <3>3. QED
      BY <3>1, <3>2 DEF ListensWhileItIs
  <2>8. ASSUME NEW ip \in IPs, NEW mac \in Macs, ArpDispatch(ip, mac) PROVE ListensWhileItIs'
    <3>1. UNCHANGED switch /\ arp' = [arp EXCEPT !.map[ip] = mac]
      BY <2>8 DEF ArpDispatch
    <3>2. arp'.is = arp.is /\ arp'.timer = arp.timer /\ arp'.source = arp.source
      BY <2>1, <3>1
    <3>3. QED
      BY <3>1, <3>2 DEF ListensWhileItIs
  <2>9. CASE ArpTimer
    <3>1. /\ UNCHANGED switch /\ arp.timer # "none"
          /\ arp' = [arp EXCEPT !.timer = "repeat", !.sentyet = @ \/ cmaKnown]
      BY <2>9 DEF ArpTimer, FirstDiscovery, GSourceFunc, SendArpCache
    <3>2. arp'.is = arp.is /\ arp'.timer = "repeat" /\ arp'.source = arp.source
      BY <2>1, <3>1
    <3>3. arp.is
      BY <3>1 DEF ListensWhileItIs
    <3>4. QED
      BY <3>1, <3>2, <3>3 DEF ListensWhileItIs
  <2>10. CASE UNCHANGED captureVars
    BY <2>10 DEF captureVars, ListensWhileItIs
  <2>11. QED
    BY <2>3, <2>4, <2>5, <2>6, <2>7, <2>8, <2>9, <2>10 DEF CaptureNext
<1>3. CaptureInv /\ ListensWhileItIs => CaptureTypeOK
  <2>1. CaptureInv => arp.is \in BOOLEAN
    BY DEF CaptureInv, CaptureHasFields
  <2>2. CaptureInv /\ ListensWhileItIs => arp.is = (arp.timer # "none")
    BY <2>1 DEF ListensWhileItIs
  <2>3. QED
    BY <2>2 DEF CaptureInv, CaptureHasFields, CaptureTypeOK, ListensWhileItIs
<1> QED
  BY <1>1, <1>2, <1>3, CaptureInvariance, PTL DEF CaptureSpec

-----------------------------------------------------------------------------
\* All parts together

\* A behaviour of all the parts is a behaviour of each.
THEOREM PartsAreParts ==
    PartsSpec => /\ ResourceCmdSpec /\ CryptKeysSpec /\ NetIOSpec
                 /\ NetSocketSpec /\ CaptureSpec /\ PidFileSpec
<1> DEFINE allVars == <<part, resourceCmdVars, cryptKeysVars, netIOVars, netSocketVars,
                        captureVars, pidFileVars>>
<1>1. PartsInit => /\ ResourceCmdInit /\ CryptKeysInit /\ NetIOInit
                   /\ NetSocketInit /\ CaptureInit /\ PidFileInit
  BY DEF PartsInit
<1>2. ASSUME [PartsNext]_allVars
      PROVE  /\ [ResourceCmdNext]_resourceCmdVars /\ [CryptKeysNext]_cryptKeysVars
             /\ [NetIONext]_netIOVars /\ [NetSocketNext]_netSocketVars
             /\ [CaptureNext]_captureVars /\ [PidFileNext]_pidFileVars
  BY <1>2, Zenon DEF PartsNext
<1>3. QED
  BY <1>1, <1>2, PTL DEF PartsSpec, ResourceCmdSpec, CryptKeysSpec, NetIOSpec, NetSocketSpec,
                         CaptureSpec, PidFileSpec

\* All the parts are type correct (PartsTypeOK).
THEOREM PartsTypeCorrect == PartsSpec => []PartsTypeOK
<1>1. /\ ResourceCmdTypeOK /\ CryptKeysTypeOK /\ NetIOTypeOK
      /\ NetSocketTypeOK /\ CaptureTypeOK /\ PidFileTypeOK
      => PartsTypeOK
  BY DEF PartsTypeOK
<1>2. QED
  BY <1>1, PartsAreParts, CommandTypeCorrect, KeysTypeCorrect, NetIOTypes, NetSocketTypes,
     CaptureTypeCorrect, PidFileTypeCorrect, PTL
===============================================================================
