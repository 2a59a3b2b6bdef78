----------------------------- MODULE SetupProofs -----------------------------
(***************************************************************************)
(* What the setup of a board guarantees, for any key pairs, texts, lists   *)
(* and any size of the heap.                                               *)
(***************************************************************************)
EXTENDS SetupProperties, Base58Proofs

-----------------------------------------------------------------------------
(* The identity.  The DID is whatever the conversion made of a key.        *)

Keys == PublicKeys \cup {NoKey}

Dids == {<<>>} \cup {DidText(pubKey) : pubKey \in PublicKeys}

TakenClaims == {NoClaims} \cup {text \in Texts : TakesClaims(text)}

Fronts == [did : Dids, pubKey : Keys, claims : TakenClaims]

Identities ==
    [rngInitialized : BOOLEAN, keyInitialized : BOOLEAN, pair : Keys,
     pubKey : Keys, did : Dids, claims : TakenClaims, front : Fronts,
     sig : [by : Keys, over : Fronts],
     sigAt : {0} \cup {FrontLength(front) : front \in Fronts},
     vcLen : {0} \cup {FrontLength(front) + 2 + SSI_ED25519_SIG_SIZE :
                           front \in Fronts}]

LEMMA FrontTyped ==
    ASSUME NEW id \in Identities
    PROVE  Front(id) \in Fronts
BY DEF Identities, Fronts, Front

LEMMA InitializedTyped ==
    ASSUME NEW upTo \in {"nothing", "rng", "all"}
    PROVE  Initialized(upTo) \in Identities /\ Cleared \in Identities
<1>1. NoFront \in Fronts
  BY DEF NoFront, Fronts, Dids, Keys, TakenClaims
<1>2. NoSig \in [by : Keys, over : Fronts]
  BY <1>1 DEF NoSig, Keys
<1>3. Cleared \in Identities
  BY <1>1, <1>2 DEF Cleared, Identities, Keys, Dids, TakenClaims
<1>4. /\ (upTo \in {"rng", "all"}) \in BOOLEAN
      /\ (upTo = "all") \in BOOLEAN
  OBVIOUS
<1> DEFINE rng == upTo \in {"rng", "all"}
           key == upTo = "all"
<1>5. Initialized(upTo) =
          [Cleared EXCEPT !.rngInitialized = rng, !.keyInitialized = key]
  BY DEF Initialized
<1> HIDE DEF rng, key
<1>6. [Cleared EXCEPT !.rngInitialized = rng, !.keyInitialized = key]
          \in Identities
  <2>1. rng \in BOOLEAN /\ key \in BOOLEAN
    BY <1>4 DEF rng, key
  <2> QED
    BY <1>3, <2>1 DEF Identities
<1> QED
  BY <1>3, <1>5, <1>6

LEMMA GeneratedTyped ==
    ASSUME NEW id \in Identities, NEW pubKey \in PublicKeys
    PROVE  Generated(id, pubKey) \in Identities
BY DEF Generated, Identities, Keys, Dids

LEMMA GenerateFailedTyped ==
    ASSUME NEW id \in Identities
    PROVE  GenerateFailed(id) \in Identities
BY DEF GenerateFailed, Identities, Keys

LEMMA ClaimsTyped ==
    ASSUME NEW id \in Identities, NEW text \in Texts, TakesClaims(text)
    PROVE  [id EXCEPT !.claims = text] \in Identities
BY DEF Identities, TakenClaims

LEMMA CreatedTyped ==
    ASSUME NEW id \in Identities
    PROVE  Created(id) \in Identities /\ CreateFailed(id) \in Identities
<1>1. Front(id) \in Fronts
  BY FrontTyped
<1>2. CreateFailed(id) \in Identities
  BY <1>1 DEF CreateFailed, Identities
<1>3. [by |-> id.pair, over |-> Front(id)] \in [by : Keys, over : Fronts]
  BY <1>1 DEF Identities
<1> DEFINE at == FrontLength(Front(id))
<1>4. /\ at \in {0} \cup {FrontLength(front) : front \in Fronts}
      /\ at + 2 + SSI_ED25519_SIG_SIZE \in
             {0} \cup {FrontLength(front) + 2 + SSI_ED25519_SIG_SIZE :
                           front \in Fronts}
  BY <1>1
<1> HIDE DEF at
<1>5. Created(id) = [CreateFailed(id) EXCEPT
          !.sig = [by |-> id.pair, over |-> Front(id)], !.sigAt = at,
          !.vcLen = at + 2 + SSI_ED25519_SIG_SIZE]
  BY DEF Created, at
<1> QED
  BY <1>2, <1>3, <1>4, <1>5 DEF Identities

\* Every reachable identity is one of Identities: in particular no claims are
\* held, or lie in vcBuffer, that SSI_Identity_SetClaims did not take.
IdentityInv == identity \in Identities

THEOREM IdentityTyped == Spec => []IdentityInv
<1>1. Init => IdentityInv
  BY InitializedTyped DEF Init, IdentityInv
<1>2. IdentityInv /\ [Next]_vars => IdentityInv'
  <2> SUFFICES ASSUME identity \in Identities, [Next]_vars
               PROVE  identity' \in Identities
    BY DEF IdentityInv
  <2>1. CASE InitIdentity \/ FreeIdentity
    BY <2>1, InitializedTyped DEF InitIdentity, FreeIdentity
  <2>2. CASE Generate
    <3>1. CASE identity' = GenerateFailed(identity)
      BY <3>1, GenerateFailedTyped
    <3>2. CASE \E pubKey \in PublicKeys : identity' = Generated(identity, pubKey)
      BY <3>2, GeneratedTyped
    <3> QED
      BY <2>2, <3>1, <3>2 DEF Generate
  <2>3. CASE \E text \in Texts : SetClaims(text)
    BY <2>3, ClaimsTyped DEF SetClaims
  <2>4. CASE CreateVC
    BY <2>4, CreatedTyped DEF CreateVC
  <2>5. CASE UNCHANGED identity
    BY <2>5
  <2> QED
    BY <2>1, <2>2, <2>3, <2>4, <2>5
       DEF Next, vars, NewCtx, UseCertificate, SetServerList, SetClientList,
           SetCtxList, NewSession, UseVcBuffer, UseEd25519Key, Handshake,
           FreeSession, Crash
<1> QED
  BY <1>1, <1>2, PTL DEF Spec

-----------------------------------------------------------------------------
(* The DID and the key it names.                                           *)

\* A DID string holds the text of every key, and the text gives the key back:
\* Multicodec and a key are at most 34 bytes.
LEMMA DidTextIs ==
    ASSUME NEW pubKey \in PublicKeys
    PROVE  /\ DidText(pubKey) \in Seq(0 .. 57)
           /\ Len(DidText(pubKey)) < 64
           /\ Decode(DidText(pubKey), 64) = Multicodec \o pubKey
<1> DEFINE D == 0 .. 255
           raw == Multicodec \o pubKey
<1>1. /\ Multicodec \in Seq(D) /\ Len(Multicodec) = 2
      /\ pubKey \in Seq(D) /\ Len(pubKey) \in 1 .. 32
  BY SsiIdentityAssumption DEF Multicodec, SSI_ED25519_PUB_KEY_SIZE
<1> HIDE DEF D
<1>2. raw \in Seq(D) /\ Len(raw) = Len(Multicodec) + Len(pubKey)
  <2>1. Multicodec \in Seq(D) /\ pubKey \in Seq(D)
    BY <1>1
  <2> QED
    BY <2>1, Joined
<1> HIDE DEF raw
<1>3. Len(raw) \in Nat /\ Len(raw) <= 34
  <2> DEFINE n == Len(pubKey)
             m == Len(raw)
  <2>1. m = 2 + n /\ n \in 1 .. 32
    BY <1>1, <1>2
  <2> HIDE DEF n, m
  <2>2. m \in Nat /\ m <= 34
    BY <2>1
  <2> QED
    BY <2>2 DEF m
<1>4. /\ Encode(raw, 64) \in Seq(0 .. 57) /\ Len(Encode(raw, 64)) < 64
      /\ Encode(raw, 64) # Refused
  BY <1>2, <1>3, EncodeFits DEF D
<1>5. Len(raw) <= TempSize /\ Len(raw) <= 64 /\ 64 \in Nat
  BY <1>3 DEF TempSize
<1>6. Decode(Encode(raw, 64), 64) = raw
  BY <1>2, <1>4, <1>5, DecodeEncode DEF D
<1>7. DidText(pubKey) = Encode(raw, 64)
  BY DEF DidText, raw
<1> QED
  BY <1>4, <1>6, <1>7 DEF raw

Names(did, pubKey) == pubKey \in PublicKeys /\ did = DidText(pubKey)

\* Where there is a DID it is that of the key beside it, in the identity as in
\* vcBuffer.
DidInv ==
    /\ identity.did # <<>> => Names(identity.did, identity.pubKey)
    /\ identity.front # NoFront =>
           Names(identity.front.did, identity.front.pubKey)

LEMMA DidInvNext ==
    ASSUME IdentityInv, DidInv, [Next]_vars
    PROVE  DidInv'
<1>1. identity \in Identities
  BY DEF IdentityInv
<1>2. CASE InitIdentity \/ FreeIdentity
  <2>1. \/ identity' = Cleared
        \/ \E upTo \in {"nothing", "rng", "all"} : identity' = Initialized(upTo)
    BY <1>2 DEF InitIdentity, FreeIdentity
  <2>2. ASSUME NEW upTo
        PROVE  /\ Initialized(upTo).did = Cleared.did
               /\ Initialized(upTo).front = Cleared.front
    BY DEF Initialized, Cleared
  <2>3. identity'.did = <<>> /\ identity'.front = NoFront
    BY <2>1, <2>2 DEF Cleared
  <2> QED
    BY <2>3 DEF DidInv
<1>3. CASE Generate
  <2>1. CASE identity' = GenerateFailed(identity)
    <3>1. /\ identity'.pubKey = identity.pubKey
          /\ identity'.did = identity.did /\ identity'.front = identity.front
      BY <1>1, <2>1 DEF GenerateFailed, Identities
    <3> QED
      BY <3>1 DEF DidInv
  <2>2. CASE \E pubKey \in PublicKeys : identity' = Generated(identity, pubKey)
    <3>1. PICK pubKey \in PublicKeys : identity' = Generated(identity, pubKey)
      BY <2>2
    <3>2. /\ identity'.pubKey = pubKey /\ identity'.did = DidText(pubKey)
          /\ identity'.front = identity.front
      BY <1>1, <3>1 DEF Generated, Identities
    <3> QED
      BY <3>2 DEF DidInv, Names
  <2> QED
    BY <1>3, <2>1, <2>2 DEF Generate
<1>4. CASE \E text \in Texts : SetClaims(text)
  <2>1. PICK text \in Texts : \/ identity' = identity
                              \/ identity' = [identity EXCEPT !.claims = text]
    BY <1>4 DEF SetClaims
  <2>2. /\ identity'.pubKey = identity.pubKey /\ identity'.did = identity.did
        /\ identity'.front = identity.front
    BY <1>1, <2>1 DEF Identities
  <2> QED
    BY <2>2 DEF DidInv
<1>5. CASE CreateVC
  <2>1. /\ MayCreateVC(identity)
        /\ identity' = Created(identity) \/ identity' = CreateFailed(identity)
    BY <1>5 DEF CreateVC
  <2>2. /\ identity'.pubKey = identity.pubKey /\ identity'.did = identity.did
        /\ identity'.front = Front(identity)
    BY <1>1, <2>1 DEF Created, CreateFailed, Identities
  <2>3. Names(identity.did, identity.pubKey)
    BY <2>1 DEF DidInv, MayCreateVC
  <2> QED
    BY <2>2, <2>3 DEF DidInv, Front
<1>6. CASE UNCHANGED identity
  BY <1>6 DEF DidInv
<1> QED
  BY <1>2, <1>3, <1>4, <1>5, <1>6
     DEF Next, vars, NewCtx, UseCertificate, SetServerList, SetClientList,
         SetCtxList, NewSession, UseVcBuffer, UseEd25519Key, Handshake,
         FreeSession, Crash

\* Whatever failed on the way, whoever reads the DID in vcBuffer finds the key
\* behind it.
THEOREM DidNamesItsKey == Spec => []DidNamesKey
<1>1. Init => DidInv
  BY DEF Init, Cleared, DidInv
<1>2. IdentityInv /\ DidInv /\ [Next]_vars => DidInv'
  BY DidInvNext
<1>3. DidInv => DidNamesKey
  BY DidTextIs DEF DidInv, Names, DidNamesKey
<1> QED
  BY <1>1, <1>2, <1>3, IdentityTyped, PTL DEF Spec

-----------------------------------------------------------------------------
(* The claims.                                                             *)

LEMMA TakenLength ==
    ASSUME NEW claims \in TakenClaims
    PROVE  ClaimsLength(claims) \in 0 .. 255
<1>1. ASSUME NEW text \in Texts, TakesClaims(text)
      PROVE  TextLength[text] \in 0 .. 255
  <2>1. TextLength \in [Texts -> Nat \ {0}]
    BY SsiIdentityAssumption
  <2>2. TextLength[text] \in Nat /\ TextLength[text] < 256
    BY <1>1, <2>1 DEF TakesClaims, SSI_VC_CLAIMS_MAX
  <2> QED
    BY <2>2
<1> QED
  BY <1>1 DEF TakenClaims, ClaimsLength

\* SSI_Identity_CreateVC never writes past vcBuffer, whatever texts an
\* application tries to claim.
THEOREM CredentialFits == Spec => []VcFits
<1>1. IdentityInv => VcFits
  <2> SUFFICES ASSUME identity \in Identities
               PROVE  ClaimsLength(identity.front.claims) \in 0 .. 255
    BY DEF VcFits, IdentityInv, SSI_ED25519_SIG_SIZE, SSI_VC_MAX_SIZE
  <2>1. identity.front.claims \in TakenClaims
    BY DEF Identities, Fronts
  <2> QED
    BY <2>1, TakenLength
<1> QED
  BY <1>1, IdentityTyped, PTL

-----------------------------------------------------------------------------
(* Memory: what a cell of the heap holds, and who points to it.            *)

IsHeap(mem) == mem = [c \in Cells |-> mem[c]]

LEMMA Kinds ==
    /\ Unused.use = "unused" /\ X509Cert.use = "cert" /\ X509Key.use = "key"
    /\ \A vc : VcCert(vc).use = "cert" /\ VcCert(vc).vc = vc
    /\ \A pair : /\ DerKey(pair).use = "key" /\ DerKey(pair).pair = pair
                 /\ HsKey(pair).use = "hsKey" /\ HsKey(pair).pair = pair
BY DEF Unused, X509Cert, X509Key, VcCert, DerKey, HsKey

LEMMA CellsAre == Cells \subseteq Nat /\ NULL \notin Cells /\ Pointers = Cells \cup {NULL}
BY SessionSetupAssumption DEF Cells, NULL, Pointers

LEMMA FreedIs ==
    ASSUME NEW mem, IsHeap(mem), NEW pointer \in Pointers
    PROVE  /\ IsHeap(Freed(mem, pointer))
           /\ \A c \in Cells : Freed(mem, pointer)[c] =
                                   IF c = pointer THEN Unused ELSE mem[c]
BY CellsAre DEF IsHeap, Freed

LEMMA FilledIs ==
    ASSUME NEW mem, IsHeap(mem), NEW cell \in Cells, NEW content
    PROVE  /\ IsHeap([mem EXCEPT ![cell] = content])
           /\ \A c \in Cells : [mem EXCEPT ![cell] = content][c] =
                                   IF c = cell THEN content ELSE mem[c]
BY DEF IsHeap

LEMMA RoomIs ==
    ASSUME NEW mem, Room(mem) # {}
    PROVE  OneOf(Room(mem)) \in Cells /\ mem[OneOf(Room(mem))] = Unused
BY DEF Room, OneOf

-----------------------------------------------------------------------------
(* Preference lists.                                                       *)

LEMMA SetCertTypeTyped ==
    ASSUME NEW list \in PreferenceCells,
           NEW buf \in Seq({"X509", "RPK", "VC", "other"})
    PROVE  SetCertType(list, buf) \in PreferenceCells /\ DefaultList \in PreferenceCells
<1> DEFINE known   == {i \in DOMAIN buf : \A j \in 1 .. i : buf[j] \in CertTypes}
           written == [i \in 1 .. 2 |-> IF i \in known THEN buf[i]
                                        ELSE list.types[i]]
<1>1. DefaultList \in PreferenceCells
  BY DEF DefaultList, PreferenceCells, CertTypes, Negotiation!CertTypes
<1>2. written \in [1 .. 2 -> CertTypes]
  <2> SUFFICES ASSUME NEW i \in 1 .. 2
               PROVE  (IF i \in known THEN buf[i] ELSE list.types[i]) \in CertTypes
    OBVIOUS
  <2>1. i \in 1 .. i
    OBVIOUS
  <2> QED
    BY <2>1 DEF PreferenceCells
<1> HIDE DEF written
<1>3. CASE buf = <<>> \/ Len(buf) > 2 \/ ~IsUnique(buf)
  BY <1>1, <1>3 DEF SetCertType
<1>4. CASE ~(buf = <<>> \/ Len(buf) > 2 \/ ~IsUnique(buf))
  <2> DEFINE S == {"X509", "RPK", "VC", "other"}
  <2> HIDE DEF S
  <2>1. Len(buf) \in 1 .. 2
    <3>1. buf \in Seq(S)
      BY DEF S
    <3>2. Len(buf) \in Nat \ {0}
      BY <1>4, <3>1, EmptySeq
    <3>3. ~(Len(buf) > 2)
      BY <1>4, Zenon
    <3>4. \A n \in Nat \ {0} : n > 2 \/ n \in 1 .. 2
      OBVIOUS
    <3> QED
      BY <3>2, <3>3, <3>4, Zenon
  <2>2. SetCertType(list, buf) =
            [cnt   |-> IF known = DOMAIN buf THEN Len(buf) ELSE list.cnt,
             types |-> written]
    BY <1>4 DEF SetCertType, written
  <2>3. list.cnt \in 1 .. 2
    BY DEF PreferenceCells
  <2> HIDE DEF known
  <2> QED
    BY <1>1, <1>2, <2>1, <2>2, <2>3 DEF PreferenceCells
<1> QED
  BY <1>3, <1>4

-----------------------------------------------------------------------------
(* The invariant of contexts and sessions, when no session of a context    *)
(* with an X.509 certificate loads a VC.                                   *)

Contexts ==
    [made : {TRUE}, srv : PreferenceCells, clt : PreferenceCells,
     cert : Pointers, key : Pointers]

Sessions ==
    [made : {TRUE}, srv : PreferenceCells, clt : PreferenceCells,
     cert : Pointers, ownCert : BOOLEAN, key : Pointers, ownKey : BOOLEAN,
     hsKey : Pointers, vcMode : BOOLEAN, tried : BOOLEAN, finished : BOOLEAN,
     rekeyed : BOOLEAN]

SetupTyped ==
    /\ side \in {"client", "server"}
    /\ IsHeap(heap)
    /\ ctx = NoObject \/ ctx \in Contexts
    /\ ssl = NoObject \/ ssl \in Sessions

\* A context holds a certificate and its key, or neither.
CtxHolds ==
    ctx.made => \/ ctx.cert = NULL /\ ctx.key = NULL
                \/ /\ ctx.cert \in Cells /\ heap[ctx.cert] = X509Cert
                   /\ ctx.key \in Cells /\ heap[ctx.key] = X509Key

\* A session shares both with its context and owns nothing.
Shares ==
    /\ ssl.cert = ctx.cert /\ ssl.key = ctx.key /\ ssl.hsKey = NULL
    /\ ~ssl.ownCert /\ ~ssl.ownKey /\ ~ssl.vcMode

\* Or it owns all it has, and that is the identity's.
Owns ==
    /\ ssl.cert # NULL =>
           ssl.ownCert /\ heap[ssl.cert] = VcCert(Bytes(identity))
    /\ ssl.key # NULL => ssl.ownKey /\ heap[ssl.key] = DerKey(identity.pair)
    /\ ssl.hsKey # NULL => heap[ssl.hsKey] = HsKey(identity.pair)

SslHolds ==
    ssl.made => ctx.made /\ IF ctx.cert = NULL THEN Owns ELSE Shares

SetupInv ==
    /\ SetupTyped
    /\ CtxHolds
    /\ SslHolds
    /\ OnlyKeptKeysLeak

LEMMA SetupInvInit == Init => SetupInv
BY CellsAre
   DEF Init, SetupInv, SetupTyped, IsHeap, NoObject, CtxHolds, SslHolds,
       OnlyKeptKeysLeak

\* Calls that only the identity or the lists notice.
LEMMA SetupInvElsewhere ==
    ASSUME SetupInv, UNCHANGED <<side, heap, ssl>>,
           ssl.made => UNCHANGED identity,
           ctx' \in {ctx} \cup
               {[ctx EXCEPT !.srv = list] : list \in PreferenceCells} \cup
               {[ctx EXCEPT !.clt = list] : list \in PreferenceCells},
           ctx' = ctx \/ ctx.made
    PROVE  SetupInv'
<1>1. SetupTyped'
  BY DEF SetupInv, SetupTyped, Contexts, NoObject, IsHeap
<1>2. /\ ctx'.made = ctx.made
      /\ ctx.made => ctx'.cert = ctx.cert /\ ctx'.key = ctx.key
  BY DEF SetupInv, SetupTyped, Contexts, NoObject
<1>3. CtxHolds'
  BY <1>2 DEF SetupInv, CtxHolds
<1>4. SslHolds'
  BY <1>2 DEF SetupInv, SslHolds, Owns, Shares, Bytes
<1>5. OnlyKeptKeysLeak'
  BY <1>2 DEF SetupInv, OnlyKeptKeysLeak, Reached
<1> QED
  BY <1>1, <1>3, <1>4, <1>5 DEF SetupInv

\* A heap in which only what the session owns has changed, and nothing it
\* dropped was left allocated.
LEMMA SetupInvSession ==
    ASSUME SetupInv, ssl.made, UNCHANGED <<side, identity, ctx>>,
           IsHeap(heap'), ssl' \in Sessions,
           IF ctx.cert = NULL THEN Owns' ELSE Shares',
           \A c \in Cells : heap'[c] # heap[c] =>
               \/ c \in {ssl.cert, ssl.key, ssl.hsKey} /\ ctx.cert = NULL
               \/ heap[c] = Unused,
           \A c \in Cells : heap'[c] # Unused /\ heap[c] = Unused =>
               c \in {ssl'.cert, ssl'.key, ssl'.hsKey},
           \A c \in {ssl.cert, ssl.key, ssl.hsKey} \ {NULL} : heap'[c] # Unused =>
               c \in {ssl'.cert, ssl'.key, ssl'.hsKey}
    PROVE  SetupInv'
<1>1. ssl'.made /\ ctx.made /\ ctx'.made
  BY DEF Sessions, SetupInv, SslHolds
<1>2. SetupTyped'
  BY DEF SetupInv, SetupTyped
<1>3. CtxHolds'
  <2>1. CASE ctx.cert = NULL
    BY <2>1, CellsAre DEF SetupInv, CtxHolds
  <2>2. CASE ctx.cert # NULL
    BY <2>2, <1>1, Kinds DEF SetupInv, CtxHolds
  <2> QED
    BY <2>1, <2>2
<1>4. SslHolds'
  BY <1>1 DEF SslHolds
<1>5. OnlyKeptKeysLeak'
  <2> SUFFICES ASSUME NEW c \in Cells \ Reached', heap'[c] # Unused
               PROVE  side = "client" /\ heap'[c].use = "hsKey"
    BY DEF OnlyKeptKeysLeak
  <2>1. c \notin {ssl'.cert, ssl'.key, ssl'.hsKey} /\ c \notin {ctx.cert, ctx.key}
    BY <1>1 DEF Reached
  <2>2. heap[c] # Unused /\ c \notin {ssl.cert, ssl.key, ssl.hsKey}
    BY <2>1, CellsAre
  <2>3. heap'[c] = heap[c]
    BY <2>2
  <2>4. c \in Cells \ Reached
    BY <1>1, <2>1, <2>2 DEF Reached
  <2> QED
    BY <2>2, <2>3, <2>4 DEF SetupInv, OnlyKeptKeysLeak
<1> QED
  BY <1>2, <1>3, <1>4, <1>5 DEF SetupInv

\* Where a session may load something it owns all it has.
LEMMA Loads ==
    ASSUME ~Mixing, SetupInv, MayLoad
    PROVE  /\ ssl \in Sessions /\ ssl.made /\ ctx.cert = NULL /\ Owns /\ IsHeap(heap)
           /\ \A p \in {ssl.cert, ssl.key, ssl.hsKey} : p \in Pointers
           /\ ssl.cert # NULL => heap[ssl.cert].use = "cert"
           /\ ssl.key # NULL => heap[ssl.key].use = "key"
           /\ ssl.hsKey # NULL => heap[ssl.hsKey].use = "hsKey"
<1>1. ssl \in Sessions /\ ssl.made /\ ctx.cert = NULL /\ Owns /\ IsHeap(heap)
  BY DEF MayLoad, SetupInv, SetupTyped, SslHolds, NoObject
<1>2. \A p \in {ssl.cert, ssl.key, ssl.hsKey} : p \in Pointers
  BY <1>1 DEF Sessions
<1>3. /\ ssl.cert # NULL => heap[ssl.cert] = VcCert(Bytes(identity))
      /\ ssl.key # NULL => heap[ssl.key] = DerKey(identity.pair)
      /\ ssl.hsKey # NULL => heap[ssl.hsKey] = HsKey(identity.pair)
  BY <1>1 DEF Owns
<1>4. /\ ssl.cert # NULL => heap[ssl.cert].use = "cert"
      /\ ssl.key # NULL => heap[ssl.key].use = "key"
      /\ ssl.hsKey # NULL => heap[ssl.hsKey].use = "hsKey"
  BY <1>3, Kinds
<1> QED
  BY <1>1, <1>2, <1>4

LEMMA UseVcBufferKeeps ==
    ASSUME ~Mixing, SetupInv, UseVcBuffer
    PROVE  SetupInv'
<1> DEFINE rest == Freed(heap, ssl.cert)
<1>1. /\ ssl \in Sessions /\ ssl.made /\ ctx.cert = NULL /\ Owns /\ IsHeap(heap)
      /\ ssl.cert \in Pointers /\ ssl.key \in Pointers /\ ssl.hsKey \in Pointers
      /\ ssl.cert # NULL => heap[ssl.cert].use = "cert"
      /\ ssl.key # NULL => heap[ssl.key].use = "key"
      /\ ssl.hsKey # NULL => heap[ssl.hsKey].use = "hsKey"
  BY Loads DEF UseVcBuffer
<1>2. /\ IsHeap(rest)
      /\ \A c \in Cells : rest[c] = IF c = ssl.cert THEN Unused ELSE heap[c]
  BY <1>1, FreedIs
<1>3. UNCHANGED <<side, identity, ctx>>
  BY DEF UseVcBuffer
<1> HIDE DEF rest
<1>4. CASE UNCHANGED <<heap, ssl>>
  <2>1. Owns'
    BY <1>1, <1>3, <1>4 DEF Owns, Bytes
  <2> QED
    BY <1>1, <1>3, <1>4, <2>1, SetupInvSession
<1>5. CASE heap' = rest /\ ssl' = [ssl EXCEPT !.cert = NULL]
  <2>1. ssl' \in Sessions
    BY <1>1, <1>5, CellsAre DEF Sessions
  <2>2. /\ ssl'.cert = NULL /\ ssl'.key = ssl.key /\ ssl'.hsKey = ssl.hsKey
        /\ ssl'.ownKey = ssl.ownKey
    BY <1>1, <1>5 DEF Sessions
  <2>3. Owns'
    BY <1>1, <1>2, <1>3, <1>5, <2>2, CellsAre DEF Owns
  <2>4. \A c \in Cells : heap'[c] # heap[c] => c = ssl.cert
    BY <1>2, <1>5
  <2>5. \A c \in Cells : heap'[c] # Unused => heap[c] = heap'[c]
    BY <1>2, <1>5
  <2>6. ssl.cert # NULL => heap'[ssl.cert] = Unused
    BY <1>1, <1>2, <1>5, CellsAre
  <2> QED
    BY <1>1, <1>2, <1>3, <1>5, <2>1, <2>2, <2>3, <2>4, <2>5, <2>6, SetupInvSession
<1>6. CASE /\ Room(rest) # {}
           /\ \E c \in {OneOf(Room(rest))} :
                  /\ heap' = [rest EXCEPT ![c] = VcCert(Bytes(identity))]
                  /\ ssl' = [ssl EXCEPT !.cert = c, !.ownCert = TRUE,
                                        !.vcMode = TRUE]
  <2>1. PICK c \in Cells :
            /\ rest[c] = Unused
            /\ heap' = [rest EXCEPT ![c] = VcCert(Bytes(identity))]
            /\ ssl' = [ssl EXCEPT !.cert = c, !.ownCert = TRUE, !.vcMode = TRUE]
    BY <1>6, RoomIs
  <2>2. /\ IsHeap(heap')
        /\ \A d \in Cells : heap'[d] = IF d = c THEN VcCert(Bytes(identity))
                                       ELSE rest[d]
    <3>1. /\ IsHeap([rest EXCEPT ![c] = VcCert(Bytes(identity))])
          /\ \A d \in Cells : [rest EXCEPT ![c] = VcCert(Bytes(identity))][d] =
                 IF d = c THEN VcCert(Bytes(identity)) ELSE rest[d]
      BY <1>2, FilledIs
    <3> QED
      BY <2>1, <3>1
  <2>3. ssl' \in Sessions
    BY <1>1, <2>1, CellsAre DEF Sessions
  <2>4. /\ ssl'.cert = c /\ ssl'.ownCert /\ ssl'.key = ssl.key
        /\ ssl'.hsKey = ssl.hsKey /\ ssl'.ownKey = ssl.ownKey
    BY <1>1, <2>1 DEF Sessions
  <2>5. c = ssl.cert \/ heap[c] = Unused
    BY <1>2, <2>1
  <2>6. /\ ssl.key # NULL => heap'[ssl.key] = heap[ssl.key]
        /\ ssl.hsKey # NULL => heap'[ssl.hsKey] = heap[ssl.hsKey]
    BY <1>1, <1>2, <2>2, <2>5, CellsAre, Kinds
  <2>7. Owns'
    BY <1>1, <1>3, <2>2, <2>4, <2>6, CellsAre DEF Owns, Bytes
  <2>8. \A d \in Cells : heap'[d] # heap[d] => d = ssl.cert \/ heap[d] = Unused
    BY <1>2, <2>2, <2>5
  <2>9. \A d \in Cells : heap'[d] # Unused /\ heap[d] = Unused => d = ssl'.cert
    BY <1>2, <2>2, <2>4
  <2>10. ssl.cert # NULL /\ heap'[ssl.cert] # Unused => ssl.cert = ssl'.cert
    BY <1>1, <1>2, <2>2, <2>4, CellsAre
  <2> QED
    BY <1>1, <1>3, <2>2, <2>3, <2>4, <2>7, <2>8, <2>9, <2>10, SetupInvSession
<1> QED
  BY <1>4, <1>5, <1>6 DEF UseVcBuffer, rest

LEMMA UseEd25519KeyKeeps ==
    ASSUME ~Mixing, SetupInv, UseEd25519Key
    PROVE  SetupInv'
<1> DEFINE bare == Freed(heap, ssl.hsKey)
           h    == OneOf(Room(bare))
           hs   == [bare EXCEPT ![h] = HsKey(identity.pair)]
           held == Freed(hs, ssl.key)
           k    == OneOf(Room(held))
           full == [held EXCEPT ![k] = DerKey(identity.pair)]
<1>1. /\ ssl \in Sessions /\ ssl.made /\ ctx.cert = NULL /\ Owns /\ IsHeap(heap)
      /\ ssl.cert \in Pointers /\ ssl.key \in Pointers /\ ssl.hsKey \in Pointers
      /\ ssl.cert # NULL => heap[ssl.cert].use = "cert"
      /\ ssl.key # NULL => heap[ssl.key].use = "key"
      /\ ssl.hsKey # NULL => heap[ssl.hsKey].use = "hsKey"
  BY Loads DEF UseEd25519Key
<1>2. /\ IsHeap(bare)
      /\ \A c \in Cells : bare[c] = IF c = ssl.hsKey THEN Unused ELSE heap[c]
  BY <1>1, FreedIs
<1>3. UNCHANGED <<side, identity, ctx>>
  BY DEF UseEd25519Key
<1>4. Room(bare) # {} => h \in Cells /\ bare[h] = Unused
  BY RoomIs
<1>5. Room(bare) # {} =>
          /\ IsHeap(hs)
          /\ \A c \in Cells : hs[c] = IF c = h THEN HsKey(identity.pair) ELSE bare[c]
  BY <1>2, <1>4, FilledIs
<1>6. Room(bare) # {} =>
          /\ IsHeap(held)
          /\ \A c \in Cells : held[c] = IF c = ssl.key THEN Unused ELSE hs[c]
  BY <1>1, <1>5, FreedIs
<1>7. Room(held) # {} => k \in Cells /\ held[k] = Unused
  BY RoomIs
<1>8. Room(bare) # {} /\ Room(held) # {} =>
          /\ IsHeap(full)
          /\ \A c \in Cells : full[c] = IF c = k THEN DerKey(identity.pair) ELSE held[c]
  BY <1>6, <1>7, FilledIs
<1>9. \/ heap' = bare /\ ssl' = [ssl EXCEPT !.hsKey = NULL]
      \/ /\ Room(bare) # {} /\ heap' = held
         /\ ssl' = [ssl EXCEPT !.hsKey = h, !.key = NULL,
                               !.rekeyed = ssl.ownKey]
      \/ /\ Room(bare) # {} /\ Room(held) # {} /\ heap' = full
         /\ ssl' = [ssl EXCEPT !.hsKey = h, !.key = k, !.ownKey = TRUE,
                               !.rekeyed = ssl.ownKey]
  BY DEF UseEd25519Key
\* The cells of the session differ from each other and from those handed out.
<1>10. Room(bare) # {} =>
           /\ h # ssl.key /\ h # ssl.cert
           /\ h = ssl.hsKey \/ heap[h] = Unused
  BY <1>1, <1>2, <1>4, Kinds, CellsAre
<1>11. Room(bare) # {} /\ Room(held) # {} =>
           /\ k # h /\ k # ssl.cert
           /\ k \in {ssl.key, ssl.hsKey} \/ heap[k] = Unused
  BY <1>1, <1>2, <1>4, <1>5, <1>6, <1>7, Kinds, CellsAre
<1> HIDE DEF bare, h, hs, held, k, full
<1>12. CASE heap' = bare /\ ssl' = [ssl EXCEPT !.hsKey = NULL]
  <2>1. ssl' \in Sessions
    BY <1>1, <1>12, CellsAre DEF Sessions
  <2>2. /\ ssl'.cert = ssl.cert /\ ssl'.key = ssl.key /\ ssl'.hsKey = NULL
        /\ ssl'.ownKey = ssl.ownKey /\ ssl'.ownCert = ssl.ownCert
    BY <1>1, <1>12 DEF Sessions
  <2>3. /\ ssl.key # NULL => heap'[ssl.key] = heap[ssl.key]
        /\ ssl.cert # NULL => heap'[ssl.cert] = heap[ssl.cert]
    BY <1>1, <1>2, <1>12, CellsAre
  <2>4. Owns'
    BY <1>1, <1>3, <2>2, <2>3 DEF Owns, Bytes
  <2>5. \A c \in Cells : heap'[c] # heap[c] => c = ssl.hsKey /\ heap'[c] = Unused
    BY <1>2, <1>12
  <2>6. ssl.hsKey # NULL => heap'[ssl.hsKey] = Unused
    BY <1>1, <1>2, <1>12, CellsAre
  <2> QED
    BY <1>1, <1>2, <1>3, <1>12, <2>1, <2>2, <2>4, <2>5, <2>6, SetupInvSession
<1>13. CASE /\ Room(bare) # {} /\ heap' = held
            /\ ssl' = [ssl EXCEPT !.hsKey = h, !.key = NULL,
                                  !.rekeyed = ssl.ownKey]
  <2>1. ssl' \in Sessions
    BY <1>1, <1>4, <1>13, CellsAre DEF Sessions
  <2>2. /\ ssl'.cert = ssl.cert /\ ssl'.key = NULL /\ ssl'.hsKey = h
        /\ ssl'.ownKey = ssl.ownKey /\ ssl'.ownCert = ssl.ownCert
    BY <1>1, <1>13 DEF Sessions
  <2>3. \A c \in Cells : heap'[c] = IF c = ssl.key THEN Unused
                                    ELSE IF c = h THEN HsKey(identity.pair)
                                    ELSE IF c = ssl.hsKey THEN Unused ELSE heap[c]
    BY <1>2, <1>5, <1>6, <1>13
  <2>4. /\ ssl.cert # NULL => heap'[ssl.cert] = heap[ssl.cert]
        /\ heap'[h] = HsKey(identity.pair)
    BY <1>1, <1>4, <1>10, <1>13, <2>3, CellsAre
  <2>5. Owns'
    BY <1>1, <1>3, <2>2, <2>4 DEF Owns, Bytes
  <2>6. \A c \in Cells : heap'[c] # heap[c] =>
            c \in {ssl.key, ssl.hsKey} \/ heap[c] = Unused
    BY <1>10, <1>13, <2>3
  <2>7. \A c \in Cells : heap'[c] # Unused /\ heap[c] = Unused => c = h
    BY <2>3
  <2>8. \A c \in {ssl.key, ssl.hsKey} \ {NULL} : heap'[c] # Unused => c = h
    BY <1>1, <2>3, CellsAre
  <2> QED
    BY <1>1, <1>3, <1>6, <1>13, <2>1, <2>2, <2>5, <2>6, <2>7, <2>8, SetupInvSession
<1>14. CASE /\ Room(bare) # {} /\ Room(held) # {} /\ heap' = full
            /\ ssl' = [ssl EXCEPT !.hsKey = h, !.key = k, !.ownKey = TRUE,
                                  !.rekeyed = ssl.ownKey]
  <2>1. ssl' \in Sessions
    BY <1>1, <1>4, <1>7, <1>14, CellsAre DEF Sessions
  <2>2. /\ ssl'.cert = ssl.cert /\ ssl'.key = k /\ ssl'.hsKey = h
        /\ ssl'.ownKey /\ ssl'.ownCert = ssl.ownCert
    BY <1>1, <1>14 DEF Sessions
  <2>3. \A c \in Cells : heap'[c] = IF c = k THEN DerKey(identity.pair)
                                    ELSE IF c = ssl.key THEN Unused
                                    ELSE IF c = h THEN HsKey(identity.pair)
                                    ELSE IF c = ssl.hsKey THEN Unused ELSE heap[c]
    BY <1>2, <1>5, <1>6, <1>8, <1>14
  <2>4. /\ ssl.cert # NULL => heap'[ssl.cert] = heap[ssl.cert]
        /\ heap'[h] = HsKey(identity.pair)
        /\ heap'[k] = DerKey(identity.pair)
    BY <1>1, <1>4, <1>7, <1>10, <1>11, <1>14, <2>3, CellsAre
  <2>5. Owns'
    BY <1>1, <1>3, <2>2, <2>4 DEF Owns, Bytes
  <2>6. \A c \in Cells : heap'[c] # heap[c] =>
            c \in {ssl.key, ssl.hsKey} \/ heap[c] = Unused
    BY <1>10, <1>11, <1>14, <2>3
  <2>7. \A c \in Cells : heap'[c] # Unused /\ heap[c] = Unused => c \in {h, k}
    BY <2>3
  <2>8. \A c \in {ssl.key, ssl.hsKey} \ {NULL} : heap'[c] # Unused => c \in {h, k}
    BY <1>1, <2>3, CellsAre
  <2> QED
    BY <1>1, <1>3, <1>8, <1>14, <2>1, <2>2, <2>5, <2>6, <2>7, <2>8, SetupInvSession
<1> QED
  BY <1>9, <1>12, <1>13, <1>14

LEMMA HandshakeKeeps ==
    ASSUME SetupInv, Handshake
    PROVE  SetupInv'
<1>1. /\ ssl \in Sessions /\ ssl.made /\ IsHeap(heap) /\ ssl.hsKey \in Pointers
      /\ IF ctx.cert = NULL THEN Owns ELSE Shares
  <2>1. ssl \in Sessions /\ ssl.made /\ IsHeap(heap)
    BY DEF Handshake, SetupInv, SetupTyped, NoObject
  <2>2. ssl.hsKey \in Pointers
    BY <2>1 DEF Sessions
  <2>3. IF ctx.cert = NULL THEN Owns ELSE Shares
    BY <2>1 DEF SetupInv, SslHolds
  <2> QED
    BY <2>1, <2>2, <2>3, Zenon
<1>2. UNCHANGED <<side, identity, ctx>>
  BY DEF Handshake
<1>3. PICK after \in AfterHandshake :
          ssl' = [after.ssl EXCEPT !.tried = TRUE] /\ heap' = after.heap
  BY DEF Handshake
<1>4. CASE \E f \in BOOLEAN :
               after = [ssl |-> [ssl EXCEPT !.finished = f], heap |-> heap]
  <2>1. PICK f \in BOOLEAN :
            after = [ssl |-> [ssl EXCEPT !.finished = f], heap |-> heap]
    BY <1>4
  <2>2. ssl' \in Sessions /\ heap' = heap
    BY <1>1, <1>3, <2>1 DEF Sessions
  <2>3. /\ ssl'.cert = ssl.cert /\ ssl'.key = ssl.key /\ ssl'.hsKey = ssl.hsKey
        /\ ssl'.ownKey = ssl.ownKey /\ ssl'.ownCert = ssl.ownCert
        /\ ssl'.vcMode = ssl.vcMode
    BY <1>1, <1>3, <2>1 DEF Sessions
  <2>4. IF ctx.cert = NULL THEN Owns' ELSE Shares'
    BY <1>1, <1>2, <2>2, <2>3 DEF Owns, Shares, Bytes
  <2> QED
    BY <1>1, <1>2, <2>2, <2>3, <2>4, SetupInvSession
<1>5. CASE after = [ssl |-> [ssl EXCEPT !.finished = TRUE, !.hsKey = NULL],
                    heap |-> Freed(heap, ssl.hsKey)]
  <2>1. ssl' \in Sessions /\ heap' = Freed(heap, ssl.hsKey)
    BY <1>1, <1>3, <1>5, CellsAre DEF Sessions
  <2>2. /\ ssl'.cert = ssl.cert /\ ssl'.key = ssl.key /\ ssl'.hsKey = NULL
        /\ ssl'.ownKey = ssl.ownKey /\ ssl'.ownCert = ssl.ownCert
        /\ ssl'.vcMode = ssl.vcMode
    BY <1>1, <1>3, <1>5 DEF Sessions
  <2>3. /\ IsHeap(heap')
        /\ \A c \in Cells : heap'[c] = IF c = ssl.hsKey THEN Unused ELSE heap[c]
    BY <1>1, <2>1, FreedIs
  <2>4. CASE ctx.cert # NULL
    <3>1. Shares /\ Shares'
      BY <1>1, <1>2, <2>2, <2>4 DEF Shares
    <3>2. ssl.hsKey = NULL
      BY <3>1 DEF Shares
    <3> QED
      BY <1>1, <1>2, <2>1, <2>2, <2>3, <2>4, <3>1, <3>2, CellsAre, SetupInvSession
  <2>5. CASE ctx.cert = NULL
    <3>1. /\ ssl.cert # NULL => ssl.cert # ssl.hsKey
          /\ ssl.key # NULL => ssl.key # ssl.hsKey
      <4>1. /\ ssl.cert # NULL => heap[ssl.cert] = VcCert(Bytes(identity))
            /\ ssl.key # NULL => heap[ssl.key] = DerKey(identity.pair)
            /\ ssl.hsKey # NULL => heap[ssl.hsKey] = HsKey(identity.pair)
        BY <1>1, <2>5 DEF Owns
      <4> QED
        BY <4>1, Kinds
    <3>2. /\ ssl.cert # NULL => heap'[ssl.cert] = heap[ssl.cert]
          /\ ssl.key # NULL => heap'[ssl.key] = heap[ssl.key]
      BY <1>1, <2>3, <3>1, CellsAre DEF Sessions
    <3>3. Owns'
      BY <1>1, <1>2, <2>2, <2>5, <3>2 DEF Owns, Bytes
    <3>4. \A c \in Cells : heap'[c] # heap[c] => c = ssl.hsKey /\ heap'[c] = Unused
      BY <2>3
    <3>5. ssl.hsKey # NULL => heap'[ssl.hsKey] = Unused
      BY <1>1, <2>3, CellsAre
    <3> QED
      BY <1>1, <1>2, <2>1, <2>2, <2>3, <2>5, <3>3, <3>4, <3>5, SetupInvSession
  <2> QED
    BY <2>4, <2>5
<1> QED
  BY <1>3, <1>4, <1>5 DEF AfterHandshake

LEMMA FreeSessionKeeps ==
    ASSUME SetupInv, FreeSession
    PROVE  SetupInv'
<1> DEFINE unkeyed == IF Kept THEN heap ELSE Freed(heap, ssl.hsKey)
           uncert  == IF ssl.ownCert THEN Freed(unkeyed, ssl.cert) ELSE unkeyed
<1>1. ssl \in Sessions /\ ssl.made /\ ctx.made /\ IsHeap(heap)
  BY DEF FreeSession, SetupInv, SetupTyped, SslHolds, NoObject
<1>2. ssl.cert \in Pointers /\ ssl.key \in Pointers /\ ssl.hsKey \in Pointers
  BY <1>1 DEF Sessions
<1>3. IF ctx.cert = NULL THEN Owns ELSE Shares
  BY <1>1 DEF SetupInv, SslHolds
<1>4. /\ UNCHANGED <<side, identity, ctx>> /\ ssl' = NoObject
      /\ heap' = IF ssl.ownKey THEN Freed(uncert, ssl.key) ELSE uncert
  BY DEF FreeSession
<1>5. SslHolds' /\ ~ssl'.made
  BY <1>4 DEF SslHolds, NoObject
\* What is freed, cell by cell.
<1>6. /\ IsHeap(unkeyed)
      /\ \A c \in Cells : unkeyed[c] = IF ~Kept /\ c = ssl.hsKey THEN Unused
                                       ELSE heap[c]
  BY <1>1, <1>2, FreedIs
<1>7. /\ IsHeap(uncert)
      /\ \A c \in Cells : uncert[c] = IF ssl.ownCert /\ c = ssl.cert THEN Unused
                                      ELSE unkeyed[c]
  <2> HIDE DEF unkeyed
  <2> QED
    BY <1>2, <1>6, FreedIs
<1>8. /\ IsHeap(heap')
      /\ \A c \in Cells : heap'[c] = IF ssl.ownKey /\ c = ssl.key THEN Unused
                                     ELSE uncert[c]
  <2> HIDE DEF uncert
  <2> QED
    BY <1>2, <1>4, <1>7, FreedIs
<1> HIDE DEF unkeyed, uncert
<1>9. SetupTyped'
  BY <1>4, <1>8 DEF SetupInv, SetupTyped
<1>10. CASE ctx.cert # NULL
  <2>1. ~ssl.ownCert /\ ~ssl.ownKey /\ ssl.hsKey = NULL
    BY <1>3, <1>10 DEF Shares
  <2>2. \A c \in Cells : heap'[c] = heap[c]
    BY <1>6, <1>7, <1>8, <2>1, CellsAre
  <2>3. CtxHolds'
    BY <1>4, <2>2 DEF SetupInv, CtxHolds
  <2>4. OnlyKeptKeysLeak'
    <3>1. Reached' \cup {NULL} = Reached \cup {NULL}
      BY <1>1, <1>3, <1>4, <1>5, <1>10, <2>1 DEF Reached, Shares
    <3>2. Cells \ Reached' = Cells \ Reached
      BY <3>1, CellsAre
    <3> QED
      BY <1>4, <2>2, <3>2 DEF SetupInv, OnlyKeptKeysLeak
  <2> QED
    BY <1>5, <1>9, <2>3, <2>4 DEF SetupInv
<1>11. CASE ctx.cert = NULL
  <2>1. /\ ssl.cert # NULL => ssl.ownCert
        /\ ssl.key # NULL => ssl.ownKey
        /\ ssl.hsKey # NULL => heap[ssl.hsKey].use = "hsKey"
    BY <1>3, <1>11, Kinds DEF Owns
  <2>2. ctx.cert = NULL /\ ctx.key = NULL
    BY <1>1, <1>11, CellsAre DEF SetupInv, CtxHolds
  <2>3. CtxHolds'
    BY <1>4, <2>2 DEF CtxHolds
  <2>4. OnlyKeptKeysLeak'
    <3> SUFFICES ASSUME NEW c \in Cells, heap'[c] # Unused
                 PROVE  side = "client" /\ heap'[c].use = "hsKey"
      BY <1>4 DEF OnlyKeptKeysLeak
    <3>1. c # ssl.key /\ c # ssl.cert /\ heap'[c] = heap[c]
      BY <1>6, <1>7, <1>8, <2>1, CellsAre
    <3>2. c = ssl.hsKey => Kept
      BY <1>6, <1>7, <1>8
    <3>3. CASE c = ssl.hsKey
      BY <2>1, <3>1, <3>2, <3>3, CellsAre DEF Kept
    <3>4. CASE c # ssl.hsKey
      <4>1. c \in Cells \ Reached
        BY <1>1, <2>2, <3>1, <3>4, CellsAre DEF Reached
      <4> QED
        BY <3>1, <4>1 DEF SetupInv, OnlyKeptKeysLeak
    <3> QED
      BY <3>3, <3>4
  <2> QED
    BY <1>5, <1>9, <2>3, <2>4 DEF SetupInv
<1> QED
  BY <1>10, <1>11

LEMMA NewSessionKeeps ==
    ASSUME SetupInv, NewSession
    PROVE  SetupInv'
<1>1. /\ ctx \in Contexts /\ ctx.made /\ ~ssl.made
      /\ UNCHANGED <<side, identity, heap, ctx>> /\ ssl' = FromCtx
  BY DEF NewSession, SetupInv, SetupTyped, NoObject
<1>2. ssl' \in Sessions
  BY <1>1, CellsAre DEF FromCtx, Sessions, Contexts
<1>3. /\ ssl'.cert = ctx.cert /\ ssl'.key = ctx.key /\ ssl'.hsKey = NULL
      /\ ~ssl'.ownCert /\ ~ssl'.ownKey /\ ~ssl'.vcMode
  BY <1>1 DEF FromCtx
<1>4. SetupTyped'
  BY <1>1, <1>2 DEF SetupInv, SetupTyped
<1>5. CtxHolds'
  BY <1>1 DEF SetupInv, CtxHolds
<1>6. ctx.cert = NULL => ctx.key = NULL
  BY <1>1, CellsAre DEF SetupInv, CtxHolds
<1>7. SslHolds'
  BY <1>1, <1>3, <1>6 DEF SslHolds, Owns, Shares
<1>8. OnlyKeptKeysLeak'
  <2>1. Cells \ Reached' \subseteq Cells \ Reached
    BY <1>1 DEF Reached
  <2> QED
    BY <1>1, <2>1 DEF SetupInv, OnlyKeptKeysLeak
<1> QED
  BY <1>4, <1>5, <1>7, <1>8 DEF SetupInv

LEMMA NewCtxKeeps ==
    ASSUME SetupInv, NewCtx
    PROVE  SetupInv'
<1> DEFINE new == [made |-> TRUE, srv |-> DefaultList, clt |-> DefaultList,
                   cert |-> NULL, key |-> NULL]
<1>1. UNCHANGED <<side, identity, heap, ssl>> /\ ~ctx.made
  BY DEF NewCtx
<1>2. CASE ctx' = ctx
  BY <1>1, <1>2, SetupInvElsewhere
<1>3. CASE ctx' = new
  <2>1. DefaultList \in PreferenceCells
    BY DEF DefaultList, PreferenceCells, CertTypes, Negotiation!CertTypes
  <2>2. ctx' \in Contexts /\ ctx'.cert = NULL /\ ctx'.key = NULL
    BY <1>3, <2>1, CellsAre DEF Contexts
  <2>3. ~ssl.made
    BY <1>1 DEF SetupInv, SslHolds
  <2>4. SetupTyped'
    BY <1>1, <2>2 DEF SetupInv, SetupTyped
  <2>5. CtxHolds' /\ SslHolds'
    BY <1>1, <2>2, <2>3 DEF CtxHolds, SslHolds
  <2>6. OnlyKeptKeysLeak'
    <3>1. Cells \ Reached' \subseteq Cells \ Reached
      BY <1>1, <2>3 DEF Reached
    <3> QED
      BY <1>1, <3>1 DEF SetupInv, OnlyKeptKeysLeak
  <2> QED
    BY <2>4, <2>5, <2>6 DEF SetupInv
<1> QED
  BY <1>2, <1>3 DEF NewCtx

LEMMA UseCertificateKeeps ==
    ASSUME SetupInv, UseCertificate
    PROVE  SetupInv'
<1> DEFINE c == OneOf(Room(heap))
           k == OneOf(Room(heap) \ {c})
           one == [heap EXCEPT ![c] = X509Cert]
<1>1. /\ ctx \in Contexts /\ ctx.made /\ ctx.cert = NULL /\ ~ssl.made
      /\ IsHeap(heap) /\ UNCHANGED <<side, identity, ssl>>
  BY DEF UseCertificate, SetupInv, SetupTyped, NoObject
<1>2. /\ Room(heap) # {} /\ Room(heap) \ {c} # {}
      /\ heap' = [heap EXCEPT ![c] = X509Cert, ![k] = X509Key]
      /\ ctx' = [ctx EXCEPT !.cert = c, !.key = k]
  BY DEF UseCertificate
<1>3. /\ c \in Cells /\ heap[c] = Unused
      /\ k \in Cells /\ heap[k] = Unused /\ k # c
  <2>1. k \in Room(heap) \ {c}
    BY <1>2 DEF OneOf
  <2> QED
    BY <1>2, <2>1, RoomIs DEF Room
<1>4. heap' = [one EXCEPT ![k] = X509Key]
  BY <1>2
<1> HIDE DEF c, k
<1>5. /\ IsHeap(heap')
      /\ \A d \in Cells : heap'[d] = IF d = k THEN X509Key
                                     ELSE IF d = c THEN X509Cert ELSE heap[d]
  <2>1. /\ IsHeap(one)
        /\ \A d \in Cells : one[d] = IF d = c THEN X509Cert ELSE heap[d]
    BY <1>1, <1>3, FilledIs
  <2> HIDE DEF one
  <2>2. /\ IsHeap([one EXCEPT ![k] = X509Key])
        /\ \A d \in Cells : [one EXCEPT ![k] = X509Key][d] =
                                 IF d = k THEN X509Key ELSE one[d]
    BY <1>3, <2>1, FilledIs
  <2> QED
    BY <1>4, <2>1, <2>2
<1>6. ctx' \in Contexts /\ ctx'.made /\ ctx'.cert = c /\ ctx'.key = k
  BY <1>1, <1>2, <1>3, CellsAre DEF Contexts
<1>7. SetupTyped'
  BY <1>1, <1>5, <1>6 DEF SetupInv, SetupTyped
<1>8. CtxHolds' /\ SslHolds'
  BY <1>1, <1>3, <1>5, <1>6 DEF CtxHolds, SslHolds
<1>9. OnlyKeptKeysLeak'
  <2> SUFFICES ASSUME NEW d \in Cells \ Reached', heap'[d] # Unused
               PROVE  side = "client" /\ heap'[d].use = "hsKey"
    BY <1>1 DEF OnlyKeptKeysLeak
  <2>1. d # c /\ d # k
    BY <1>6 DEF Reached
  <2>2. ctx.key = NULL
    BY <1>1, CellsAre DEF SetupInv, CtxHolds
  <2>3. d \in Cells \ Reached
    BY <1>1, <2>2, CellsAre DEF Reached
  <2> QED
    BY <1>5, <2>1, <2>3 DEF SetupInv, OnlyKeptKeysLeak
<1> QED
  BY <1>7, <1>8, <1>9 DEF SetupInv

LEMMA SetListKeeps ==
    ASSUME SetupInv, UNCHANGED <<side, identity, heap, ssl>>, ctx.made,
           NEW buf \in Seq({"X509", "RPK", "VC", "other"}),
           \/ ctx' = [ctx EXCEPT !.srv = SetCertType(@, buf)]
           \/ ctx' = [ctx EXCEPT !.clt = SetCertType(@, buf)]
    PROVE  SetupInv'
<1>1. ctx.srv \in PreferenceCells /\ ctx.clt \in PreferenceCells
  <2>1. ctx \in Contexts
    BY DEF SetupInv, SetupTyped, NoObject
  <2> QED
    BY <2>1 DEF Contexts
<1>2. /\ SetCertType(ctx.srv, buf) \in PreferenceCells
      /\ SetCertType(ctx.clt, buf) \in PreferenceCells
  BY <1>1, SetCertTypeTyped
<1> DEFINE srv == SetCertType(ctx.srv, buf)
           clt == SetCertType(ctx.clt, buf)
<1>3. ctx' = [ctx EXCEPT !.srv = srv] \/ ctx' = [ctx EXCEPT !.clt = clt]
  OBVIOUS
<1> HIDE DEF srv, clt
<1>4. ctx' \in {ctx} \cup
           {[ctx EXCEPT !.srv = list] : list \in PreferenceCells} \cup
           {[ctx EXCEPT !.clt = list] : list \in PreferenceCells}
  <2>1. srv \in PreferenceCells /\ clt \in PreferenceCells
    BY <1>2 DEF srv, clt
  <2>2. CASE ctx' = [ctx EXCEPT !.srv = srv]
    BY <2>1, <2>2, Zenon
  <2>3. CASE ctx' = [ctx EXCEPT !.clt = clt]
    BY <2>1, <2>3, Zenon
  <2> QED
    BY <1>3, <2>2, <2>3
<1> QED
  BY <1>4, SetupInvElsewhere

\* A sketch sets its lists in a context it has.
SketchHasCtx == place \in {"serverList", "clientList"} => ctx.made

\* Inductive: no call, whether it succeeds or fails half way, takes a session
\* from owning all it has, or sharing it with its context, to something else.
THEOREM SetupInvariant ==
    ASSUME ~Mixing
    PROVE  Spec => []SetupInv /\ []SketchHasCtx
<1>1. Init => SetupInv
  BY SetupInvInit
<1>2. SetupInv /\ SketchHasCtx /\ [Next]_vars => SetupInv'
  <2> SUFFICES ASSUME SetupInv, SketchHasCtx, [Next]_vars
               PROVE  SetupInv'
    OBVIOUS
  <2> USE SetupInvElsewhere
  <2>1. CASE InitIdentity
    BY <2>1 DEF InitIdentity
  <2>2. CASE FreeIdentity
    BY <2>2 DEF FreeIdentity
  <2>3. CASE Generate
    BY <2>3 DEF Generate
  <2>4. CASE CreateVC
    BY <2>4 DEF CreateVC
  <2>5. CASE \E text \in Texts : SetClaims(text)
    BY <2>5 DEF SetClaims
  <2>6. CASE NewCtx
    BY <2>6, NewCtxKeeps
  <2>7. CASE UseCertificate
    BY <2>7, UseCertificateKeeps
  <2>8. <<"VC", "X509">> \in Seq({"X509", "RPK", "VC", "other"})
    OBVIOUS
  <2>9. CASE UNCHANGED <<side, identity, heap, ssl>> /\ UNCHANGED ctx
    BY <2>9
  <2>10. CASE SetServerList
    BY <2>8, <2>10, SetListKeeps DEF SetServerList, SketchHasCtx
  <2>11. CASE SetClientList
    BY <2>8, <2>11, SetListKeeps DEF SetClientList, SketchHasCtx
  <2>12. CASE \E buf \in Buffers : SetCtxList(buf)
    <3>1. PICK buf \in Buffers : SetCtxList(buf)
      BY <2>12
    <3>2. buf \in Seq({"X509", "RPK", "VC", "other"})
      BY SessionSetupAssumption
    <3> QED
      BY <3>1, <3>2, SetListKeeps DEF SetCtxList
  <2>13. CASE NewSession
    BY <2>13, NewSessionKeeps
  <2>14. CASE UseVcBuffer
    BY <2>14, UseVcBufferKeeps
  <2>15. CASE UseEd25519Key
    BY <2>15, UseEd25519KeyKeeps
  <2>16. CASE Handshake
    BY <2>16, HandshakeKeeps
  <2>17. CASE FreeSession
    BY <2>17, FreeSessionKeeps
  <2>18. CASE Crash
    BY <2>18 DEF Crash
  <2> QED
    BY <2>1, <2>2, <2>3, <2>4, <2>5, <2>6, <2>7, <2>9, <2>10, <2>11, <2>12,
       <2>13, <2>14, <2>15, <2>16, <2>17, <2>18 DEF Next, vars
<1>3. Init => SketchHasCtx
  BY DEF Init, SketchHasCtx
<1>4. SetupInv /\ SketchHasCtx /\ [Next]_vars => SketchHasCtx'
  <2> SUFFICES ASSUME SetupInv, SketchHasCtx, [Next]_vars,
                      place' \in {"serverList", "clientList"}
               PROVE  ctx'.made
    BY DEF SketchHasCtx
  <2> USE DEF Goto, At, Free
  <2>1. CASE NewCtx
    BY <2>1 DEF NewCtx
  <2>2. CASE SetServerList
    <3>1. ctx \in Contexts
      BY <2>2 DEF SetServerList, SketchHasCtx, SetupInv, SetupTyped, NoObject
    <3> QED
      BY <2>2, <3>1 DEF SetServerList, Contexts
  <2>3. CASE UNCHANGED <<place, ctx>>
    BY <2>3 DEF SketchHasCtx
  <2>4. CASE place' \notin {"serverList", "clientList"}
    BY <2>4
  <2> QED
    BY <2>1, <2>2, <2>3, <2>4
       DEF Next, vars, InitIdentity, FreeIdentity, Generate, SetClaims, CreateVC,
           UseCertificate, SetClientList, SetCtxList, NewSession, UseVcBuffer,
           UseEd25519Key, Handshake, FreeSession, Crash
<1> QED
  BY <1>1, <1>2, <1>3, <1>4, PTL DEF Spec

\* Only where a key was loaded over one of the session's own is a key missing;
\* a sketch loads into a session that owns none.
LoadedOver ==
    /\ ssl.made /\ place \in {"loadVc", "loadKey"} => ~ssl.ownKey
    /\ ssl.made /\ KeyMissing => ssl.rekeyed
    /\ ssl.made /\ ssl.rekeyed => place \in {"any", "crashed"}
    /\ place = "crashed" => ssl.made /\ ssl.rekeyed

LEMMA LoadedOverNext ==
    ASSUME SetupInv, LoadedOver, [Next]_vars
    PROVE  LoadedOver'
<1> USE DEF At, Goto, Free, LoadedOver, KeyMissing
<1>1. CASE InitIdentity \/ FreeIdentity \/ Generate \/ CreateVC
  BY <1>1 DEF InitIdentity, FreeIdentity, Generate, CreateVC
<1>2. CASE \E text \in Texts : SetClaims(text)
  BY <1>2 DEF SetClaims
<1>3. CASE NewCtx \/ UseCertificate \/ SetServerList \/ SetClientList
  BY <1>3 DEF NewCtx, UseCertificate, SetServerList, SetClientList
<1>4. CASE \E buf \in Buffers : SetCtxList(buf)
  BY <1>4 DEF SetCtxList
<1>5. CASE NewSession
  <2>1. ssl'.made /\ ~ssl'.ownKey /\ ~ssl'.rekeyed
    BY <1>5 DEF NewSession, FromCtx
  <2> QED
    BY <1>5, <2>1 DEF NewSession
<1>6. CASE UseVcBuffer
  <2>1. ssl \in Sessions /\ ssl.made
    BY <1>6 DEF UseVcBuffer, MayLoad, SetupInv, SetupTyped, NoObject
  <2>2. /\ ssl'.made /\ ssl'.key = ssl.key /\ ssl'.ownKey = ssl.ownKey
        /\ ssl'.rekeyed = ssl.rekeyed
    BY <1>6, <2>1 DEF UseVcBuffer, Sessions
  <2> QED
    BY <1>6, <2>1, <2>2 DEF UseVcBuffer
<1>7. CASE UseEd25519Key
  <2>1. ssl \in Sessions /\ ssl.made
    BY <1>7 DEF UseEd25519Key, MayLoad, SetupInv, SetupTyped, NoObject
  <2>2. \/ ssl' = [ssl EXCEPT !.hsKey = NULL]
        \/ \E h \in Cells : ssl' = [ssl EXCEPT !.hsKey = h, !.key = NULL,
                                               !.rekeyed = ssl.ownKey]
        \/ \E h, k \in Cells :
               ssl' = [ssl EXCEPT !.hsKey = h, !.key = k, !.ownKey = TRUE,
                                  !.rekeyed = ssl.ownKey]
    BY <1>7, RoomIs DEF UseEd25519Key
  <2>3. /\ ssl'.made
        /\ \/ /\ ssl'.key = ssl.key /\ ssl'.ownKey = ssl.ownKey
              /\ ssl'.rekeyed = ssl.rekeyed
           \/ ssl'.ownKey = ssl.ownKey /\ ssl'.rekeyed = ssl.ownKey
           \/ ssl'.key \in Cells /\ ssl'.rekeyed = ssl.ownKey
    BY <2>1, <2>2 DEF Sessions
  <2>4. \/ place = "any" /\ place' = "any"
        \/ place = "loadKey" /\ place' = "handshake"
    BY <1>7 DEF UseEd25519Key
  <2> QED
    BY <2>1, <2>3, <2>4, CellsAre
<1>8. CASE Handshake
  <2>1. ssl \in Sessions /\ ssl.made
    BY <1>8 DEF Handshake, SetupInv, SetupTyped, NoObject
  <2>2. PICK after \in AfterHandshake : ssl' = [after.ssl EXCEPT !.tried = TRUE]
    BY <1>8 DEF Handshake
  <2>3. /\ ssl'.made /\ ssl'.key = ssl.key /\ ssl'.ownKey = ssl.ownKey
        /\ ssl'.rekeyed = ssl.rekeyed
    <3>1. CASE \E f \in BOOLEAN :
                   after = [ssl |-> [ssl EXCEPT !.finished = f], heap |-> heap]
      BY <2>1, <2>2, <3>1 DEF Sessions
    <3>2. CASE after = [ssl |-> [ssl EXCEPT !.finished = TRUE, !.hsKey = NULL],
                        heap |-> Freed(heap, ssl.hsKey)]
      BY <2>1, <2>2, <3>2 DEF Sessions
    <3> QED
      BY <2>2, <3>1, <3>2 DEF AfterHandshake
  <2> QED
    BY <1>8, <2>1, <2>3 DEF Handshake
<1>9. CASE FreeSession
  BY <1>9 DEF FreeSession, NoObject
<1>10. CASE Crash
  BY <1>10 DEF Crash
<1>11. CASE UNCHANGED vars
  BY <1>11 DEF vars
<1> QED
  BY <1>1, <1>2, <1>3, <1>4, <1>5, <1>6, <1>7, <1>8, <1>9, <1>10, <1>11 DEF Next

LEMMA LoadedOverAlways ==
    ASSUME ~Mixing
    PROVE  Spec => []LoadedOver
<1>1. Init => LoadedOver
  BY DEF Init, NoObject, LoadedOver
<1>2. SetupInv /\ LoadedOver /\ [Next]_vars => LoadedOver'
  BY LoadedOverNext
<1> QED
  BY <1>1, <1>2, SetupInvariant, PTL DEF Spec

\* No pointer of a session leads to freed memory, or to memory that holds
\* something else by now; and a board that follows a missing one has loaded a
\* key over another.
THEOREM PointersStayLive ==
    ASSUME ~Mixing
    PROVE  Spec => []PointersLive
<1>1. SetupInv /\ LoadedOver => PointersLive
  <2> SUFFICES ASSUME SetupInv, LoadedOver, ssl.made
               PROVE  /\ ssl.cert # NULL => heap[ssl.cert].use = "cert"
                      /\ ssl.key # NULL => heap[ssl.key].use = "key"
                      /\ ssl.hsKey # NULL => heap[ssl.hsKey].use = "hsKey"
    BY DEF PointersLive, LoadedOver
  <2>1. ctx.made /\ IF ctx.cert = NULL THEN Owns ELSE Shares
    BY DEF SetupInv, SslHolds
  <2>2. CASE ctx.cert = NULL
    BY <2>1, <2>2, Kinds DEF Owns
  <2>3. CASE ctx.cert # NULL
    <3>1. heap[ctx.cert] = X509Cert /\ heap[ctx.key] = X509Key
      BY <2>1, <2>3 DEF SetupInv, CtxHolds
    <3> QED
      BY <2>1, <2>3, <3>1, Kinds DEF Shares
  <2> QED
    BY <2>2, <2>3
<1> QED
  BY <1>1, SetupInvariant, LoadedOverAlways, PTL

\* No sketch follows a missing key, though it looks at the result of neither
\* of the calls that load its credential: it loads once into each session.
THEOREM SketchesNeverCrash ==
    ASSUME ~Mixing, Programs = {"sketch"}
    PROVE  Spec => []NeverCrashes
<1> DEFINE Sketch == place \notin {"any", "crashed"}
<1>1. Init => Sketch
  BY DEF Init
<1>2. SetupInv /\ LoadedOver /\ Sketch /\ [Next]_vars => Sketch'
  BY DEF LoadedOver, At, Goto, Free, Next, vars, InitIdentity, FreeIdentity,
         Generate, SetClaims, CreateVC, NewCtx, UseCertificate, SetServerList,
         SetClientList, SetCtxList, NewSession, UseVcBuffer, UseEd25519Key,
         Handshake, FreeSession, Crash
<1>3. Sketch => NeverCrashes
  BY DEF NeverCrashes
<1> QED
  BY <1>1, <1>2, <1>3, SetupInvariant, LoadedOverAlways, PTL DEF Spec

\* Whatever fails and however often it is retried, all that is ever left
\* behind are keys that a client kept for a handshake which ended too early.
THEOREM OnlyKeptKeysAreLost ==
    ASSUME ~Mixing
    PROVE  Spec => []OnlyKeptKeysLeak
<1>1. SetupInv => OnlyKeptKeysLeak
  BY DEF SetupInv
<1> QED
  BY <1>1, SetupInvariant, PTL

\* What was loaded into a context stays there, whatever its sessions do.
THEOREM CtxKeepsItsOwn ==
    ASSUME ~Mixing
    PROVE  Spec => []CtxStillOwns
<1>1. SetupInv => CtxStillOwns
  BY DEF SetupInv, CtxHolds, CtxStillOwns
<1> QED
  BY <1>1, SetupInvariant, PTL

-----------------------------------------------------------------------------
(* The credential a session shows.                                         *)

\* The public key and the DID are those of the last key pair that was made.
KeyInv ==
    /\ identity.pair \in {NoKey, identity.pubKey}
    /\ identity.did \in {<<>>, DidText(identity.pubKey)}

\* What vcBuffer holds once SSI_Identity_CreateVC returned 0.
Sealed ==
    /\ identity.pair \in PublicKeys
    /\ identity.front.pubKey = identity.pair
    /\ identity.front.did = DidText(identity.pair)
    /\ identity.sig = [by |-> identity.pair, over |-> identity.front]
    /\ identity.sigAt = FrontLength(identity.front)
    /\ identity.vcLen = FrontLength(identity.front) + 2 + SSI_ED25519_SIG_SIZE

SealedInv == KeyInv /\ (sealed => Sealed)

LEMMA CreatedSeals ==
    ASSUME IdentityInv, KeyInv, MayCreateVC(identity), identity.pair # NoKey,
           identity' = Created(identity)
    PROVE  KeyInv' /\ Sealed'
<1> DEFINE front == Front(identity)
           sig   == [by |-> identity.pair, over |-> front]
           at    == FrontLength(front)
<1>1. identity \in Identities
  BY DEF IdentityInv
<1>2. identity' = [identity EXCEPT !.front = front, !.sig = sig, !.sigAt = at,
                                   !.vcLen = at + 2 + SSI_ED25519_SIG_SIZE]
  BY DEF Created, CreateFailed
<1> HIDE DEF front, sig, at
<1>3. /\ identity'.pair = identity.pair /\ identity'.pubKey = identity.pubKey
      /\ identity'.did = identity.did /\ identity'.front = front
      /\ identity'.sig = sig /\ identity'.sigAt = at
      /\ identity'.vcLen = at + 2 + SSI_ED25519_SIG_SIZE
  BY <1>1, <1>2 DEF Identities
<1>4. identity.pair = identity.pubKey /\ identity.did = DidText(identity.pair)
  BY DEF KeyInv, MayCreateVC
<1>5. identity.pair \in PublicKeys
  BY <1>1 DEF Identities, Keys
<1>6. front.pubKey = identity.pair /\ front.did = DidText(identity.pair)
  BY <1>4 DEF front, Front
<1>7. KeyInv'
  BY <1>3 DEF KeyInv
<1>8. Sealed'
  BY <1>3, <1>5, <1>6 DEF Sealed, sig, at
<1> QED
  BY <1>7, <1>8

LEMMA SealedInvNext ==
    ASSUME IdentityInv, SealedInv, [Next]_vars
    PROVE  SealedInv'
<1>1. identity \in Identities
  BY DEF IdentityInv
<1>2. CASE InitIdentity \/ FreeIdentity
  <2>1. ~sealed' /\ \/ identity' = Cleared
                    \/ \E upTo \in {"nothing", "rng", "all"} :
                           identity' = Initialized(upTo)
    BY <1>2 DEF InitIdentity, FreeIdentity
  <2>2. identity'.pair = NoKey /\ identity'.did = <<>>
    <3>1. Cleared.pair = NoKey /\ Cleared.did = <<>>
      BY DEF Cleared
    <3>2. Cleared \in Identities
      BY InitializedTyped
    <3>3. ASSUME NEW rng, NEW key
          PROVE  LET id == [Cleared EXCEPT !.rngInitialized = rng,
                                           !.keyInitialized = key]
                 IN  id.pair = Cleared.pair /\ id.did = Cleared.did
      BY <3>2 DEF Identities
    <3>4. ASSUME NEW upTo
          PROVE  /\ Initialized(upTo).pair = Cleared.pair
                 /\ Initialized(upTo).did = Cleared.did
      BY <3>3 DEF Initialized
    <3> QED
      BY <2>1, <3>1, <3>4
  <2> QED
    BY <2>1, <2>2 DEF SealedInv, KeyInv
<1>3. CASE Generate
  <2>1. CASE identity' = GenerateFailed(identity)
    <3>1. /\ identity'.pair = NoKey /\ identity'.pubKey = identity.pubKey
          /\ identity'.did = identity.did
      BY <1>1, <2>1 DEF GenerateFailed, Identities
    <3> QED
      BY <1>3, <3>1 DEF Generate, SealedInv, KeyInv
  <2>2. CASE \E pubKey \in PublicKeys : identity' = Generated(identity, pubKey)
    <3>1. PICK pubKey \in PublicKeys : identity' = Generated(identity, pubKey)
      BY <2>2
    <3>2. /\ identity'.pair = pubKey /\ identity'.pubKey = pubKey
          /\ identity'.did = DidText(pubKey)
      BY <1>1, <3>1 DEF Generated, Identities
    <3> QED
      BY <1>3, <3>2 DEF Generate, SealedInv, KeyInv
  <2> QED
    BY <1>3, <2>1, <2>2 DEF Generate
<1>4. CASE \E text \in Texts : SetClaims(text)
  <2>1. PICK text \in Texts : \/ identity' = identity
                              \/ identity' = [identity EXCEPT !.claims = text]
    BY <1>4 DEF SetClaims
  <2>2. /\ identity'.pair = identity.pair /\ identity'.pubKey = identity.pubKey
        /\ identity'.did = identity.did /\ identity'.front = identity.front
        /\ identity'.sig = identity.sig /\ identity'.sigAt = identity.sigAt
        /\ identity'.vcLen = identity.vcLen
    BY <1>1, <2>1 DEF Identities
  <2>3. sealed' = sealed
    BY <1>4 DEF SetClaims
  <2> QED
    BY <2>2, <2>3 DEF SealedInv, KeyInv, Sealed
<1>5. CASE CreateVC
  <2>1. CASE identity.pair # NoKey /\ identity' = Created(identity)
    BY <1>5, <2>1, CreatedSeals DEF CreateVC, SealedInv
  <2>2. CASE identity' = CreateFailed(identity) /\ ~sealed'
    <3>1. /\ identity'.pair = identity.pair /\ identity'.pubKey = identity.pubKey
          /\ identity'.did = identity.did
      BY <1>1, <2>2 DEF CreateFailed, Identities
    <3> QED
      BY <2>2, <3>1 DEF SealedInv, KeyInv
  <2> QED
    BY <1>5, <2>1, <2>2 DEF CreateVC, CanSign
<1>6. CASE UNCHANGED <<identity, sealed>>
  BY <1>6 DEF SealedInv, KeyInv, Sealed
<1> QED
  BY <1>2, <1>3, <1>4, <1>5, <1>6
     DEF Next, vars, NewCtx, UseCertificate, SetServerList, SetClientList,
         SetCtxList, NewSession, UseVcBuffer, UseEd25519Key, Handshake,
         FreeSession, Crash

\* Where a sketch is past SSI_Identity_CreateVC, and where it has a session.
SketchPlaces ==
    /\ place \in {"context", "serverList", "clientList", "loop", "loadVc",
                  "loadKey", "handshake", "free"} => sealed
    /\ ssl.made => place \in {"loadVc", "loadKey", "handshake", "free",
                             "crashed", "any"}

LEMMA SketchPlacesNext ==
    ASSUME SetupInv, SketchPlaces, [Next]_vars
    PROVE  SketchPlaces'
<1> USE DEF At, Goto, Free, SketchPlaces
<1>1. CASE InitIdentity
  BY <1>1 DEF InitIdentity
<1>2. CASE FreeIdentity
  BY <1>2 DEF FreeIdentity
<1>3. CASE Generate
  BY <1>3 DEF Generate
<1>4. CASE \E text \in Texts : SetClaims(text)
  BY <1>4 DEF SetClaims
<1>5. CASE CreateVC
  BY <1>5 DEF CreateVC
<1>6. CASE NewCtx
  BY <1>6 DEF NewCtx
<1>7. CASE UseCertificate \/ SetServerList \/ SetClientList
  BY <1>7 DEF UseCertificate, SetServerList, SetClientList
<1>8. CASE \E buf \in Buffers : SetCtxList(buf)
  BY <1>8 DEF SetCtxList
<1>9. CASE NewSession
  BY <1>9 DEF NewSession
<1>10. CASE UseVcBuffer
  BY <1>10 DEF UseVcBuffer
<1>11. CASE UseEd25519Key
  BY <1>11 DEF UseEd25519Key
<1>12. CASE Handshake
  BY <1>12 DEF Handshake
<1>13. CASE FreeSession
  BY <1>13 DEF FreeSession, NoObject
<1>14. CASE Crash
  BY <1>14 DEF Crash
<1>15. CASE UNCHANGED vars
  BY <1>15 DEF vars
<1> QED
  BY <1>1, <1>2, <1>3, <1>4, <1>5, <1>6, <1>7, <1>8, <1>9, <1>10, <1>11,
     <1>12, <1>13, <1>14, <1>15 DEF Next

LEMMA SketchPlacesAlways ==
    ASSUME ~Mixing
    PROVE  Spec => []SketchPlaces
<1>1. Init => SketchPlaces
  BY DEF Init, NoObject, SketchPlaces
<1>2. SetupInv /\ SketchPlaces /\ [Next]_vars => SketchPlaces'
  BY SketchPlacesNext
<1> QED
  BY <1>1, <1>2, SetupInvariant, PTL DEF Spec

\* A sealed credential is one SSI_VC_ParseAndVerify accepts, as long as the
\* text of a DID is short enough for the parser.
LEMMA SealedVerifies ==
    ASSUME IdentityInv, Sealed
    PROVE  /\ ParsesAndVerifies(Bytes(identity))
           /\ PeerKey(Bytes(identity)) = identity.pair
<1> DEFINE front == identity.front
           vc    == Bytes(identity)
<1>1. identity \in Identities
  BY DEF IdentityInv
<1>2. /\ vc.front = front /\ vc.sig = identity.sig
      /\ vc.sigAt = identity.sigAt /\ vc.len = identity.vcLen
  BY DEF Bytes
<1>3. Len(front.did) \in Nat /\ Len(front.did) < 64
  <2>1. DidText(identity.pair) \in Seq(0 .. 57) /\ Len(DidText(identity.pair)) < 64
    BY DidTextIs DEF Sealed
  <2> QED
    BY <2>1 DEF Sealed
<1>4. ClaimsLength(front.claims) \in 0 .. 255
  <2>1. front.claims \in TakenClaims
    BY <1>1 DEF Identities, Fronts
  <2> QED
    BY <2>1, TakenLength
<1>5. Len(front.pubKey) \in Nat
  <2>1. identity.pair \in Seq(0 .. 255)
    BY SsiIdentityAssumption DEF Sealed
  <2> QED
    BY <2>1 DEF Sealed
<1>6. FrontLength(front) \in Nat
  <2> DEFINE did == Len(front.did)
             key == Len(front.pubKey)
             claims == ClaimsLength(front.claims)
  <2>1. did \in Nat /\ key \in Nat /\ claims \in Nat
    <3>1. \A n \in 0 .. 255 : n \in Nat
      OBVIOUS
    <3> QED
      BY <1>3, <1>4, <1>5, <3>1, Zenon
  <2>2. FrontLength(front) = 2 + 2 + (9 + did) + 2 + key + 2 + claims
    BY DEF FrontLength, DidLength
  <2> HIDE DEF did, key, claims
  <2> QED
    BY <2>1, <2>2
<1>7. DidLength(front.did) < 128
  BY <1>3 DEF DidLength
<1>8. /\ vc.sigAt = FrontLength(front)
      /\ vc.len = FrontLength(front) + 2 + SSI_ED25519_SIG_SIZE
      /\ vc.sig = [by |-> front.pubKey, over |-> front]
  BY <1>2 DEF Sealed
<1>9. FrontLength(front) + 2 + SSI_ED25519_SIG_SIZE <= vc.len
  BY <1>6, <1>8 DEF SSI_ED25519_SIG_SIZE
<1>10. PeerKey(vc) = identity.pair
  BY <1>2 DEF PeerKey, Sealed
<1> HIDE DEF front, vc
<1>11. ParsesAndVerifies(vc)
  BY <1>2, <1>4, <1>7, <1>8, <1>9 DEF ParsesAndVerifies, SSI_VC_CLAIMS_MAX
<1> QED
  BY <1>10, <1>11 DEF vc

\* A board that starts a handshake shows a credential that verifies, and signs
\* with the key in it, whatever failed before.
THEOREM ShowsOnlyItsOwn ==
    ASSUME ~Mixing
    PROVE  Spec => []ShowsItsOwn
<1>1. Init => SealedInv
  BY DEF Init, Cleared, SealedInv, KeyInv
<1>2. IdentityInv /\ SealedInv /\ [Next]_vars => SealedInv'
  BY SealedInvNext
<1>3. IdentityInv /\ SetupInv /\ SealedInv /\ SketchPlaces => ShowsItsOwn
  <2> SUFFICES ASSUME IdentityInv, SetupInv, SealedInv, SketchPlaces,
                      ssl.made, ssl.vcMode, ssl.cert # NULL, ssl.hsKey # NULL,
                      place \notin {"any", "crashed"} \/ sealed
               PROVE  LET vc == heap[ssl.cert].vc
                      IN  /\ ParsesAndVerifies(vc)
                          /\ heap[ssl.hsKey].pair = PeerKey(vc)
                          /\ ssl.key # NULL => heap[ssl.key].pair = PeerKey(vc)
    BY DEF ShowsItsOwn
  <2>1. sealed
    BY DEF SketchPlaces
  <2>2. Owns
    BY DEF SetupInv, SslHolds, Shares
  <2>3. /\ heap[ssl.cert].vc = Bytes(identity)
        /\ heap[ssl.hsKey].pair = identity.pair
        /\ ssl.key # NULL => heap[ssl.key].pair = identity.pair
    BY <2>2, Kinds DEF Owns
  <2>4. /\ ParsesAndVerifies(Bytes(identity))
        /\ PeerKey(Bytes(identity)) = identity.pair
    BY <2>1, SealedVerifies DEF SealedInv
  <2> QED
    BY <2>3, <2>4
<1> QED
  BY <1>1, <1>2, <1>3, IdentityTyped, SetupInvariant, SketchPlacesAlways, PTL
     DEF Spec

-----------------------------------------------------------------------------
(* What TlsHandshake is given.                                             *)

LEMMA PreferenceTyped ==
    ASSUME NEW list \in PreferenceCells
    PROVE  /\ Preference(list) \in Negotiation!PreferenceLists
           /\ list.cnt = 2 => Preference(list) = <<list.types[1], list.types[2]>>
<1> DEFINE types == list.types
<1>1. list.cnt \in 1 .. 2 /\ types \in [1 .. 2 -> CertTypes]
  BY DEF PreferenceCells
<1> HIDE DEF types
<1>2. types[1] \in CertTypes /\ types[2] \in CertTypes
  BY <1>1
<1>3. Preference(list) = SubSeq(types, 1, list.cnt)
  BY DEF Preference, types
<1>4. ASSUME NEW n \in 1 .. 2
      PROVE  /\ SubSeq(types, 1, n) \in Seq(CertTypes)
             /\ Len(SubSeq(types, 1, n)) = n
             /\ \A i \in 1 .. n : SubSeq(types, 1, n)[i] = types[i]
  <2>1. \A i \in 1 .. n : types[i] \in CertTypes
    BY <1>1
  <2>2. /\ SubSeq(types, 1, n) \in Seq(CertTypes)
        /\ Len(SubSeq(types, 1, n)) = IF 1 <= n THEN n - 1 + 1 ELSE 0
        /\ \A i \in 1 .. n - 1 + 1 : SubSeq(types, 1, n)[i] = types[1 + i - 1]
    <3> HIDE DEF types
    <3> QED
      BY <2>1, SubSeqProperties
  <2> QED
    BY <2>2
<1>5. CASE list.cnt = 1
  <2>1. Preference(list) = <<types[1]>>
    <3>1. /\ Preference(list) \in Seq(CertTypes) /\ Len(Preference(list)) = 1
          /\ \A i \in 1 .. 1 : Preference(list)[i] = <<types[1]>>[i]
      BY <1>3, <1>4, <1>5
    <3>2. <<types[1]>> \in Seq(CertTypes) /\ Len(<<types[1]>>) = 1
      BY <1>2
    <3> QED
      BY <3>1, <3>2, SeqEqual
  <2> QED
    BY <1>2, <1>5, <2>1 DEF Negotiation!PreferenceLists, CertTypes
<1>6. CASE list.cnt = 2
  <2>1. Preference(list) = <<types[1], types[2]>>
    <3>1. /\ Preference(list) \in Seq(CertTypes) /\ Len(Preference(list)) = 2
          /\ \A i \in 1 .. 2 : Preference(list)[i] = <<types[1], types[2]>>[i]
      BY <1>3, <1>4, <1>6
    <3>2. /\ <<types[1], types[2]>> \in Seq(CertTypes)
          /\ Len(<<types[1], types[2]>>) = 2
      BY <1>2
    <3> QED
      BY <3>1, <3>2, SeqEqual
  <2> QED
    BY <1>2, <2>1 DEF Negotiation!PreferenceLists, CertTypes, types
<1> QED
  BY <1>1, <1>5, <1>6

\* The list both calls of the sketches set.
Both == <<"VC", "X509">>

LEMMA BothIsSet ==
    ASSUME NEW list \in PreferenceCells
    PROVE  Preference(SetCertType(list, Both)) = Both
<1> DEFINE known   == {i \in DOMAIN Both : \A j \in 1 .. i : Both[j] \in CertTypes}
           written == [i \in 1 .. 2 |-> IF i \in known THEN Both[i]
                                        ELSE list.types[i]]
<1>1. /\ Both # <<>> /\ Len(Both) = 2 /\ DOMAIN Both = 1 .. 2
      /\ Both[1] = "VC" /\ Both[2] = "X509"
  BY DEF Both
<1>2. IsUnique(Both)
  BY <1>1 DEF IsUnique
<1>3. known = 1 .. 2
  BY <1>1 DEF CertTypes, Negotiation!CertTypes
<1>4. SetCertType(list, Both) =
          [cnt   |-> IF known = DOMAIN Both THEN Len(Both) ELSE list.cnt,
           types |-> written]
  BY <1>1, <1>2 DEF SetCertType
<1>5. written[1] = "VC" /\ written[2] = "X509"
  BY <1>1, <1>3
<1> HIDE DEF known, written
<1>6. SetCertType(list, Both) = [cnt |-> 2, types |-> written]
  BY <1>1, <1>3, <1>4
<1>7. SetCertType(list, Both) \in PreferenceCells
  <2>1. Both \in Seq({"X509", "RPK", "VC", "other"})
    BY DEF Both
  <2> QED
    BY <2>1, SetCertTypeTyped
<1> QED
  BY <1>5, <1>6, <1>7, PreferenceTyped DEF Both

\* What a sketch has set and loaded, from where it stands.
SketchInv ==
    /\ place \notin {"any", "crashed"} /\ ctx.made => ctx.cert = NULL
    /\ place \in {"clientList", "loop", "loadVc", "loadKey", "handshake", "free"}
           => ctx.made /\ Preference(ctx.srv) = Both
    /\ place \in {"loop", "loadVc", "loadKey", "handshake", "free"}
           => Preference(ctx.clt) = Both
    /\ place \in {"loadVc", "loadKey", "handshake"}
           => /\ ssl.made
              /\ Preference(ssl.srv) = Both /\ Preference(ssl.clt) = Both
              /\ ssl.vcMode <=> ssl.cert # NULL
    /\ place \in {"loadVc", "loadKey"} => ssl.key = NULL /\ ssl.hsKey = NULL
    /\ place = "loadVc" => ssl.cert = NULL
    /\ place = "handshake" /\ ssl.key # NULL => ssl.hsKey # NULL

LEMMA SketchInvNext ==
    ASSUME SetupInv, SketchHasCtx, SketchPlaces, SketchInv, [Next]_vars
    PROVE  SketchInv'
<1> USE DEF At, Goto, Free
<1>1. CASE InitIdentity \/ FreeIdentity \/ Generate
  BY <1>1 DEF InitIdentity, FreeIdentity, Generate, SketchInv
<1>2. CASE (\E text \in Texts : SetClaims(text)) \/ CreateVC
  BY <1>2 DEF SetClaims, CreateVC, SketchInv
<1>3. CASE NewCtx
  BY <1>3 DEF NewCtx, SketchInv
<1>4. CASE UseCertificate \/ \E buf \in Buffers : SetCtxList(buf)
  BY <1>4 DEF UseCertificate, SetCtxList, SketchInv
<1>5. CASE SetServerList
  <2>1. ctx \in Contexts /\ ctx.made /\ place # "any"
    BY <1>5 DEF SetServerList, SketchHasCtx, SetupInv, SetupTyped, NoObject
  <2>2. /\ ctx' = [ctx EXCEPT !.srv = SetCertType(ctx.srv, Both)]
        /\ place' = "clientList"
    BY <1>5 DEF SetServerList, Both
  <2>3. Preference(SetCertType(ctx.srv, Both)) = Both
    BY <2>1, BothIsSet DEF Contexts
  <2>4. /\ ctx'.made /\ ctx'.cert = ctx.cert
        /\ ctx'.srv = SetCertType(ctx.srv, Both)
    BY <2>1, <2>2 DEF Contexts
  <2>5. place = "serverList" /\ ctx.cert = NULL
    BY <1>5, <2>1 DEF SetServerList, SketchInv
  <2>6. ctx'.cert = NULL /\ Preference(ctx'.srv) = Both
    BY <2>3, <2>4, <2>5
  <2> QED
    BY <2>2, <2>4, <2>6 DEF SketchInv
<1>6. CASE SetClientList
  <2>1. ctx \in Contexts /\ ctx.made /\ place # "any"
    BY <1>6 DEF SetClientList, SketchHasCtx, SetupInv, SetupTyped, NoObject
  <2>2. /\ ctx' = [ctx EXCEPT !.clt = SetCertType(ctx.clt, Both)]
        /\ place' = "loop" /\ place = "clientList"
    BY <1>6 DEF SetClientList, Both
  <2>3. Preference(SetCertType(ctx.clt, Both)) = Both
    BY <2>1, BothIsSet DEF Contexts
  <2>4. /\ ctx'.made /\ ctx'.cert = ctx.cert /\ ctx'.srv = ctx.srv
        /\ ctx'.clt = SetCertType(ctx.clt, Both)
    BY <2>1, <2>2 DEF Contexts
  <2>5. ctx'.cert = NULL /\ Preference(ctx'.srv) = Both
    BY <2>1, <2>2, <2>4 DEF SketchInv
  <2>6. Preference(ctx'.clt) = Both
    BY <2>3, <2>4
  <2> QED
    BY <2>2, <2>4, <2>5, <2>6 DEF SketchInv
<1>7. CASE NewSession
  <2>0. \/ place = "any" /\ place' = "any"
        \/ place = "loop" /\ place' = "loadVc"
    BY <1>7 DEF NewSession
  <2>1. ssl' = FromCtx /\ ctx' = ctx /\ ctx.made
    BY <1>7 DEF NewSession
  <2>2. /\ ssl'.made /\ ssl'.srv = ctx.srv /\ ssl'.clt = ctx.clt
        /\ ssl'.cert = ctx.cert /\ ssl'.key = ctx.key
        /\ ssl'.hsKey = NULL /\ ~ssl'.vcMode
    BY <2>1 DEF FromCtx
  <2>3. ctx.cert = NULL => ctx.key = NULL
    BY <2>1, CellsAre DEF SetupInv, CtxHolds
  <2> QED
    BY <2>0, <2>1, <2>2, <2>3 DEF SketchInv
<1>8. CASE UseVcBuffer
  <2>0. \/ place = "any" /\ place' = "any"
        \/ place = "loadVc" /\ place' = "loadKey"
    BY <1>8 DEF UseVcBuffer
  <2>1. ctx' = ctx /\ ssl \in Sessions
    BY <1>8 DEF UseVcBuffer, MayLoad, SetupInv, SetupTyped, NoObject
  <2>2. /\ ssl'.made /\ ssl'.srv = ssl.srv /\ ssl'.clt = ssl.clt
        /\ ssl'.key = ssl.key /\ ssl'.hsKey = ssl.hsKey
    BY <1>8, <2>1 DEF UseVcBuffer, Sessions
  <2>3. \/ ssl' = ssl
        \/ ssl'.cert = NULL /\ ssl'.vcMode = ssl.vcMode
        \/ ssl'.cert \in Cells /\ ssl'.vcMode
    <3>1. CASE ssl' = [ssl EXCEPT !.cert = NULL]
      BY <2>1, <3>1 DEF Sessions
    <3>2. CASE \E c \in Cells : ssl' = [ssl EXCEPT !.cert = c, !.ownCert = TRUE,
                                                  !.vcMode = TRUE]
      BY <2>1, <3>2 DEF Sessions
    <3>3. CASE ssl' = ssl
      BY <3>3
    <3> QED
      BY <1>8, <3>1, <3>2, <3>3, RoomIs DEF UseVcBuffer
  <2> QED
    BY <2>0, <2>1, <2>2, <2>3, CellsAre DEF SketchInv
<1>9. CASE UseEd25519Key
  <2>0. \/ place = "any" /\ place' = "any"
        \/ place = "loadKey" /\ place' = "handshake"
    BY <1>9 DEF UseEd25519Key
  <2>1. ctx' = ctx /\ ssl \in Sessions
    BY <1>9 DEF UseEd25519Key, MayLoad, SetupInv, SetupTyped, NoObject
  <2>2. \/ ssl' = [ssl EXCEPT !.hsKey = NULL]
        \/ \E h \in Cells : ssl' = [ssl EXCEPT !.hsKey = h, !.key = NULL,
                                               !.rekeyed = ssl.ownKey]
        \/ \E h, k \in Cells :
               ssl' = [ssl EXCEPT !.hsKey = h, !.key = k, !.ownKey = TRUE,
                                  !.rekeyed = ssl.ownKey]
    BY <1>9, RoomIs DEF UseEd25519Key
  <2>3. /\ ssl'.made /\ ssl'.srv = ssl.srv /\ ssl'.clt = ssl.clt
        /\ ssl'.cert = ssl.cert /\ ssl'.vcMode = ssl.vcMode
    BY <2>1, <2>2 DEF Sessions
  <2>4. ssl'.hsKey # NULL \/ ssl'.key = NULL \/ ssl'.key = ssl.key
    BY <2>1, <2>2, CellsAre DEF Sessions
  <2> QED
    BY <2>0, <2>1, <2>3, <2>4 DEF SketchInv
<1>10. CASE Handshake
  BY <1>10 DEF Handshake, SketchInv
<1>11. CASE FreeSession
  BY <1>11 DEF FreeSession, SketchInv, SketchPlaces
<1>12. CASE Crash
  BY <1>12 DEF Crash, SketchInv
<1>13. CASE UNCHANGED vars
  BY <1>13 DEF vars, SketchInv
<1> QED
  BY <1>1, <1>2, <1>3, <1>4, <1>5, <1>6, <1>7, <1>8, <1>9, <1>10, <1>11, <1>12,
     <1>13 DEF Next

\* Every handshake of a sketch starts with the lists it set and with one of
\* the credentials TlsHandshake is checked for.
THEOREM StartsOnlyAsModelled ==
    ASSUME ~Mixing
    PROVE  Spec => []StartsAsModelled
<1>1. Init => SketchInv
  BY DEF Init, NoObject, SketchInv
<1>2. SetupInv /\ SketchHasCtx /\ SketchPlaces /\ SketchInv /\ [Next]_vars
          => SketchInv'
  BY SketchInvNext
<1>3. SetupInv /\ SketchInv => StartsAsModelled
  <2> SUFFICES ASSUME SetupInv, SketchInv
               PROVE  StartsAsModelled
    OBVIOUS
  <2>1. ASSUME ctx.made
        PROVE  {Preference(ctx.srv), Preference(ctx.clt)}
                   \subseteq Negotiation!PreferenceLists
    <3>1. ctx.srv \in PreferenceCells /\ ctx.clt \in PreferenceCells
      <4>1. ctx \in Contexts
        BY <2>1 DEF SetupInv, SetupTyped, NoObject
      <4> QED
        BY <4>1 DEF Contexts
    <3> QED
      BY <3>1, PreferenceTyped
  <2>2. ASSUME place = "handshake"
        PROVE  /\ Preference(ssl.srv) = Both /\ Preference(ssl.clt) = Both
               /\ \E mat \in Negotiation!Materials \ {"X509"} :
                      /\ Negotiation!HasVC(mat) = (ssl.cert # NULL)
                      /\ Negotiation!HasVC(mat) = ssl.vcMode
                      /\ Negotiation!HasHsKey(mat) = (ssl.hsKey # NULL)
                      /\ Negotiation!Complete(mat) =
                             (ssl.cert # NULL /\ ssl.key # NULL)
    <3>1. /\ ssl.made /\ Preference(ssl.srv) = Both /\ Preference(ssl.clt) = Both
          /\ ssl.vcMode <=> ssl.cert # NULL
          /\ ssl.key # NULL => ssl.hsKey # NULL
      BY <2>2 DEF SketchInv
    <3>2. ssl.vcMode \in BOOLEAN
      <4>1. ssl \in Sessions
        BY <3>1 DEF SetupInv, SetupTyped, NoObject
      <4> QED
        BY <4>1 DEF Sessions
    <3>3. ssl.vcMode = (ssl.cert # NULL)
      BY <3>1, <3>2
    <3> DEFINE Fits(mat, vc, key, hsKey) ==
                   /\ Negotiation!HasVC(mat) = vc
                   /\ Negotiation!HasHsKey(mat) = hsKey
                   /\ Negotiation!Complete(mat) = (vc /\ key)
    <3>4. ASSUME NEW vc \in BOOLEAN, NEW key \in BOOLEAN, NEW hsKey \in BOOLEAN,
                 key => hsKey
          PROVE  \E mat \in Negotiation!Materials \ {"X509"} :
                     Fits(mat, vc, key, hsKey)
      <4>1. Fits("VC", TRUE, TRUE, TRUE) /\ Fits("vcHalfKey", TRUE, FALSE, TRUE)
        BY DEF Negotiation!HasVC, Negotiation!HasHsKey, Negotiation!Complete
      <4>2. Fits("vcOnly", TRUE, FALSE, FALSE) /\ Fits("none", FALSE, FALSE, FALSE)
        BY DEF Negotiation!HasVC, Negotiation!HasHsKey, Negotiation!Complete
      <4>3. /\ Fits("keyOnly", FALSE, TRUE, TRUE)
            /\ Fits("halfKeyOnly", FALSE, FALSE, TRUE)
        BY DEF Negotiation!HasVC, Negotiation!HasHsKey, Negotiation!Complete
      <4>4. {"VC", "none", "vcOnly", "vcHalfKey", "keyOnly", "halfKeyOnly"}
                \subseteq Negotiation!Materials \ {"X509"}
        BY DEF Negotiation!Materials
      <4> HIDE DEF Fits
      <4> QED
        BY <3>4, <4>1, <4>2, <4>3, <4>4
    <3>5. \E mat \in Negotiation!Materials \ {"X509"} :
              Fits(mat, ssl.cert # NULL, ssl.key # NULL, ssl.hsKey # NULL)
      <4>1. ssl.key # NULL => ssl.hsKey # NULL
        BY <3>1
      <4> HIDE DEF Fits
      <4> QED
        BY <3>4, <4>1
    <3> QED
      BY <3>1, <3>3, <3>5
  <2> QED
    BY <2>1, <2>2 DEF StartsAsModelled, Both
<1> QED
  BY <1>1, <1>2, <1>3, SetupInvariant, SketchPlacesAlways, PTL DEF Spec

-----------------------------------------------------------------------------
(* Types.                                                                  *)

PlaceInv == place \in Places /\ sealed \in BOOLEAN

LEMMA CredentialTyped ==
    ASSUME IdentityInv
    PROVE  /\ Bytes(identity) \in Credentials
           /\ {identity.pair, identity.pubKey} \subseteq PublicKeys \cup {NoKey}
           /\ identity.claims \in Texts \cup {NoClaims}
<1> DEFINE Limited == [did : Seq(0 .. 57), pubKey : PublicKeys \cup {NoKey},
                       claims : Texts \cup {NoClaims}]
<1>1. identity \in Identities
  BY DEF IdentityInv
<1>2. ASSUME NEW did \in Dids
      PROVE  did \in Seq(0 .. 57) /\ Len(did) \in Nat
  <2>1. did \in Seq(0 .. 57)
    BY EmptySeq, DidTextIs DEF Dids
  <2> QED
    BY <2>1, LenProperties
<1>3. ASSUME NEW front \in Fronts
      PROVE  front \in Limited /\ FrontLength(front) \in Nat
  <2>1. front.did \in Seq(0 .. 57) /\ Len(front.did) \in Nat
    BY <1>2 DEF Fronts
  <2>2. front \in Limited
    BY <2>1 DEF Fronts, Keys, TakenClaims
  <2>3. Len(front.pubKey) \in Nat
    <3>1. NoKey \in Seq(0 .. 255)
      BY EmptySeq DEF NoKey
    <3>2. front.pubKey \in Seq(0 .. 255)
      BY <3>1, SsiIdentityAssumption DEF Fronts, Keys
    <3> QED
      BY <3>2, LenProperties
  <2>4. ClaimsLength(front.claims) \in Nat
    <3>1. ClaimsLength(front.claims) \in 0 .. 255
      BY TakenLength DEF Fronts
    <3> QED
      BY <3>1
  <2> DEFINE a == Len(front.did)
             b == Len(front.pubKey)
             c == ClaimsLength(front.claims)
  <2>5. a \in Nat /\ b \in Nat /\ c \in Nat
    BY <2>1, <2>3, <2>4, Zenon
  <2>6. FrontLength(front) = 2 + 2 + (9 + a) + 2 + b + 2 + c
    BY DEF FrontLength, DidLength
  <2> HIDE DEF a, b, c
  <2>7. FrontLength(front) \in Nat
    BY <2>5, <2>6
  <2> QED
    BY <2>2, <2>7
<1>4. identity.front \in Limited
  BY <1>1, <1>3 DEF Identities
<1>5. identity.sig \in [by : PublicKeys \cup {NoKey}, over : Limited]
  <2>1. identity.sig \in [by : Keys, over : Fronts]
    BY <1>1 DEF Identities
  <2>2. Fronts \subseteq Limited
    BY <1>3
  <2> HIDE DEF Limited
  <2> QED
    BY <2>1, <2>2 DEF Keys
<1>6. identity.sigAt \in Nat /\ identity.vcLen \in Nat
  <2>1. \A front \in Fronts :
            LET length == FrontLength(front)
            IN  length \in Nat /\ length + 2 + SSI_ED25519_SIG_SIZE \in Nat
    BY <1>3 DEF SSI_ED25519_SIG_SIZE
  <2> QED
    BY <1>1, <2>1 DEF Identities
<1>7. Bytes(identity) \in Credentials
  <2>1. Credentials = [front : Limited,
                       sig : [by : PublicKeys \cup {NoKey}, over : Limited],
                       sigAt : Nat, len : Nat]
    BY DEF Credentials
  <2> HIDE DEF Limited
  <2> QED
    BY <1>4, <1>5, <1>6, <2>1 DEF Bytes
<1> QED
  BY <1>1, <1>7 DEF Identities, Keys, TakenClaims

\* Every reachable state of a setup is well typed.
THEOREM TypeCorrect ==
    ASSUME ~Mixing
    PROVE  Spec => []TypeOK
<1>1. Init => PlaceInv
  BY DEF Init, PlaceInv, Places
<1>2. PlaceInv /\ [Next]_vars => PlaceInv'
  BY DEF PlaceInv, Places, Goto, Next, vars, InitIdentity, FreeIdentity, Generate,
         SetClaims, CreateVC, NewCtx, UseCertificate, SetServerList,
         SetClientList, SetCtxList, NewSession, UseVcBuffer, UseEd25519Key,
         Handshake, FreeSession, Crash
<1>3. IdentityInv /\ SetupInv /\ PlaceInv => TypeOK
  <2> SUFFICES ASSUME IdentityInv, SetupInv, PlaceInv
               PROVE  TypeOK
    OBVIOUS
  <2>1. ASSUME NEW c \in Cells
        PROVE  heap[c].use \in {"unused", "cert", "key", "hsKey"}
    <3>1. CASE c \notin Reached
      BY <3>1, Kinds DEF SetupInv, OnlyKeptKeysLeak
    <3>2. CASE ctx.made /\ c \in {ctx.cert, ctx.key}
      BY <3>2, CellsAre, Kinds DEF SetupInv, CtxHolds
    <3>3. CASE ssl.made /\ c \in {ssl.cert, ssl.key, ssl.hsKey}
      <4>1. ctx.made /\ IF ctx.cert = NULL THEN Owns ELSE Shares
        BY <3>3 DEF SetupInv, SslHolds
      <4>2. CASE ctx.cert = NULL
        BY <3>3, <4>1, <4>2, CellsAre, Kinds DEF Owns
      <4>3. CASE ctx.cert # NULL
        BY <3>2, <3>3, <4>1, <4>3, CellsAre DEF Shares
      <4> QED
        BY <4>2, <4>3
    <3> QED
      BY <3>1, <3>2, <3>3 DEF Reached
  <2>2. ASSUME ctx.made
        PROVE  /\ {ctx.srv, ctx.clt} \subseteq PreferenceCells
               /\ {ctx.cert, ctx.key} \subseteq Pointers
    <3>1. ctx \in Contexts
      BY <2>2 DEF SetupInv, SetupTyped, NoObject
    <3> QED
      BY <3>1 DEF Contexts
  <2>3. ASSUME ssl.made
        PROVE  /\ {ssl.srv, ssl.clt} \subseteq PreferenceCells
               /\ {ssl.cert, ssl.key, ssl.hsKey} \subseteq Pointers
    <3>1. ssl \in Sessions
      BY <2>3 DEF SetupInv, SetupTyped, NoObject
    <3> QED
      BY <3>1 DEF Sessions
  <2>4. side \in {"client", "server"} /\ place \in Places /\ sealed \in BOOLEAN
    BY DEF SetupInv, SetupTyped, PlaceInv
  <2> QED
    BY <2>1, <2>2, <2>3, <2>4, CredentialTyped DEF TypeOK
<1> QED
  BY <1>1, <1>2, <1>3, IdentityTyped, SetupInvariant, PTL DEF Spec

=============================================================================
