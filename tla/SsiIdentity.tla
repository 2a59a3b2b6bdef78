---------------------------- MODULE SsiIdentity -----------------------------
(***************************************************************************)
(* SSI_Identity of ssi_identity.h: an Ed25519 key pair, its did:key, the   *)
(* claims of the device and the credential it issues to itself, and the    *)
(* two parsers a credential meets: SSI_VC_ParseAndVerify and the patch in  *)
(* ProcessPeerCertParse (internal.c).                                      *)
(*                                                                         *)
(* A key pair is named by its public key, a sequence of bytes.  vcBuffer   *)
(* is its front (type tag to claims), the signature, which lies where the  *)
(* front of the call that made it ended, and vcLen.  A signature is what   *)
(* was signed and by whom.                                                 *)
(***************************************************************************)
EXTENDS Base58

CONSTANTS
    PublicKeys,     \* the key pairs the generator may come up with
    Texts,          \* what an application may ask to claim, and
    TextLength      \* how many characters each text has

SSI_ED25519_PUB_KEY_SIZE == 32

\* A shorter key stands for one of that size.
ASSUME SsiIdentityAssumption ==
    /\ \A key \in PublicKeys :
           key \in Seq(0 .. 255) /\ Len(key) \in 1 .. SSI_ED25519_PUB_KEY_SIZE
    /\ TextLength \in [Texts -> Nat \ {0}]

SSI_ED25519_SIG_SIZE == 64
SSI_VC_CLAIMS_MAX    == 256
SSI_VC_MAX_SIZE      == 512

\* The multicodec prefix of an Ed25519 key.
Multicodec == <<237, 1>>

\* wc_ed25519: a key whose flags are not set, a buffer that was zeroed.
NoKey    == <<>>
NoClaims == "no claims"
NoFront  == [did |-> <<>>, pubKey |-> NoKey, claims |-> NoClaims]
NoSig    == [by |-> NoKey, over |-> NoFront]

Cleared ==
    [rngInitialized |-> FALSE, keyInitialized |-> FALSE, pair |-> NoKey,
     pubKey |-> NoKey, did |-> <<>>, claims |-> NoClaims,
     front |-> NoFront, sig |-> NoSig, sigAt |-> 0, vcLen |-> 0]

-----------------------------------------------------------------------------
(* What the calls leave of an identity, whether they return 0 or not.      *)

\* SSI_Identity_Init; upTo says which of its two calls fails, if any.
Initialized(upTo) ==
    [Cleared EXCEPT !.rngInitialized = upTo \in {"rng", "all"},
                    !.keyInitialized = upTo = "all"]

\* 34 bytes always fit the 64 characters of b58Buf (Base58Proofs!EncodeFits).
DidText(pubKey) == Encode(Multicodec \o pubKey, 64)

\* The "did:key:z" in front of it included.
DidLength(did) == 9 + Len(did)

MayGenerate(id) == id.rngInitialized /\ id.keyInitialized

\* Mutant of Generated: the DID is built before the public key is exported.
GeneratedStaleDid(id, pubKey) ==
    [id EXCEPT !.pair = pubKey, !.pubKey = pubKey, !.did = DidText(id.pubKey)]

Generated(id, pubKey) ==
    [id EXCEPT !.pair = pubKey, !.pubKey = pubKey, !.did = DidText(pubKey)]

\* wc_ed25519_make_key clears the flags of the key before it can fail.
GenerateFailed(id) == [id EXCEPT !.pair = NoKey]

\* Mutant of TakesClaims: a text that fills the array is taken.
TakesClaimsThatFill(text) == TextLength[text] <= SSI_VC_CLAIMS_MAX

\* Mutant of TakesClaims: any text is taken.
TakesAnyClaims(text) == TRUE

TakesClaims(text) == TextLength[text] < SSI_VC_CLAIMS_MAX

ClaimsLength(claims) == IF claims = NoClaims THEN 0 ELSE TextLength[claims]

\* The bytes from the type tag to the claims.
FrontLength(front) ==
    2 + 2 + DidLength(front.did) + 2 + Len(front.pubKey)
      + 2 + ClaimsLength(front.claims)

Front(id) == [did |-> id.did, pubKey |-> id.pubKey, claims |-> id.claims]

MayCreateVC(id) == id.did # <<>>

\* The signature could not be made: the front is written, the signature and
\* the length are those of an earlier call.
CreateFailed(id) == [id EXCEPT !.front = Front(id)]

Created(id) ==
    [CreateFailed(id) EXCEPT
        !.sig   = [by |-> id.pair, over |-> Front(id)],
        !.sigAt = FrontLength(Front(id)),
        !.vcLen = FrontLength(Front(id)) + 2 + SSI_ED25519_SIG_SIZE]

-----------------------------------------------------------------------------
(* The bytes that leave the board, and what is made of them.               *)

\* SSI_VC_Serialize, and what the sketches hand to use_VC_buffer: the first
\* vcLen bytes of vcBuffer.
Bytes(id) ==
    [front |-> id.front, sig |-> id.sig, sigAt |-> id.sigAt, len |-> id.vcLen]

\* The public key ProcessPeerCertParse takes from a credential: it skips the
\* DID and looks at nothing behind the key.
PeerKey(vc) == vc.front.pubKey

\* SSI_VC_ParseAndVerify: every field within its bound and within the
\* credential, the signature where the claims end, made by the key inside.
ParsesAndVerifies(vc) ==
    /\ DidLength(vc.front.did) < 128
    /\ ClaimsLength(vc.front.claims) < SSI_VC_CLAIMS_MAX
    /\ FrontLength(vc.front) + 2 + SSI_ED25519_SIG_SIZE <= vc.len
    /\ vc.sigAt = FrontLength(vc.front)
    /\ vc.sig = [by |-> vc.front.pubKey, over |-> vc.front]

=============================================================================
