-------------------------- MODULE SetupProperties --------------------------
(***************************************************************************)
(* What the setup of a board has to guarantee.                             *)
(***************************************************************************)
EXTENDS SessionSetup

Credentials ==
    [front : [did : Seq(0 .. 57), pubKey : PublicKeys \cup {NoKey},
              claims : Texts \cup {NoClaims}],
     sig   : [by : PublicKeys \cup {NoKey},
              over : [did : Seq(0 .. 57), pubKey : PublicKeys \cup {NoKey},
                      claims : Texts \cup {NoClaims}]],
     sigAt : Nat, len : Nat]

PreferenceCells == [cnt : 1 .. 2, types : [1 .. 2 -> CertTypes]]

Pointers == Cells \cup {NULL}

\* Every variable has its type.
TypeOK ==
    /\ side \in {"client", "server"}
    /\ place \in Places
    /\ Bytes(identity) \in Credentials
    /\ {identity.pair, identity.pubKey} \subseteq PublicKeys \cup {NoKey}
    /\ identity.claims \in Texts \cup {NoClaims}
    /\ sealed \in BOOLEAN
    /\ \A c \in Cells : heap[c].use \in {"unused", "cert", "key", "hsKey"}
    /\ ctx.made => /\ {ctx.srv, ctx.clt} \subseteq PreferenceCells
                   /\ {ctx.cert, ctx.key} \subseteq Pointers
    /\ ssl.made => /\ {ssl.srv, ssl.clt} \subseteq PreferenceCells
                   /\ {ssl.cert, ssl.key, ssl.hsKey} \subseteq Pointers


-----------------------------------------------------------------------------
(* Memory.                                                                 *)

\* The cells something points to.
Reached ==
    (IF ctx.made THEN {ctx.cert, ctx.key} ELSE {}) \cup
    (IF ssl.made THEN {ssl.cert, ssl.key, ssl.hsKey} ELSE {})

\* Whatever fails, and however often a credential or a key is loaded again, a
\* pointer leads to what it was set for, never to memory that was freed or
\* holds something else by now: use_VC_buffer and use_Ed25519_key free before
\* they allocate.  And UnloadCertsKeys follows a pointer to a key that is not
\* there only in a session whose application loaded a key over one the session
\* owned; no call of the sketches, whatever fails in it, leads there.
PointersLive ==
    /\ ssl.made => /\ ssl.cert # NULL => heap[ssl.cert].use = "cert"
                   /\ ssl.key # NULL => heap[ssl.key].use = "key"
                   /\ ssl.hsKey # NULL => heap[ssl.hsKey].use = "hsKey"
    /\ place = "crashed" => ssl.made /\ ssl.rekeyed

\* "unload any certs or keys that SSL owns, leave CTX as is / WOLFSSL_SUCCESS
\* on ok" (ssl.c:12193): freeing a session ends, whatever was loaded into it
\* and however often.  It does not when a second use_Ed25519_key freed the key
\* of the first and found no memory for its own: weOwnKey is still set.
\* So this holds for the sketches only (SketchesNeverCrash).
NeverCrashes == place # "crashed"

\* A board runs for hundreds of rounds: nothing stays allocated that no
\* pointer leads to, except the Ed25519 key FreeKeyExchange keeps for a client
\* whose handshake ended before the server's Finished.
OnlyKeptKeysLeak ==
    \A c \in Cells \ Reached :
        heap[c] # Unused => side = "client" /\ heap[c].use = "hsKey"

\* "ctx still owns certificate, certChain, key, dh, and cm" (internal.c:7101):
\* what was loaded into the context stays there until the context is freed,
\* whatever its sessions load and free.  It does as long as no session of such
\* a context loads a VC; FreeDer in use_VC_buffer does not ask who owns it.
CtxStillOwns ==
    ctx.made => /\ ctx.cert # NULL => heap[ctx.cert] = X509Cert
                /\ ctx.key # NULL => heap[ctx.key] = X509Key

-----------------------------------------------------------------------------
(* The credential.                                                         *)

\* SSI_Identity_CreateVC compares the length of the credential with the size
\* of vcBuffer after it has written it: with the longest DID a DID string
\* holds, a key of 32 bytes and any claims that were taken it fits all the
\* same.
VcFits ==
    2 + (2 + 127) + (2 + 32) + (2 + ClaimsLength(identity.front.claims))
      + (2 + SSI_ED25519_SIG_SIZE) <= SSI_VC_MAX_SIZE

\* Whatever failed on the way, the DID in vcBuffer is that of the key in it.
DidNamesKey ==
    identity.front # NoFront =>
        Decode(identity.front.did, 64) = Multicodec \o identity.front.pubKey

\* A board that starts a handshake with a VC and a key shows a credential that
\* SSI_VC_ParseAndVerify accepts, and signs with the key ProcessPeerCertParse
\* takes from it: a sketch always, though it ignores the results of three of
\* its calls; any other application as long as its last CreateVC returned 0
\* and it generated no key since.
ShowsItsOwn ==
    ssl.made /\ ssl.vcMode /\ ssl.cert # NULL /\ ssl.hsKey # NULL
        /\ (place \notin {"any", "crashed"} \/ sealed) =>
            LET vc == heap[ssl.cert].vc
            IN  /\ ParsesAndVerifies(vc)
                /\ heap[ssl.hsKey].pair = PeerKey(vc)
                /\ ssl.key # NULL => heap[ssl.key].pair = PeerKey(vc)

-----------------------------------------------------------------------------
(* What TlsHandshake starts from.                                          *)

\* A handshake of a sketch starts with preference lists and a credential that
\* TlsHandshake is given: nothing a failing call leaves behind is missing from
\* SsiNegotiation!Materials, and no refused set_cert_type leaves a list that
\* is not in PreferenceLists.
StartsAsModelled ==
    /\ ctx.made => {Preference(ctx.srv), Preference(ctx.clt)}
                       \subseteq Negotiation!PreferenceLists
    /\ place = "handshake" =>
           /\ Preference(ssl.srv) = <<"VC", "X509">>
           /\ Preference(ssl.clt) = <<"VC", "X509">>
           /\ \E mat \in Negotiation!Materials \ {"X509"} :
                  /\ Negotiation!HasVC(mat) = (ssl.cert # NULL)
                  /\ Negotiation!HasVC(mat) = ssl.vcMode
                  /\ Negotiation!HasHsKey(mat) = (ssl.hsKey # NULL)
                  /\ Negotiation!Complete(mat) =
                         (ssl.cert # NULL /\ ssl.key # NULL)

=============================================================================
