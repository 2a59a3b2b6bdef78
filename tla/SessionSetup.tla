---------------------------- MODULE SessionSetup ----------------------------
(***************************************************************************)
(* What one board sets up before its handshakes: the identity, the         *)
(* WOLFSSL_CTX and, for every connection, a WOLFSSL with its preference    *)
(* lists, its credential and its key, and who owns the memory they are in. *)
(*                                                                         *)
(* The board runs setup() and doRound() of an example sketch, or an        *)
(* application that makes the same calls in any order.  Every call that    *)
(* allocates or computes may fail.  The handshake itself is TlsHandshake;  *)
(* here it is only what it does to the key.                                *)
(***************************************************************************)
EXTENDS SsiIdentity

CONSTANTS
    Programs,       \* subset of {"sketch", "any"}: the programs to run
    Buffers,        \* what an application may pass as a preference list
    HeapSize,       \* how many certificates and keys the heap has room for
    Mixing          \* may an application load a VC into sessions of a context
                    \* that holds an X.509 certificate?  No sketch does.

ASSUME SessionSetupAssumption ==
    /\ Programs \subseteq {"sketch", "any"}
    /\ \A buf \in Buffers :
           buf \in Seq({"X509", "RPK", "VC", "other"}) /\ Len(buf) <= 3
    /\ HeapSize \in Nat
    /\ Mixing \in BOOLEAN

Negotiation == INSTANCE SsiNegotiation

CertTypes == Negotiation!CertTypes

VARIABLES
    side,       \* "client" or "server"
    place,      \* where the sketch is; "any" for any other application
    identity,   \* the SSI_Identity
    sealed,     \* history: the last SSI_Identity_CreateVC returned 0, and the
                \* identity is still the one it was made for
    heap,       \* what each certificate and key of the heap holds
    ctx,        \* the WOLFSSL_CTX, and
    ssl         \* the WOLFSSL, or NoObject

vars == <<side, place, identity, sealed, heap, ctx, ssl>>

-----------------------------------------------------------------------------
(* The heap.  A pointer is a cell, or NULL.                                *)

Cells == 1 .. HeapSize
NULL  == 0

Unused == [use |-> "unused"]

\* What the allocator returns: one of the free cells.
Room(mem) == {c \in Cells : mem[c] = Unused}
OneOf(cells) == CHOOSE c \in cells : TRUE

\* Mutant of Freed: the pointer is dropped, the memory is not.
FreedNot(mem, pointer) == mem

\* FreeDer and FreeKey; these two leave a NULL pointer alone.
Freed(mem, pointer) ==
    IF pointer = NULL THEN mem ELSE [mem EXCEPT ![pointer] = Unused]

X509Cert     == [use |-> "cert", x509 |-> TRUE]
X509Key      == [use |-> "key", x509 |-> TRUE]
VcCert(vc)   == [use |-> "cert", x509 |-> FALSE, vc |-> vc]
DerKey(pair) == [use |-> "key", x509 |-> FALSE, pair |-> pair]
HsKey(pair)  == [use |-> "hsKey", pair |-> pair]

-----------------------------------------------------------------------------
(* Preference lists: RpkConfig keeps two entries and how many count.       *)

\* Mutant of DefaultList: the count is left as the context was zeroed.
DefaultListUncounted == [cnt |-> 0, types |-> <<"X509", "X509">>]

\* The list of a context nobody set one for.
DefaultList == [cnt |-> 1, types |-> <<"X509", "X509">>]

Preference(list) == SubSeq(list.types, 1, list.cnt)

\* isArrayUnique
IsUnique(buf) ==
    \A i, j \in DOMAIN buf : i # j => buf[i] # buf[j]

\* Mutant of SetCertType: the types are copied before they are looked at.
SetCertTypeUnchecked(list, buf) ==
    [cnt |-> Len(buf), types |-> buf]

\* set_cert_type.  A buffer that is too long or names a type twice is refused
\* at once; one with an unknown type only there, with the entries before it
\* written and the count untouched.
SetCertType(list, buf) ==
    LET known   == {i \in DOMAIN buf : \A j \in 1 .. i : buf[j] \in CertTypes}
        written == [i \in 1 .. 2 |-> IF i \in known THEN buf[i]
                                     ELSE list.types[i]]
    IN  CASE buf = <<>>                            -> DefaultList
          [] Len(buf) > 2 \/ ~IsUnique(buf)        -> list
          [] OTHER -> [cnt   |-> IF known = DOMAIN buf THEN Len(buf)
                                 ELSE list.cnt,
                       types |-> written]

-----------------------------------------------------------------------------
(* The order of the calls.                                                 *)

\* The sketch is at this place; any other application may be anywhere.
At(p) == place \in {p, "any"}

Goto(p) == place' = IF place = "any" THEN "any" ELSE p

Free == place = "any"   \* a call no sketch makes

Places ==
    {"init", "generate", "claims", "create", "context", "serverList",
     "clientList", "loop", "loadVc", "loadKey", "handshake", "free", "idle",
     "crashed", "any"}

NoObject == [made |-> FALSE]

Init ==
    /\ side \in {"client", "server"}
    /\ place \in {IF p = "sketch" THEN "init" ELSE "any" : p \in Programs}
    /\ identity = Cleared
    /\ sealed = FALSE
    /\ heap = [c \in Cells |-> Unused]
    /\ ctx = NoObject
    /\ ssl = NoObject

-----------------------------------------------------------------------------
(* The identity.  A session copies what it takes from it, so calls made    *)
(* while there is one would show nothing more: they come before or after.  *)

\* SSI_Identity_Init.  A sketch that is told of an error returns from
\* setup(), and its loop() then does nothing.
InitIdentity ==
    /\ At("init") /\ ~ssl.made
    /\ \E upTo \in {"nothing", "rng", "all"} :
           /\ identity' = Initialized(upTo)
           /\ Goto(IF upTo = "all" THEN "generate" ELSE "idle")
    /\ sealed' = FALSE
    /\ UNCHANGED <<side, heap, ctx, ssl>>

FreeIdentity ==
    /\ Free /\ ~ssl.made
    /\ identity' = Cleared
    /\ sealed' = FALSE
    /\ UNCHANGED <<side, place, heap, ctx, ssl>>

\* A key pair the board has not had before.
Fresh(pubKey) ==
    pubKey \notin {identity.pubKey, identity.front.pubKey, identity.sig.by}

Generate ==
    /\ At("generate") /\ ~ssl.made
    /\ MayGenerate(identity)
    /\ \/ /\ identity' = GenerateFailed(identity)
          /\ Goto("idle")
       \/ \E pubKey \in PublicKeys :
              /\ Fresh(pubKey)
              /\ identity' = Generated(identity, pubKey)
              /\ Goto("claims")
    /\ sealed' = FALSE
    /\ UNCHANGED <<side, heap, ctx, ssl>>

\* SSI_Identity_SetClaims; the sketches do not look at its result.
SetClaims(text) ==
    /\ At("claims") /\ ~ssl.made
    /\ identity' = IF TakesClaims(text)
                   THEN [identity EXCEPT !.claims = text] ELSE identity
    /\ Goto("create")
    /\ UNCHANGED <<side, sealed, heap, ctx, ssl>>

\* wc_ed25519_sign_msg needs a key, and hashes that do not fail.
CanSign(hashes) == hashes /\ identity.pair # NoKey

\* SSI_Identity_CreateVC
CreateVC ==
    /\ At("create") /\ ~ssl.made
    /\ MayCreateVC(identity)
    /\ \E hashes \in BOOLEAN :
           IF CanSign(hashes)
           THEN /\ identity' = Created(identity)
                /\ sealed' = TRUE
                /\ Goto("context")
           ELSE /\ identity' = CreateFailed(identity)
                /\ sealed' = FALSE
                /\ Goto("idle")
    /\ UNCHANGED <<side, heap, ctx, ssl>>

-----------------------------------------------------------------------------
(* The context.                                                            *)

NewCtx ==
    /\ At("context")
    /\ ~ctx.made
    /\ \/ /\ ctx' = [made |-> TRUE, srv |-> DefaultList, clt |-> DefaultList,
                     cert |-> NULL, key |-> NULL]
          /\ Goto("serverList")
       \/ /\ ctx' = ctx
          /\ Goto("idle")
    /\ UNCHANGED <<side, identity, sealed, heap, ssl>>

\* wolfSSL_CTX_use_certificate_buffer and wolfSSL_CTX_use_PrivateKey_buffer,
\* as the hybrid server calls them for its X.509 context.
UseCertificate ==
    /\ Free
    /\ ctx.made /\ ctx.cert = NULL /\ ~ssl.made
    /\ Room(heap) # {}
    /\ LET c == OneOf(Room(heap))
           k == OneOf(Room(heap) \ {c})
       IN  /\ Room(heap) \ {c} # {}
           /\ heap' = [heap EXCEPT ![c] = X509Cert, ![k] = X509Key]
           /\ ctx' = [ctx EXCEPT !.cert = c, !.key = k]
    /\ UNCHANGED <<side, place, identity, sealed, ssl>>

\* The two calls of the sketches.
SetServerList ==
    /\ place = "serverList"
    /\ ctx' = [ctx EXCEPT !.srv = SetCertType(@, <<"VC", "X509">>)]
    /\ place' = "clientList"
    /\ UNCHANGED <<side, identity, sealed, heap, ssl>>

SetClientList ==
    /\ place = "clientList"
    /\ ctx' = [ctx EXCEPT !.clt = SetCertType(@, <<"VC", "X509">>)]
    /\ place' = "loop"
    /\ UNCHANGED <<side, identity, sealed, heap, ssl>>

\* wolfSSL_CTX_set_{server,client}_cert_type with any buffer.  The calls that
\* do the same to the lists of a session show nothing more.
SetCtxList(buf) ==
    /\ Free /\ ctx.made /\ ~ssl.made
    /\ \/ ctx' = [ctx EXCEPT !.srv = SetCertType(@, buf)]
       \/ ctx' = [ctx EXCEPT !.clt = SetCertType(@, buf)]
    /\ UNCHANGED <<side, place, identity, sealed, heap, ssl>>

-----------------------------------------------------------------------------
(* The session.                                                            *)

\* InitSSL_Suites: a server needs a certificate and a key, unless its list
\* says that a VC is still to come.
Acceptable ==
    \/ side = "client"
    \/ Negotiation!Listed("VC", Preference(ctx.srv))
    \/ ctx.cert # NULL /\ ctx.key # NULL

\* Mutant of FromCtx: a session believes it owns what it shares.
FromCtxOwned ==
    [made |-> TRUE, srv |-> ctx.srv, clt |-> ctx.clt,
     cert |-> ctx.cert, ownCert |-> TRUE, key |-> ctx.key, ownKey |-> TRUE,
     hsKey |-> NULL, vcMode |-> FALSE, tried |-> FALSE, finished |-> FALSE,
     rekeyed |-> FALSE]

\* SetSSL_CTX.  rekeyed is history: a key was loaded over one the session
\* owned.
FromCtx ==
    [made |-> TRUE, srv |-> ctx.srv, clt |-> ctx.clt,
     cert |-> ctx.cert, ownCert |-> FALSE, key |-> ctx.key, ownKey |-> FALSE,
     hsKey |-> NULL, vcMode |-> FALSE, tried |-> FALSE, finished |-> FALSE,
     rekeyed |-> FALSE]

\* wolfSSL_new: the lists are copied, the credential is shared.  A session
\* that is refused leaves nothing behind.
NewSession ==
    /\ At("loop")
    /\ ctx.made /\ ~ssl.made
    /\ Acceptable
    /\ ssl' = FromCtx
    /\ Goto("loadVc")
    /\ UNCHANGED <<side, identity, sealed, heap, ctx>>

MayLoad ==
    /\ ssl.made /\ ~ssl.tried
    /\ ctx.cert # NULL => Mixing

\* wolfSSL_SSI_use_VC_buffer with the credential of the identity; its result
\* is ignored by the sketches.
UseVcBuffer ==
    /\ At("loadVc")
    /\ MayLoad
    /\ LET rest == Freed(heap, ssl.cert)
       IN  \/ /\ identity.vcLen = 0
              /\ UNCHANGED <<heap, ssl>>
           \/ /\ identity.vcLen # 0
              /\ heap' = rest
              /\ ssl' = [ssl EXCEPT !.cert = NULL]
           \/ /\ identity.vcLen # 0
              /\ Room(rest) # {}
              /\ LET c == OneOf(Room(rest))
                 IN  /\ heap' = [rest EXCEPT ![c] = VcCert(Bytes(identity))]
                     /\ ssl' = [ssl EXCEPT !.cert = c, !.ownCert = TRUE,
                                           !.vcMode = TRUE]
    /\ Goto("loadKey")
    /\ UNCHANGED <<side, identity, sealed, ctx>>

\* wc_ed25519_export_private_only, wc_ed25519_export_public and
\* wolfSSL_SSI_use_Ed25519_key: the key goes into hsKey first, then into
\* buffers.key.  That the second fails is not reported, and ownKey keeps the
\* value it had, though there is no key.
UseEd25519Key ==
    /\ At("loadKey")
    /\ MayLoad /\ identity.pair # NoKey
    /\ LET bare == Freed(heap, ssl.hsKey)
       IN  \/ /\ heap' = bare
              /\ ssl' = [ssl EXCEPT !.hsKey = NULL]
           \/ /\ Room(bare) # {}
              /\ LET h    == OneOf(Room(bare))
                     held == Freed([bare EXCEPT ![h] = HsKey(identity.pair)],
                                   ssl.key)
                 IN  \/ /\ heap' = held
                        /\ ssl' = [ssl EXCEPT !.hsKey = h, !.key = NULL,
                                               !.rekeyed = ssl.ownKey]
                     \/ /\ Room(held) # {}
                        /\ LET k == OneOf(Room(held))
                           IN  /\ heap' = [held EXCEPT
                                              ![k] = DerKey(identity.pair)]
                               /\ ssl' = [ssl EXCEPT !.hsKey = h, !.key = k,
                                                     !.ownKey = TRUE,
                                                     !.rekeyed = ssl.ownKey]
    /\ Goto("handshake")
    /\ UNCHANGED <<side, identity, sealed, ctx>>

\* Mutant of AfterHandshake: FreeKeyExchange does not reset the pointer.
AfterHandshakeUnreset ==
    {[ssl |-> [ssl EXCEPT !.finished = f], heap |-> heap] : f \in BOOLEAN}
    \cup {[ssl |-> [ssl EXCEPT !.finished = TRUE],
           heap |-> Freed(heap, ssl.hsKey)]}

\* The handshake, for what it leaves of the key: it ended before the server's
\* Finished, or before this side's CertificateVerify, or with FreeKeyExchange
\* after it.
AfterHandshake ==
    {[ssl |-> [ssl EXCEPT !.finished = f], heap |-> heap] : f \in BOOLEAN}
    \cup {[ssl |-> [ssl EXCEPT !.finished = TRUE, !.hsKey = NULL],
           heap |-> Freed(heap, ssl.hsKey)]}

Handshake ==
    /\ At("handshake")
    /\ ssl.made /\ ~ssl.tried
    /\ \E after \in AfterHandshake :
           /\ ssl' = [after.ssl EXCEPT !.tried = TRUE]
           /\ heap' = after.heap
    /\ Goto("free")
    /\ UNCHANGED <<side, identity, sealed, ctx>>

\* FreeKeyExchange keeps the key of a client until the server's Finished.
Kept == side = "client" /\ ssl.vcMode /\ ssl.hsKey # NULL /\ ~ssl.finished

\* The session owns a key it does not have.
KeyMissing == ssl.ownKey /\ ssl.key = NULL

\* wolfSSL_free: FreeKeyExchange, then what the session owns.
FreeSession ==
    /\ At("free")
    /\ ssl.made /\ ~KeyMissing
    /\ LET unkeyed == IF Kept THEN heap ELSE Freed(heap, ssl.hsKey)
           uncert  == IF ssl.ownCert THEN Freed(unkeyed, ssl.cert)
                      ELSE unkeyed
       IN  heap' = IF ssl.ownKey THEN Freed(uncert, ssl.key) ELSE uncert
    /\ ssl' = NoObject
    /\ Goto("loop")
    /\ UNCHANGED <<side, identity, sealed, ctx>>

\* wolfSSL_UnloadCertsKeys overwrites a key of the session's own before it
\* frees it, and does not ask whether it is there: the NULL pointer is
\* followed, and the board stops in an exception.  It restarts in Init.  (A
\* server whose handshake succeeded gets there in FreeHandshakeResources, a
\* little earlier; nothing looks at the key in between.)
Crash ==
    /\ At("free")
    /\ ssl.made /\ KeyMissing
    /\ place' = "crashed"
    /\ UNCHANGED <<side, identity, sealed, heap, ctx, ssl>>

Next ==
    \/ InitIdentity \/ FreeIdentity \/ Generate \/ CreateVC
    \/ \E text \in Texts : SetClaims(text)
    \/ NewCtx \/ UseCertificate \/ SetServerList \/ SetClientList
    \/ \E buf \in Buffers : SetCtxList(buf)
    \/ NewSession \/ UseVcBuffer \/ UseEd25519Key \/ Handshake
    \/ FreeSession \/ Crash

Spec == Init /\ [][Next]_vars

=============================================================================
