--------------------------- MODULE SsiNegotiation ---------------------------
(***************************************************************************)
(* How two endpoints of the patched wolfSSL agree on what a Certificate    *)
(* message carries: the client_certificate_type, server_certificate_type   *)
(* and did_methods (0xFF02) extensions of tls.c.                           *)
(*                                                                         *)
(* A preference list is a sequence of certificate types, as set_cert_type  *)
(* (ssl.c) stores it; <<"X509">> is the list of an endpoint that never     *)
(* called it.  In a message, <<>> is an extension that is not sent.        *)
(***************************************************************************)
EXTENDS Integers, Sequences

CertTypes == {"X509", "RPK", "VC"}

\* No type was negotiated: the extension is absent from the answer.
NoType == "none"

\* What the application loaded: a VC and an Ed25519 key, an X.509 chain and
\* a DER key, or nothing at all; or, as the results of the loading calls are
\* ignored, what is left when one of them fails: a VC without a key, a key
\* that reached hsKey but not buffers.key, a key without a VC.
Materials ==
    {"VC", "X509", "none", "vcOnly", "vcHalfKey", "keyOnly", "halfKeyOnly"}

HasVC(mat) == mat \in {"VC", "vcOnly", "vcHalfKey"}

HasHsKey(mat) == mat \in {"VC", "vcHalfKey", "keyOnly", "halfKeyOnly"}

\* buffers.certificate and buffers.key are both there.
Complete(mat) == mat \in {"VC", "X509"}

\* The verification modes of wolfSSL_set_verify; "default" never called it.
VerifyModes == {"none", "default", "peer", "peerRequired"}

Listed(type, list) == \E i \in DOMAIN list : list[i] = type

NonX509Listed(list) == Listed("RPK", list) \/ Listed("VC", list)

\* Mutant of GetCommonItem: the order of the wrong list decides.
FirstOfSecondList(a, b) ==
    LET common == {i \in DOMAIN b : Listed(b[i], a)}
    IN  IF common = {} THEN NoType
        ELSE b[CHOOSE i \in common : \A j \in common : i <= j]

\* The first type of list a that list b also holds.
GetCommonItem(a, b) ==
    LET common == {i \in DOMAIN a : Listed(a[i], b)}
    IN  IF common = {} THEN NoType
        ELSE a[CHOOSE i \in common : \A j \in common : i <= j]

-----------------------------------------------------------------------------
(* The preference lists set_cert_type leaves: one type or two.  A list it  *)
(* refuses may have replaced the first of two types by the second.         *)

PreferenceLists == {<<t>> : t \in CertTypes} \cup (CertTypes \X CertTypes)

Configurations ==
    [srv : PreferenceLists, clt : PreferenceLists, mat : Materials,
     verify : VerifyModes]

-----------------------------------------------------------------------------
(* ClientHello.  Both extensions carry the whole preference list.  The     *)
(* client one needs a loaded VC or RPK; the server one does not.           *)

ClientHelloExts(config) ==
    [srv |-> IF NonX509Listed(config.srv) THEN config.srv ELSE <<>>,
     clt |-> IF NonX509Listed(config.clt) /\ HasVC(config.mat)
             THEN config.clt ELSE <<>>,
     did |-> Listed("VC", config.srv)]

-----------------------------------------------------------------------------
(* The server's parse of a ClientHello with extensions ch.                 *)

\* TLSX_ServerCertificateType_Use, on the server
ServerType(config, ch) ==
    IF ch.srv = <<>> THEN NoType ELSE GetCommonItem(config.srv, ch.srv)

\* No common type: a fatal alert is sent, and the error never leaves
\* TLSX_ServerCertificateType_Parse, which returns 0.
ServerTypeAlert(config, ch) ==
    ch.srv # <<>> /\ ServerType(config, ch) = NoType

\* TLSX_ClientCertificateType_Parse, on the server
ClientType(config, ch) ==
    IF ch.clt = <<>> \/ config.verify = "none" THEN NoType
    ELSE GetCommonItem(config.clt, ch.clt)

\* No common type: here the error is returned and ends the handshake.
ClientTypeError(config, ch) ==
    /\ ch.clt # <<>>
    /\ config.verify # "none"
    /\ ClientType(config, ch) = NoType

-----------------------------------------------------------------------------
(* ProcessPeerCertParse: whether a certificate of the given kind, VC or    *)
(* X.509, is understood where type was negotiated, and whether an X.509    *)
(* certificate then fails the check of the negotiated type.  VC bytes are  *)
(* recognised only if VC was negotiated; an X.509 certificate is parsed    *)
(* whatever was negotiated, and only RPK is told apart from it.            *)

Parses(kind, type) == kind = "VC" => type = "VC"

Mismatch(kind, type) == kind = "X509" /\ type = "RPK"

=============================================================================
