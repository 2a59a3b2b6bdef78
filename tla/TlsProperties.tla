--------------------------- MODULE TlsProperties ---------------------------
(***************************************************************************)
(* What a handshake of TlsHandshake must, and must never, do.  The last    *)
(* section states what documents and comments of the repository say of the *)
(* code and the code does not do.                                          *)
(***************************************************************************)
EXTENDS TlsHandshake, SequencesExt

Offers ==
    [srv : PreferenceLists \cup {<<>>}, clt : PreferenceLists \cup {<<>>},
     did : BOOLEAN]

AnyType == CertTypes \cup {NoType}

Messages ==
    [t : {"CH"}, ext : Offers]
    \cup [t : {"EE"}, srv : AnyType, clt : AnyType, did : BOOLEAN]
    \cup [t : {"CERT"}, kind : Materials \cup {"blank"}]
    \cup [t : {"SH", "HRR", "CR", "CV", "FIN", "ALERT"}]

SSLFields ==
    [sendVerify : {"NO", "SEND_CERT", "SEND_BLANK_CERT"},
     peerCert : BOOLEAN, peerVerify : BOOLEAN, authGood : BOOLEAN,
     vcMode : BOOLEAN, hsKey : BOOLEAN, fragment : BOOLEAN, building : BOOLEAN,
     srvType : AnyType, cltType : AnyType, cltOffered : 0 .. 2,
     ssiNegotiated : BOOLEAN]

\* The type invariant; a reader is never ahead of what TCP carries.
TypeOK ==
    /\ cfg \in [Side -> Configurations]
    /\ retry \in BOOLEAN
    /\ st \in [Side -> ConnectStates \cup AcceptStates]
    /\ ctl \in [Side -> {"call", "wants", "ok", "fail"}]
    /\ ss \in [Side -> 0 .. 9]
    /\ cs \in 0 .. 9
    /\ ssl \in [Side -> SSLFields]
    /\ seen \in [Side -> SUBSET {"CH", "SH", "EE", "CR", "CERT", "CV", "FIN"}]
    /\ sent \in [Side -> Seq(Messages)]
    /\ flushed \in [Side -> Nat]
    /\ got \in [Side -> Nat]
    /\ stalls \in [Side -> 0 .. MaxStalls]
    /\ expired \in [Side -> BOOLEAN]
    /\ open \in [Side -> BOOLEAN]
    /\ \A e \in Side : flushed[e] <= Len(sent[e]) /\ got[Peer(e)] <= flushed[e]

-----------------------------------------------------------------------------
(* Safety.                                                                 *)

\* When CertificateVerify is built, the private key of the loaded credential
\* is there: receiving the server's Certificate and CertificateVerify (both
\* call FreeKeyExchange) has not cost the client its preloaded Ed25519 key.
SigningKeyReady ==
    \A e \in Side :
        ctl[e] = "call" /\ st[e] = VerifyState(e) /\ ssl[e].sendVerify = "SEND_CERT"
            => CanSign(e)

\* After a handshake that succeeded, wolfSSL_free leaves no key behind.
KeyFreedAfterSuccess ==
    \A e \in Side : ctl[e] = "ok" /\ ~open[e] => ~ssl[e].hsKey

\* The messages each side should send: every one once and in order, however
\* often SendBuffered stalled and the switch was entered again.
ExpectedFlight(e) ==
    IF e = "client"
    THEN (IF retry THEN <<"CH", "CH">> ELSE <<"CH">>)
         \o (IF ~VerifyPeer("server") THEN <<>>
             ELSE IF Complete(cfg[e].mat) THEN <<"CERT", "CV">> ELSE <<"CERT">>)
         \o <<"FIN">>
    ELSE (IF retry THEN <<"HRR", "SH", "EE">> ELSE <<"SH", "EE">>)
         \o (IF VerifyPeer(e) THEN <<"CR">> ELSE <<>>)
         \o <<"CERT", "CV", "FIN">>

\* The i-th record of a log is its Nth handshake message.
Nth(log, i) == Cardinality({j \in 1 .. i : log[j].t # "ALERT"})

FlightsInOrder ==
    \A e \in Side : \A i \in DOMAIN sent[e] :
        sent[e][i].t # "ALERT" =>
            /\ Nth(sent[e], i) \in DOMAIN ExpectedFlight(e)
            /\ sent[e][i].t = ExpectedFlight(e)[Nth(sent[e], i)]

\* A server that succeeded answers a client that has sent its last message
\* and can no longer fail: no success on the server alone.
NoSuccessAlone ==
    ctl["server"] = "ok" =>
        st["client"] = "FINISHED_DONE" /\ ctl["client"] \in {"call", "ok"}

\* An endpoint that required a certificate succeeds only after the peer has
\* sent one, signed the handshake with its key, and both were processed.
PeerAuthenticated ==
    \A e \in Side :
        /\ ctl[e] = "ok"
        /\ cfg[e].verify = IF e = "client" THEN "peer" ELSE "peerRequired"
        => /\ ssl[e].peerCert /\ ssl[e].peerVerify /\ ssl[e].authGood
           /\ \E i, j \in 1 .. got[e] :
                  /\ i < j
                  /\ sent[Peer(e)][i].t = "CERT" /\ sent[Peer(e)][i].kind # "blank"
                  /\ sent[Peer(e)][j].t = "CV"

\* The client reveals its certificate and signs nothing before the server's
\* signature and Finished have been checked.
ClientSendsAfterServer ==
    /\ sent'["client"] # sent["client"]
    /\ Last(sent'["client"]).t \in {"CERT", "CV", "FIN"}
    => ssl["client"].authGood /\ "FIN" \in seen["client"]

ClientWaitsForServer == [][ClientSendsAfterServer]_vars

-----------------------------------------------------------------------------
(* The handshake implements TlsSession.                                    *)

\* The types side e has negotiated, once it has processed message m.
TypesAfter(m, e) ==
    IF m \in seen[e] THEN [srv |-> ssl[e].srvType, clt |-> ssl[e].cltType]
                     ELSE [srv |-> "undecided", clt |-> "undecided"]

Session ==
    INSTANCE TlsSession WITH
        setup    <- [client |-> cfg["client"], server |-> cfg["server"]],
        decision <- TypesAfter("CH", "server"),
        view     <- TypesAfter("EE", "client"),
        client   <- IF ctl["client"] = "fail" THEN "failed"
                    ELSE IF st["client"] = "FINISHED_DONE" THEN "done" ELSE "trying",
        server   <- IF ctl["server"] = "fail" THEN "failed"
                    ELSE IF ctl["server"] = "ok" THEN "done" ELSE "trying"

\* Both sides hold the types the server decided by its own preferences, which
\* no second hello, stall or late message changes; and the server succeeds
\* only for a client that can no longer fail.
SessionAgreed == Session!Spec

-----------------------------------------------------------------------------
(* Liveness.                                                               *)

\* Every handshake is over at some point and both sides have released their
\* session: nobody waits for ever, although HS_TIMEOUT may never pass.
Terminates == \A e \in Side : <>(~open[e])

\* Is a certificate of the given kind understood where type was negotiated?
Understood(kind, type) == Parses(kind, type) /\ ~Mismatch(kind, type)

\* The server has a certificate the client can take, and the client has one
\* the server can take, or none where the server does not insist.
ConfigurationsFit ==
    LET c  == cfg["client"]
        s  == cfg["server"]
        ch == ClientHelloExts(c)
    IN  /\ Complete(s.mat)
        /\ Understood(s.mat, ServerType(s, ch))
        /\ ~ServerTypeAlert(s, ch) /\ ~ClientTypeError(s, ch)
        /\ VerifyPeer("server") =>
               IF Complete(c.mat) THEN Understood(c.mat, ClientType(s, ch))
                                  ELSE ~FailNoCert("server")

\* With configurations that fit together the client's handshake succeeds,
\* however its writes are blocked, unless a timeout cuts it short.
ClientSucceeds ==
    ConfigurationsFit ~> ctl["client"] = "ok" \/ \E e \in Side : expired[e]

-----------------------------------------------------------------------------
(* What the repository says, and the code does not do.                     *)

\* FreeKeyExchange keeps the key "once, then allow normal free on second
\* call": no session leaves a key allocated behind it.
NoKeyLeak == \A e \in Side : ~open[e] => ~ssl[e].hsKey

\* TLSX_ServerCertificateType_Parse "returns 0 on success and other values
\* indicate failure": a server that found no common type does not go on.
NoCommonTypeStops ==
    st["server"] = "CERT_SENT" =>
        ~ServerTypeAlert(cfg["server"], ClientHelloExts(cfg["client"]))

\* A client that does not send server_certificate_type gets plain TLS 1.3
\* ("server fallback ke TLS 1.3 normal. Zero breaking change."): it does not
\* refuse the server's certificate.
PlainClientServed ==
    ~NonX509Listed(cfg["client"].srv) => ctl["client"] # "fail"

=============================================================================
