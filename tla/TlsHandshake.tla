---------------------------- MODULE TlsHandshake ----------------------------
(***************************************************************************)
(* One TLS 1.3 handshake of the patched wolfSSL between a client and a     *)
(* server, over one TCP connection, driven by the loops of the example     *)
(* sketches: wolfSSL_connect / wolfSSL_accept are called again after every *)
(* WANT_READ or WANT_WRITE until they succeed, fail or HS_TIMEOUT passes.  *)
(*                                                                         *)
(* One case of the connect / accept switch, or one handshake message       *)
(* processed by ProcessReply, is one action.  A message is its type and    *)
(* the contents the certificate negotiation depends on.  Keys, transcript  *)
(* hashes and record protection are abstracted: both ends are honest.      *)
(***************************************************************************)
EXTENDS SsiNegotiation, FiniteSets

CONSTANTS
    ClientConfigs,  \* what the application set up on the client, and
    ServerConfigs,  \* on the server, before the handshake
    Retry,          \* subset of BOOLEAN: may the server ask for a second hello
    MaxStalls,      \* bound on the WANT_WRITE results of each side
    Deadline        \* TRUE: HS_TIMEOUT may pass before the handshake ends

ASSUME TlsHandshakeAssumption ==
    /\ ClientConfigs \subseteq Configurations
    /\ ServerConfigs \subseteq Configurations
    /\ Retry \subseteq BOOLEAN
    /\ MaxStalls \in Nat
    /\ Deadline \in BOOLEAN

Side == {"client", "server"}

Peer(e) == IF e = "client" THEN "server" ELSE "client"

VARIABLES
    cfg,      \* [Side -> configuration]: type lists, credentials, verify mode
    retry,    \* will the server answer the first ClientHello with a retry?
    st,       \* connectState / acceptState
    ctl,      \* "call": inside connect/accept; "wants": it returned WANT_READ
              \* or WANT_WRITE; "ok", "fail": the sketch's loop is over
    ss,       \* ssl->options.serverState of each side
    cs,       \* ssl->options.clientState of the server
    ssl,      \* the other fields of WOLFSSL that steer the handshake
    seen,     \* msgsReceived
    sent,     \* records each side has built, in order; those beyond
    flushed,  \* the first flushed[e] are still in its outputBuffer
    got,      \* number of the peer's records each side has processed
    stalls,   \* WANT_WRITE results so far
    expired,  \* has HS_TIMEOUT passed?
    open      \* does this side still hold its WOLFSSL object and socket?

setup   == <<cfg, retry>>
session == <<ss, cs, ssl, seen>>
wire    == <<sent, flushed, stalls>>
clocks  == <<expired, open>>

vars == <<setup, st, ctl, session, wire, got, clocks>>

-----------------------------------------------------------------------------
(* The values of serverState and clientState, in the order of enum states. *)

NULL_STATE                           == 0
SERVER_HELLO_RETRY_REQUEST_COMPLETE  == 1
SERVER_HELLO_COMPLETE                == 2
SERVER_ENCRYPTED_EXTENSIONS_COMPLETE == 3
SERVER_CERT_COMPLETE                 == 4
SERVER_CERT_VERIFY_COMPLETE          == 5
SERVER_FINISHED_COMPLETE             == 6
CLIENT_HELLO_RETRY                   == 7
CLIENT_HELLO_COMPLETE                == 8
CLIENT_FINISHED_COMPLETE             == 9

\* connectState and acceptState, in the order the switches fall through.
ConnectStates ==
    {"CONNECT_BEGIN", "CLIENT_HELLO_SENT", "HELLO_AGAIN", "HELLO_AGAIN_REPLY",
     "FIRST_REPLY_DONE", "FIRST_REPLY_FIRST", "FIRST_REPLY_SECOND",
     "FIRST_REPLY_THIRD", "FIRST_REPLY_FOURTH", "FINISHED_DONE"}

AcceptStates ==
    {"ACCEPT_BEGIN", "ACCEPT_CLIENT_HELLO_DONE",
     "ACCEPT_HELLO_RETRY_REQUEST_DONE", "ACCEPT_FIRST_REPLY_DONE",
     "ACCEPT_SECOND_REPLY_DONE", "SERVER_HELLO_SENT",
     "ACCEPT_THIRD_REPLY_DONE", "SERVER_EXTENSIONS_SENT", "CERT_REQ_SENT",
     "CERT_SENT", "CERT_VERIFY_SENT", "ACCEPT_FINISHED_SENT",
     "PRE_TICKET_SENT", "ACCEPT_FINISHED_DONE", "TICKET_SENT"}

\* The states in which flushing the outputBuffer completes the case, and what
\* connectState++ / acceptState++ makes of each.
AfterFlush ==
    [CONNECT_BEGIN                   |-> "CLIENT_HELLO_SENT",
     HELLO_AGAIN                     |-> "HELLO_AGAIN_REPLY",
     FIRST_REPLY_DONE                |-> "FIRST_REPLY_FIRST",
     FIRST_REPLY_FIRST               |-> "FIRST_REPLY_SECOND",
     FIRST_REPLY_SECOND              |-> "FIRST_REPLY_THIRD",
     FIRST_REPLY_THIRD               |-> "FIRST_REPLY_FOURTH",
     FIRST_REPLY_FOURTH              |-> "FINISHED_DONE",
     ACCEPT_CLIENT_HELLO_DONE        |-> "ACCEPT_HELLO_RETRY_REQUEST_DONE",
     ACCEPT_HELLO_RETRY_REQUEST_DONE |-> "ACCEPT_FIRST_REPLY_DONE",
     ACCEPT_SECOND_REPLY_DONE        |-> "SERVER_HELLO_SENT",
     SERVER_HELLO_SENT               |-> "ACCEPT_THIRD_REPLY_DONE",
     ACCEPT_THIRD_REPLY_DONE         |-> "SERVER_EXTENSIONS_SENT",
     SERVER_EXTENSIONS_SENT          |-> "CERT_REQ_SENT",
     CERT_REQ_SENT                   |-> "CERT_SENT",
     CERT_SENT                       |-> "CERT_VERIFY_SENT",
     CERT_VERIFY_SENT                |-> "ACCEPT_FINISHED_SENT",
     ACCEPT_FINISHED_SENT            |-> "PRE_TICKET_SENT",
     ACCEPT_FINISHED_DONE            |-> "TICKET_SENT"]

-----------------------------------------------------------------------------
(* Configuration and messages.                                             *)

VerifyPeer(e) == cfg[e].verify \in {"peer", "peerRequired"}

\* Mutant of FailNoCert: the flag of wolfSSL_set_verify is dropped.
NeverFailNoCert(e) == FALSE

FailNoCert(e) == cfg[e].verify = "peerRequired"

Hello(config)   == [t |-> "CH", ext |-> ClientHelloExts(config)]
Answer(s)       == [t |-> "EE", srv |-> s.srvType, clt |-> s.cltType,
                    did |-> s.ssiNegotiated]
Certificate(k)  == [t |-> "CERT", kind |-> k]
Plain(type)     == [t |-> type]

InitSSL(e, config) ==
    [sendVerify |-> "NO",       \* NO, SEND_CERT or SEND_BLANK_CERT
     peerCert   |-> FALSE,      \* havePeerCert
     peerVerify |-> FALSE,      \* havePeerVerify
     authGood   |-> FALSE,      \* peerAuthGood
     vcMode     |-> HasVC(config.mat),    \* ssiVCMode
     hsKey      |-> HasHsKey(config.mat), \* hsKey # NULL, an Ed25519 key
     fragment   |-> FALSE,      \* fragOffset # 0
     building   |-> FALSE,      \* buildingMsg
     srvType    |-> NoType,     \* the server and the client certificate type
     cltType    |-> NoType,     \* this side has negotiated
     cltOffered |-> 0,          \* received_ClientCertTypeCnt of the server
     ssiNegotiated |-> FALSE]

Init ==
    /\ cfg \in {[e \in Side |-> IF e = "client" THEN c ELSE s] :
                    c \in ClientConfigs, s \in ServerConfigs}
    /\ retry \in Retry
    /\ st = [e \in Side |-> IF e = "client" THEN "CONNECT_BEGIN" ELSE "ACCEPT_BEGIN"]
    /\ ctl = [e \in Side |-> "call"]
    /\ ss = [e \in Side |-> NULL_STATE]
    /\ cs = NULL_STATE
    /\ ssl = [e \in Side |-> InitSSL(e, cfg[e])]
    /\ seen = [e \in Side |-> {}]
    /\ sent = [e \in Side |-> <<>>]
    /\ flushed = [e \in Side |-> 0]
    /\ got = [e \in Side |-> 0]
    /\ stalls = [e \in Side |-> 0]
    /\ expired = [e \in Side |-> FALSE]
    /\ open = [e \in Side |-> TRUE]

-----------------------------------------------------------------------------
(* Building blocks.                                                        *)

In(e, state) == ctl[e] = "call" /\ st[e] = state

Goto(e, state) == st' = [st EXCEPT ![e] = state]

Fail(e) == ctl' = [ctl EXCEPT ![e] = "fail"]

Buffered(e) == flushed[e] < Len(sent[e])

\* Mutants of KeyKept: the code before its patch; an off-by-one in the state.
KeyNeverKept(e, s, serverState) == FALSE

KeyKeptToTheEnd(e, s, serverState) ==
    /\ s.hsKey /\ s.vcMode
    /\ e = "client"
    /\ serverState <= SERVER_FINISHED_COMPLETE

\* FreeKeyExchange: whether hsKey survives it in a WOLFSSL object of side e
\* with fields s and the given serverState.
KeyKept(e, s, serverState) ==
    /\ s.hsKey
    /\ s.vcMode
    /\ e = "client"
    /\ serverState < SERVER_FINISHED_COMPLETE

\* SendBuffered with log as everything built so far: it all reaches TCP; or a
\* prefix does and the call returns WANT_WRITE; or the write callback finds
\* the connection closed.
Flush(e, log) ==
    /\ flushed' = [flushed EXCEPT ![e] = Len(log)]
    /\ UNCHANGED stalls

Stall(e, log) ==
    /\ stalls[e] < MaxStalls
    /\ stalls' = [stalls EXCEPT ![e] = @ + 1]
    /\ \E n \in flushed[e] .. Len(log) - 1 :
           flushed' = [flushed EXCEPT ![e] = n]
    /\ ctl' = [ctl EXCEPT ![e] = "wants"]
    /\ UNCHANGED st

Lose(e) ==
    /\ ~open[Peer(e)]
    /\ Fail(e)
    /\ UNCHANGED <<st, flushed, stalls>>

\* A Send function: message m is appended to the outputBuffer; once that is
\* flushed the case is complete and the switch falls through to next.
Send(e, m, next) ==
    LET log == Append(sent[e], m) IN
    /\ sent' = [sent EXCEPT ![e] = log]
    /\ \/ Flush(e, log) /\ Goto(e, next) /\ UNCHANGED ctl
       \/ Stall(e, log)
       \/ Lose(e)
    /\ UNCHANGED <<setup, cs, seen, got, clocks>>

-----------------------------------------------------------------------------
(* wolfSSL_connect_TLSv13 and wolfSSL_accept_TLSv13: entering again.       *)

\* Mutant of CaseComplete: the last case of a flight is run again.
CaseCompleteButLast(e) ==
    /\ ~ssl[e].fragment
    /\ ~ssl[e].building
    /\ st[e] \in DOMAIN AfterFlush \ {"FIRST_REPLY_FOURTH", "CERT_VERIFY_SENT"}

\* Does a flush complete the case?  Not while its message is still in
\* fragments or under construction.
CaseComplete(e) ==
    /\ ~ssl[e].fragment
    /\ ~ssl[e].building
    /\ st[e] \in DOMAIN AfterFlush

\* A call after WANT_WRITE: flush first, then complete the case.
ReenterToWrite(e) ==
    /\ ctl[e] = "wants" /\ ~expired[e]
    /\ Buffered(e)
    /\ \/ /\ Flush(e, sent[e])
          /\ ctl' = [ctl EXCEPT ![e] = "call"]
          /\ IF CaseComplete(e) THEN Goto(e, AfterFlush[st[e]]) ELSE UNCHANGED st
       \/ Stall(e, sent[e])
       \/ Lose(e)
    /\ UNCHANGED <<setup, session, sent, got, clocks>>

\* A call after WANT_READ.  With nothing to read it would return WANT_READ
\* again and change nothing, so it is left out until there is something.
ReenterToRead(e) ==
    /\ ctl[e] = "wants" /\ ~expired[e]
    /\ ~Buffered(e)
    /\ got[e] < flushed[Peer(e)] \/ ~open[Peer(e)]
    /\ ctl' = [ctl EXCEPT ![e] = "call"]
    /\ UNCHANGED <<setup, st, session, wire, got, clocks>>

-----------------------------------------------------------------------------
(* Cases that call ProcessReply until serverState or clientState has       *)
(* reached the value they wait for.                                        *)

\* Mutant of ClientAwaits: the server's signature is enough.
ClientAwaitsSignature ==
    \/ /\ st["client"] = "CLIENT_HELLO_SENT"
       /\ ss["client"] < SERVER_HELLO_RETRY_REQUEST_COMPLETE
    \/ /\ st["client"] = "HELLO_AGAIN_REPLY"
       /\ ss["client"] < SERVER_CERT_VERIFY_COMPLETE

ClientAwaits ==
    \/ /\ st["client"] = "CLIENT_HELLO_SENT"
       /\ ss["client"] < SERVER_HELLO_RETRY_REQUEST_COMPLETE
    \/ /\ st["client"] = "HELLO_AGAIN_REPLY"
       /\ ss["client"] < SERVER_FINISHED_COMPLETE

\* Mutant of ServerAwaits: the client's Finished is not waited for.
ServerAwaitsHello ==
    /\ st["server"] \in {"ACCEPT_BEGIN", "ACCEPT_FIRST_REPLY_DONE", "PRE_TICKET_SENT"}
    /\ Complete(cfg["server"].mat)
    /\ cs < CLIENT_HELLO_COMPLETE

ServerAwaits ==
    \/ /\ st["server"] = "ACCEPT_BEGIN"
       /\ Complete(cfg["server"].mat)
       /\ cs < CLIENT_HELLO_COMPLETE
    \/ /\ st["server"] = "ACCEPT_FIRST_REPLY_DONE"
       /\ ss["server"] = SERVER_HELLO_RETRY_REQUEST_COMPLETE
       /\ cs < CLIENT_HELLO_COMPLETE
    \/ /\ st["server"] = "PRE_TICKET_SENT"
       /\ cs < CLIENT_FINISHED_COMPLETE

Awaits(e) ==
    /\ ctl[e] = "call"
    /\ \/ e = "client" /\ ClientAwaits
       \/ e = "server" /\ ServerAwaits

\* Mutant of Arrived: records still in the peer's outputBuffer are read.
ArrivedUnsent(e) == got[e] < Len(sent[Peer(e)])

Arrived(e) == got[e] < flushed[Peer(e)]

\* Mutant of ReadNothing: the read callback never reports CONN_CLOSE.
ReadNothingOrAgain(e) ==
    /\ Awaits(e)
    /\ ~Arrived(e)
    /\ ctl' = [ctl EXCEPT ![e] = "wants"]
    /\ UNCHANGED <<setup, st, session, wire, got, clocks>>

\* No record: WANT_READ, or the connection is seen closed.  The sketches' read
\* callback may report CONN_CLOSE while data is still unread.
ReadNothing(e) ==
    /\ Awaits(e)
    /\ \/ /\ ~Arrived(e) /\ open[Peer(e)]
          /\ ctl' = [ctl EXCEPT ![e] = "wants"]
       \/ /\ ~open[Peer(e)]
          /\ Fail(e)
    /\ UNCHANGED <<setup, st, session, wire, got, clocks>>

Incoming(e) == sent[Peer(e)][got[e] + 1]

\* SanityCheckTls13MsgReceived: is a message of this type in order?
InOrder(e, type) ==
    IF e = "client"
    THEN CASE type \in {"SH", "HRR"} ->
                /\ ss[e] < SERVER_HELLO_COMPLETE
                /\ "SH" \notin seen[e]
           [] type = "EE" ->
                /\ ss[e] = SERVER_HELLO_COMPLETE
                /\ "EE" \notin seen[e]
           [] type \in {"CR", "CERT"} ->
                /\ ss[e] = SERVER_ENCRYPTED_EXTENSIONS_COMPLETE
                /\ type \notin seen[e]
           [] type = "CV" ->
                /\ ss[e] = SERVER_CERT_COMPLETE
                /\ "CV" \notin seen[e]
           [] type = "FIN" ->
                /\ ss[e] = SERVER_CERT_VERIFY_COMPLETE
                /\ VerifyPeer(e) => ssl[e].peerCert /\ ssl[e].peerVerify
                /\ "FIN" \notin seen[e]
           [] OTHER -> FALSE
    ELSE CASE type = "CH" ->
                /\ cs < CLIENT_HELLO_COMPLETE
                /\ "CH" \in seen[e] =>
                       ss[e] = SERVER_HELLO_RETRY_REQUEST_COMPLETE
           [] type = "CERT" ->
                /\ \/ cs = CLIENT_HELLO_COMPLETE
                   \/ ss[e] >= SERVER_FINISHED_COMPLETE
                /\ "CERT" \notin seen[e]
           [] type = "CV" ->
                /\ ss[e] >= SERVER_FINISHED_COMPLETE
                /\ cs >= CLIENT_HELLO_COMPLETE
                /\ "CERT" \in seen[e]
                /\ "CV" \notin seen[e]
           [] type = "FIN" ->
                /\ ss[e] >= SERVER_FINISHED_COMPLETE
                /\ cs >= CLIENT_HELLO_COMPLETE
                /\ VerifyPeer(e) =>
                       /\ "CERT" \in seen[e]
                       /\ ssl[e].peerCert => ssl[e].peerVerify
                /\ "FIN" \notin seen[e]
           [] OTHER -> FALSE

\* The client's type for the server's certificate, the server's type for the
\* client's: what a Certificate received by e is supposed to hold.
PeerType(e) == IF e = "client" THEN ssl[e].srvType ELSE ssl[e].cltType

\* The verify modes that come with the sketches' verify_cb, which overrides
\* every certificate error but a parse error.
Overrides(e) == VerifyPeer(e)

\* Is the type of a received certificate compared with the negotiated one?
\* By the client whenever the server answered with a type, by the server only
\* when the client had offered exactly one.
TypeChecked(e) == e = "client" \/ ssl[e].cltOffered = 1

\* ProcessPeerCerts: does e go on after a Certificate of this kind?
CertAccepted(e, kind) ==
    \/ kind = "blank" /\ e = "server"
    \/ /\ kind # "blank"
       /\ Parses(kind, PeerType(e))
       /\ Mismatch(kind, PeerType(e)) /\ TypeChecked(e) => Overrides(e)

\* Every check DoTls13HandShakeMsgType and the handler it calls make on m.
Accepts(e, m) ==
    /\ InOrder(e, m.t)
    /\ m.t = "CH" => ~ClientTypeError(cfg[e], m.ext)
    /\ m.t = "CERT" => CertAccepted(e, m.kind)
    /\ m.t = "FIN" /\ e = "server" /\ FailNoCert(e) =>
           ssl[e].peerCert /\ ssl[e].peerVerify

\* ProcessReply takes a record with a message of this type and its handler
\* returns 0.
Handle(e, type) ==
    /\ Awaits(e)
    /\ Arrived(e)
    /\ Incoming(e).t = type
    /\ Accepts(e, Incoming(e))
    /\ got' = [got EXCEPT ![e] = @ + 1]
    /\ seen' = [seen EXCEPT ![e] = IF type = "HRR" THEN @ ELSE @ \cup {type}]
    /\ UNCHANGED <<setup, st, ctl, stalls, clocks>>

Reach(e, serverState) == ss' = [ss EXCEPT ![e] = serverState]

\* SendAlert: the alert is built and SendBuffered called, its result ignored.
Alert(e) ==
    /\ sent' = [sent EXCEPT ![e] = Append(@, Plain("ALERT"))]
    /\ flushed' \in {flushed, [flushed EXCEPT ![e] = Len(sent[e]) + 1]}

NoAlert == UNCHANGED <<sent, flushed>>

-----------------------------------------------------------------------------
(* The client: wolfSSL_connect_TLSv13.                                     *)

SendClientHello ==
    /\ Send("client", Hello(cfg["client"]),
            IF st["client"] = "CONNECT_BEGIN" THEN "CLIENT_HELLO_SENT"
                                              ELSE "HELLO_AGAIN_REPLY")
    /\ \/ In("client", "CONNECT_BEGIN")
       \/ /\ In("client", "HELLO_AGAIN")
          /\ ss["client"] = SERVER_HELLO_RETRY_REQUEST_COMPLETE
    /\ UNCHANGED <<ss, ssl>>

DoServerHello ==
    /\ \/ Handle("client", "SH") /\ Reach("client", SERVER_HELLO_COMPLETE)
       \/ /\ Handle("client", "HRR")
          /\ Reach("client", SERVER_HELLO_RETRY_REQUEST_COMPLETE)
    /\ NoAlert
    /\ UNCHANGED <<cs, ssl>>

DoEncryptedExtensions ==
    /\ Handle("client", "EE")
    /\ Reach("client", SERVER_ENCRYPTED_EXTENSIONS_COMPLETE)
    /\ LET m == Incoming("client") IN
           ssl' = [ssl EXCEPT !["client"].srvType = m.srv,
                              !["client"].cltType = m.clt,
                              !["client"].ssiNegotiated = m.did]
    /\ NoAlert
    /\ UNCHANGED cs

DoCertificateRequest ==
    /\ Handle("client", "CR")
    /\ ssl' = [ssl EXCEPT !["client"].sendVerify =
                   IF Complete(cfg["client"].mat) THEN "SEND_CERT"
                                                  ELSE "SEND_BLANK_CERT"]
    /\ NoAlert
    /\ UNCHANGED <<ss, cs>>

\* The cases that do nothing, or nothing more, and fall through.
ConnectFallsThrough ==
    /\ ctl["client"] = "call"
    /\ \/ /\ st["client"] = "CLIENT_HELLO_SENT" /\ ~Awaits("client")
          /\ Goto("client", "HELLO_AGAIN")
       \/ /\ st["client"] = "HELLO_AGAIN"
          /\ ss["client"] # SERVER_HELLO_RETRY_REQUEST_COMPLETE
          /\ Goto("client", "HELLO_AGAIN_REPLY")
       \/ /\ st["client"] = "HELLO_AGAIN_REPLY" /\ ~Awaits("client")
          /\ Goto("client", "FIRST_REPLY_DONE")
       \/ /\ st["client"] = "FIRST_REPLY_DONE"
          /\ Goto("client", "FIRST_REPLY_FIRST")
       \/ /\ st["client"] = "FIRST_REPLY_FIRST"
          /\ Goto("client", "FIRST_REPLY_SECOND")
       \/ /\ st["client"] = "FIRST_REPLY_THIRD"
          /\ ssl["client"].sendVerify # "SEND_CERT"
          /\ Goto("client", "FIRST_REPLY_FOURTH")
    /\ ssl' = [ssl EXCEPT !["client"].building =
                   @ \/ (/\ st["client"] = "FIRST_REPLY_THIRD"
                         /\ ssl["client"].sendVerify = "SEND_BLANK_CERT")]
    /\ UNCHANGED <<setup, ctl, ss, cs, seen, wire, got, clocks>>

\* FIRST_REPLY_SECOND: the server must have proved itself; without a request
\* for a certificate there is nothing else to do.
CheckServerAuth ==
    /\ In("client", "FIRST_REPLY_SECOND")
    /\ ssl["client"].sendVerify = "NO" \/ ~ssl["client"].authGood
    /\ IF ssl["client"].authGood
       THEN Goto("client", "FIRST_REPLY_THIRD") /\ UNCHANGED ctl
       ELSE Fail("client") /\ UNCHANGED st
    /\ UNCHANGED <<setup, session, wire, got, clocks>>

ConnectSucceeds ==
    /\ In("client", "FINISHED_DONE")
    /\ ctl' = [ctl EXCEPT !["client"] = "ok"]
    /\ UNCHANGED <<setup, st, session, wire, got, clocks>>

-----------------------------------------------------------------------------
(* The server: wolfSSL_accept_TLSv13.                                      *)

DoClientHello ==
    LET m == Incoming("server") IN
    /\ Handle("server", "CH")
    /\ cs' = CLIENT_HELLO_COMPLETE
    /\ IF retry /\ ss["server"] = NULL_STATE
       THEN Reach("server", SERVER_HELLO_RETRY_REQUEST_COMPLETE)
       ELSE UNCHANGED ss
    /\ ssl' = [ssl EXCEPT
                  !["server"].sendVerify = "SEND_CERT",
                  !["server"].srvType = ServerType(cfg["server"], m.ext),
                  !["server"].cltType = ClientType(cfg["server"], m.ext),
                  !["server"].cltOffered = IF cfg["server"].verify = "none"
                                           THEN 0 ELSE Len(m.ext.clt),
                  !["server"].ssiNegotiated = m.ext.did]
    /\ IF ServerTypeAlert(cfg["server"], m.ext) THEN Alert("server") ELSE NoAlert

\* A first ClientHello that is to be retried, or the ServerHello.
SendServerHello ==
    \/ /\ In("server", "ACCEPT_CLIENT_HELLO_DONE")
       /\ ss["server"] = SERVER_HELLO_RETRY_REQUEST_COMPLETE
       /\ Send("server", Plain("HRR"), "ACCEPT_HELLO_RETRY_REQUEST_DONE")
       /\ UNCHANGED <<ss, ssl>>
    \/ /\ In("server", "ACCEPT_SECOND_REPLY_DONE")
       /\ Send("server", Plain("SH"), "SERVER_HELLO_SENT")
       /\ Reach("server", SERVER_HELLO_COMPLETE)
       /\ UNCHANGED ssl

SendEncryptedExtensions ==
    /\ In("server", "ACCEPT_THIRD_REPLY_DONE")
    /\ Send("server", Answer(ssl["server"]), "SERVER_EXTENSIONS_SENT")
    /\ Reach("server", SERVER_ENCRYPTED_EXTENSIONS_COMPLETE)
    /\ UNCHANGED ssl

SendCertificateRequest ==
    /\ In("server", "SERVER_EXTENSIONS_SENT")
    /\ VerifyPeer("server")
    /\ Send("server", Plain("CR"), "CERT_REQ_SENT")
    /\ UNCHANGED <<ss, ssl>>

AcceptFallsThrough ==
    /\ ctl["server"] = "call"
    /\ \/ /\ st["server"] = "ACCEPT_BEGIN"
          /\ Complete(cfg["server"].mat) /\ ~Awaits("server")
          /\ Goto("server", "ACCEPT_CLIENT_HELLO_DONE")
       \/ /\ st["server"] = "ACCEPT_CLIENT_HELLO_DONE"
          /\ ss["server"] # SERVER_HELLO_RETRY_REQUEST_COMPLETE
          /\ Goto("server", "ACCEPT_HELLO_RETRY_REQUEST_DONE")
       \/ /\ st["server"] = "ACCEPT_HELLO_RETRY_REQUEST_DONE"
          /\ Goto("server", "ACCEPT_FIRST_REPLY_DONE")
       \/ /\ st["server"] = "ACCEPT_FIRST_REPLY_DONE" /\ ~Awaits("server")
          /\ Goto("server", "ACCEPT_SECOND_REPLY_DONE")
       \/ /\ st["server"] = "SERVER_HELLO_SENT"
          /\ Goto("server", "ACCEPT_THIRD_REPLY_DONE")
       \/ /\ st["server"] = "SERVER_EXTENSIONS_SENT" /\ ~VerifyPeer("server")
          /\ Goto("server", "CERT_REQ_SENT")
       \/ /\ st["server"] = "ACCEPT_FINISHED_SENT"
          /\ Goto("server", "PRE_TICKET_SENT")
       \/ /\ st["server"] = "PRE_TICKET_SENT" /\ ~Awaits("server")
          /\ Goto("server", "ACCEPT_FINISHED_DONE")
    \* entering ACCEPT_FIRST_REPLY_DONE after a retry waits for a second hello
    /\ cs' = IF /\ st["server"] = "ACCEPT_HELLO_RETRY_REQUEST_DONE"
                /\ ss["server"] = SERVER_HELLO_RETRY_REQUEST_COMPLETE
             THEN CLIENT_HELLO_RETRY ELSE cs
    \* a server that does not verify takes its peer as authenticated
    /\ ssl' = [ssl EXCEPT !["server"].authGood =
                   @ \/ st["server"] = "SERVER_EXTENSIONS_SENT"]
    /\ UNCHANGED <<setup, ctl, ss, seen, wire, got, clocks>>

\* ACCEPT_FINISHED_DONE: a client without a certificate is good enough unless
\* one was required.
CheckClientAuth ==
    LET good == \/ ssl["server"].authGood
                \/ /\ VerifyPeer("server") /\ ~FailNoCert("server")
                   /\ ~ssl["server"].peerCert
    IN  /\ In("server", "ACCEPT_FINISHED_DONE")
        /\ IF good THEN Goto("server", "TICKET_SENT") /\ UNCHANGED ctl
                   ELSE Fail("server") /\ UNCHANGED st
        /\ ssl' = [ssl EXCEPT !["server"].authGood = good]
        /\ UNCHANGED <<setup, ss, cs, seen, wire, got, clocks>>

\* accept fails at once without a certificate or without a key.
AcceptWithoutCredentials ==
    /\ ctl["server"] = "call"
    /\ ~Complete(cfg["server"].mat)
    /\ Fail("server")
    /\ UNCHANGED <<setup, st, session, wire, got, clocks>>

AcceptSucceeds ==
    /\ In("server", "TICKET_SENT")
    /\ ctl' = [ctl EXCEPT !["server"] = "ok"]
    /\ UNCHANGED <<setup, st, session, wire, got, clocks>>

-----------------------------------------------------------------------------
(* Both sides: certificates, signatures and Finished.                      *)

CertState(e) == IF e = "client" THEN "FIRST_REPLY_SECOND" ELSE "CERT_REQ_SENT"
VerifyState(e) == IF e = "client" THEN "FIRST_REPLY_THIRD" ELSE "CERT_SENT"
FinishedState(e) == IF e = "client" THEN "FIRST_REPLY_FOURTH" ELSE "CERT_VERIFY_SENT"

AfterCert(e) == VerifyState(e)
AfterVerify(e) == FinishedState(e)
AfterFinished(e) == IF e = "client" THEN "FINISHED_DONE" ELSE "ACCEPT_FINISHED_SENT"

\* SendTls13Certificate.  The credential loaded is sent, whatever was
\* negotiated.  fragOffset is cleared unless the record is stuck in the buffer.
SendCertificate(e) ==
    LET blank == ssl[e].sendVerify = "SEND_BLANK_CERT" IN
    /\ In(e, CertState(e))
    /\ ssl[e].sendVerify # "NO"
    /\ e = "client" => ssl[e].authGood
    /\ ~ssl[e].fragment
    /\ Send(e, Certificate(IF blank THEN "blank" ELSE cfg[e].mat), AfterCert(e))
    /\ ssl' = [ssl EXCEPT ![e].building = FALSE,
                          ![e].fragment = ~blank /\ ctl'[e] = "wants"]
    /\ IF e = "server" /\ ctl'[e] # "wants"
       THEN Reach(e, SERVER_CERT_COMPLETE)
       ELSE UNCHANGED ss

\* Called again after the stuck record was flushed: nothing is left to send.
SendCertificateRest(e) ==
    /\ In(e, CertState(e))
    /\ ssl[e].fragment
    /\ ssl' = [ssl EXCEPT ![e].building = FALSE, ![e].fragment = FALSE]
    /\ IF e = "server" THEN Reach(e, SERVER_CERT_COMPLETE) ELSE UNCHANGED ss
    /\ Goto(e, AfterCert(e))
    /\ UNCHANGED <<setup, ctl, cs, seen, wire, got, clocks>>

\* Is there a private key to sign with?  A VC comes with a raw key that only
\* use_Ed25519_key can turn into hsKey; DecodePrivateKey reads DER.
CanSign(e) == cfg[e].mat = "X509" \/ (ssl[e].vcMode /\ ssl[e].hsKey)

SendCertificateVerify(e) ==
    /\ In(e, VerifyState(e))
    /\ ssl[e].sendVerify = "SEND_CERT"
    /\ IF CanSign(e)
       THEN Send(e, Plain("CV"), AfterVerify(e))
       ELSE /\ Fail(e)
            /\ UNCHANGED <<setup, st, cs, seen, wire, got, clocks>>
    /\ ssl' = [ssl EXCEPT ![e].building = ~CanSign(e),
                          ![e].hsKey = KeyKept(e, ssl[e], ss[e])]
    /\ UNCHANGED ss

SendFinished(e) ==
    /\ In(e, FinishedState(e))
    /\ Send(e, Plain("FIN"), AfterFinished(e))
    /\ ssl' = [ssl EXCEPT ![e].building = FALSE]
    /\ IF e = "server" THEN Reach(e, SERVER_FINISHED_COMPLETE) ELSE UNCHANGED ss

\* A required certificate that is blank raises a fatal alert, but verify_cb
\* overrides the error itself.
DoCertificate(e) ==
    LET kind  == Incoming(e).kind
        after == [ssl[e] EXCEPT !.peerCert = kind # "blank",
                                !.vcMode = @ \/ kind = "VC"]
    IN  /\ Handle(e, "CERT")
        /\ IF e = "client" THEN Reach(e, SERVER_CERT_COMPLETE) ELSE UNCHANGED ss
        /\ ssl' = [ssl EXCEPT ![e] =
                      [after EXCEPT !.hsKey = KeyKept(e, after, ss[e])]]
        /\ IF kind = "blank" /\ FailNoCert(e) THEN Alert(e) ELSE NoAlert
        /\ UNCHANGED cs

DoCertificateVerify(e) ==
    /\ Handle(e, "CV")
    /\ IF e = "client" THEN Reach(e, SERVER_CERT_VERIFY_COMPLETE) ELSE UNCHANGED ss
    /\ ssl' = [ssl EXCEPT ![e].authGood = TRUE, ![e].peerVerify = TRUE,
                          ![e].hsKey = KeyKept(e, ssl[e], ss'[e])]
    /\ NoAlert
    /\ UNCHANGED cs

DoFinished(e) ==
    /\ Handle(e, "FIN")
    /\ IF e = "client"
       THEN Reach(e, SERVER_FINISHED_COMPLETE) /\ UNCHANGED cs
       ELSE cs' = CLIENT_FINISHED_COMPLETE /\ UNCHANGED ss
    /\ NoAlert
    /\ UNCHANGED ssl

\* A message that is not accepted ends the handshake, with an alert in most
\* cases; a certificate that was looked at costs the handshake key.
Reject(e) ==
    /\ Awaits(e)
    /\ Arrived(e)
    /\ Incoming(e).t # "ALERT"
    /\ ~Accepts(e, Incoming(e))
    /\ Fail(e)
    /\ got' = [got EXCEPT ![e] = @ + 1]
    /\ ssl' = [ssl EXCEPT ![e].hsKey =
                  IF Incoming(e).t = "CERT" THEN KeyKept(e, ssl[e], ss[e]) ELSE @]
    /\ Alert(e) \/ NoAlert
    /\ UNCHANGED <<setup, st, ss, cs, seen, stalls, clocks>>

DoAlert(e) ==
    /\ Awaits(e)
    /\ Arrived(e)
    /\ Incoming(e).t = "ALERT"
    /\ Fail(e)
    /\ got' = [got EXCEPT ![e] = @ + 1]
    /\ UNCHANGED <<setup, st, session, wire, clocks>>

-----------------------------------------------------------------------------
(* The sketches' loop around connect and accept.                           *)

\* HS_TIMEOUT passes.
TimePasses(e) ==
    /\ Deadline
    /\ ctl[e] \in {"call", "wants"}
    /\ ~expired[e]
    /\ expired' = [expired EXCEPT ![e] = TRUE]
    /\ UNCHANGED <<setup, st, ctl, session, wire, got, open>>

\* The time is looked at only between calls.
GiveUp(e) ==
    /\ ctl[e] = "wants"
    /\ expired[e]
    /\ Fail(e)
    /\ UNCHANGED <<setup, st, session, wire, got, clocks>>

\* wolfSSL_shutdown, wolfSSL_free and stop().  wolfSSL_free only calls
\* FreeKeyExchange: a key it keeps is lost.
Free(e) ==
    /\ open[e]
    /\ ctl[e] \in {"ok", "fail"}
    /\ open' = [open EXCEPT ![e] = FALSE]
    /\ ssl' = [ssl EXCEPT ![e].hsKey = KeyKept(e, ssl[e], ss[e])]
    /\ UNCHANGED <<setup, st, ctl, ss, cs, seen, wire, got, expired>>

-----------------------------------------------------------------------------

ClientCall ==
    \/ SendClientHello
    \/ DoServerHello
    \/ DoEncryptedExtensions
    \/ DoCertificateRequest
    \/ ConnectFallsThrough
    \/ CheckServerAuth
    \/ ConnectSucceeds

ServerCall ==
    \/ AcceptWithoutCredentials
    \/ DoClientHello
    \/ SendServerHello
    \/ SendEncryptedExtensions
    \/ SendCertificateRequest
    \/ AcceptFallsThrough
    \/ CheckClientAuth
    \/ AcceptSucceeds

\* What the program of side e does.
Program(e) ==
    \/ e = "client" /\ ClientCall
    \/ e = "server" /\ ServerCall
    \/ ReenterToWrite(e)
    \/ ReenterToRead(e)
    \/ ReadNothing(e)
    \/ DoCertificate(e)
    \/ DoCertificateVerify(e)
    \/ DoFinished(e)
    \/ Reject(e)
    \/ DoAlert(e)
    \/ SendCertificate(e)
    \/ SendCertificateRest(e)
    \/ SendCertificateVerify(e)
    \/ SendFinished(e)
    \/ GiveUp(e)
    \/ Free(e)

Next == \E e \in Side : Program(e) \/ TimePasses(e)

\* Both boards run on.  Nothing is asked of their clocks: HS_TIMEOUT may pass
\* at any moment, and may also never be what ends a handshake.
Fairness == \A e \in Side : WF_vars(Program(e))

Spec == Init /\ [][Next]_vars

FairSpec == Spec /\ Fairness

=============================================================================
