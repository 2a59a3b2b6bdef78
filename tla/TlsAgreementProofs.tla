------------------------- MODULE TlsAgreementProofs -------------------------
(***************************************************************************)
(* Theorems about what relates the two sides of a handshake: who has shown *)
(* and proved what to whom, who may succeed, and what both have agreed on; *)
(* and about a side's own messages: they are built once and in order,      *)
(* whatever stalls and however often its switch is entered again.          *)
(***************************************************************************)
EXTENDS TlsProofs, FiniteSetTheorems

-----------------------------------------------------------------------------
(* What a step leaves alone.                                               *)

\* Nothing is taken back: records stay in the logs, and are read once.
Grown ==
    /\ cfg' = cfg /\ retry' = retry
    /\ \A d \in Side :
           /\ Len(sent'[d]) >= Len(sent[d])
           /\ \A i \in 1 .. Len(sent[d]) : sent'[d][i] = sent[d][i]
           /\ got'[d] >= got[d] /\ flushed'[d] >= flushed[d]

LEMMA SendGrows ==
    ASSUME TypeOK, NEW e \in Side, NEW m \in Messages, NEW next, Send(e, m, next)
    PROVE  Grown
<1> DEFINE log == Append(sent[e], m)
<1>1. /\ log \in Seq(Messages) /\ Len(log) = Len(sent[e]) + 1
      /\ \A i \in 1 .. Len(sent[e]) : log[i] = sent[e][i]
  BY DEF TypeOK
<1>2. sent' = [sent EXCEPT ![e] = log] /\ UNCHANGED <<setup, got>>
  BY DEF Send
<1>3. \A d \in Side : flushed'[d] >= flushed[d]
  <2>1. CASE Flush(e, log)
    BY <1>1, <2>1 DEF Flush, TypeOK
  <2>2. CASE Stall(e, log)
    BY <1>1, <2>2 DEF Stall, TypeOK
  <2>3. CASE Lose(e)
    BY <1>1, <2>3 DEF Lose, TypeOK
  <2> QED
    BY <2>1, <2>2, <2>3 DEF Send
<1> QED
  BY <1>1, <1>2, <1>3 DEF Grown, TypeOK, setup

LEMMA ReadGrows ==
    ASSUME TypeOK, NEW e \in Side, Alert(e) \/ NoAlert,
           got' = [got EXCEPT ![e] = @ + 1], UNCHANGED setup
    PROVE  Grown
<1>1. Plain("ALERT") \in Messages
  BY DEF Plain, Messages
<1> DEFINE log == Append(sent[e], Plain("ALERT"))
<1>2. /\ log \in Seq(Messages) /\ Len(log) = Len(sent[e]) + 1
      /\ \A i \in 1 .. Len(sent[e]) : log[i] = sent[e][i]
  BY <1>1 DEF TypeOK
<1>3. CASE Alert(e)
  <2>1. sent' = [sent EXCEPT ![e] = log]
    BY <1>3 DEF Alert
  <2>2. flushed' = flushed \/ flushed' = [flushed EXCEPT ![e] = Len(sent[e]) + 1]
    BY <1>3 DEF Alert
  <2> HIDE DEF log
  <2>3. \A d \in Side : flushed'[d] >= flushed[d]
    <3>1. /\ flushed \in [Side -> Nat]
          /\ flushed[e] <= Len(sent[e]) /\ Len(sent[e]) \in Nat
      BY DEF TypeOK
    <3> QED
      BY <2>2, <3>1
  <2> QED
    BY <1>2, <2>1, <2>3 DEF Grown, TypeOK, setup
<1>4. CASE NoAlert
  BY <1>4 DEF NoAlert, Grown, TypeOK, setup
<1> QED
  BY <1>3, <1>4

LEMMA LogsGrow ==
    ASSUME TypeOK, [Next]_vars
    PROVE  Grown
<1>0. \A d \in Side : Len(sent[d]) \in Nat /\ got[d] \in Nat /\ flushed[d] \in Nat
  BY DEF TypeOK
<1>1. ASSUME UNCHANGED <<setup, sent, flushed, got>> PROVE Grown
  BY <1>0, <1>1 DEF Grown, setup
<1>2. ASSUME NEW e \in Side, NEW type, Handle(e, type), Alert(e) \/ NoAlert PROVE Grown
  BY <1>2, ReadGrows DEF Handle
<1>3. /\ "client" \in Side /\ "server" \in Side
      /\ \A t \in {"HRR", "SH", "CR", "CV", "FIN"} : Plain(t) \in Messages
      /\ Hello(cfg["client"]) \in Messages
      /\ Answer(ssl["server"]) \in Messages
      /\ \A e \in Side : Certificate("blank") \in Messages
                         /\ Certificate(cfg[e].mat) \in Messages
  BY HelloType DEF Side, Plain, Messages, TypeOK, Answer, SSLFields, Certificate,
                   Configurations
<1>4. ASSUME NEW e \in Side, NEW next,
             \/ \E t \in {"HRR", "SH", "CR", "CV", "FIN"} : Send(e, Plain(t), next)
             \/ Send(e, Hello(cfg["client"]), next)
             \/ Send(e, Answer(ssl["server"]), next)
             \/ Send(e, Certificate("blank"), next)
             \/ Send(e, Certificate(cfg[e].mat), next)
      PROVE  Grown
  BY <1>3, <1>4, SendGrows
<1>5. ASSUME ClientCall PROVE Grown
  <2>1. CASE SendClientHello
    BY <1>3, <1>4, <2>1 DEF SendClientHello
  <2>2. CASE DoServerHello \/ DoEncryptedExtensions \/ DoCertificateRequest
    BY <1>2, <1>3, <2>2 DEF DoServerHello, DoEncryptedExtensions, DoCertificateRequest
  <2>3. CASE ConnectFallsThrough \/ CheckServerAuth \/ ConnectSucceeds
    BY <1>1, <2>3 DEF ConnectFallsThrough, CheckServerAuth, ConnectSucceeds, wire
  <2> QED
    BY <1>5, <2>1, <2>2, <2>3 DEF ClientCall
<1>6. ASSUME ServerCall PROVE Grown
  <2>1. CASE SendServerHello \/ SendEncryptedExtensions \/ SendCertificateRequest
    BY <1>3, <1>4, <2>1 DEF SendServerHello, SendEncryptedExtensions, SendCertificateRequest
  <2>2. CASE DoClientHello
    BY <1>2, <1>3, <2>2 DEF DoClientHello
  <2>3. CASE AcceptWithoutCredentials \/ AcceptFallsThrough \/ CheckClientAuth \/ AcceptSucceeds
    BY <1>1, <2>3
       DEF AcceptWithoutCredentials, AcceptFallsThrough, CheckClientAuth, AcceptSucceeds, wire
  <2> QED
    BY <1>6, <2>1, <2>2, <2>3 DEF ServerCall
<1>7. ASSUME NEW e \in Side, Program(e) \/ TimePasses(e) PROVE Grown
  <2>1. CASE SendCertificate(e)
    BY <1>4, <2>1 DEF SendCertificate
  <2>2. CASE SendCertificateVerify(e)
    BY <1>1, <1>4, <2>2 DEF SendCertificateVerify, wire
  <2>3. CASE SendFinished(e)
    BY <1>4, <2>3 DEF SendFinished
  <2>4. CASE DoCertificate(e) \/ DoCertificateVerify(e) \/ DoFinished(e)
    BY <1>2, <2>4 DEF DoCertificate, DoCertificateVerify, DoFinished
  <2>5. CASE Reject(e)
    BY <2>5, ReadGrows DEF Reject
  <2>6. CASE DoAlert(e)
    BY <2>6, ReadGrows DEF DoAlert, NoAlert, wire
  <2>7. CASE ReenterToWrite(e)
    <3>0. /\ flushed \in [Side -> Nat]
          /\ flushed[e] <= Len(sent[e]) /\ Len(sent[e]) \in Nat
      BY DEF TypeOK
    <3>1. \A d \in Side : flushed'[d] >= flushed[d]
      BY <2>7, <3>0 DEF ReenterToWrite, Flush, Stall, Lose
    <3> QED
      BY <1>0, <2>7, <3>1 DEF ReenterToWrite, Grown, setup
  <2>8. CASE SendCertificateRest(e) \/ ReenterToRead(e) \/ ReadNothing(e) \/ GiveUp(e)
             \/ Free(e) \/ TimePasses(e)
    BY <1>1, <2>8 DEF SendCertificateRest, ReenterToRead, ReadNothing, GiveUp, Free,
                      TimePasses, wire
  <2> QED
    BY <1>5, <1>6, <1>7, <2>1, <2>2, <2>3, <2>4, <2>5, <2>6, <2>7, <2>8 DEF Program
<1>8. CASE UNCHANGED vars
  BY <1>1, <1>8 DEF vars, wire
<1> QED
  BY <1>7, <1>8 DEF Next

-----------------------------------------------------------------------------
(* Steps that take no handshake message in, and steps that do.             *)

\* What e knows of its peer and of the negotiation stays; a side once
\* authenticated stays so.
Still(e) ==
    /\ seen' = seen
    /\ ssl'[e].peerCert = ssl[e].peerCert /\ ssl'[e].peerVerify = ssl[e].peerVerify
    /\ ssl'[e].srvType = ssl[e].srvType /\ ssl'[e].cltType = ssl[e].cltType
    /\ ssl[e].authGood => ssl'[e].authGood
    /\ e = "client" => ss'["client"] = ss["client"] /\ cs' = cs
    /\ \/ cs' = cs
       \/ /\ cs' = CLIENT_HELLO_RETRY
          /\ st["server"] = "ACCEPT_HELLO_RETRY_REQUEST_DONE"

Reads(e) ==
    \/ e = "client" /\ (DoServerHello \/ DoEncryptedExtensions \/ DoCertificateRequest)
    \/ e = "server" /\ DoClientHello
    \/ DoCertificate(e) \/ DoCertificateVerify(e) \/ DoFinished(e)

LEMMA StillOrReads ==
    ASSUME TypeOK, NEW e \in Side, Program(e) \/ TimePasses(e)
    PROVE  Still(e) \/ Reads(e)
<1>0. ssl \in [Side -> SSLFields] /\ ss \in [Side -> 0 .. 9] /\ "client" \in Side
      /\ \A s \in SSLFields : s.authGood \in BOOLEAN
  BY DEF TypeOK, Side, SSLFields
<1> SUFFICES ASSUME ~Reads(e) PROVE Still(e)
  OBVIOUS
<1> USE DEF Still
<1>1. ASSUME e = "client", ClientCall PROVE Still(e)
  <2>1. CASE SendClientHello
    BY <2>1 DEF SendClientHello, Send
  <2>2. CASE ConnectFallsThrough
    <3>1. PICK b : ssl' = [ssl EXCEPT !["client"].building = b]
      BY <2>2 DEF ConnectFallsThrough
    <3> QED
      BY <1>0, <1>1, <2>2, <3>1 DEF ConnectFallsThrough, SSLFields
  <2>3. CASE CheckServerAuth \/ ConnectSucceeds
    BY <2>3 DEF CheckServerAuth, ConnectSucceeds, session
  <2> QED
    BY <1>1, <2>1, <2>2, <2>3 DEF ClientCall, Reads
<1>2. ASSUME e = "server", ServerCall PROVE Still(e)
  <2>1. CASE SendServerHello \/ SendEncryptedExtensions \/ SendCertificateRequest
    BY <1>2, <2>1
       DEF SendServerHello, SendEncryptedExtensions, SendCertificateRequest, Send
  <2>2. CASE AcceptFallsThrough
    <3> DEFINE b == st["server"] = "SERVER_EXTENSIONS_SENT"
    <3>1. ssl' = [ssl EXCEPT !["server"].authGood = @ \/ b]
      BY <2>2 DEF AcceptFallsThrough
    <3> HIDE DEF b
    <3>2. \/ cs' = cs
          \/ /\ cs' = CLIENT_HELLO_RETRY
             /\ st["server"] = "ACCEPT_HELLO_RETRY_REQUEST_DONE"
      BY <2>2 DEF AcceptFallsThrough
    <3> QED
      BY <1>0, <1>2, <2>2, <3>1, <3>2 DEF AcceptFallsThrough, SSLFields
  <2>3. CASE CheckClientAuth
    <3> DEFINE good == \/ ssl["server"].authGood
                       \/ /\ VerifyPeer("server") /\ ~FailNoCert("server")
                          /\ ~ssl["server"].peerCert
    <3>1. ssl["server"].authGood => good
      OBVIOUS
    <3>2. ssl' = [ssl EXCEPT !["server"].authGood = good]
      BY <2>3 DEF CheckClientAuth
    <3> HIDE DEF good
    <3> QED
      BY <1>0, <1>2, <2>3, <3>1, <3>2 DEF CheckClientAuth, SSLFields
  <2>4. CASE AcceptWithoutCredentials \/ AcceptSucceeds
    BY <1>2, <2>4 DEF AcceptWithoutCredentials, AcceptSucceeds, session
  <2> QED
    BY <1>2, <2>1, <2>2, <2>3, <2>4 DEF ServerCall, Reads
<1>3. CASE SendCertificate(e)
  <2>1. PICK b : ssl' = [ssl EXCEPT ![e].building = FALSE, ![e].fragment = b]
    BY <1>3 DEF SendCertificate
  <2> QED
    BY <1>0, <1>3, <2>1 DEF SendCertificate, Send, SSLFields
<1>4. CASE SendCertificateRest(e)
  BY <1>0, <1>4 DEF SendCertificateRest, SSLFields
<1>5. CASE SendCertificateVerify(e)
  <2>1. PICK a, b : ssl' = [ssl EXCEPT ![e].building = a, ![e].hsKey = b]
    BY <1>5 DEF SendCertificateVerify
  <2> QED
    BY <1>0, <1>5, <2>1 DEF SendCertificateVerify, Send, SSLFields
<1>6. CASE SendFinished(e)
  BY <1>0, <1>6 DEF SendFinished, Send, SSLFields
<1>7. CASE Reject(e)
  <2>1. PICK b : ssl' = [ssl EXCEPT ![e].hsKey = b]
    BY <1>7 DEF Reject
  <2> QED
    BY <1>0, <1>7, <2>1 DEF Reject, SSLFields
<1>8. CASE Free(e)
  <2>1. PICK b : ssl' = [ssl EXCEPT ![e].hsKey = b]
    BY <1>8 DEF Free
  <2> QED
    BY <1>0, <1>8, <2>1 DEF Free, SSLFields
<1>9. CASE DoAlert(e) \/ ReenterToWrite(e) \/ ReenterToRead(e) \/ ReadNothing(e)
           \/ GiveUp(e) \/ TimePasses(e)
  BY <1>9 DEF DoAlert, ReenterToWrite, ReenterToRead, ReadNothing, GiveUp, TimePasses,
              session
<1> QED
  BY <1>1, <1>2, <1>3, <1>4, <1>5, <1>6, <1>7, <1>8, <1>9 DEF Program, Reads

\* The record that a read takes in is the next one of the peer's.
LEMMA ReadRecord ==
    ASSUME TypeOK, NEW e \in Side, NEW type, Handle(e, type), Alert(e) \/ NoAlert
    PROVE  /\ got'[e] = got[e] + 1 /\ got[e] \in Nat
           /\ Incoming(e) = sent[Peer(e)][got[e] + 1]
           /\ got[e] + 1 \in 1 .. Len(sent[Peer(e)])
           /\ sent'[Peer(e)] = sent[Peer(e)]
           /\ Incoming(e).t = type /\ Accepts(e, Incoming(e))
           /\ seen' = [seen EXCEPT ![e] = IF type = "HRR" THEN @ ELSE @ \cup {type}]
           /\ st' = st /\ ctl' = ctl /\ ctl[e] = "call"
<1>1. /\ got[e] \in Nat /\ got[e] < flushed[Peer(e)]
      /\ flushed[Peer(e)] <= Len(sent[Peer(e)]) /\ Len(sent[Peer(e)]) \in Nat
      /\ flushed[Peer(e)] \in Nat
  BY DEF Handle, Arrived, TypeOK, Side, Peer
<1>2. sent'[Peer(e)] = sent[Peer(e)]
  BY DEF Alert, NoAlert, TypeOK, Side, Peer
<1> QED
  BY <1>1, <1>2 DEF Handle, Incoming, Awaits, TypeOK

\* A step of one side leaves the other's reads and negotiation alone.
LEMMA OtherSide ==
    ASSUME TypeOK, NEW e \in Side, NEW d \in Side \ {e}, Program(e) \/ TimePasses(e)
    PROVE  /\ Untouched(d)
           /\ d = "server" => cs' = cs
<1>1. Untouched(d)
  BY Frame
<1>2. d = "server" => e = "client"
  BY DEF Side
<1>3. ASSUME e = "client", Reads(e) PROVE cs' = cs
  BY <1>3 DEF Reads, DoServerHello, DoEncryptedExtensions, DoCertificateRequest,
              DoCertificate, DoCertificateVerify, DoFinished
<1> QED
  BY <1>1, <1>2, <1>3, StillOrReads DEF Still

-----------------------------------------------------------------------------
(* How the two switches move.                                              *)

LastState(e) == IF e = "client" THEN "FINISHED_DONE" ELSE "TICKET_SENT"

\* The states the server enters with the client's Finished behind it.
ServerHeardAll == {"ACCEPT_FINISHED_DONE", "TICKET_SENT"}

Moved(e) ==
    /\ ctl[e] \in {"ok", "fail"} => ctl'[e] = ctl[e] /\ st'[e] = st[e]
    /\ ctl'[e] = "ok" => ctl[e] = "ok" \/ (ctl[e] = "call" /\ st[e] = LastState(e))
    /\ st[e] = LastState(e) => st'[e] = st[e]
    /\ e = "client" =>
           /\ st[e] = "FINISHED_DONE" /\ ctl[e] = "call" => ctl'[e] \in {"call", "ok"}
           /\ st'[e] = "FINISHED_DONE" => st[e] \in {"FINISHED_DONE", "FIRST_REPLY_FOURTH"}
           /\ st[e] = "FIRST_REPLY_FOURTH" /\ st'[e] # st[e] => ctl'[e] = "call"
           /\ st'[e] = "FIRST_REPLY_FOURTH" /\ ctl'[e] = "wants" =>
                  ctl[e] = "wants" \/ SendFinished(e)
           /\ st'[e] = "CONNECT_BEGIN" => st[e] = "CONNECT_BEGIN"
           /\ st'[e] = "CLIENT_HELLO_SENT" => st[e] \in {"CONNECT_BEGIN", "CLIENT_HELLO_SENT"}
           /\ st'[e] = "HELLO_AGAIN" =>
                  \/ st[e] = "HELLO_AGAIN"
                  \/ st[e] = "CLIENT_HELLO_SENT" /\ ss[e] # NULL_STATE
    /\ e = "server" =>
           /\ st'[e] = "ACCEPT_BEGIN" => st[e] = "ACCEPT_BEGIN"
           /\ st'[e] = "ACCEPT_CLIENT_HELLO_DONE" =>
                  st[e] \in {"ACCEPT_BEGIN", "ACCEPT_CLIENT_HELLO_DONE"}
           /\ st'[e] \in ServerHeardAll =>
                  /\ cs' = cs
                  /\ st[e] \in ServerHeardAll \/ cs >= CLIENT_FINISHED_COMPLETE
           /\ st'[e] # "ACCEPT_BEGIN" => st[e] # "ACCEPT_BEGIN" \/ cs # NULL_STATE

LEMMA ReadMoves ==
    ASSUME TypeOK, NEW e \in Side, NEW type, Handle(e, type)
    PROVE  Moved(e)
BY HandleEffect DEF Moved, LastState, ServerHeardAll

\* The cases that build a message.
LEMMA SendMoves ==
    ASSUME TypeOK, NEW e \in Side, NEW m \in Messages, NEW next, Send(e, m, next),
           ctl[e] = "call", next \notin ServerHeardAll,
           st[e] \notin {"ACCEPT_BEGIN", "FINISHED_DONE"} \cup ServerHeardAll,
           next = "FINISHED_DONE" => st[e] = "FIRST_REPLY_FOURTH",
           st[e] = "FIRST_REPLY_FOURTH" => SendFinished(e),
           next \notin {"CONNECT_BEGIN", "HELLO_AGAIN", "ACCEPT_BEGIN",
                        "ACCEPT_CLIENT_HELLO_DONE"},
           next = "CLIENT_HELLO_SENT" => st[e] = "CONNECT_BEGIN"
    PROVE  Moved(e)
BY SendEffect DEF Moved, LastState, ServerHeardAll

LEMMA Moves ==
    ASSUME TypeOK, NEW e \in Side, st[e] \in OwnStates(e), Program(e) \/ TimePasses(e)
    PROVE  Moved(e)
<1>0. /\ st \in [Side -> States] /\ ctl \in [Side -> {"call", "wants", "ok", "fail"}]
      /\ cs \in 0 .. 9
  BY DEF TypeOK, States
<1>1. ASSUME UNCHANGED <<st, ctl, cs>> PROVE Moved(e)
  BY <1>1 DEF Moved
<1>2. /\ \A t \in {"HRR", "SH", "CR", "CV", "FIN"} : Plain(t) \in Messages
      /\ Hello(cfg["client"]) \in Messages
      /\ Answer(ssl["server"]) \in Messages
      /\ \A d \in Side : Certificate("blank") \in Messages
                         /\ Certificate(cfg[d].mat) \in Messages
  BY HelloType DEF Side, Plain, Messages, TypeOK, Answer, SSLFields, Certificate,
                   Configurations
<1>3. ASSUME e = "client", ClientCall PROVE Moved(e)
  <2>1. CASE SendClientHello
    <3>1. CASE st[e] = "CONNECT_BEGIN"
      <4>1. Send(e, Hello(cfg["client"]), "CLIENT_HELLO_SENT") /\ ctl[e] = "call"
        BY <1>3, <2>1, <3>1 DEF SendClientHello, In
      <4> QED
        BY <1>2, <1>3, <3>1, <4>1, SendMoves DEF ServerHeardAll
    <3>2. CASE st[e] # "CONNECT_BEGIN"
      <4>1. /\ Send(e, Hello(cfg["client"]), "HELLO_AGAIN_REPLY")
            /\ In(e, "HELLO_AGAIN")
        BY <1>3, <2>1, <3>2 DEF SendClientHello, In
      <4> QED
        BY <1>2, <1>3, <3>2, <4>1, SendMoves DEF In, ServerHeardAll
    <3> QED
      BY <3>1, <3>2
  <2>2. CASE DoServerHello \/ DoEncryptedExtensions \/ DoCertificateRequest
    BY <1>3, <2>2, ReadMoves DEF DoServerHello, DoEncryptedExtensions, DoCertificateRequest
  <2>3. CASE ConnectFallsThrough
    <3>1. ctl[e] = "call" /\ ctl' = ctl /\ ss[e] \in 0 .. 9
      BY <1>3, <2>3 DEF ConnectFallsThrough, TypeOK
    <3>2. \E next :
             /\ Goto(e, next)
             /\ \/ /\ st[e] = "CLIENT_HELLO_SENT" /\ next = "HELLO_AGAIN"
                   /\ ss[e] # NULL_STATE
                \/ st[e] = "HELLO_AGAIN" /\ next = "HELLO_AGAIN_REPLY"
                \/ /\ st[e] \in {"HELLO_AGAIN_REPLY", "FIRST_REPLY_DONE", "FIRST_REPLY_FIRST"}
                   /\ next \in {"FIRST_REPLY_DONE", "FIRST_REPLY_FIRST", "FIRST_REPLY_SECOND"}
                \/ st[e] = "FIRST_REPLY_THIRD" /\ next = "FIRST_REPLY_FOURTH"
      BY <1>3, <2>3, <3>1 DEF ConnectFallsThrough, Awaits, ClientAwaits, NULL_STATE,
                              SERVER_HELLO_RETRY_REQUEST_COMPLETE
    <3> QED
      BY <1>0, <1>3, <3>1, <3>2 DEF Goto, Moved, LastState
  <2>4. CASE CheckServerAuth \/ ConnectSucceeds
    BY <1>0, <1>3, <2>4 DEF CheckServerAuth, ConnectSucceeds, In, Goto, Fail, Moved, LastState
  <2> QED
    BY <1>3, <2>1, <2>2, <2>3, <2>4 DEF ClientCall
<1>4. ASSUME e = "server", ServerCall PROVE Moved(e)
  <2>1. CASE SendServerHello
    <3>1. PICK t \in {"HRR", "SH"},
               next \in {"ACCEPT_HELLO_RETRY_REQUEST_DONE", "SERVER_HELLO_SENT"} :
              Send(e, Plain(t), next)
      BY <1>4, <2>1 DEF SendServerHello
    <3> QED
      BY <1>2, <1>4, <2>1, <3>1, SendMoves DEF SendServerHello, In, ServerHeardAll
  <2>2. CASE SendEncryptedExtensions
    BY <1>2, <1>4, <2>2, SendMoves DEF SendEncryptedExtensions, In, ServerHeardAll
  <2>3. CASE SendCertificateRequest
    BY <1>2, <1>4, <2>3, SendMoves DEF SendCertificateRequest, In, ServerHeardAll
  <2>4. CASE DoClientHello
    BY <1>4, <2>4, ReadMoves DEF DoClientHello
  <2>5. CASE AcceptFallsThrough
    BY <1>0, <1>4, <2>5
       DEF AcceptFallsThrough, Goto, Moved, LastState, ServerHeardAll, Awaits,
           ServerAwaits, CLIENT_HELLO_COMPLETE, CLIENT_FINISHED_COMPLETE, NULL_STATE
  <2>6. CASE CheckClientAuth
    <3>1. /\ In("server", "ACCEPT_FINISHED_DONE")
          /\ \/ Goto("server", "TICKET_SENT") /\ UNCHANGED ctl
             \/ Fail("server") /\ UNCHANGED st
          /\ cs' = cs
      BY <2>6 DEF CheckClientAuth
    <3> QED
      BY <1>0, <1>4, <3>1 DEF In, Goto, Fail, Moved, LastState, ServerHeardAll
  <2>7. CASE AcceptWithoutCredentials \/ AcceptSucceeds
    BY <1>0, <1>4, <2>7 DEF AcceptWithoutCredentials, AcceptSucceeds, In, Fail, Moved,
                            LastState, session
  <2> QED
    BY <1>4, <2>1, <2>2, <2>3, <2>4, <2>5, <2>6, <2>7 DEF ServerCall
<1>5. CASE SendCertificate(e)
  <2>1. PICK kind \in {"blank", cfg[e].mat} : Send(e, Certificate(kind), AfterCert(e))
    BY <1>5 DEF SendCertificate
  <2> QED
    BY <1>2, <1>5, <2>1, SendMoves
       DEF SendCertificate, In, CertState, AfterCert, VerifyState, ServerHeardAll
<1>6. CASE SendCertificateRest(e)
  BY <1>0, <1>6 DEF SendCertificateRest, In, CertState, AfterCert, VerifyState, Goto,
                    Moved, LastState, ServerHeardAll
<1>7. CASE SendCertificateVerify(e)
  <2>1. CASE Send(e, Plain("CV"), AfterVerify(e))
    BY <1>2, <1>7, <2>1, SendMoves
       DEF SendCertificateVerify, In, VerifyState, AfterVerify, FinishedState, ServerHeardAll
  <2>2. CASE Fail(e) /\ UNCHANGED <<st, cs>>
    BY <1>0, <1>7, <2>2 DEF SendCertificateVerify, In, VerifyState, Fail, Moved, LastState,
                            ServerHeardAll
  <2> QED
    BY <1>7, <2>1, <2>2 DEF SendCertificateVerify
<1>8. CASE SendFinished(e)
  <2>1. In(e, FinishedState(e)) /\ Send(e, Plain("FIN"), AfterFinished(e))
    BY <1>8 DEF SendFinished
  <2> QED
    BY <1>2, <1>8, <2>1, SendMoves DEF In, FinishedState, AfterFinished, ServerHeardAll
<1>9. CASE DoCertificate(e) \/ DoCertificateVerify(e) \/ DoFinished(e)
  BY <1>9, ReadMoves DEF DoCertificate, DoCertificateVerify, DoFinished
<1>10. CASE Reject(e) \/ DoAlert(e) \/ ReadNothing(e)
  BY <1>0, <1>10 DEF Reject, DoAlert, ReadNothing, Awaits, ClientAwaits, ServerAwaits,
                     Fail, Moved, LastState, ServerHeardAll, session
<1>11. CASE ReenterToWrite(e)
  <2>1. /\ ctl[e] = "wants" /\ cs' = cs
        /\ \/ /\ ctl'[e] = "call"
              /\ \/ st' = st
                 \/ /\ st[e] \in DOMAIN AfterFlush
                    /\ st'[e] = AfterFlush[st[e]]
           \/ ctl'[e] \in {"wants", "fail"} /\ st' = st
    BY <1>0, <1>11 DEF ReenterToWrite, Stall, Lose, Fail, Goto, CaseComplete, session
  <2>2. ASSUME st[e] \in DOMAIN AfterFlush
        PROVE  /\ st[e] \notin {"ACCEPT_BEGIN", LastState(e)}
               /\ AfterFlush[st[e]] = "FINISHED_DONE" => st[e] = "FIRST_REPLY_FOURTH"
               /\ AfterFlush[st[e]] \in ServerHeardAll => st[e] \in ServerHeardAll
               /\ AfterFlush[st[e]] \notin {"CONNECT_BEGIN", "HELLO_AGAIN", "ACCEPT_BEGIN",
                                           "ACCEPT_CLIENT_HELLO_DONE"}
               /\ AfterFlush[st[e]] = "CLIENT_HELLO_SENT" => st[e] = "CONNECT_BEGIN"
    BY <2>2 DEF AfterFlush, LastState, ServerHeardAll
  <2> QED
    BY <2>1, <2>2 DEF Moved
<1>12. CASE ReenterToRead(e) \/ GiveUp(e)
  BY <1>0, <1>12 DEF ReenterToRead, GiveUp, Fail, Moved, ServerHeardAll, session
<1>13. CASE Free(e) \/ TimePasses(e)
  BY <1>1, <1>13 DEF Free, TimePasses, session
<1> QED
  BY <1>3, <1>4, <1>5, <1>6, <1>7, <1>8, <1>9, <1>10, <1>11, <1>12, <1>13 DEF Program

\* Between two calls only the loop around connect or accept acts.
LEMMA OutsideCall ==
    ASSUME NEW e \in Side, Program(e) \/ TimePasses(e)
    PROVE  /\ ctl[e] = "wants" =>
                  ReenterToWrite(e) \/ ReenterToRead(e) \/ GiveUp(e) \/ TimePasses(e)
           /\ ctl[e] \in {"ok", "fail"} => Free(e)
<1>1. ctl[e] = "call" \/ ReenterToWrite(e) \/ ReenterToRead(e) \/ GiveUp(e)
          \/ TimePasses(e) \/ Free(e)
  <2>1. e = "client" /\ ClientCall => ctl[e] = "call"
    BY DEF ClientCall, SendClientHello, DoServerHello, DoEncryptedExtensions,
           DoCertificateRequest, ConnectFallsThrough, CheckServerAuth,
           ConnectSucceeds, In, Handle, Awaits
  <2>2. e = "server" /\ ServerCall => ctl[e] = "call"
    BY DEF ServerCall, AcceptWithoutCredentials, DoClientHello, SendServerHello,
           SendEncryptedExtensions, SendCertificateRequest, AcceptFallsThrough,
           CheckClientAuth, AcceptSucceeds, In, Handle, Awaits
  <2>3. SendCertificate(e) \/ SendCertificateRest(e) \/ SendCertificateVerify(e)
            \/ SendFinished(e) => ctl[e] = "call"
    BY DEF SendCertificate, SendCertificateRest, SendCertificateVerify, SendFinished, In
  <2>4. DoCertificate(e) \/ DoCertificateVerify(e) \/ DoFinished(e) \/ Reject(e)
            \/ DoAlert(e) \/ ReadNothing(e) => ctl[e] = "call"
    BY DEF DoCertificate, DoCertificateVerify, DoFinished, Reject, DoAlert, ReadNothing,
           Handle, Awaits
  <2> QED
    BY <2>1, <2>2, <2>3, <2>4 DEF Program
<1> QED
  BY <1>1 DEF ReenterToWrite, ReenterToRead, GiveUp, TimePasses, Free

-----------------------------------------------------------------------------
(* What a step adds to the log of the side that takes it.                  *)

\* Message m is built by the action that is there for it.
Built(e, m) ==
    /\ m.t = "CH" => m = Hello(cfg["client"])
    /\ m.t = "EE" => e = "server" /\ SendEncryptedExtensions /\ m = Answer(ssl["server"])
    /\ m.t = "FIN" => SendFinished(e)

Appended(e) ==
    \/ sent'[e] = sent[e]
    \/ \E m \in Messages : sent'[e] = Append(sent[e], m) /\ Built(e, m)

LEMMA Appends ==
    ASSUME TypeOK, NEW e \in Side, Program(e) \/ TimePasses(e)
    PROVE  Appended(e)
<1>1. /\ \A t \in {"HRR", "SH", "CR", "CV", "FIN", "ALERT"} :
              Plain(t) \in Messages /\ Plain(t).t = t
      /\ Hello(cfg["client"]) \in Messages /\ Hello(cfg["client"]).t = "CH"
      /\ Answer(ssl["server"]) \in Messages /\ Answer(ssl["server"]).t = "EE"
      /\ Certificate("blank") \in Messages /\ Certificate("blank").t = "CERT"
      /\ Certificate(cfg[e].mat) \in Messages /\ Certificate(cfg[e].mat).t = "CERT"
  <2>1. /\ Hello(cfg["client"]) \in Messages
        /\ \A d \in Side : ssl[d] \in SSLFields /\ cfg[d].mat \in Materials
        /\ "server" \in Side
    BY HelloType DEF TypeOK, Side, Configurations
  <2> QED
    BY <2>1 DEF Plain, Messages, Hello, Answer, SSLFields, Certificate
<1>2. ASSUME NEW m \in Messages, NEW next, Send(e, m, next), Built(e, m)
      PROVE  Appended(e)
  BY <1>2, SendEffect DEF Appended
<1>3. ASSUME Alert(e) \/ NoAlert PROVE Appended(e)
  <2>1. Built(e, Plain("ALERT"))
    BY <1>1 DEF Built
  <2> QED
    BY <1>1, <1>3, <2>1 DEF Alert, NoAlert, Appended, TypeOK
<1>4. ASSUME sent' = sent PROVE Appended(e)
  BY <1>4 DEF Appended
<1>5. ASSUME e = "client", ClientCall PROVE Appended(e)
  <2>1. CASE SendClientHello
    BY <1>1, <1>2, <1>5, <2>1 DEF SendClientHello, Built
  <2>2. CASE DoServerHello \/ DoEncryptedExtensions \/ DoCertificateRequest
    BY <1>3, <2>2 DEF DoServerHello, DoEncryptedExtensions, DoCertificateRequest
  <2>3. CASE ConnectFallsThrough \/ CheckServerAuth \/ ConnectSucceeds
    BY <1>4, <2>3 DEF ConnectFallsThrough, CheckServerAuth, ConnectSucceeds, wire
  <2> QED
    BY <1>5, <2>1, <2>2, <2>3 DEF ClientCall
<1>6. ASSUME e = "server", ServerCall PROVE Appended(e)
  <2>1. CASE SendServerHello \/ SendCertificateRequest
    <3>1. Built(e, Plain("HRR")) /\ Built(e, Plain("SH")) /\ Built(e, Plain("CR"))
      BY <1>1 DEF Built
    <3> QED
      BY <1>1, <1>2, <1>6, <2>1, <3>1 DEF SendServerHello, SendCertificateRequest
  <2>2. CASE SendEncryptedExtensions
    <3>1. Built(e, Answer(ssl["server"]))
      BY <1>1, <1>6, <2>2 DEF Built
    <3> QED
      BY <1>1, <1>2, <1>6, <2>2, <3>1 DEF SendEncryptedExtensions
  <2>3. CASE DoClientHello
    BY <1>3, <1>6, <2>3 DEF DoClientHello
  <2>4. CASE AcceptWithoutCredentials \/ AcceptFallsThrough \/ CheckClientAuth \/ AcceptSucceeds
    BY <1>4, <2>4
       DEF AcceptWithoutCredentials, AcceptFallsThrough, CheckClientAuth, AcceptSucceeds, wire
  <2> QED
    BY <1>6, <2>1, <2>2, <2>3, <2>4 DEF ServerCall
<1>7. CASE SendCertificate(e)
  <2>1. Built(e, Certificate("blank")) /\ Built(e, Certificate(cfg[e].mat))
    BY <1>1 DEF Built
  <2> QED
    BY <1>1, <1>2, <1>7, <2>1 DEF SendCertificate
<1>8. CASE SendCertificateVerify(e)
  <2>1. Built(e, Plain("CV"))
    BY <1>1 DEF Built
  <2> QED
    BY <1>1, <1>2, <1>4, <1>8, <2>1 DEF SendCertificateVerify, wire
<1>9. CASE SendFinished(e)
  <2>1. Built(e, Plain("FIN"))
    BY <1>1, <1>9 DEF Built
  <2> QED
    BY <1>1, <1>2, <1>9, <2>1 DEF SendFinished
<1>10. CASE DoCertificate(e) \/ DoCertificateVerify(e) \/ DoFinished(e) \/ Reject(e)
  BY <1>3, <1>10 DEF DoCertificate, DoCertificateVerify, DoFinished, Reject
<1>11. CASE SendCertificateRest(e) \/ DoAlert(e) \/ ReenterToWrite(e) \/ ReenterToRead(e)
            \/ ReadNothing(e) \/ GiveUp(e) \/ Free(e) \/ TimePasses(e)
  BY <1>4, <1>11 DEF SendCertificateRest, DoAlert, ReenterToWrite, ReenterToRead,
                     ReadNothing, GiveUp, Free, TimePasses, wire
<1> QED
  BY <1>5, <1>6, <1>7, <1>8, <1>9, <1>10, <1>11 DEF Program

-----------------------------------------------------------------------------
(* What each side has heard of the other.                                  *)

\* A record of type CERT that holds a certificate.
Shown(log, i) == log[i].t = "CERT" /\ log[i].kind # "blank"

\* The flags of WOLFSSL about the peer stand for records of the peer's that
\* have been processed, in this order.
PeerHeard(e) ==
    /\ ssl[e].peerCert => \E i \in 1 .. got[e] : Shown(sent[Peer(e)], i)
    /\ ssl[e].peerVerify => ssl[e].authGood /\ "CERT" \in seen[e]
    /\ ssl[e].peerCert /\ ssl[e].peerVerify =>
           \E i, j \in 1 .. got[e] :
               i < j /\ Shown(sent[Peer(e)], i) /\ sent[Peer(e)][j].t = "CV"

\* Does side e insist on a certificate of its peer's?
Insists(e) == IF e = "client" THEN VerifyPeer(e) ELSE FailNoCert(e)

\* A Finished that was processed found the flags set, where they are needed.
FinishedHeard(e) ==
    /\ "FIN" \in seen[e] /\ Insists(e) => ssl[e].peerCert /\ ssl[e].peerVerify
    /\ e = "client" =>
           /\ ss[e] >= SERVER_ENCRYPTED_EXTENSIONS_COMPLETE => "EE" \in seen[e]
           /\ ss[e] >= SERVER_CERT_COMPLETE => "CERT" \in seen[e]
    /\ e = "server" =>
           /\ cs >= CLIENT_FINISHED_COMPLETE => "FIN" \in seen[e]
           /\ st[e] \in {"ACCEPT_FINISHED_DONE", "TICKET_SENT"} =>
                  cs >= CLIENT_FINISHED_COMPLETE

HeardInv == HandshakeInv /\ \A e \in Side : PeerHeard(e) /\ FinishedHeard(e)

LEMMA HeardInit == Init => HeardInv
<1> SUFFICES ASSUME Init, NEW e \in Side PROVE PeerHeard(e) /\ FinishedHeard(e)
  BY InvInit DEF HeardInv
<1>1. /\ ssl[e] = InitSSL(e, cfg[e]) /\ seen[e] = {} /\ ss[e] = 0 /\ cs = 0
      /\ e = "server" => st[e] = "ACCEPT_BEGIN"
  BY DEF Init, NULL_STATE
<1>2. ~InitSSL(e, cfg[e]).peerCert /\ ~InitSSL(e, cfg[e]).peerVerify
  BY DEF InitSSL
<1> QED
  BY <1>1, <1>2
     DEF PeerHeard, FinishedHeard, SERVER_ENCRYPTED_EXTENSIONS_COMPLETE,
         SERVER_CERT_COMPLETE, CLIENT_FINISHED_COMPLETE

\* What was heard stays heard while the logs grow.
LEMMA HeardKept ==
    ASSUME TypeOK, TypeOK', Grown, NEW d \in Side, PeerHeard(d),
           seen'[d] = seen[d],
           ssl'[d].peerCert = ssl[d].peerCert, ssl'[d].peerVerify = ssl[d].peerVerify,
           ssl[d].authGood => ssl'[d].authGood
    PROVE  PeerHeard(d)'
<1>1. Peer(d) \in Side /\ Peer(Peer(d)) = d
  BY DEF Peer, Side
<1>2. /\ got[d] \in Nat /\ got'[d] \in Nat /\ got'[d] >= got[d]
      /\ flushed[Peer(d)] \in Nat /\ Len(sent[Peer(d)]) \in Nat
      /\ got[d] <= flushed[Peer(d)] /\ flushed[Peer(d)] <= Len(sent[Peer(d)])
  BY <1>1 DEF TypeOK, Grown
<1>3. \A i \in 1 .. got[d] : i \in 1 .. got'[d]
                             /\ sent'[Peer(d)][i] = sent[Peer(d)][i]
  BY <1>1, <1>2 DEF Grown
<1> QED
  BY <1>3 DEF PeerHeard, Shown

\* The handlers of a Certificate, a CertificateVerify and a Finished.
LEMMA ReadHeard ==
    ASSUME HeardInv, TypeOK', Grown, NEW e \in Side,
           DoCertificate(e) \/ DoCertificateVerify(e) \/ DoFinished(e)
    PROVE  PeerHeard(e)' /\ FinishedHeard(e)'
<1>0. /\ TypeOK /\ PeerHeard(e) /\ FinishedHeard(e)
      /\ ssl \in [Side -> SSLFields] /\ ss \in [Side -> 0 .. 9] /\ cs \in 0 .. 9
      /\ cfg \in [Side -> Configurations]
  BY DEF HeardInv, HandshakeInv, TypeOK
<1> USE DEF SERVER_ENCRYPTED_EXTENSIONS_COMPLETE, SERVER_CERT_COMPLETE,
            SERVER_CERT_VERIFY_COMPLETE, SERVER_FINISHED_COMPLETE,
            CLIENT_FINISHED_COMPLETE
<1>1. ASSUME NEW type \in {"CERT", "CV", "FIN"}, Handle(e, type), Alert(e) \/ NoAlert
      PROVE  /\ got'[e] = got[e] + 1 /\ got[e] \in Nat
             /\ Incoming(e) = sent[Peer(e)][got[e] + 1] /\ sent'[Peer(e)] = sent[Peer(e)]
             /\ Incoming(e).t = type /\ Accepts(e, Incoming(e)) /\ InOrder(e, type)
             /\ seen'[e] = seen[e] \cup {type}
             /\ st' = st /\ cfg' = cfg
             /\ e = "server" => st[e] \notin {"ACCEPT_FINISHED_DONE", "TICKET_SENT"}
  <2>1. seen'[e] = seen[e] \cup {type}
    BY <1>0, <1>1 DEF Handle, TypeOK
  <2> QED
    BY <1>0, <1>1, <2>1, ReadRecord, HandleEffect DEF Handle, setup
<1>2. CASE DoCertificate(e)
  <2> DEFINE kind == Incoming(e).kind
  <2>1. Handle(e, "CERT") /\ (Alert(e) \/ NoAlert) /\ cs' = cs
    BY <1>2 DEF DoCertificate
  <2>2. /\ e = "client" => ss[e] = 3 /\ ss'[e] = 4
        /\ e = "server" => ss'[e] = ss[e]
        /\ "CERT" \notin seen[e]
    BY <1>0, <1>1, <1>2, <2>1 DEF DoCertificate, InOrder, Reach, Side
  <2>3. /\ ssl'[e].peerCert = (kind # "blank")
        /\ ssl'[e].peerVerify = ssl[e].peerVerify /\ ssl'[e].authGood = ssl[e].authGood
    BY <1>0, <1>2 DEF DoCertificate, SSLFields
  <2>4. ~ssl[e].peerVerify /\ ~ssl'[e].peerVerify
    BY <1>0, <2>2, <2>3 DEF PeerHeard
  <2>5. ssl'[e].peerCert => Shown(sent'[Peer(e)], got[e] + 1)
    BY <1>1, <2>1, <2>3 DEF Shown
  <2>6. PeerHeard(e)'
    BY <1>1, <2>1, <2>4, <2>5 DEF PeerHeard
  <2>7. ~("FIN" \in seen'[e] /\ Insists(e)')
    BY <1>0, <1>1, <2>1, <2>4 DEF FinishedHeard, Insists, VerifyPeer, FailNoCert
  <2>8. FinishedHeard(e)'
    BY <1>0, <1>1, <2>1, <2>2, <2>7 DEF FinishedHeard, Side
  <2> QED
    BY <2>6, <2>8
<1>3. CASE DoCertificateVerify(e)
  <2>1. Handle(e, "CV") /\ NoAlert /\ cs' = cs
    BY <1>3 DEF DoCertificateVerify
  <2>2. /\ e = "client" => ss[e] = 4 /\ ss'[e] = 5
        /\ e = "server" => ss'[e] = ss[e]
        /\ "CERT" \in seen[e]
    BY <1>0, <1>1, <1>3, <2>1 DEF DoCertificateVerify, InOrder, Reach, Side, FinishedHeard
  <2>3. ssl'[e].peerCert = ssl[e].peerCert /\ ssl'[e].peerVerify /\ ssl'[e].authGood
    <3>1. PICK b : ssl' = [ssl EXCEPT ![e].authGood = TRUE, ![e].peerVerify = TRUE,
                                      ![e].hsKey = b]
      BY <1>3 DEF DoCertificateVerify
    <3> QED
      BY <1>0, <3>1 DEF SSLFields
  <2>4. ASSUME ssl'[e].peerCert
        PROVE  \E i, j \in 1 .. got'[e] : /\ i < j /\ Shown(sent'[Peer(e)], i)
                                          /\ sent'[Peer(e)][j].t = "CV"
    <3>1. PICK i \in 1 .. got[e] : Shown(sent[Peer(e)], i)
      BY <1>0, <2>3, <2>4 DEF PeerHeard
    <3>2. i \in 1 .. got'[e] /\ got[e] + 1 \in 1 .. got'[e] /\ i < got[e] + 1
      BY <1>1, <2>1
    <3> QED
      BY <1>1, <2>1, <3>1, <3>2
  <2>5. PeerHeard(e)'
    <3>1. ASSUME ssl'[e].peerCert PROVE \E i \in 1 .. got'[e] : Shown(sent'[Peer(e)], i)
      BY <2>4, <3>1
    <3> QED
      BY <1>1, <2>1, <2>2, <2>3, <2>4, <3>1 DEF PeerHeard
  <2>6. FinishedHeard(e)'
    <3>1. "FIN" \in seen'[e] /\ Insists(e)' => ssl'[e].peerCert /\ ssl'[e].peerVerify
      BY <1>0, <1>1, <2>1, <2>3 DEF FinishedHeard, Insists, VerifyPeer, FailNoCert
    <3> QED
      BY <1>0, <1>1, <2>1, <2>2, <3>1 DEF FinishedHeard, Side
  <2> QED
    BY <2>5, <2>6
<1>4. CASE DoFinished(e)
  <2>1. Handle(e, "FIN") /\ NoAlert /\ ssl' = ssl
    BY <1>4 DEF DoFinished
  <2>2. /\ e = "client" => ss[e] = 5 /\ ss'[e] = 6
        /\ e = "server" => ss'[e] = ss[e]
    BY <1>0, <1>1, <1>4, <2>1 DEF DoFinished, InOrder, Reach, Side
  <2>3. PeerHeard(e)'
    <3>1. \A i \in 1 .. got[e] : i \in 1 .. got'[e]
      BY <1>1, <2>1
    <3> QED
      BY <1>0, <1>1, <2>1, <3>1 DEF PeerHeard, Shown
  <2>4. Insists(e) => ssl[e].peerCert /\ ssl[e].peerVerify
    BY <1>1, <2>1 DEF Insists, Accepts, InOrder, Side
  <2>5. "FIN" \in seen'[e] /\ Insists(e)' => ssl'[e].peerCert /\ ssl'[e].peerVerify
    BY <1>1, <2>1, <2>4 DEF Insists, VerifyPeer, FailNoCert
  <2>6. FinishedHeard(e)'
    BY <1>0, <1>1, <2>1, <2>2, <2>5 DEF FinishedHeard, Side
  <2> QED
    BY <2>3, <2>6
<1> QED
  BY <1>2, <1>3, <1>4

\* The other handlers say nothing of the peer's certificate.
LEMMA HelloHeard ==
    ASSUME HeardInv, TypeOK', Grown, NEW e \in Side,
           \/ e = "client" /\ (DoServerHello \/ DoEncryptedExtensions \/ DoCertificateRequest)
           \/ e = "server" /\ DoClientHello
    PROVE  PeerHeard(e)' /\ FinishedHeard(e)'
<1>0. /\ TypeOK /\ PeerHeard(e) /\ FinishedHeard(e)
      /\ ssl \in [Side -> SSLFields] /\ ss \in [Side -> 0 .. 9] /\ cs \in 0 .. 9
  BY DEF HeardInv, HandshakeInv, TypeOK
<1> USE DEF SERVER_ENCRYPTED_EXTENSIONS_COMPLETE, SERVER_CERT_COMPLETE,
            CLIENT_FINISHED_COMPLETE, SERVER_HELLO_COMPLETE, CLIENT_HELLO_COMPLETE,
            SERVER_HELLO_RETRY_REQUEST_COMPLETE
<1>1. PICK type \in {"SH", "HRR", "EE", "CR", "CH"} :
          /\ Handle(e, type) /\ (Alert(e) \/ NoAlert)
          /\ type \in {"SH", "HRR"} => DoServerHello
          /\ type = "EE" => DoEncryptedExtensions
          /\ type = "CR" => DoCertificateRequest
          /\ type = "CH" => DoClientHello
          /\ (type = "CH") = (e = "server")
  BY DEF DoServerHello, DoEncryptedExtensions, DoCertificateRequest, DoClientHello
<1>2. /\ seen'[e] = IF type = "HRR" THEN seen[e] ELSE seen[e] \cup {type}
      /\ InOrder(e, type) /\ st' = st /\ cfg' = cfg
      /\ e = "server" => st[e] \notin {"ACCEPT_FINISHED_DONE", "TICKET_SENT"}
  <2>1. seen'[e] = IF type = "HRR" THEN seen[e] ELSE seen[e] \cup {type}
    BY <1>0, <1>1 DEF Handle, TypeOK
  <2> QED
    BY <1>0, <1>1, <2>1, HandleEffect
<1>3. /\ ssl'[e].peerCert = ssl[e].peerCert /\ ssl'[e].peerVerify = ssl[e].peerVerify
      /\ ssl'[e].authGood = ssl[e].authGood
  <2>1. CASE e = "client"
    <3> DEFINE m == Incoming("client")
               v == IF Complete(cfg["client"].mat) THEN "SEND_CERT"
                                                   ELSE "SEND_BLANK_CERT"
    <3>1. \/ ssl' = ssl
          \/ ssl' = [ssl EXCEPT !["client"].srvType = m.srv, !["client"].cltType = m.clt,
                                !["client"].ssiNegotiated = m.did]
          \/ ssl' = [ssl EXCEPT !["client"].sendVerify = v]
      BY <1>1, <2>1 DEF DoServerHello, DoEncryptedExtensions, DoCertificateRequest
    <3> HIDE DEF m, v
    <3> QED
      BY <1>0, <2>1, <3>1 DEF SSLFields
  <2>2. CASE e = "server"
    <3> DEFINE m == Incoming("server")
               a == ServerType(cfg["server"], m.ext)
               b == ClientType(cfg["server"], m.ext)
               n == IF cfg["server"].verify = "none" THEN 0 ELSE Len(m.ext.clt)
    <3>1. ssl' = [ssl EXCEPT !["server"].sendVerify = "SEND_CERT",
                             !["server"].srvType = a,
                             !["server"].cltType = b,
                             !["server"].cltOffered = n,
                             !["server"].ssiNegotiated = m.ext.did]
      BY <1>1, <2>2 DEF DoClientHello
    <3> HIDE DEF m, a, b, n
    <3> QED
      BY <1>0, <2>2, <3>1 DEF SSLFields
  <2> QED
    BY <2>1, <2>2 DEF Side
<1>4. PeerHeard(e)'
  <2>1. \A i \in 1 .. got[e] : i \in 1 .. got'[e]
    BY <1>0, <1>1, ReadRecord
  <2>2. sent'[Peer(e)] = sent[Peer(e)]
    BY <1>0, <1>1, ReadRecord
  <2>3. "CERT" \in seen[e] => "CERT" \in seen'[e]
    BY <1>2
  <2> QED
    BY <1>0, <1>3, <2>1, <2>2, <2>3 DEF PeerHeard, Shown
<1>5. FinishedHeard(e)'
  <2>1. "FIN" \in seen'[e] /\ Insists(e)' => ssl'[e].peerCert /\ ssl'[e].peerVerify
    BY <1>0, <1>2, <1>3 DEF FinishedHeard, Insists, VerifyPeer, FailNoCert
  <2>2. CASE e = "client"
    <3>1. \/ ss'[e] \in {1, 2}
          \/ ss'[e] = 3 /\ type = "EE"
          \/ ss'[e] = ss[e]
      BY <1>0, <1>1, <2>2 DEF DoServerHello, DoEncryptedExtensions, DoCertificateRequest, Reach
    <3> QED
      BY <1>0, <1>2, <2>1, <2>2, <3>1 DEF FinishedHeard
  <2>3. CASE e = "server"
    <3>1. cs' = 8
      BY <1>1, <2>3 DEF DoClientHello
    <3> QED
      BY <1>0, <1>2, <2>1, <2>3, <3>1 DEF FinishedHeard
  <2> QED
    BY <2>2, <2>3 DEF Side
<1> QED
  BY <1>4, <1>5

LEMMA HeardNext == HeardInv /\ [Next]_vars => HeardInv'
<1> SUFFICES ASSUME HeardInv, [Next]_vars PROVE HeardInv'
  OBVIOUS
<1>0. /\ TypeOK /\ TypeOK' /\ HandshakeInv /\ HandshakeInv' /\ Grown
      /\ ss \in [Side -> 0 .. 9] /\ cs \in 0 .. 9
      /\ \A d \in Side : PeerHeard(d) /\ FinishedHeard(d) /\ st[d] \in OwnStates(d)
  BY InvNext, LogsGrow DEF HeardInv, HandshakeInv, SideInv, TypeOK
<1> USE DEF CLIENT_FINISHED_COMPLETE, CLIENT_HELLO_RETRY
\* a side whose handlers have not run
<1>1. ASSUME NEW d \in Side, seen'[d] = seen[d], ss'[d] = ss[d] \/ d = "server",
             ssl'[d].peerCert = ssl[d].peerCert, ssl'[d].peerVerify = ssl[d].peerVerify,
             ssl[d].authGood => ssl'[d].authGood,
             d = "server" => cs' = cs \/ cs' = CLIENT_HELLO_RETRY,
             d = "server" /\ st'[d] \in ServerHeardAll =>
                 cs' = cs /\ (st[d] \in ServerHeardAll \/ cs >= CLIENT_FINISHED_COMPLETE)
      PROVE  PeerHeard(d)' /\ FinishedHeard(d)'
  <2>1. PeerHeard(d)'
    BY <1>0, <1>1, HeardKept
  <2>2. "FIN" \in seen'[d] /\ Insists(d)' => ssl'[d].peerCert /\ ssl'[d].peerVerify
    BY <1>0, <1>1 DEF FinishedHeard, Insists, VerifyPeer, FailNoCert, Grown
  <2>3. d = "server" /\ st'[d] \in ServerHeardAll => cs' >= CLIENT_FINISHED_COMPLETE
    BY <1>0, <1>1 DEF FinishedHeard, ServerHeardAll
  <2>4. FinishedHeard(d)'
    BY <1>0, <1>1, <2>2, <2>3 DEF FinishedHeard, ServerHeardAll
  <2> QED
    BY <2>1, <2>4
<1>2. ASSUME NEW e \in Side, Program(e) \/ TimePasses(e), NEW d \in Side
      PROVE  PeerHeard(d)' /\ FinishedHeard(d)'
  <2>1. CASE d # e
    BY <1>0, <1>1, <1>2, <2>1, OtherSide DEF Untouched, FinishedHeard, ServerHeardAll
  <2>2. CASE d = e /\ Reads(e)
    BY <1>0, <2>2, ReadHeard, HelloHeard DEF Reads
  <2>3. CASE d = e /\ Still(e)
    <3>1. Moved(e)
      BY <1>0, <1>2, Moves
    <3> QED
      BY <1>0, <1>1, <2>3, <3>1 DEF Still, Moved, Side
  <2> QED
    BY <1>0, <1>2, <2>1, <2>2, <2>3, StillOrReads
<1>3. ASSUME UNCHANGED vars, NEW d \in Side PROVE PeerHeard(d)' /\ FinishedHeard(d)'
  BY <1>0, <1>1, <1>3 DEF vars, session, FinishedHeard, ServerHeardAll
<1> QED
  BY <1>0, <1>2, <1>3 DEF HeardInv, Next

\* What a side's flags say of its peer, the peer has sent and it has read.
THEOREM HeardInvariant == Spec => []HeardInv
BY HeardInit, HeardNext, PTL DEF Spec

\* A side that insists on a certificate succeeds only after the peer has sent
\* one and then signed, and both records have been processed: for every
\* configuration, with or without a second hello.
THEOREM AuthenticatedOnSuccess == Spec => []PeerAuthenticated
<1>1. HeardInv => PeerAuthenticated
  <2> SUFFICES ASSUME HeardInv, NEW e \in Side, ctl[e] = "ok",
                      cfg[e].verify = IF e = "client" THEN "peer" ELSE "peerRequired"
               PROVE  /\ ssl[e].peerCert /\ ssl[e].peerVerify /\ ssl[e].authGood
                      /\ \E i, j \in 1 .. got[e] :
                             /\ i < j /\ Shown(sent[Peer(e)], i)
                             /\ sent[Peer(e)][j].t = "CV"
    BY DEF PeerAuthenticated, Shown
  <2>1. /\ PeerHeard(e) /\ FinishedHeard(e) /\ KeyFreed(e) /\ st[e] \in OwnStates(e)
        /\ e = "client" => ServerProved
        /\ ss \in [Side -> 0 .. 9] /\ cs \in 0 .. 9
    BY DEF HeardInv, HandshakeInv, SideInv, TypeOK
  <2>2. Insists(e)
    BY DEF Insists, VerifyPeer, FailNoCert
  <2>3. "FIN" \in seen[e]
    BY <2>1 DEF KeyFreed, FinishedHeard, ServerProved, AfterServer, OwnStates,
                ConnectStates, AcceptStates, Side
  <2> QED
    BY <2>1, <2>2, <2>3 DEF PeerHeard, FinishedHeard
<1> QED
  BY <1>1, HeardInvariant, PTL

-----------------------------------------------------------------------------
(* The client's Finished.                                                  *)

\* A Finished in the client's log is its last record; its SendBuffered has
\* succeeded, or is stuck or lost with the Finished still in the outputBuffer.
ClientFinished ==
    \A i \in 1 .. Len(sent["client"]) :
        sent["client"][i].t = "FIN" =>
            \/ st["client"] = "FINISHED_DONE"
            \/ /\ st["client"] = "FIRST_REPLY_FOURTH"
               /\ ctl["client"] \in {"wants", "fail"}
               /\ i = Len(sent["client"]) /\ flushed["client"] < i

PastFailing ==
    /\ st["client"] = "FINISHED_DONE" => ctl["client"] \in {"call", "ok"}
    /\ ctl["client"] = "wants" /\ st["client"] = "FIRST_REPLY_FOURTH" =>
           ~ssl["client"].building
    /\ "FIN" \in seen["server"] =>
           \E i \in 1 .. got["server"] : sent["client"][i].t = "FIN"

FinishedInv == HeardInv /\ ClientFinished /\ PastFailing

LEMMA FinishedInit == Init => FinishedInv
<1> SUFFICES ASSUME Init PROVE ClientFinished /\ PastFailing
  BY HeardInit DEF FinishedInv
<1>1. /\ sent["client"] = <<>> /\ seen["server"] = {}
      /\ st["client"] = "CONNECT_BEGIN"
  BY DEF Init, Side
<1> QED
  BY <1>1 DEF ClientFinished, PastFailing

\* The client's own step.
LEMMA ClientStepFinished ==
    ASSUME FinishedInv, HeardInv', Program("client") \/ TimePasses("client")
    PROVE  /\ ClientFinished'
           /\ st'["client"] = "FINISHED_DONE" => ctl'["client"] \in {"call", "ok"}
           /\ ctl'["client"] = "wants" /\ st'["client"] = "FIRST_REPLY_FOURTH" =>
                  ~ssl'["client"].building
<1>0. /\ TypeOK /\ TypeOK' /\ "client" \in Side /\ st["client"] \in OwnStates("client")
      /\ KeyFreed("client") /\ MessagePlaced("client")
      /\ ClientFinished /\ PastFailing
      /\ ctl \in [Side -> {"call", "wants", "ok", "fail"}]
      /\ ssl \in [Side -> SSLFields]
      /\ flushed["client"] \in Nat /\ flushed["client"] <= Len(sent["client"])
      /\ sent["client"] \in Seq(Messages) /\ Len(sent["client"]) \in Nat
  BY DEF FinishedInv, HeardInv, HandshakeInv, SideInv, TypeOK, Side
<1>1. Moved("client")
  BY <1>0, Moves
<1>2. st["client"] \in {"FINISHED_DONE", "FIRST_REPLY_FOURTH"} => st["client"] # "TICKET_SENT"
  OBVIOUS
<1>3. CASE st["client"] = "FINISHED_DONE"
  BY <1>0, <1>1, <1>3 DEF PastFailing, Moved, LastState, ClientFinished
<1>4. ASSUME ctl["client"] = "call", st["client"] # "FINISHED_DONE"
      PROVE  \A i \in 1 .. Len(sent["client"]) : sent["client"][i].t # "FIN"
  BY <1>0, <1>4 DEF ClientFinished
<1>5. CASE SendFinished("client")
  <2> DEFINE m == Plain("FIN")
             log == Append(sent["client"], m)
  <2>1. /\ ctl["client"] = "call" /\ st["client"] = "FIRST_REPLY_FOURTH"
        /\ Send("client", m, "FINISHED_DONE")
        /\ ssl' = [ssl EXCEPT !["client"].building = FALSE]
    BY <1>5 DEF SendFinished, In, FinishedState, AfterFinished
  <2>2. m \in Messages
    BY DEF Plain, Messages
  <2>3. /\ sent'["client"] = log /\ Len(log) = Len(sent["client"]) + 1
        /\ \A i \in 1 .. Len(sent["client"]) : log[i].t # "FIN"
    BY <1>0, <1>4, <2>1, <2>2, SendEffect
  <2>4. ~ssl'["client"].building
    BY <1>0, <2>1 DEF SSLFields
  <2>5. \/ st'["client"] = "FINISHED_DONE" /\ ctl'["client"] = "call"
        \/ /\ st'["client"] = "FIRST_REPLY_FOURTH"
           /\ ctl'["client"] \in {"wants", "fail"} /\ flushed'["client"] < Len(log)
    BY <1>0, <2>1, <2>3 DEF Send, Flush, Stall, Lose, Goto, Fail, TypeOK
  <2>6. ClientFinished'
    BY <1>0, <2>3, <2>5 DEF ClientFinished
  <2> QED
    BY <2>4, <2>5, <2>6
<1>6. CASE ctl["client"] = "call" /\ st["client"] # "FINISHED_DONE" /\ ~SendFinished("client")
  <2>1. \A i \in 1 .. Len(sent'["client"]) : sent'["client"][i].t # "FIN"
    <3>1. Appended("client")
      BY <1>0, Appends
    <3>2. CASE sent'["client"] = sent["client"]
      BY <1>4, <1>6, <3>2
    <3>3. ASSUME NEW m \in Messages, sent'["client"] = Append(sent["client"], m),
                 Built("client", m)
          PROVE  \A i \in 1 .. Len(sent'["client"]) : sent'["client"][i].t # "FIN"
      <4>1. m.t # "FIN"
        BY <1>6, <3>3 DEF Built
      <4> QED
        BY <1>0, <1>4, <1>6, <3>3, <4>1
    <3> QED
      BY <3>1, <3>2, <3>3 DEF Appended
  <2> QED
    BY <1>1, <1>6, <2>1 DEF ClientFinished, Moved
<1>7. CASE ctl["client"] = "wants" /\ st["client"] # "FINISHED_DONE"
  <2>1. /\ sent' = sent /\ ssl' = ssl
        /\ \/ st' = st /\ ctl'["client"] = "fail" /\ flushed' = flushed
           \/ st' = st /\ ctl' = ctl /\ flushed' = flushed
           \/ /\ st' = st /\ ctl' = ctl /\ Buffered("client")
              /\ flushed'["client"] < Len(sent["client"])
           \/ ctl'["client"] = "call" /\ ~Buffered("client") /\ UNCHANGED <<st, flushed>>
           \/ /\ ctl'["client"] = "call"
              /\ IF CaseComplete("client") THEN Goto("client", AfterFlush[st["client"]])
                                           ELSE UNCHANGED st
    <3>1. CASE ReenterToWrite("client")
      BY <1>0, <1>7, <3>1 DEF ReenterToWrite, Flush, Stall, Lose, Fail, session, TypeOK
    <3>2. CASE ReenterToRead("client") \/ GiveUp("client") \/ TimePasses("client")
      BY <1>0, <1>7, <3>2 DEF ReenterToRead, GiveUp, TimePasses, Fail, session, wire
    <3> QED
      BY <1>0, <1>7, <3>1, <3>2, OutsideCall
  <2>2. st["client"] = "FIRST_REPLY_FOURTH" => CaseComplete("client")
    BY <1>0, <1>7 DEF PastFailing, CaseComplete, MessagePlaced, CertState, AfterFlush
  <2>3. st["client"] = "FIRST_REPLY_FOURTH" /\ Goto("client", AfterFlush[st["client"]])
            => st'["client"] = "FINISHED_DONE"
    BY <1>0 DEF Goto, AfterFlush, TypeOK
  <2>4. ClientFinished'
    BY <1>0, <1>7, <2>1, <2>2, <2>3 DEF ClientFinished, Buffered
  <2>5. st'["client"] = "FINISHED_DONE" => ctl'["client"] \in {"call", "ok"}
    BY <1>1, <1>7 DEF Moved
  <2>6. ctl'["client"] = "wants" /\ st'["client"] = "FIRST_REPLY_FOURTH" =>
            ~ssl'["client"].building
    BY <1>0, <1>7, <2>1 DEF PastFailing
  <2> QED
    BY <2>4, <2>5, <2>6
<1>8. CASE ctl["client"] \in {"ok", "fail"} /\ st["client"] # "FINISHED_DONE"
  <2>1. Free("client")
    BY <1>0, <1>8, OutsideCall
  <2>2. ctl' = ctl /\ st' = st /\ sent' = sent /\ flushed' = flushed
    BY <2>1 DEF Free, wire
  <2> QED
    BY <1>0, <1>8, <2>2 DEF ClientFinished
<1> QED
  BY <1>0, <1>3, <1>5, <1>6, <1>7, <1>8

LEMMA FinishedNext == FinishedInv /\ [Next]_vars => FinishedInv'
<1> SUFFICES ASSUME FinishedInv, [Next]_vars PROVE FinishedInv'
  OBVIOUS
<1>0. /\ TypeOK /\ TypeOK' /\ HeardInv /\ HeardInv' /\ Grown
      /\ ClientFinished /\ PastFailing
      /\ "client" \in Side /\ "server" \in Side
  BY HeardNext, LogsGrow DEF FinishedInv, HeardInv, HandshakeInv, Side
\* what the server has read of the client's log, it can read again
<1>1. ASSUME "FIN" \in seen["server"]
      PROVE  \E i \in 1 .. got'["server"] : sent'["client"][i].t = "FIN"
  <2>1. PICK i \in 1 .. got["server"] : sent["client"][i].t = "FIN"
    BY <1>0, <1>1 DEF PastFailing
  <2>2. /\ got["server"] \in Nat /\ got'["server"] \in Nat
        /\ got'["server"] >= got["server"]
        /\ got["server"] <= Len(sent["client"])
    BY <1>0 DEF TypeOK, Grown, Peer
  <2>3. i \in 1 .. got'["server"] /\ i \in 1 .. Len(sent["client"])
    BY <2>1, <2>2
  <2>4. sent'["client"][i] = sent["client"][i]
    BY <1>0, <2>3 DEF Grown
  <2> QED
    BY <2>1, <2>3, <2>4
<1>2. CASE Program("client") \/ TimePasses("client")
  <2>1. seen'["server"] = seen["server"]
    BY <1>0, <1>2, Frame DEF Untouched
  <2> QED
    BY <1>0, <1>1, <1>2, <2>1, ClientStepFinished DEF FinishedInv, PastFailing
<1>3. CASE Program("server") \/ TimePasses("server")
  <2>1. Untouched("client")
    BY <1>0, <1>3, Frame
  <2>2. ClientFinished'
    BY <1>0, <2>1 DEF ClientFinished, Untouched
  <2>3. ASSUME "FIN" \in seen'["server"], "FIN" \notin seen["server"]
        PROVE  \E i \in 1 .. got'["server"] : sent'["client"][i].t = "FIN"
    <3>1. DoFinished("server")
      <4>1. \A type \in {"CH", "CERT", "CV"} : ~Handle("server", type)
        BY <1>0, <2>3 DEF Handle, TypeOK
      <4>2. Reads("server")
        BY <1>0, <1>3, <2>3, StillOrReads DEF Still
      <4> QED
        BY <4>1, <4>2 DEF Reads, DoClientHello, DoCertificate, DoCertificateVerify
    <3>2. Handle("server", "FIN") /\ NoAlert
      BY <3>1 DEF DoFinished
    <3> QED
      BY <1>0, <3>2, ReadRecord DEF Peer
  <2> QED
    BY <1>0, <1>1, <2>1, <2>2, <2>3 DEF FinishedInv, PastFailing, Untouched
<1>4. CASE UNCHANGED vars
  BY <1>0, <1>4 DEF FinishedInv, PastFailing, ClientFinished, vars, session, wire
<1> QED
  BY <1>2, <1>3, <1>4 DEF Next, Side

\* A client's Finished that has left its outputBuffer leaves a client that
\* cannot fail any more.
THEOREM FinishedInvariant == Spec => []FinishedInv
BY FinishedInit, FinishedNext, PTL DEF Spec

LEMMA SharedNow == FinishedInv => NoSuccessAlone
<1> SUFFICES ASSUME FinishedInv, ctl["server"] = "ok"
             PROVE  st["client"] = "FINISHED_DONE" /\ ctl["client"] \in {"call", "ok"}
  BY DEF NoSuccessAlone
<1>1. /\ KeyFreed("server") /\ st["server"] \in OwnStates("server")
      /\ FinishedHeard("server") /\ ClientFinished /\ PastFailing
      /\ got["server"] \in Nat /\ flushed["client"] \in Nat
      /\ got["server"] <= flushed["client"] /\ flushed["client"] <= Len(sent["client"])
      /\ Len(sent["client"]) \in Nat
  BY DEF FinishedInv, HeardInv, HandshakeInv, SideInv, TypeOK, Side, Peer
<1>2. "FIN" \in seen["server"]
  BY <1>1 DEF KeyFreed, OwnStates, AcceptStates, FinishedHeard
<1>3. PICK i \in 1 .. got["server"] : sent["client"][i].t = "FIN"
  BY <1>1, <1>2 DEF PastFailing
<1>4. i \in 1 .. Len(sent["client"]) /\ ~(flushed["client"] < i)
  BY <1>1, <1>3
<1>5. st["client"] = "FINISHED_DONE"
  BY <1>1, <1>3, <1>4 DEF ClientFinished
<1> QED
  BY <1>1, <1>5 DEF PastFailing

\* The server never succeeds alone: it has read the client's Finished, so the
\* client's last flush is done and its connect returns success.
THEOREM SuccessIsShared == Spec => []NoSuccessAlone
BY SharedNow, FinishedInvariant, PTL

-----------------------------------------------------------------------------
(* What was negotiated.                                                    *)

OneHello ==
    \A i \in 1 .. Len(sent["client"]) :
        sent["client"][i].t = "CH" => sent["client"][i] = Hello(cfg["client"])

\* The types the server must come to, from what the two applications set up.
Negotiated ==
    LET ch == ClientHelloExts(cfg["client"])
    IN  [srv |-> ServerType(cfg["server"], ch), clt |-> ClientType(cfg["server"], ch)]

Holds(e) == ssl[e].srvType = Negotiated.srv /\ ssl[e].cltType = Negotiated.clt

Decided ==
    /\ "CH" \in seen["server"] => Holds("server")
    /\ cs # NULL_STATE => "CH" \in seen["server"]
    /\ st["server"] # "ACCEPT_BEGIN" => cs # NULL_STATE

Answered ==
    /\ \A i \in 1 .. Len(sent["server"]) :
           sent["server"][i].t = "EE" =>
               /\ "CH" \in seen["server"]
               /\ sent["server"][i].srv = Negotiated.srv
               /\ sent["server"][i].clt = Negotiated.clt
    /\ "EE" \in seen["client"] => "CH" \in seen["server"] /\ Holds("client")

AgreedInv == FinishedInv /\ OneHello /\ Decided /\ Answered

LEMMA AgreedInit == Init => AgreedInv
<1> SUFFICES ASSUME Init PROVE OneHello /\ Decided /\ Answered
  BY FinishedInit DEF AgreedInv
<1>1. /\ sent["client"] = <<>> /\ sent["server"] = <<>>
      /\ seen["server"] = {} /\ seen["client"] = {}
      /\ st["server"] = "ACCEPT_BEGIN" /\ cs = NULL_STATE
  BY DEF Init, Side
<1> QED
  BY <1>1 DEF OneHello, Decided, Answered

\* Only the two handlers with the negotiated types in their message touch them.
LEMMA OtherReads ==
    ASSUME TypeOK, NEW e \in Side, Reads(e), ~DoClientHello, ~DoEncryptedExtensions
    PROVE  /\ ssl'[e].srvType = ssl[e].srvType /\ ssl'[e].cltType = ssl[e].cltType
           /\ "CH" \in seen'[e] <=> "CH" \in seen[e]
           /\ "EE" \in seen'[e] <=> "EE" \in seen[e]
           /\ cs' = cs \/ (InOrder(e, "FIN") /\ e = "server" /\ cs' = CLIENT_FINISHED_COMPLETE)
<1>0. ssl \in [Side -> SSLFields] /\ "client" \in Side
  BY DEF TypeOK, Side
<1>1. PICK type \in {"SH", "HRR", "CR", "CERT", "CV", "FIN"} : Handle(e, type)
  BY DEF Reads, DoServerHello, DoCertificateRequest, DoCertificate,
         DoCertificateVerify, DoFinished
<1>2. /\ "CH" \in seen'[e] <=> "CH" \in seen[e]
      /\ "EE" \in seen'[e] <=> "EE" \in seen[e]
  BY <1>1 DEF Handle, TypeOK
<1>3. CASE e = "client" /\ (DoServerHello \/ DoCertificateRequest)
  <2> DEFINE v == IF Complete(cfg["client"].mat) THEN "SEND_CERT" ELSE "SEND_BLANK_CERT"
  <2>1. cs' = cs /\ (ssl' = ssl \/ ssl' = [ssl EXCEPT !["client"].sendVerify = v])
    BY <1>3 DEF DoServerHello, DoCertificateRequest
  <2> HIDE DEF v
  <2> QED
    BY <1>0, <1>2, <1>3, <2>1 DEF SSLFields
<1>4. CASE DoCertificate(e)
  <2> DEFINE kind  == Incoming(e).kind
             after == [ssl[e] EXCEPT !.peerCert = kind # "blank",
                                     !.vcMode = @ \/ kind = "VC"]
             kept  == KeyKept(e, after, ss[e])
  <2>1. cs' = cs /\ ssl' = [ssl EXCEPT ![e] = [after EXCEPT !.hsKey = kept]]
    BY <1>4 DEF DoCertificate
  <2> HIDE DEF kept
  <2>2. after.srvType = ssl[e].srvType /\ after.cltType = ssl[e].cltType
    BY <1>0 DEF SSLFields
  <2> QED
    BY <1>0, <1>2, <2>1, <2>2 DEF SSLFields
<1>5. CASE DoCertificateVerify(e)
  <2> DEFINE kept == KeyKept(e, ssl[e], ss'[e])
  <2>1. cs' = cs /\ ssl' = [ssl EXCEPT ![e].authGood = TRUE, ![e].peerVerify = TRUE,
                                       ![e].hsKey = kept]
    BY <1>5 DEF DoCertificateVerify
  <2> HIDE DEF kept
  <2> QED
    BY <1>0, <1>2, <2>1 DEF SSLFields
<1>6. CASE DoFinished(e)
  <2>1. Handle(e, "FIN") /\ ssl' = ssl
        /\ (cs' = cs \/ (e = "server" /\ cs' = CLIENT_FINISHED_COMPLETE))
    BY <1>6 DEF DoFinished, Side
  <2> QED
    BY <1>2, <2>1, HandleEffect
<1> QED
  BY <1>3, <1>4, <1>5, <1>6 DEF Reads

LEMMA ClientStepAgrees ==
    ASSUME AgreedInv, TypeOK', Grown, Program("client") \/ TimePasses("client")
    PROVE  OneHello' /\ Decided' /\ Answered'
<1>0. /\ TypeOK /\ "client" \in Side /\ "server" \in Side
      /\ OneHello /\ Decided /\ Answered /\ cfg' = cfg /\ Negotiated' = Negotiated
      /\ sent["client"] \in Seq(Messages) /\ Len(sent["client"]) \in Nat
  BY DEF AgreedInv, FinishedInv, HeardInv, HandshakeInv, TypeOK, Side, Grown, Negotiated
<1>1. Untouched("server") /\ cs' = cs
  BY <1>0, OtherSide
<1>2. OneHello'
  <2>1. CASE sent'["client"] = sent["client"]
    BY <1>0, <2>1 DEF OneHello
  <2>2. ASSUME NEW m \in Messages, sent'["client"] = Append(sent["client"], m),
               m.t = "CH" => m = Hello(cfg["client"])
        PROVE  OneHello'
    BY <1>0, <2>2 DEF OneHello
  <2> QED
    BY <1>0, <2>1, <2>2, Appends DEF Appended, Built
<1>3. Decided'
  BY <1>0, <1>1 DEF Decided, Untouched, Holds
<1>4. "EE" \in seen'["client"] => "CH" \in seen["server"] /\ Holds("client")'
  <2>1. CASE Still("client")
    BY <1>0, <2>1 DEF Still, Answered, Holds
  <2>2. CASE DoEncryptedExtensions
    <3> DEFINE m == Incoming("client")
    <3>1. /\ Handle("client", "EE") /\ NoAlert
          /\ ssl' = [ssl EXCEPT !["client"].srvType = m.srv,
                                !["client"].cltType = m.clt,
                                !["client"].ssiNegotiated = m.did]
      BY <2>2 DEF DoEncryptedExtensions
    <3>2. /\ m = sent["server"][got["client"] + 1] /\ m.t = "EE"
          /\ got["client"] + 1 \in 1 .. Len(sent["server"])
      BY <1>0, <3>1, ReadRecord DEF Peer
    <3>3. /\ "CH" \in seen["server"]
          /\ m.srv = Negotiated.srv /\ m.clt = Negotiated.clt
      BY <1>0, <3>2 DEF Answered
    <3> HIDE DEF m
    <3>4. ssl'["client"].srvType = m.srv /\ ssl'["client"].cltType = m.clt
      BY <1>0, <3>1 DEF TypeOK, SSLFields
    <3> QED
      BY <1>0, <3>3, <3>4 DEF Holds
  <2>3. CASE Reads("client") /\ ~DoEncryptedExtensions
    <3>1. ~DoClientHello
      <4>1. ASSUME DoClientHello PROVE got'["server"] # got["server"]
        BY <1>0, <4>1, ReadRecord DEF DoClientHello
      <4>2. got'["server"] = got["server"]
        BY <1>0, <2>3 DEF Reads, DoServerHello, DoCertificateRequest, DoCertificate,
              DoCertificateVerify, DoFinished, Handle, TypeOK
      <4> QED
        BY <4>1, <4>2
    <3> QED
      BY <1>0, <2>3, <3>1, OtherReads DEF Answered, Holds
  <2> QED
    BY <1>0, <2>1, <2>2, <2>3, StillOrReads
<1>5. Answered'
  BY <1>0, <1>1, <1>4 DEF Answered, Untouched
<1> QED
  BY <1>2, <1>3, <1>5

LEMMA ServerStepAgrees ==
    ASSUME AgreedInv, TypeOK', Grown, Program("server") \/ TimePasses("server")
    PROVE  OneHello' /\ Decided' /\ Answered'
<1>0. /\ TypeOK /\ "client" \in Side /\ "server" \in Side
      /\ OneHello /\ Decided /\ Answered /\ cfg' = cfg /\ Negotiated' = Negotiated
      /\ sent["server"] \in Seq(Messages) /\ Len(sent["server"]) \in Nat
      /\ st["server"] \in OwnStates("server") /\ cs \in 0 .. 9
  BY DEF AgreedInv, FinishedInv, HeardInv, HandshakeInv, SideInv, TypeOK, Side, Grown,
         Negotiated
<1>1. Untouched("client")
  BY <1>0, OtherSide
<1>2. OneHello'
  BY <1>0, <1>1 DEF OneHello, Untouched
<1>3. "CH" \in seen["server"] => "CH" \in seen'["server"]
  <2>1. CASE Still("server")
    BY <2>1 DEF Still
  <2>2. CASE Reads("server")
    BY <1>0, <2>2, HandleEffect
       DEF Reads, DoClientHello, DoCertificate, DoCertificateVerify, DoFinished
  <2> QED
    BY <1>0, <2>1, <2>2, StillOrReads
<1>4. Decided'
  <2>1. CASE Still("server")
    <3>1. Moved("server")
      BY <1>0, Moves
    <3> QED
      BY <1>0, <2>1, <3>1 DEF Still, Moved, Decided, Holds, NULL_STATE, CLIENT_HELLO_RETRY
  <2>2. CASE DoClientHello
    <3> DEFINE m == Incoming("server")
               a == ServerType(cfg["server"], m.ext)
               b == ClientType(cfg["server"], m.ext)
               n == IF cfg["server"].verify = "none" THEN 0 ELSE Len(m.ext.clt)
    <3>1. /\ Handle("server", "CH") /\ (Alert("server") \/ NoAlert)
          /\ cs' = CLIENT_HELLO_COMPLETE
          /\ ssl' = [ssl EXCEPT !["server"].sendVerify = "SEND_CERT",
                                !["server"].srvType = a,
                                !["server"].cltType = b,
                                !["server"].cltOffered = n,
                                !["server"].ssiNegotiated = m.ext.did]
      BY <2>2 DEF DoClientHello
    <3>2. /\ m = sent["client"][got["server"] + 1] /\ m.t = "CH"
          /\ got["server"] + 1 \in 1 .. Len(sent["client"])
          /\ seen' = [seen EXCEPT !["server"] = @ \cup {"CH"}]
      BY <1>0, <3>1, ReadRecord DEF Peer
    <3>3. m = Hello(cfg["client"])
      BY <1>0, <3>2 DEF OneHello
    <3>4. a = Negotiated.srv /\ b = Negotiated.clt
      BY <3>3 DEF Hello, Negotiated
    <3> HIDE DEF m, a, b, n
    <3>5. /\ ssl'["server"].srvType = a /\ ssl'["server"].cltType = b
          /\ "CH" \in seen'["server"]
      BY <1>0, <3>1, <3>2 DEF TypeOK, SSLFields
    <3> QED
      BY <1>0, <3>1, <3>4, <3>5 DEF Decided, Holds, CLIENT_HELLO_COMPLETE, NULL_STATE
  <2>3. CASE Reads("server") /\ ~DoClientHello
    <3>1. ~DoEncryptedExtensions
      <4>1. ASSUME DoEncryptedExtensions PROVE got'["client"] # got["client"]
        BY <1>0, <4>1, ReadRecord DEF DoEncryptedExtensions
      <4>2. got'["client"] = got["client"]
        BY <1>0, <2>3 DEF Reads, DoCertificate, DoCertificateVerify, DoFinished, Handle, TypeOK
      <4> QED
        BY <4>1, <4>2
    <3>2. st' = st
      BY <2>3 DEF Reads, DoCertificate, DoCertificateVerify, DoFinished, Handle
    <3>3. InOrder("server", "FIN") => cs # NULL_STATE
      BY <1>0 DEF InOrder, CLIENT_HELLO_COMPLETE, NULL_STATE
    <3> QED
      BY <1>0, <2>3, <3>1, <3>2, <3>3, OtherReads
         DEF Decided, Holds, CLIENT_FINISHED_COMPLETE, NULL_STATE
  <2> QED
    BY <1>0, <2>1, <2>2, <2>3, StillOrReads
<1>5. Answered'
  <2>1. CASE sent'["server"] = sent["server"]
    BY <1>0, <1>1, <1>3, <2>1 DEF Answered, Untouched, Holds
  <2>2. ASSUME NEW m \in Messages, sent'["server"] = Append(sent["server"], m),
               Built("server", m)
        PROVE  Answered'
    <3>1. ASSUME m.t = "EE"
          PROVE  "CH" \in seen["server"] /\ m.srv = Negotiated.srv /\ m.clt = Negotiated.clt
      <4>1. m = Answer(ssl["server"]) /\ st["server"] # "ACCEPT_BEGIN"
        BY <2>2, <3>1 DEF Built, SendEncryptedExtensions, In
      <4> QED
        BY <1>0, <4>1 DEF Decided, Holds, Answer
    <3> QED
      BY <1>0, <1>1, <1>3, <2>2, <3>1 DEF Answered, Untouched, Holds
  <2> QED
    BY <1>0, <2>1, <2>2, Appends DEF Appended
<1> QED
  BY <1>2, <1>4, <1>5

LEMMA AgreedNext == AgreedInv /\ [Next]_vars => AgreedInv'
<1> SUFFICES ASSUME AgreedInv, [Next]_vars PROVE AgreedInv'
  OBVIOUS
<1>0. FinishedInv' /\ TypeOK' /\ Grown
  BY FinishedNext, LogsGrow DEF AgreedInv, FinishedInv, HeardInv, HandshakeInv
<1>1. CASE UNCHANGED vars
  BY <1>0, <1>1 DEF AgreedInv, OneHello, Decided, Answered, Holds, Negotiated, vars, setup,
                    session, wire
<1> QED
  BY <1>0, <1>1, ClientStepAgrees, ServerStepAgrees DEF AgreedInv, Next, Side

\* Every hello asks for the same, and every answer gives what follows from it.
THEOREM AgreedInvariant == Spec => []AgreedInv
BY AgreedInit, AgreedNext, PTL DEF Spec

-----------------------------------------------------------------------------
(* The refinement of TlsSession, step by step.                             *)

\* What the server decides is a decision the abstract session allows.
LEMMA DecisionAllowed ==
    ASSUME TypeOK
    PROVE  Negotiated \in Session!Decisions /\ Negotiated # Session!Undecided
<1> DEFINE c  == cfg["client"]
           s  == cfg["server"]
           ch == ClientHelloExts(c)
<1>1. /\ c \in Configurations /\ s \in Configurations
      /\ c.srv \in PreferenceLists /\ c.clt \in PreferenceLists
  BY DEF TypeOK, Side, Configurations
<1>2. ch \in Offers
  <2>1. Hello(c) \in Messages /\ Hello(c).t = "CH" /\ Hello(c).ext = ch
    BY <1>1, HelloType DEF Hello
  <2> QED
    BY <2>1 DEF Messages
<1>3. ServerType(s, ch) \in AnyType /\ ClientType(s, ch) \in AnyType
  BY <1>1, <1>2, NegotiatedTypes
<1>4. ServerType(s, ch) # NoType => Session!MostPreferred(ServerType(s, ch), s.srv, c.srv)
  <2>1. ServerType(s, ch) # NoType => ch.srv = c.srv
    BY DEF ServerType, ClientHelloExts
  <2> QED
    BY <1>1, <1>2, <2>1, NegotiatedIsPreferred
<1>5. ClientType(s, ch) # NoType => Session!MostPreferred(ClientType(s, ch), s.clt, c.clt)
  <2>1. ClientType(s, ch) # NoType => ch.clt = c.clt
    BY DEF ClientType, ClientHelloExts
  <2> QED
    BY <1>1, <1>2, <2>1, NegotiatedIsPreferred
<1>6. Negotiated = [srv |-> ServerType(s, ch), clt |-> ClientType(s, ch)]
  BY DEF Negotiated
<1> HIDE DEF c, s, ch
<1>7. Negotiated \in Session!Decisions
  <2> DEFINE R == [srv : AnyType, clt : AnyType]
             P(d) == /\ d.srv # NoType => Session!MostPreferred(d.srv, s.srv, c.srv)
                     /\ d.clt # NoType => Session!MostPreferred(d.clt, s.clt, c.clt)
  <2>1. Session!Decisions = {d \in R : P(d)}
    BY DEF Session!Decisions, Session!CertTypes, Session!NoType, CertTypes, NoType,
           AnyType, c, s
  <2>2. Negotiated \in R /\ P(Negotiated)
    BY <1>3, <1>4, <1>5, <1>6
  <2> QED
    BY <2>1, <2>2
<1>8. Negotiated.srv # "undecided"
  BY <1>3, <1>6 DEF AnyType, CertTypes, NoType
<1> QED
  BY <1>7, <1>8 DEF Session!Undecided

\* The abstract variables, where the invariant holds.
Decision == IF "CH" \in seen["server"] THEN Negotiated ELSE Session!Undecided
View     == IF "EE" \in seen["client"] THEN Negotiated ELSE Session!Undecided
Phase(e) ==
    IF ctl[e] = "fail" THEN "failed"
    ELSE IF e = "client" /\ st[e] = "FINISHED_DONE" THEN "done"
    ELSE IF e = "server" /\ ctl[e] = "ok" THEN "done"
    ELSE "trying"

LEMMA Abstraction ==
    ASSUME AgreedInv
    PROVE  TypesAfter("CH", "server") = Decision /\ TypesAfter("EE", "client") = View
BY DEF AgreedInv, Decided, Answered, Holds, TypesAfter, Decision, View, Negotiated,
       Session!Undecided

\* What a step of the server is to the two applications.
LEMMA ServerStepSession ==
    ASSUME AgreedInv, AgreedInv', Grown, Program("server") \/ TimePasses("server")
    PROVE  /\ View' = View /\ Phase("client")' = Phase("client")
           /\ \/ Decision' = Decision /\ Phase("server")' = Phase("server")
              \/ /\ Phase("server") = "trying" /\ Phase("server")' = "trying"
                 /\ Decision = Session!Undecided /\ Decision' = Negotiated
              \/ /\ Phase("server") = "trying" /\ Phase("server")' = "failed"
                 /\ Decision' = Decision
              \/ /\ Phase("server") = "trying" /\ Phase("server")' = "done"
                 /\ Decision' = Decision /\ Phase("client") = "done"
<1>0. /\ TypeOK /\ "client" \in Side /\ "server" \in Side /\ Negotiated' = Negotiated
      /\ st["server"] \in OwnStates("server")
      /\ ctl \in [Side -> {"call", "wants", "ok", "fail"}]
      /\ ctl' \in [Side -> {"call", "wants", "ok", "fail"}]
      /\ FinishedInv'
  BY DEF AgreedInv, FinishedInv, HeardInv, HandshakeInv, SideInv, TypeOK, Side, Grown,
         Negotiated
<1>1. View' = View /\ Phase("client")' = Phase("client")
  BY <1>0, OtherSide DEF Untouched, View, Phase
<1>2. Moved("server")
  BY <1>0, Moves
<1>3. CASE Still("server")
  <2>1. Decision' = Decision
    BY <1>0, <1>3 DEF Still, Decision
  <2>2. ctl'["server"] = "ok" => Phase("client")' = "done"
    <3>1. NoSuccessAlone'
      BY <1>0, SharedNow, PTL
    <3> QED
      BY <3>1 DEF NoSuccessAlone, Phase
  <2> QED
    BY <1>0, <1>1, <1>2, <2>1, <2>2 DEF Moved, Phase
<1>4. CASE Reads("server")
  <2>1. ctl' = ctl /\ ctl["server"] = "call" /\ seen["server"] \subseteq seen'["server"]
    BY <1>0, <1>4, HandleEffect
       DEF Reads, DoClientHello, DoCertificate, DoCertificateVerify, DoFinished
  <2> QED
    BY <1>0, <1>1, <2>1 DEF Phase, Decision
<1> QED
  BY <1>0, <1>3, <1>4, StillOrReads

\* What a step of the client is to them.
LEMMA ClientStepSession ==
    ASSUME AgreedInv, AgreedInv', Grown, Program("client") \/ TimePasses("client")
    PROVE  /\ Decision' = Decision /\ Phase("server")' = Phase("server")
           /\ \/ View' = View /\ Phase("client")' = Phase("client")
              \/ /\ Phase("client") = "trying" /\ Phase("client")' = "trying"
                 /\ View = Session!Undecided /\ View' = Negotiated
                 /\ Decision = Negotiated
              \/ /\ Phase("client") = "trying" /\ Phase("client")' = "failed"
                 /\ View' = View
              \/ /\ Phase("client") = "trying" /\ Phase("client")' = "done"
                 /\ View' = View /\ View = Negotiated
<1>0. /\ TypeOK /\ "client" \in Side /\ "server" \in Side /\ Negotiated' = Negotiated
      /\ st["client"] \in OwnStates("client")
      /\ ctl \in [Side -> {"call", "wants", "ok", "fail"}]
      /\ ctl' \in [Side -> {"call", "wants", "ok", "fail"}]
      /\ ss' \in [Side -> 0 .. 9]
      /\ PastFailing /\ Answered' /\ ServerProved' /\ FinishedHeard("client")'
  BY DEF AgreedInv, FinishedInv, HeardInv, HandshakeInv, SideInv, TypeOK, Side, Grown,
         Negotiated
<1>1. Decision' = Decision /\ Phase("server")' = Phase("server")
  BY <1>0, OtherSide DEF Untouched, Decision, Phase
<1>2. Moved("client")
  BY <1>0, Moves
<1>3. CASE Still("client")
  <2>1. View' = View
    BY <1>0, <1>3 DEF Still, View
  <2>2. st'["client"] = "FINISHED_DONE" => "EE" \in seen["client"]
    BY <1>0, <1>3 DEF Still, ServerProved, AfterServer, FinishedHeard,
       SERVER_FINISHED_COMPLETE, SERVER_ENCRYPTED_EXTENSIONS_COMPLETE
  <2> QED
    BY <1>0, <1>1, <1>2, <2>1, <2>2 DEF Moved, LastState, Phase, PastFailing, View
<1>4. CASE Reads("client")
  <2>1. /\ ctl' = ctl /\ st' = st /\ ctl["client"] = "call"
        /\ st["client"] # "FINISHED_DONE" /\ seen["client"] \subseteq seen'["client"]
    BY <1>0, <1>4, HandleEffect
       DEF Reads, DoServerHello, DoEncryptedExtensions, DoCertificateRequest,
           DoCertificate, DoCertificateVerify, DoFinished
  <2>2. "EE" \in seen'["client"] => Decision = Negotiated
    BY <1>0, <1>1 DEF Answered, Decision
  <2> QED
    BY <1>0, <1>1, <2>1, <2>2 DEF Phase, View
<1> QED
  BY <1>0, <1>3, <1>4, StillOrReads

LEMMA SessionStep == AgreedInv /\ AgreedInv' /\ [Next]_vars => [Session!Next]_(Session!vars)
<1> SUFFICES ASSUME AgreedInv, AgreedInv', [Next]_vars
             PROVE  Session!Next \/ UNCHANGED Session!vars
  OBVIOUS
<1>0. TypeOK /\ Grown
  BY LogsGrow DEF AgreedInv, FinishedInv, HeardInv, HandshakeInv
<1>1. /\ TypesAfter("CH", "server") = Decision /\ TypesAfter("EE", "client") = View
      /\ TypesAfter("CH", "server")' = Decision' /\ TypesAfter("EE", "client")' = View'
  <2>1. (TypesAfter("CH", "server") = Decision /\ TypesAfter("EE", "client") = View)'
    BY Abstraction, PTL
  <2> QED
    BY <2>1, Abstraction
<1>2. Negotiated \in Session!Decisions /\ Negotiated # Session!Undecided
  BY <1>0, DecisionAllowed
<1>3. [client |-> cfg["client"], server |-> cfg["server"]]'
          = [client |-> cfg["client"], server |-> cfg["server"]]
  BY <1>0 DEF Grown
<1>4. CASE Program("server") \/ TimePasses("server")
  BY <1>0, <1>1, <1>2, <1>3, <1>4, ServerStepSession
     DEF Phase, Session!Next, Session!Decide, Session!ServerFails, Session!ServerFinishes,
         Session!vars
<1>5. CASE Program("client") \/ TimePasses("client")
  BY <1>0, <1>1, <1>2, <1>3, <1>5, ClientStepSession
     DEF Phase, Session!Next, Session!Learn, Session!ClientFails, Session!ClientFinishes,
         Session!vars
<1>6. CASE UNCHANGED vars
  BY <1>6 DEF Session!vars, TypesAfter, vars, setup, session
<1> QED
  BY <1>4, <1>5, <1>6 DEF Next, Side

LEMMA SessionInit == Init => Session!Init
<1> SUFFICES ASSUME Init PROVE Session!Init
  OBVIOUS
<1>1. /\ cfg \in [Side -> Configurations]
      /\ ctl["client"] = "call" /\ ctl["server"] = "call"
      /\ st["client"] = "CONNECT_BEGIN"
      /\ seen["client"] = {} /\ seen["server"] = {}
  BY InitType DEF Init, TypeOK, Side
<1> QED
  BY <1>1 DEF Session!Init, Session!Configurations, Session!PreferenceLists,
     Session!CertTypes, Session!Materials, Session!VerifyModes, Configurations,
     PreferenceLists, CertTypes, Materials, VerifyModes, TypesAfter, Session!Undecided, Side

\* The handshake implements the abstract session: the server decides once, by
\* its own preferences among what the client offered; the client learns that
\* decision; and the server is done only when the client is.
THEOREM SessionRefined == Spec => SessionAgreed
<1>1. Init => Session!Init
  BY SessionInit
<1>2. AgreedInv /\ AgreedInv' /\ [Next]_vars => [Session!Next]_(Session!vars)
  BY SessionStep
<1> QED
  BY <1>1, <1>2, AgreedInvariant, PTL DEF Spec, SessionAgreed, Session!Spec

-----------------------------------------------------------------------------
(* The expected flights, message by message.                               *)

Kinds == {"CH", "HRR", "SH", "EE", "CR", "CERT", "CV", "FIN"}

Certs == IF ~VerifyPeer("server") THEN 0 ELSE IF Complete(cfg["client"].mat) THEN 2 ELSE 1
Hellos == IF retry THEN 2 ELSE 1
Retried == IF retry THEN 1 ELSE 0
Asked == IF VerifyPeer("server") THEN 1 ELSE 0

LEMMA ClientFlight ==
    LET flight == ExpectedFlight("client")
    IN  /\ DOMAIN flight = 1 .. Hellos + Certs + 1
        /\ flight[1] = "CH" /\ flight[Hellos] = "CH"
        /\ Certs > 0 => flight[Hellos + 1] = "CERT"
        /\ Certs > 1 => flight[Hellos + 2] = "CV"
        /\ flight[Hellos + Certs + 1] = "FIN"
<1> DEFINE a == IF retry THEN <<"CH", "CH">> ELSE <<"CH">>
           b == IF ~VerifyPeer("server") THEN <<>>
                ELSE IF Complete(cfg["client"].mat) THEN <<"CERT", "CV">> ELSE <<"CERT">>
<1>1. a \in Seq(Kinds) /\ Len(a) = Hellos /\ a[1] = "CH" /\ a[Hellos] = "CH"
  <2>1. CASE retry
    BY <2>1 DEF Hellos, Kinds
  <2>2. CASE ~retry
    BY <2>2 DEF Hellos, Kinds
  <2> QED
    BY <2>1, <2>2
<1>2. /\ b \in Seq(Kinds) /\ Len(b) = Certs /\ Certs \in 0 .. 2
      /\ Certs > 0 => b[1] = "CERT"
      /\ Certs > 1 => b[2] = "CV"
  <2>1. CASE ~VerifyPeer("server")
    BY <2>1 DEF Certs, Kinds
  <2>2. CASE VerifyPeer("server") /\ Complete(cfg["client"].mat)
    BY <2>2 DEF Certs, Kinds
  <2>3. CASE VerifyPeer("server") /\ ~Complete(cfg["client"].mat)
    BY <2>3 DEF Certs, Kinds
  <2> QED
    BY <2>1, <2>2, <2>3
<1>3. ExpectedFlight("client") = a \o b \o <<"FIN">>
  BY DEF ExpectedFlight
<1> HIDE DEF a, b
<1>4. Hellos \in 1 .. 2
  BY DEF Hellos, Kinds
<1> QED
  BY <1>1, <1>2, <1>3, <1>4

LEMMA Concatenated ==
    ASSUME NEW S, NEW p \in Seq(S), NEW q \in Seq(S)
    PROVE  /\ p \o q \in Seq(S) /\ DOMAIN (p \o q) = 1 .. Len(p) + Len(q)
           /\ Len(p \o q) = Len(p) + Len(q)
           /\ \A i \in 1 .. Len(p) : (p \o q)[i] = p[i]
           /\ \A i \in 1 .. Len(q) : (p \o q)[Len(p) + i] = q[i]
OBVIOUS

LEMMA ServerFlight ==
    LET flight == ExpectedFlight("server")
    IN  /\ DOMAIN flight = 1 .. Retried + Asked + 5
        /\ retry => flight[1] = "HRR"
        /\ flight[Retried + 1] = "SH"
        /\ flight[Retried + 2] = "EE"
        /\ VerifyPeer("server") => flight[Retried + 3] = "CR"
        /\ flight[Retried + Asked + 3] = "CERT"
        /\ flight[Retried + Asked + 4] = "CV"
        /\ flight[Retried + Asked + 5] = "FIN"
<1> DEFINE a == IF retry THEN <<"HRR", "SH", "EE">> ELSE <<"SH", "EE">>
           b == IF VerifyPeer("server") THEN <<"CR">> ELSE <<>>
           c == <<"CERT", "CV", "FIN">>
<1>1. /\ a \in Seq(Kinds) /\ Len(a) = Retried + 2
      /\ retry => a[1] = "HRR"
      /\ a[Retried + 1] = "SH" /\ a[Retried + 2] = "EE"
  <2>1. CASE retry
    BY <2>1 DEF Retried, Kinds
  <2>2. CASE ~retry
    BY <2>2 DEF Retried, Kinds
  <2> QED
    BY <2>1, <2>2
<1>2. /\ b \in Seq(Kinds) /\ Len(b) = Asked
      /\ VerifyPeer("server") => Asked = 1 /\ b[1] = "CR"
  <2>1. CASE VerifyPeer("server")
    BY <2>1 DEF Asked, Kinds
  <2>2. CASE ~VerifyPeer("server")
    BY <2>2 DEF Asked, Kinds
  <2> QED
    BY <2>1, <2>2
<1>3. c \in Seq(Kinds) /\ Len(c) = 3 /\ c[1] = "CERT" /\ c[2] = "CV" /\ c[3] = "FIN"
  BY DEF Kinds
<1>4. ExpectedFlight("server") = a \o b \o c
  BY DEF ExpectedFlight
<1>5. Retried \in 0 .. 1 /\ Asked \in 0 .. 1 /\ (retry => Retried = 1)
  BY DEF Retried, Asked
<1> HIDE DEF a, b, c
<1> DEFINE ab     == a \o b
           flight == ab \o c
<1>6. /\ ab \in Seq(Kinds) /\ Len(ab) = Retried + Asked + 2
      /\ ab[Retried + 1] = "SH" /\ ab[Retried + 2] = "EE"
      /\ retry => ab[1] = "HRR"
      /\ VerifyPeer("server") => ab[Retried + 3] = "CR"
  BY <1>1, <1>2, <1>5
<1> HIDE DEF ab
<1>7. /\ DOMAIN flight = 1 .. Retried + Asked + 2 + 3
      /\ \A i \in 1 .. Retried + Asked + 2 : flight[i] = ab[i]
      /\ \A i \in 1 .. 3 : flight[Retried + Asked + 2 + i] = c[i]
  <2>1. /\ DOMAIN flight = 1 .. Len(ab) + Len(c)
        /\ \A i \in 1 .. Len(ab) : flight[i] = ab[i]
        /\ \A i \in 1 .. Len(c) : flight[Len(ab) + i] = c[i]
    <3>1. ab \in Seq(Kinds) /\ c \in Seq(Kinds)
      BY <1>3, <1>6
    <3> QED
      BY <3>1, Concatenated
  <2> HIDE DEF flight
  <2> QED
    BY <1>3, <1>6, <2>1
<1> HIDE DEF flight
<1>8. /\ flight[Retried + 1] = "SH" /\ flight[Retried + 2] = "EE"
      /\ retry => flight[1] = "HRR"
      /\ VerifyPeer("server") => flight[Retried + 3] = "CR"
  BY <1>2, <1>5, <1>6, <1>7
<1>9. /\ flight[Retried + Asked + 2 + 1] = "CERT" /\ flight[Retried + Asked + 2 + 2] = "CV"
      /\ flight[Retried + Asked + 2 + 3] = "FIN"
  BY <1>3, <1>7
<1>10. /\ Retried + Asked + 2 + 1 = Retried + Asked + 3
       /\ Retried + Asked + 2 + 2 = Retried + Asked + 4
       /\ Retried + Asked + 2 + 3 = Retried + Asked + 5
  BY <1>5
<1>11. ExpectedFlight("server") = flight
  BY <1>4 DEF ab, flight
<1> QED
  BY <1>7, <1>8, <1>9, <1>10, <1>11

-----------------------------------------------------------------------------
(* The place of a message in its flight.                                   *)

LEMMA NthOfAppend ==
    ASSUME NEW log \in Seq(Messages), NEW m \in Messages
    PROVE  /\ \A i \in 0 .. Len(log) : Nth(Append(log, m), i) = Nth(log, i)
           /\ Nth(log, Len(log)) \in Nat
           /\ Nth(Append(log, m), Len(log) + 1) =
                  Nth(log, Len(log)) + IF m.t = "ALERT" THEN 0 ELSE 1
<1> DEFINE more  == Append(log, m)
           P(l, i) == {j \in 1 .. i : l[j].t # "ALERT"}
<1>1. /\ Len(log) \in Nat /\ Len(more) = Len(log) + 1
      /\ \A i \in 1 .. Len(log) : more[i] = log[i]
      /\ more[Len(log) + 1] = m
  OBVIOUS
<1>2. \A i \in 0 .. Len(log) : P(more, i) = P(log, i)
  BY <1>1
<1>3. IsFiniteSet(P(log, Len(log))) /\ Cardinality(P(log, Len(log))) \in Nat
  <2>1. IsFiniteSet(1 .. Len(log))
    <3>1. 1 \in Int /\ Len(log) \in Int
      BY <1>1
    <3> QED
      BY <3>1, FS_Interval
  <2>2. P(log, Len(log)) \in SUBSET (1 .. Len(log))
    OBVIOUS
  <2> HIDE DEF P
  <2>3. IsFiniteSet(P(log, Len(log)))
    BY <2>1, <2>2, FS_Subset
  <2> QED
    BY <2>3, FS_CardinalityType
<1>4. Cardinality(P(more, Len(log) + 1)) =
          Cardinality(P(log, Len(log))) + IF m.t = "ALERT" THEN 0 ELSE 1
  <2>1. CASE m.t = "ALERT"
    <3>1. P(more, Len(log) + 1) = P(log, Len(log))
      BY <1>1, <2>1
    <3> HIDE DEF P, more
    <3> QED
      BY <1>3, <2>1, <3>1
  <2>2. CASE m.t # "ALERT"
    <3>1. P(more, Len(log) + 1) = P(log, Len(log)) \cup {Len(log) + 1}
      BY <1>1, <2>2
    <3>2. Len(log) + 1 \notin P(log, Len(log))
      BY <1>1
    <3> HIDE DEF P, more
    <3> QED
      BY <1>3, <2>2, <3>1, <3>2, FS_AddElement
  <2> QED
    BY <2>1, <2>2
<1>5. \A l, i : Nth(l, i) = Cardinality(P(l, i))
  BY DEF Nth
<1> HIDE DEF P
<1> QED
  BY <1>2, <1>3, <1>4, <1>5

LEMMA NthWithoutAlerts ==
    ASSUME NEW log, NEW k \in Nat, \A j \in 1 .. k : log[j].t # "ALERT"
    PROVE  Nth(log, k) = k
<1>1. {j \in 1 .. k : log[j].t # "ALERT"} = 1 .. k
  OBVIOUS
<1>2. 1 \in Int /\ k \in Int
  OBVIOUS
<1>3. Cardinality(1 .. k) = IF 1 > k THEN 0 ELSE k - 1 + 1
  BY <1>2, FS_Interval
<1>4. Cardinality(1 .. k) = k
  BY <1>3
<1> QED
  BY <1>1, <1>4 DEF Nth

-----------------------------------------------------------------------------
(* The inductive invariant: where each switch stands says how many of its  *)
(* messages are behind it.                                                 *)

Total(e) == Nth(sent[e], Len(sent[e]))

ClientBehind ==
    [CONNECT_BEGIN      |-> 0,
     CLIENT_HELLO_SENT  |-> 1,
     HELLO_AGAIN        |-> 1,
     HELLO_AGAIN_REPLY  |-> Hellos,
     FIRST_REPLY_DONE   |-> Hellos,
     FIRST_REPLY_FIRST  |-> Hellos,
     FIRST_REPLY_SECOND |-> Hellos,
     FIRST_REPLY_THIRD  |-> Hellos + IF VerifyPeer("server") THEN 1 ELSE 0,
     FIRST_REPLY_FOURTH |-> Hellos + Certs,
     FINISHED_DONE      |-> Hellos + Certs + 1]

ServerBehind ==
    [ACCEPT_BEGIN                    |-> 0,
     ACCEPT_CLIENT_HELLO_DONE        |-> 0,
     ACCEPT_HELLO_RETRY_REQUEST_DONE |-> Retried,
     ACCEPT_FIRST_REPLY_DONE         |-> Retried,
     ACCEPT_SECOND_REPLY_DONE        |-> Retried,
     SERVER_HELLO_SENT               |-> Retried + 1,
     ACCEPT_THIRD_REPLY_DONE         |-> Retried + 1,
     SERVER_EXTENSIONS_SENT          |-> Retried + 2,
     CERT_REQ_SENT                   |-> Retried + Asked + 2,
     CERT_SENT                       |-> Retried + Asked + 3,
     CERT_VERIFY_SENT                |-> Retried + Asked + 4,
     ACCEPT_FINISHED_SENT            |-> Retried + Asked + 5,
     PRE_TICKET_SENT                 |-> Retried + Asked + 5,
     ACCEPT_FINISHED_DONE            |-> Retried + Asked + 5,
     TICKET_SENT                     |-> Retried + Asked + 5]

\* The messages of the cases that are completed in state s.
BehindAt(e, s) == IF e = "client" THEN ClientBehind[s] ELSE ServerBehind[s]

Behind(e) == BehindAt(e, st[e])

\* The states whose case builds a message.
BuildingStates(e) ==
    IF e = "client"
    THEN {"CONNECT_BEGIN", "FIRST_REPLY_FOURTH"}
         \cup (IF retry THEN {"HELLO_AGAIN"} ELSE {})
         \cup (IF Certs > 0 THEN {"FIRST_REPLY_SECOND"} ELSE {})
         \cup (IF Certs > 1 THEN {"FIRST_REPLY_THIRD"} ELSE {})
    ELSE {"ACCEPT_SECOND_REPLY_DONE", "ACCEPT_THIRD_REPLY_DONE",
          "CERT_REQ_SENT", "CERT_SENT", "CERT_VERIFY_SENT"}
         \cup (IF retry THEN {"ACCEPT_CLIENT_HELLO_DONE"} ELSE {})
         \cup (IF VerifyPeer(e) THEN {"SERVER_EXTENSIONS_SENT"} ELSE {})

Building(e) == st[e] \in BuildingStates(e)

\* The states whose case reads.
ReadingStates ==
    {"CLIENT_HELLO_SENT", "HELLO_AGAIN_REPLY", "ACCEPT_BEGIN",
     "ACCEPT_FIRST_REPLY_DONE", "PRE_TICKET_SENT"}

\* Until it fails, a side has built what is behind it, and the message of the
\* current case if that is stuck.
Counted(e) ==
    ctl[e] # "fail" =>
        Total(e) = Behind(e) + IF Building(e) /\ (ctl[e] = "wants" \/ ssl[e].fragment)
                               THEN 1 ELSE 0

Stuck(e) ==
    ctl[e] = "wants" =>
        \/ st[e] \in ReadingStates
        \/ /\ Building(e) /\ Buffered(e)
           /\ st[e] = FinishedState(e) => ~ssl[e].building

InFlight(e) ==
    \A i \in DOMAIN sent[e] :
        sent[e][i].t # "ALERT" =>
            /\ Nth(sent[e], i) \in DOMAIN ExpectedFlight(e)
            /\ sent[e][i].t = ExpectedFlight(e)[Nth(sent[e], i)]

\* The part of the invariant about one side's own log.
Planned(e) == InFlight(e) /\ Counted(e) /\ Stuck(e)

\* What the client has read of the server's flight: a beginning of it, in which
\* a request for a certificate is not overlooked.
HasRead ==
    ctl["client"] # "fail" =>
        /\ ss["client"] = NULL_STATE => got["client"] = 0
        /\ \A j \in 1 .. got["client"] :
               /\ sent["server"][j].t # "ALERT"
               /\ sent["server"][j].t = "CR" => ssl["client"].sendVerify # "NO"
        /\ ss["client"] >= SERVER_CERT_COMPLETE /\ VerifyPeer("server") =>
               ssl["client"].sendVerify # "NO"

\* What the client will answer to a request that was made.
AnswersRequest ==
    ssl["client"].sendVerify # "NO" =>
        /\ VerifyPeer("server")
        /\ ssl["client"].sendVerify = IF Complete(cfg["client"].mat)
                                      THEN "SEND_CERT" ELSE "SEND_BLANK_CERT"

\* Whether the client's next hello is due.
FollowsRetry ==
    /\ st["client"] = "CONNECT_BEGIN" => ss["client"] = NULL_STATE
    /\ st["client"] = "HELLO_AGAIN" => ss["client"] # NULL_STATE
    /\ st["client"] \in {"CLIENT_HELLO_SENT", "HELLO_AGAIN"} =>
           \/ ss["client"] = NULL_STATE
           \/ (ss["client"] = SERVER_HELLO_RETRY_REQUEST_COMPLETE) = retry

ClientFollows == HasRead /\ AnswersRequest /\ FollowsRetry

\* Whether a retry is due is settled by the first hello.
ServerFollows ==
    st["server"] \in {"ACCEPT_BEGIN", "ACCEPT_CLIENT_HELLO_DONE"} =>
        IF cs = NULL_STATE
        THEN ss["server"] = NULL_STATE
        ELSE /\ cs >= CLIENT_HELLO_COMPLETE
             /\ ss["server"] = IF retry THEN SERVER_HELLO_RETRY_REQUEST_COMPLETE
                                        ELSE NULL_STATE

FlightInv ==
    /\ AgreedInv
    /\ \A e \in Side : Planned(e)
    /\ ClientFollows
    /\ ServerFollows

-----------------------------------------------------------------------------
(* The plan of a flight, case by case.                                     *)

\* The message that the case of state s builds.
Due ==
    [CONNECT_BEGIN            |-> "CH",
     HELLO_AGAIN              |-> "CH",
     FIRST_REPLY_SECOND       |-> "CERT",
     FIRST_REPLY_THIRD        |-> "CV",
     FIRST_REPLY_FOURTH       |-> "FIN",
     ACCEPT_CLIENT_HELLO_DONE |-> "HRR",
     ACCEPT_SECOND_REPLY_DONE |-> "SH",
     ACCEPT_THIRD_REPLY_DONE  |-> "EE",
     SERVER_EXTENSIONS_SENT   |-> "CR",
     CERT_REQ_SENT            |-> "CERT",
     CERT_SENT                |-> "CV",
     CERT_VERIFY_SENT         |-> "FIN"]

LEMMA FlightCounts ==
    /\ Hellos = IF retry THEN 2 ELSE 1
    /\ Retried = IF retry THEN 1 ELSE 0
    /\ Asked = IF VerifyPeer("server") THEN 1 ELSE 0
    /\ Hellos \in 1 .. 2 /\ Certs \in 0 .. 2 /\ Retried \in 0 .. 1 /\ Asked \in 0 .. 1
    /\ Certs > 0 <=> VerifyPeer("server")
    /\ Certs > 1 <=> VerifyPeer("server") /\ Complete(cfg["client"].mat)
BY DEF Hellos, Certs, Retried, Asked

\* What a building case has before it, and after it, is one message apart, and
\* that message is the one its action sends.
LEMMA Builds ==
    ASSUME NEW e \in Side, NEW s \in BuildingStates(e)
    PROVE  /\ s \in DOMAIN AfterFlush /\ s \notin ReadingStates
           /\ BehindAt(e, s) \in Nat
           /\ BehindAt(e, AfterFlush[s]) = BehindAt(e, s) + 1
           /\ BehindAt(e, s) + 1 \in DOMAIN ExpectedFlight(e)
           /\ ExpectedFlight(e)[BehindAt(e, s) + 1] = Due[s]
<1>1. CASE e = "client"
  <2>1. s \in {"CONNECT_BEGIN", "HELLO_AGAIN", "FIRST_REPLY_SECOND", "FIRST_REPLY_THIRD",
               "FIRST_REPLY_FOURTH"}
    BY <1>1 DEF BuildingStates
  <2>2. /\ s = "HELLO_AGAIN" => retry
        /\ s = "FIRST_REPLY_SECOND" => Certs > 0
        /\ s = "FIRST_REPLY_THIRD" => Certs > 1
    BY <1>1 DEF BuildingStates
  <2>3. s \in DOMAIN AfterFlush /\ s \notin ReadingStates
    BY <2>1 DEF AfterFlush, ReadingStates
  <2>4. /\ BehindAt(e, s) \in Nat
        /\ BehindAt(e, AfterFlush[s]) = BehindAt(e, s) + 1
    BY <1>1, <2>1, <2>2, FlightCounts DEF BehindAt, ClientBehind, AfterFlush
  <2>5. /\ BehindAt(e, s) + 1 \in DOMAIN ExpectedFlight(e)
        /\ ExpectedFlight(e)[BehindAt(e, s) + 1] = Due[s]
    BY <1>1, <2>1, <2>2, FlightCounts, ClientFlight DEF BehindAt, ClientBehind, Due
  <2> QED
    BY <2>3, <2>4, <2>5
<1>2. CASE e = "server"
  <2>1. s \in {"ACCEPT_CLIENT_HELLO_DONE", "ACCEPT_SECOND_REPLY_DONE",
               "ACCEPT_THIRD_REPLY_DONE", "SERVER_EXTENSIONS_SENT", "CERT_REQ_SENT",
               "CERT_SENT", "CERT_VERIFY_SENT"}
    BY <1>2 DEF BuildingStates
  <2>2. /\ s = "ACCEPT_CLIENT_HELLO_DONE" => retry
        /\ s = "SERVER_EXTENSIONS_SENT" => VerifyPeer("server")
    BY <1>2 DEF BuildingStates
  <2>3. s \in DOMAIN AfterFlush /\ s \notin ReadingStates
    BY <2>1 DEF AfterFlush, ReadingStates
  <2>4. /\ BehindAt(e, s) \in Nat
        /\ BehindAt(e, AfterFlush[s]) = BehindAt(e, s) + 1
    BY <1>2, <2>1, <2>2, FlightCounts DEF BehindAt, ServerBehind, AfterFlush
  <2>5. /\ BehindAt(e, s) + 1 \in DOMAIN ExpectedFlight(e)
        /\ ExpectedFlight(e)[BehindAt(e, s) + 1] = Due[s]
    BY <1>2, <2>1, <2>2, FlightCounts, ServerFlight DEF BehindAt, ServerBehind, Due
  <2> QED
    BY <2>3, <2>4, <2>5
<1> QED
  BY <1>1, <1>2 DEF Side

\* The states whose case does no more than move on, and where to.
Passes(e, s, next) ==
    /\ s \notin BuildingStates(e)
    /\ BehindAt(e, next) = BehindAt(e, s)

LEMMA ClientPasses ==
    /\ Passes("client", "CLIENT_HELLO_SENT", "HELLO_AGAIN")
    /\ ~retry => Passes("client", "HELLO_AGAIN", "HELLO_AGAIN_REPLY")
    /\ Passes("client", "HELLO_AGAIN_REPLY", "FIRST_REPLY_DONE")
    /\ Passes("client", "FIRST_REPLY_DONE", "FIRST_REPLY_FIRST")
    /\ Passes("client", "FIRST_REPLY_FIRST", "FIRST_REPLY_SECOND")
    /\ Certs = 0 => Passes("client", "FIRST_REPLY_SECOND", "FIRST_REPLY_THIRD")
    /\ Certs <= 1 => Passes("client", "FIRST_REPLY_THIRD", "FIRST_REPLY_FOURTH")
BY FlightCounts DEF Passes, BuildingStates, BehindAt, ClientBehind

LEMMA ServerPasses ==
    /\ Passes("server", "ACCEPT_BEGIN", "ACCEPT_CLIENT_HELLO_DONE")
    /\ ~retry => Passes("server", "ACCEPT_CLIENT_HELLO_DONE",
                                  "ACCEPT_HELLO_RETRY_REQUEST_DONE")
    /\ Passes("server", "ACCEPT_HELLO_RETRY_REQUEST_DONE", "ACCEPT_FIRST_REPLY_DONE")
    /\ Passes("server", "ACCEPT_FIRST_REPLY_DONE", "ACCEPT_SECOND_REPLY_DONE")
    /\ Passes("server", "SERVER_HELLO_SENT", "ACCEPT_THIRD_REPLY_DONE")
    /\ ~VerifyPeer("server") => Passes("server", "SERVER_EXTENSIONS_SENT", "CERT_REQ_SENT")
    /\ Passes("server", "ACCEPT_FINISHED_SENT", "PRE_TICKET_SENT")
    /\ Passes("server", "PRE_TICKET_SENT", "ACCEPT_FINISHED_DONE")
    /\ Passes("server", "ACCEPT_FINISHED_DONE", "TICKET_SENT")
BY FlightCounts DEF Passes, BuildingStates, BehindAt, ServerBehind

LEMMA SameSetup ==
    ASSUME cfg' = cfg, retry' = retry
    PROVE  /\ Certs' = Certs /\ Hellos' = Hellos /\ Retried' = Retried /\ Asked' = Asked
           /\ \A d : VerifyPeer(d)' = VerifyPeer(d)
           /\ \A e \in Side : /\ ExpectedFlight(e)' = ExpectedFlight(e)
                              /\ BuildingStates(e)' = BuildingStates(e)
           /\ \A e, s : BehindAt(e, s)' = BehindAt(e, s)
<1>1. /\ Certs' = Certs /\ Hellos' = Hellos /\ Retried' = Retried /\ Asked' = Asked
      /\ \A d : VerifyPeer(d)' = VerifyPeer(d)
  BY DEF Certs, Hellos, Retried, Asked, VerifyPeer
<1>2. \A e \in Side : ExpectedFlight(e)' = ExpectedFlight(e)
  BY DEF ExpectedFlight, VerifyPeer
<1>3. \A e \in Side : BuildingStates(e)' = BuildingStates(e)
  BY <1>1 DEF BuildingStates
<1>4. \A e, s : BehindAt(e, s)' = BehindAt(e, s)
  BY <1>1 DEF BehindAt, ClientBehind, ServerBehind
<1> QED
  BY <1>1, <1>2, <1>3, <1>4

-----------------------------------------------------------------------------
(* What a record added to a log does to the flight.                        *)

LEMMA FlightAppend ==
    ASSUME NEW e \in Side, sent[e] \in Seq(Messages), InFlight(e),
           cfg' = cfg, retry' = retry,
           NEW m \in Messages, sent'[e] = Append(sent[e], m),
           m.t # "ALERT" => /\ Total(e) + 1 \in DOMAIN ExpectedFlight(e)
                            /\ m.t = ExpectedFlight(e)[Total(e) + 1]
    PROVE  /\ InFlight(e)' /\ Total(e) \in Nat
           /\ Total(e)' = Total(e) + IF m.t = "ALERT" THEN 0 ELSE 1
<1> DEFINE log == sent[e]
           more == Append(sent[e], m)
           flight == ExpectedFlight(e)
<1>1. /\ Len(log) \in Nat /\ Len(more) = Len(log) + 1
      /\ \A i \in 1 .. Len(log) : more[i] = log[i]
      /\ more[Len(log) + 1] = m
      /\ DOMAIN more = 1 .. Len(log) + 1 /\ DOMAIN log = 1 .. Len(log)
  OBVIOUS
<1>2. /\ \A i \in 0 .. Len(log) : Nth(more, i) = Nth(log, i)
      /\ Nth(log, Len(log)) \in Nat
      /\ Nth(more, Len(log) + 1) = Nth(log, Len(log)) + IF m.t = "ALERT" THEN 0 ELSE 1
  BY NthOfAppend
<1>3. ExpectedFlight(e)' = flight
  BY SameSetup
<1>4. Total(e) = Nth(log, Len(log)) /\ Total(e)' = Nth(more, Len(log) + 1)
  BY <1>1 DEF Total
<1>5. \A i \in 1 .. Len(log) : log[i].t # "ALERT" =>
          Nth(log, i) \in DOMAIN flight /\ log[i].t = flight[Nth(log, i)]
  BY <1>1 DEF InFlight
<1> HIDE DEF log, more, flight
<1>6. \A i \in 1 .. Len(log) + 1 : more[i].t # "ALERT" =>
          Nth(more, i) \in DOMAIN flight /\ more[i].t = flight[Nth(more, i)]
  <2> SUFFICES ASSUME NEW i \in 1 .. Len(log) + 1, more[i].t # "ALERT"
               PROVE  Nth(more, i) \in DOMAIN flight /\ more[i].t = flight[Nth(more, i)]
    OBVIOUS
  <2>1. CASE i = Len(log) + 1
    BY <1>1, <1>2, <1>4, <2>1 DEF flight
  <2>2. CASE i \in 1 .. Len(log)
    BY <1>1, <1>2, <1>5, <2>2
  <2> QED
    BY <1>1, <2>1, <2>2
<1>7. InFlight(e)'
  BY <1>1, <1>3, <1>6 DEF InFlight, more
<1> QED
  BY <1>2, <1>4, <1>7

\* No record, or an alert.
LEMMA QuietLog ==
    ASSUME NEW e \in Side, TypeOK, InFlight(e), cfg' = cfg, retry' = retry,
           \/ sent'[e] = sent[e]
           \/ sent'[e] = Append(sent[e], Plain("ALERT"))
    PROVE  InFlight(e)' /\ Total(e)' = Total(e)
<1>1. CASE sent'[e] = sent[e]
  BY <1>1, SameSetup DEF InFlight, Total
<1>2. CASE sent'[e] = Append(sent[e], Plain("ALERT"))
  <2>1. Plain("ALERT") \in Messages /\ Plain("ALERT").t = "ALERT"
    BY DEF Plain, Messages
  <2>2. sent[e] \in Seq(Messages)
    BY DEF TypeOK
  <2> QED
    BY <1>2, <2>1, <2>2, FlightAppend
<1> QED
  BY <1>1, <1>2

\* A case that builds its message, the first time it is entered.
LEMMA SendPlanned ==
    ASSUME NEW e \in Side, TypeOK, TypeOK', Planned(e), In(e, st[e]), Building(e),
           ~ssl[e].fragment, retry' = retry,
           NEW m \in Messages, m.t = Due[st[e]], m.t # "ALERT",
           Send(e, m, AfterFlush[st[e]]),
           ssl'[e].fragment => ctl'[e] = "wants",
           st[e] = FinishedState(e) => ~ssl'[e].building
    PROVE  Planned(e)'
<1>1. /\ ctl[e] = "call" /\ cfg' = cfg
      /\ st[e] \in BuildingStates(e)
      /\ sent'[e] = Append(sent[e], m) /\ sent[e] \in Seq(Messages)
      /\ \/ st'[e] = AfterFlush[st[e]] /\ ctl'[e] = "call"
         \/ st'[e] = st[e] /\ ctl'[e] = "wants" /\ flushed'[e] < Len(sent'[e])
         \/ st'[e] = st[e] /\ ctl'[e] = "fail"
  BY SendEffect DEF In, Building, TypeOK
<1>2. /\ BehindAt(e, st[e]) \in Nat
      /\ BehindAt(e, AfterFlush[st[e]]) = BehindAt(e, st[e]) + 1
      /\ BehindAt(e, st[e]) + 1 \in DOMAIN ExpectedFlight(e)
      /\ ExpectedFlight(e)[BehindAt(e, st[e]) + 1] = Due[st[e]]
  BY <1>1, Builds
<1>3. Total(e) = BehindAt(e, st[e])
  BY <1>1, <1>2 DEF Planned, Counted, Behind
<1>4. InFlight(e)' /\ Total(e)' = BehindAt(e, st[e]) + 1
  BY <1>1, <1>2, <1>3, FlightAppend DEF Planned
<1>5. /\ BuildingStates(e)' = BuildingStates(e)
      /\ \A s : BehindAt(e, s)' = BehindAt(e, s)
  BY <1>1, SameSetup
<1>6. Behind(e)' = BehindAt(e, st'[e]) /\ (Building(e)' <=> st'[e] \in BuildingStates(e))
  BY <1>5 DEF Behind, Building
<1>7. FinishedState(e)' = FinishedState(e)
  BY DEF FinishedState
<1>8. Counted(e)'
  BY <1>1, <1>2, <1>4, <1>6 DEF Counted
<1>9. Stuck(e)'
  BY <1>1, <1>6, <1>7 DEF Stuck, Buffered
<1> QED
  BY <1>4, <1>8, <1>9 DEF Planned

\* A case that is completed without a message of its own.
LEMMA PassPlanned ==
    ASSUME NEW e \in Side, TypeOK, Planned(e), cfg' = cfg, retry' = retry,
           ctl[e] = "call", ctl'[e] = "call", sent'[e] = sent[e],
           Passes(e, st[e], st'[e]), ssl'[e].fragment => st'[e] \notin BuildingStates(e)
    PROVE  Planned(e)'
<1>1. InFlight(e)' /\ Total(e)' = Total(e)
  BY QuietLog DEF Planned
<1>2. /\ BuildingStates(e)' = BuildingStates(e)
      /\ \A s : BehindAt(e, s)' = BehindAt(e, s)
  BY SameSetup
<1>3. Counted(e)'
  BY <1>1, <1>2 DEF Planned, Counted, Passes, Behind, Building
<1>4. Stuck(e)'
  BY DEF Stuck
<1> QED
  BY <1>1, <1>3, <1>4 DEF Planned

\* Everything that leaves the switch where it is.
LEMMA StayPlanned ==
    ASSUME NEW e \in Side, TypeOK, Planned(e), cfg' = cfg, retry' = retry,
           \/ sent'[e] = sent[e]
           \/ sent'[e] = Append(sent[e], Plain("ALERT")),
           \/ ctl'[e] = "fail"
           \/ /\ st'[e] = st[e] /\ st[e] \notin BuildingStates(e)
              /\ ctl[e] # "fail"
              /\ ctl'[e] = "wants" => st[e] \in ReadingStates
           \/ /\ st'[e] = st[e] /\ ctl'[e] = ctl[e]
              /\ ssl'[e].fragment = ssl[e].fragment /\ ssl'[e].building = ssl[e].building
              /\ flushed'[e] = flushed[e] /\ sent'[e] = sent[e]
    PROVE  Planned(e)'
<1>1. InFlight(e)' /\ Total(e)' = Total(e)
  BY QuietLog DEF Planned
<1>2. /\ BuildingStates(e)' = BuildingStates(e)
      /\ \A s : BehindAt(e, s)' = BehindAt(e, s)
      /\ FinishedState(e)' = FinishedState(e)
  BY SameSetup DEF FinishedState
<1>3. Counted(e)'
  BY <1>1, <1>2 DEF Planned, Counted, Behind, Building
<1>4. Stuck(e)'
  BY <1>2 DEF Planned, Stuck, Building, Buffered
<1> QED
  BY <1>1, <1>3, <1>4 DEF Planned

-----------------------------------------------------------------------------
(* The actions of a side keep its own log to the plan.                     *)

LEMMA FlightFacts ==
    ASSUME FlightInv
    PROVE  /\ TypeOK /\ "client" \in Side /\ "server" \in Side
           /\ \A e \in Side : Planned(e) /\ SideInv(e) /\ st[e] \in OwnStates(e)
                             /\ MessagePlaced(e)
           /\ ServerProved /\ Decided /\ ClientFollows /\ ServerFollows
           /\ ssl \in [Side -> SSLFields] /\ ss \in [Side -> 0 .. 9] /\ cs \in 0 .. 9
           /\ \A e \in Side : ssl[e].fragment \in BOOLEAN /\ ssl[e].building \in BOOLEAN
<1>1. TypeOK /\ \A e \in Side : SideInv(e)
  BY DEF FlightInv, AgreedInv, FinishedInv, HeardInv, HandshakeInv
<1>2. \A s \in SSLFields : s.fragment \in BOOLEAN /\ s.building \in BOOLEAN
  BY DEF SSLFields
<1>3. ssl \in [Side -> SSLFields] /\ ss \in [Side -> 0 .. 9] /\ cs \in 0 .. 9
  BY <1>1 DEF TypeOK
<1> QED
  BY <1>1, <1>2, <1>3 DEF FlightInv, AgreedInv, SideInv, Side

\* Past the server's flight the client knows whether it has been asked for a
\* certificate.
LEMMA ClientAsked ==
    ASSUME FlightInv, ctl["client"] = "call"
    PROVE  /\ ssl["client"].sendVerify # "NO" => Certs > 0
           /\ ssl["client"].sendVerify = "SEND_CERT" => Certs > 1
           /\ st["client"] \in AfterServer =>
                  /\ ssl["client"].sendVerify = "NO" => Certs = 0
                  /\ ssl["client"].sendVerify # "SEND_CERT" => Certs <= 1
<1>1. ClientFollows /\ ServerProved /\ ss["client"] \in 0 .. 9
  BY FlightFacts
<1>2. st["client"] \in AfterServer => ss["client"] >= SERVER_CERT_COMPLETE
  BY <1>1 DEF ServerProved, SERVER_CERT_COMPLETE, SERVER_FINISHED_COMPLETE
<1> QED
  BY <1>1, <1>2, FlightCounts DEF ClientFollows, HasRead, AnswersRequest, FollowsRetry

\* Outside the case of Certificate nothing is in fragments.
LEMMA Whole ==
    ASSUME FlightInv, NEW e \in Side, st[e] # CertState(e)
    PROVE  ssl[e].fragment = FALSE
BY FlightFacts DEF MessagePlaced

LEMMA KnownMessages ==
    ASSUME TypeOK
    PROVE  /\ \A t \in {"HRR", "SH", "CR", "CV", "FIN"} :
                  Plain(t) \in Messages /\ Plain(t).t = t
           /\ Hello(cfg["client"]) \in Messages /\ Hello(cfg["client"]).t = "CH"
           /\ Answer(ssl["server"]) \in Messages /\ Answer(ssl["server"]).t = "EE"
           /\ Certificate("blank") \in Messages /\ Certificate("blank").t = "CERT"
           /\ \A e \in Side : Certificate(cfg[e].mat) \in Messages
                             /\ Certificate(cfg[e].mat).t = "CERT"
<1>1. /\ Hello(cfg["client"]) \in Messages
      /\ \A d \in Side : ssl[d] \in SSLFields /\ cfg[d].mat \in Materials
      /\ "server" \in Side
  BY HelloType DEF TypeOK, Side, Configurations
<1> QED
  BY <1>1 DEF Plain, Messages, Hello, Answer, SSLFields, Certificate

LEMMA ClientCallPlanned ==
    ASSUME FlightInv, TypeOK', cfg' = cfg, retry' = retry, ClientCall
    PROVE  Planned("client")'
<1> DEFINE e == "client"
<1>0. /\ e \in Side /\ TypeOK /\ Planned(e) /\ ClientFollows /\ st[e] \in ConnectStates
      /\ ssl \in [Side -> SSLFields] /\ ss[e] \in 0 .. 9
      /\ st \in [Side -> ConnectStates \cup AcceptStates]
      /\ ctl \in [Side -> {"call", "wants", "ok", "fail"}]
  BY FlightFacts DEF OwnStates, TypeOK
<1>1. CASE SendClientHello
  <2>1. ctl[e] = "call" /\ ssl' = ssl /\ st[e] \in {"CONNECT_BEGIN", "HELLO_AGAIN"}
        /\ (st[e] = "HELLO_AGAIN" => ss[e] = SERVER_HELLO_RETRY_REQUEST_COMPLETE)
    BY <1>1 DEF SendClientHello, In
  <2>2. st[e] = "HELLO_AGAIN" => retry
    BY <1>0, <2>1 DEF ClientFollows, HasRead, AnswersRequest, FollowsRetry
  <2>3. Building(e) /\ Due[st[e]] = "CH" /\ st[e] # CertState(e) /\ st[e] # FinishedState(e)
    BY <2>1, <2>2 DEF Building, BuildingStates, Due, CertState, FinishedState
  <2>4. Send(e, Hello(cfg["client"]), AfterFlush[st[e]])
    BY <1>1, <2>1 DEF SendClientHello, AfterFlush
  <2> QED
    BY <1>0, <2>1, <2>3, <2>4, Whole, KnownMessages, SendPlanned DEF In
<1>2. CASE DoServerHello \/ DoEncryptedExtensions \/ DoCertificateRequest
  <2>1. PICK type \in {"SH", "HRR", "EE", "CR"} : Handle(e, type) /\ NoAlert
    BY <1>2 DEF DoServerHello, DoEncryptedExtensions, DoCertificateRequest
  <2>2. /\ st'[e] = st[e] /\ ctl'[e] = "call" /\ ctl[e] = "call" /\ sent'[e] = sent[e]
        /\ st[e] \in ReadingStates /\ st[e] \notin BuildingStates(e)
    BY <1>0, <2>1, HandleEffect DEF NoAlert, ReadingStates, BuildingStates
  <2> QED
    BY <1>0, <2>2, StayPlanned
<1>3. CASE ConnectFallsThrough
  <2>1. /\ ctl[e] = "call" /\ ctl'[e] = "call" /\ sent'[e] = sent[e]
        /\ ssl'[e].fragment = ssl[e].fragment
    <3>1. PICK b : ssl' = [ssl EXCEPT !["client"].building = b]
      BY <1>3 DEF ConnectFallsThrough
    <3> QED
      BY <1>0, <1>3, <3>1 DEF ConnectFallsThrough, wire, SSLFields
  <2>2. Passes(e, st[e], st'[e]) /\ st[e] # CertState(e)
    <3>1. st[e] = "HELLO_AGAIN" /\ ss[e] # SERVER_HELLO_RETRY_REQUEST_COMPLETE => ~retry
      BY <1>0 DEF ClientFollows, HasRead, AnswersRequest, FollowsRetry
    <3>2. st[e] = "FIRST_REPLY_THIRD" /\ ssl[e].sendVerify # "SEND_CERT" => Certs <= 1
      BY <2>1, ClientAsked DEF AfterServer
    <3> QED
      BY <1>0, <1>3, <3>1, <3>2, ClientPasses DEF ConnectFallsThrough, Goto, CertState
  <2> QED
    BY <1>0, <2>1, <2>2, Whole, PassPlanned
<1>4. CASE CheckServerAuth
  <2>1. /\ In(e, "FIRST_REPLY_SECOND") /\ ssl' = ssl /\ sent' = sent
        /\ \/ /\ ssl[e].sendVerify = "NO" /\ st'[e] = "FIRST_REPLY_THIRD" /\ ctl'[e] = "call"
           \/ ctl'[e] = "fail"
    BY <1>0, <1>4 DEF CheckServerAuth, Goto, Fail, In, session, wire
  <2>2. CASE ctl'[e] = "fail"
    BY <1>0, <2>1, <2>2, StayPlanned
  <2>3. CASE ctl'[e] # "fail"
    <3>1. Certs = 0 /\ st[e] = "FIRST_REPLY_SECOND" /\ ctl[e] = "call"
      BY <2>1, <2>3, ClientAsked DEF In, AfterServer
    <3>2. "FIRST_REPLY_THIRD" \notin BuildingStates(e)
      BY <3>1 DEF BuildingStates
    <3> QED
      BY <1>0, <2>1, <2>3, <3>1, <3>2, ClientPasses, PassPlanned
  <2> QED
    BY <2>2, <2>3
<1>5. CASE ConnectSucceeds
  <2>1. /\ st[e] = "FINISHED_DONE" /\ st'[e] = st[e] /\ ctl'[e] = "ok" /\ ctl[e] = "call"
        /\ sent' = sent /\ st[e] \notin BuildingStates(e)
    BY <1>0, <1>5 DEF ConnectSucceeds, In, wire, BuildingStates
  <2> QED
    BY <1>0, <2>1, StayPlanned
<1> QED
  BY <1>1, <1>2, <1>3, <1>4, <1>5 DEF ClientCall

\* The first hello has settled whether a retry is due.
LEMMA RetryDue ==
    ASSUME FlightInv, st["server"] = "ACCEPT_CLIENT_HELLO_DONE"
    PROVE  (ss["server"] = SERVER_HELLO_RETRY_REQUEST_COMPLETE) <=> retry
<1>1. Decided /\ ServerFollows
  BY FlightFacts
<1>2. cs # NULL_STATE
  BY <1>1 DEF Decided
<1> QED
  BY <1>1, <1>2 DEF ServerFollows, NULL_STATE, SERVER_HELLO_RETRY_REQUEST_COMPLETE

LEMMA ServerCallPlanned ==
    ASSUME FlightInv, TypeOK', cfg' = cfg, retry' = retry, ServerCall
    PROVE  Planned("server")'
<1> DEFINE e == "server"
<1>0. /\ e \in Side /\ TypeOK /\ Planned(e) /\ st[e] \in AcceptStates
      /\ ssl \in [Side -> SSLFields] /\ sent \in [Side -> Seq(Messages)]
      /\ st \in [Side -> ConnectStates \cup AcceptStates]
      /\ ctl \in [Side -> {"call", "wants", "ok", "fail"}]
  BY FlightFacts DEF OwnStates, TypeOK
<1>1. CASE SendServerHello
  <2>1. CASE In(e, "ACCEPT_CLIENT_HELLO_DONE")
    <3>1. /\ ss[e] = SERVER_HELLO_RETRY_REQUEST_COMPLETE /\ ssl' = ssl
          /\ Send(e, Plain("HRR"), "ACCEPT_HELLO_RETRY_REQUEST_DONE")
      BY <1>1, <2>1 DEF SendServerHello, In
    <3>2. retry
      BY <2>1, <3>1, RetryDue DEF In
    <3>3. Building(e) /\ Due[st[e]] = "HRR" /\ st[e] # CertState(e) /\ st[e] # FinishedState(e)
      BY <2>1, <3>2 DEF In, Building, BuildingStates, Due, CertState, FinishedState
    <3>4. Send(e, Plain("HRR"), AfterFlush[st[e]])
      BY <2>1, <3>1 DEF In, AfterFlush
    <3> QED
      BY <1>0, <2>1, <3>1, <3>3, <3>4, Whole, KnownMessages, SendPlanned DEF In
  <2>2. CASE In(e, "ACCEPT_SECOND_REPLY_DONE")
    <3>1. ssl' = ssl /\ Send(e, Plain("SH"), AfterFlush[st[e]])
      BY <1>1, <2>2 DEF SendServerHello, In, AfterFlush
    <3>2. Building(e) /\ Due[st[e]] = "SH" /\ st[e] # CertState(e) /\ st[e] # FinishedState(e)
      BY <2>2 DEF In, Building, BuildingStates, Due, CertState, FinishedState
    <3> QED
      BY <1>0, <2>2, <3>1, <3>2, Whole, KnownMessages, SendPlanned DEF In
  <2> QED
    BY <1>1, <2>1, <2>2 DEF SendServerHello
<1>2. CASE SendEncryptedExtensions
  <2>1. /\ In(e, "ACCEPT_THIRD_REPLY_DONE") /\ ssl' = ssl
        /\ Send(e, Answer(ssl[e]), AfterFlush[st[e]])
    BY <1>2 DEF SendEncryptedExtensions, In, AfterFlush
  <2>2. Building(e) /\ Due[st[e]] = "EE" /\ st[e] # CertState(e) /\ st[e] # FinishedState(e)
    BY <2>1 DEF In, Building, BuildingStates, Due, CertState, FinishedState
  <2> QED
    BY <1>0, <2>1, <2>2, Whole, KnownMessages, SendPlanned DEF In
<1>3. CASE SendCertificateRequest
  <2>1. /\ In(e, "SERVER_EXTENSIONS_SENT") /\ ssl' = ssl /\ VerifyPeer(e)
        /\ Send(e, Plain("CR"), AfterFlush[st[e]])
    BY <1>3 DEF SendCertificateRequest, In, AfterFlush
  <2>2. Building(e) /\ Due[st[e]] = "CR" /\ st[e] # CertState(e) /\ st[e] # FinishedState(e)
    BY <2>1 DEF In, Building, BuildingStates, Due, CertState, FinishedState
  <2> QED
    BY <1>0, <2>1, <2>2, Whole, KnownMessages, SendPlanned DEF In
<1>4. CASE DoClientHello
  <2>1. Handle(e, "CH") /\ (Alert(e) \/ NoAlert)
    BY <1>4 DEF DoClientHello
  <2>2. /\ st'[e] = st[e] /\ ctl'[e] = "call" /\ ctl[e] = "call"
        /\ st[e] \in ReadingStates /\ st[e] \notin BuildingStates(e)
        /\ sent'[e] = sent[e] \/ sent'[e] = Append(sent[e], Plain("ALERT"))
    BY <1>0, <2>1, HandleEffect DEF Alert, NoAlert, ReadingStates, BuildingStates
  <2> QED
    BY <1>0, <2>2, StayPlanned
<1>5. CASE AcceptFallsThrough
  <2>1. /\ ctl[e] = "call" /\ ctl'[e] = "call" /\ sent'[e] = sent[e]
        /\ ssl'[e].fragment = ssl[e].fragment
    <3>1. PICK b : ssl' = [ssl EXCEPT !["server"].authGood = b]
      BY <1>5 DEF AcceptFallsThrough
    <3> QED
      BY <1>0, <1>5, <3>1 DEF AcceptFallsThrough, wire, SSLFields
  <2>2. Passes(e, st[e], st'[e]) /\ st[e] # CertState(e)
    <3>1. /\ st[e] = "ACCEPT_CLIENT_HELLO_DONE"
          /\ ss[e] # SERVER_HELLO_RETRY_REQUEST_COMPLETE
          => ~retry
      BY RetryDue
    <3> QED
      BY <1>0, <1>5, <3>1, ServerPasses DEF AcceptFallsThrough, Goto, CertState
  <2> QED
    BY <1>0, <2>1, <2>2, Whole, PassPlanned
<1>6. CASE CheckClientAuth
  <2>1. /\ In(e, "ACCEPT_FINISHED_DONE") /\ sent' = sent
        /\ \/ st'[e] = "TICKET_SENT" /\ ctl'[e] = "call"
           \/ ctl'[e] = "fail"
    BY <1>0, <1>6 DEF CheckClientAuth, Goto, Fail, In, wire
  <2>2. "TICKET_SENT" \notin BuildingStates(e) /\ Passes(e, "ACCEPT_FINISHED_DONE", "TICKET_SENT")
    BY ServerPasses DEF BuildingStates
  <2> QED
    BY <1>0, <2>1, <2>2, StayPlanned, PassPlanned DEF In
<1>7. CASE AcceptWithoutCredentials
  BY <1>0, <1>7, StayPlanned DEF AcceptWithoutCredentials, Fail, wire
<1>8. CASE AcceptSucceeds
  <2>1. /\ st[e] = "TICKET_SENT" /\ st'[e] = st[e] /\ ctl'[e] = "ok" /\ ctl[e] = "call"
        /\ sent' = sent /\ st[e] \notin BuildingStates(e)
    BY <1>0, <1>8 DEF AcceptSucceeds, In, wire, BuildingStates
  <2> QED
    BY <1>0, <2>1, StayPlanned
<1> QED
  BY <1>1, <1>2, <1>3, <1>4, <1>5, <1>6, <1>7, <1>8 DEF ServerCall

LEMMA MessagePlanned ==
    ASSUME FlightInv, TypeOK', cfg' = cfg, retry' = retry, NEW e \in Side,
           \/ SendCertificate(e) \/ SendCertificateRest(e)
           \/ SendCertificateVerify(e) \/ SendFinished(e)
    PROVE  Planned(e)'
<1>0. /\ TypeOK /\ Planned(e) /\ MessagePlaced(e)
      /\ ssl \in [Side -> SSLFields] /\ sent \in [Side -> Seq(Messages)]
      /\ st \in [Side -> ConnectStates \cup AcceptStates]
      /\ ctl \in [Side -> {"call", "wants", "ok", "fail"}]
      /\ e = "client" \/ e = "server"
  BY FlightFacts DEF TypeOK, Side
<1>1. ctl[e] = "call"
  BY DEF SendCertificate, SendCertificateRest, SendCertificateVerify, SendFinished, In
<1>2. ASSUME st[e] = CertState(e), ssl[e].sendVerify # "NO" PROVE Building(e)
  BY <1>0, <1>1, <1>2, ClientAsked DEF Building, BuildingStates, CertState
<1>3. /\ Due[CertState(e)] = "CERT" /\ Due[VerifyState(e)] = "CV" /\ Due[FinishedState(e)] = "FIN"
      /\ AfterFlush[CertState(e)] = AfterCert(e)
      /\ AfterFlush[VerifyState(e)] = AfterVerify(e)
      /\ AfterFlush[FinishedState(e)] = AfterFinished(e)
      /\ CertState(e) # VerifyState(e) /\ CertState(e) # FinishedState(e)
      /\ VerifyState(e) # FinishedState(e)
      /\ FinishedState(e) \in BuildingStates(e)
  BY <1>0 DEF Due, AfterFlush, CertState, VerifyState, FinishedState, AfterCert, AfterVerify,
              AfterFinished, BuildingStates
<1>4. CASE SendCertificate(e)
  <2>1. PICK kind \in {"blank", cfg[e].mat} : Send(e, Certificate(kind), AfterCert(e))
    BY <1>4 DEF SendCertificate
  <2>2. In(e, CertState(e)) /\ ssl[e].sendVerify # "NO" /\ ~ssl[e].fragment
    BY <1>4 DEF SendCertificate
  <2>3. ssl'[e].fragment => ctl'[e] = "wants"
    <3>1. PICK b \in BOOLEAN : ssl' = [ssl EXCEPT ![e].building = FALSE,
                                         ![e].fragment = b /\ ctl'[e] = "wants"]
      BY <1>4 DEF SendCertificate
    <3> QED
      BY <1>0, <3>1 DEF SSLFields
  <2>4. Certificate(kind) \in Messages /\ Certificate(kind).t = "CERT"
    BY <1>0, KnownMessages
  <2> QED
    BY <1>0, <1>2, <1>3, <2>1, <2>2, <2>3, <2>4, SendPlanned DEF In
<1>5. CASE SendCertificateRest(e)
  <2>1. /\ st[e] = CertState(e) /\ ssl[e].fragment /\ st'[e] = AfterCert(e)
        /\ sent' = sent /\ ctl'[e] = "call"
        /\ ssl' = [ssl EXCEPT ![e].building = FALSE, ![e].fragment = FALSE]
    BY <1>0, <1>5 DEF SendCertificateRest, In, Goto, wire
  <2>2. Building(e) /\ ssl'[e].fragment = FALSE
    BY <1>0, <1>2, <2>1 DEF MessagePlaced, SSLFields
  <2>3. /\ BehindAt(e, st[e]) \in Nat
        /\ BehindAt(e, st'[e]) = BehindAt(e, st[e]) + 1
    BY <1>3, <2>1, <2>2, Builds DEF Building
  <2>4. Total(e) = BehindAt(e, st'[e])
    BY <1>0, <1>1, <2>1, <2>2, <2>3 DEF Planned, Counted, Behind
  <2>5. InFlight(e)' /\ Total(e)' = Total(e) /\ Behind(e)' = BehindAt(e, st'[e])
    <3>1. \A s : BehindAt(e, s)' = BehindAt(e, s)
      BY SameSetup
    <3>2. InFlight(e)' /\ Total(e)' = Total(e)
      BY <1>0, <2>1, QuietLog DEF Planned
    <3> QED
      BY <3>1, <3>2 DEF Behind
  <2>6. BehindAt(e, st'[e]) \in Nat
    BY <2>3
  <2> QED
    BY <2>1, <2>2, <2>4, <2>5, <2>6 DEF Planned, Counted, Stuck
<1>6. CASE SendCertificateVerify(e)
  <2>1. In(e, VerifyState(e)) /\ ssl[e].sendVerify = "SEND_CERT"
    BY <1>6 DEF SendCertificateVerify
  <2>2. CASE CanSign(e)
    <3>1. Send(e, Plain("CV"), AfterVerify(e))
      BY <1>6, <2>2 DEF SendCertificateVerify
    <3>2. PICK a, b : ssl' = [ssl EXCEPT ![e].building = a, ![e].hsKey = b]
      BY <1>6 DEF SendCertificateVerify
    <3>3. ssl[e].fragment = FALSE /\ ssl'[e].fragment = ssl[e].fragment
      BY <1>0, <1>3, <2>1, <3>2, Whole DEF In, SSLFields
    <3>4. Building(e)
      BY <1>0, <1>1, <2>1, ClientAsked DEF In, Building, BuildingStates, VerifyState
    <3> QED
      BY <1>0, <1>3, <2>1, <3>1, <3>3, <3>4, KnownMessages, SendPlanned DEF In
  <2>3. CASE ~CanSign(e)
    BY <1>0, <1>6, <2>3, StayPlanned DEF SendCertificateVerify, Fail, wire
  <2> QED
    BY <2>2, <2>3
<1>7. CASE SendFinished(e)
  <2>1. /\ In(e, FinishedState(e)) /\ Send(e, Plain("FIN"), AfterFinished(e))
        /\ ssl' = [ssl EXCEPT ![e].building = FALSE]
    BY <1>7 DEF SendFinished
  <2>2. /\ ssl[e].fragment = FALSE /\ ssl'[e].fragment = ssl[e].fragment
        /\ ~ssl'[e].building
    BY <1>0, <1>3, <2>1, Whole DEF In, SSLFields
  <2> QED
    BY <1>0, <1>3, <2>1, <2>2, KnownMessages, SendPlanned DEF In, Building
<1> QED
  BY <1>4, <1>5, <1>6, <1>7

LEMMA ReadPlanned ==
    ASSUME FlightInv, TypeOK', cfg' = cfg, retry' = retry, NEW e \in Side,
           \/ DoCertificate(e) \/ DoCertificateVerify(e) \/ DoFinished(e)
           \/ Reject(e) \/ DoAlert(e) \/ ReadNothing(e)
    PROVE  Planned(e)'
<1>0. /\ TypeOK /\ Planned(e) /\ sent \in [Side -> Seq(Messages)]
      /\ ctl \in [Side -> {"call", "wants", "ok", "fail"}]
      /\ e = "client" \/ e = "server"
  BY FlightFacts DEF TypeOK, Side
<1>1. CASE DoCertificate(e) \/ DoCertificateVerify(e) \/ DoFinished(e)
  <2>1. PICK type \in {"CERT", "CV", "FIN"} : Handle(e, type) /\ (Alert(e) \/ NoAlert)
    BY <1>1 DEF DoCertificate, DoCertificateVerify, DoFinished
  <2>2. /\ st'[e] = st[e] /\ ctl'[e] = "call" /\ ctl[e] = "call"
        /\ st[e] \in ReadingStates /\ st[e] \notin BuildingStates(e)
    BY <1>0, <2>1, HandleEffect DEF ReadingStates, BuildingStates
  <2>3. sent'[e] = sent[e] \/ sent'[e] = Append(sent[e], Plain("ALERT"))
    BY <1>0, <2>1 DEF Alert, NoAlert
  <2> QED
    BY <1>0, <2>2, <2>3, StayPlanned
<1>2. CASE Reject(e) \/ DoAlert(e)
  <2>1. /\ ctl'[e] = "fail"
        /\ sent'[e] = sent[e] \/ sent'[e] = Append(sent[e], Plain("ALERT"))
    BY <1>0, <1>2 DEF Reject, DoAlert, Fail, Alert, NoAlert, wire
  <2> QED
    BY <1>0, <2>1, StayPlanned
<1>3. CASE ReadNothing(e)
  <2>1. /\ st[e] \in ReadingStates /\ st[e] \notin BuildingStates(e) /\ ctl[e] = "call"
        /\ st' = st /\ sent' = sent
    BY <1>0, <1>3
       DEF ReadNothing, Awaits, ClientAwaits, ServerAwaits, ReadingStates, BuildingStates, wire
  <2> QED
    BY <1>0, <2>1, StayPlanned
<1> QED
  BY <1>1, <1>2, <1>3

\* A call after WANT_WRITE completes the case of the message that was stuck,
\* and no other.
LEMMA ReenterPlanned ==
    ASSUME FlightInv, TypeOK', cfg' = cfg, retry' = retry, NEW e \in Side,
           ReenterToWrite(e)
    PROVE  Planned(e)'
<1>0. /\ TypeOK /\ Planned(e) /\ MessagePlaced(e)
      /\ st \in [Side -> ConnectStates \cup AcceptStates]
      /\ ctl \in [Side -> {"call", "wants", "ok", "fail"}]
      /\ flushed \in [Side -> Nat]
      /\ e = "client" \/ e = "server"
      /\ ssl[e].fragment \in BOOLEAN /\ ssl[e].building \in BOOLEAN
  BY FlightFacts DEF TypeOK, Side
<1>1. ctl[e] = "wants" /\ ssl' = ssl /\ sent' = sent
  BY DEF ReenterToWrite, session
<1>2. InFlight(e)' /\ Total(e)' = Total(e)
  BY <1>0, <1>1, QuietLog DEF Planned
<1>3. /\ BuildingStates(e)' = BuildingStates(e)
      /\ \A s : BehindAt(e, s)' = BehindAt(e, s)
      /\ FinishedState(e)' = FinishedState(e)
  BY SameSetup DEF FinishedState
<1>4. CASE Lose(e)
  <2>1. ctl'[e] = "fail"
    BY <1>0, <1>4 DEF Lose, Fail
  <2> QED
    BY <1>0, <1>1, <2>1, StayPlanned
<1>5. CASE Stall(e, sent[e])
  <2>1. /\ st' = st /\ ctl'[e] = "wants" /\ flushed'[e] < Len(sent[e])
    <3>1. /\ flushed[e] \in Nat /\ Len(sent[e]) \in Nat
      BY DEF TypeOK, FlightInv, AgreedInv, FinishedInv, HeardInv, HandshakeInv
    <3> QED
      BY <1>0, <1>5, <3>1 DEF Stall
  <2> QED
    BY <1>0, <1>1, <1>2, <1>3, <2>1 DEF Planned, Counted, Stuck, Behind, Building, Buffered
<1>6. CASE ctl' = [ctl EXCEPT ![e] = "call"]
           /\ IF CaseComplete(e) THEN Goto(e, AfterFlush[st[e]]) ELSE UNCHANGED st
  <2>0. ctl'[e] = "call"
    BY <1>0, <1>6
  <2>1. CASE CaseComplete(e)
    <3>1. /\ ~ssl[e].fragment /\ st[e] \in DOMAIN AfterFlush
          /\ st'[e] = AfterFlush[st[e]]
      BY <1>0, <1>6, <2>1 DEF CaseComplete, Goto
    <3>2. Building(e)
      BY <1>0, <1>1, <3>1 DEF Planned, Stuck, ReadingStates, AfterFlush
    <3>3. /\ BehindAt(e, st[e]) \in Nat
          /\ BehindAt(e, st'[e]) = BehindAt(e, st[e]) + 1
      BY <3>1, <3>2, Builds DEF Building
    <3>4. Total(e) = BehindAt(e, st'[e])
      BY <1>0, <1>1, <3>2, <3>3 DEF Planned, Counted, Behind
    <3>5. BehindAt(e, st'[e]) \in Nat
      BY <3>3
    <3> QED
      BY <1>1, <1>2, <1>3, <2>0, <3>1, <3>4, <3>5 DEF Planned, Counted, Stuck, Behind
  <2>2. CASE ~CaseComplete(e)
    <3>1. st' = st /\ (ssl[e].fragment \/ ssl[e].building \/ st[e] \notin DOMAIN AfterFlush)
      BY <1>6, <2>2 DEF CaseComplete
    <3>2. Building(e) => ssl[e].fragment
      BY <1>0, <1>1, <3>1, Builds DEF Planned, Stuck, Building, MessagePlaced
    <3>3. Counted(e)'
      BY <1>0, <1>1, <1>2, <1>3, <2>0, <3>1, <3>2 DEF Planned, Counted, Behind, Building
    <3> QED
      BY <1>2, <2>0, <3>3 DEF Planned, Stuck
  <2> QED
    BY <2>1, <2>2
<1> QED
  BY <1>4, <1>5, <1>6 DEF ReenterToWrite

LEMMA LoopPlanned ==
    ASSUME FlightInv, TypeOK', cfg' = cfg, retry' = retry, NEW e \in Side,
           ReenterToRead(e) \/ GiveUp(e) \/ Free(e) \/ TimePasses(e)
    PROVE  Planned(e)'
<1>0. /\ TypeOK /\ Planned(e) /\ ssl \in [Side -> SSLFields]
      /\ ctl \in [Side -> {"call", "wants", "ok", "fail"}]
      /\ e = "client" \/ e = "server"
  BY FlightFacts DEF TypeOK, Side
<1>1. CASE ReenterToRead(e)
  <2>1. /\ ctl[e] = "wants" /\ ctl'[e] = "call" /\ st' = st /\ sent' = sent
        /\ ~Buffered(e)
    BY <1>0, <1>1 DEF ReenterToRead, wire
  <2>2. st[e] \in ReadingStates
    BY <1>0, <2>1 DEF Planned, Stuck
  <2>3. st[e] \notin BuildingStates(e)
    BY <2>2, Builds
  <2> QED
    BY <1>0, <2>1, <2>3, StayPlanned
<1>2. CASE GiveUp(e)
  BY <1>0, <1>2, StayPlanned DEF GiveUp, Fail, wire
<1>3. CASE Free(e)
  <2>1. PICK b : ssl' = [ssl EXCEPT ![e].hsKey = b]
    BY <1>3 DEF Free
  <2>2. /\ st' = st /\ ctl' = ctl /\ sent' = sent /\ flushed' = flushed
        /\ ssl'[e].fragment = ssl[e].fragment /\ ssl'[e].building = ssl[e].building
    BY <1>0, <1>3, <2>1 DEF Free, wire, SSLFields
  <2> QED
    BY <1>0, <2>2, StayPlanned
<1>4. CASE TimePasses(e)
  BY <1>0, <1>4, StayPlanned DEF TimePasses, session, wire
<1> QED
  BY <1>1, <1>2, <1>3, <1>4

\* The side that takes the step, and the other one.
LEMMA PlanKept ==
    ASSUME FlightInv, TypeOK', cfg' = cfg, retry' = retry, NEW e \in Side,
           Program(e) \/ TimePasses(e)
    PROVE  \A d \in Side : Planned(d)'
<1>1. Planned(e)'
  BY ClientCallPlanned, ServerCallPlanned, MessagePlanned, ReadPlanned, ReenterPlanned,
     LoopPlanned DEF Program
<1>2. ASSUME NEW d \in Side \ {e} PROVE Planned(d)'
  <2>1. Untouched(d) /\ Planned(d) /\ TypeOK
    BY Frame, FlightFacts
  <2> QED
    BY <2>1, StayPlanned DEF Untouched
<1> QED
  BY <1>1, <1>2

-----------------------------------------------------------------------------
(* What each side follows of the other's flight.                           *)

\* A step that processes no message.
Quiet(e) ==
    /\ got' = got \/ (ctl'[e] = "fail" /\ got' = [got EXCEPT ![e] = @ + 1])
    /\ ssl'[e].sendVerify = ssl[e].sendVerify
    /\ st["server"] \in {"ACCEPT_BEGIN", "ACCEPT_CLIENT_HELLO_DONE"} => ss' = ss

LEMMA QuietOrReads ==
    ASSUME TypeOK, NEW e \in Side, Program(e) \/ TimePasses(e)
    PROVE  Quiet(e) \/ Reads(e)
<1>0. /\ ssl \in [Side -> SSLFields] /\ ctl \in [Side -> {"call", "wants", "ok", "fail"}]
  BY DEF TypeOK
<1> SUFFICES ASSUME ~Reads(e) PROVE Quiet(e)
  OBVIOUS
<1> USE DEF Quiet
<1>1. ASSUME e = "client", ClientCall PROVE Quiet(e)
  <2>1. CASE SendClientHello
    BY <2>1 DEF SendClientHello, Send
  <2>2. CASE ConnectFallsThrough
    <3>1. PICK b : ssl' = [ssl EXCEPT !["client"].building = b]
      BY <2>2 DEF ConnectFallsThrough
    <3> QED
      BY <1>0, <1>1, <2>2, <3>1 DEF ConnectFallsThrough, SSLFields
  <2>3. CASE CheckServerAuth \/ ConnectSucceeds
    BY <2>3 DEF CheckServerAuth, ConnectSucceeds, session
  <2> QED
    BY <1>1, <2>1, <2>2, <2>3 DEF ClientCall, Reads
<1>2. ASSUME e = "server", ServerCall PROVE Quiet(e)
  <2>1. CASE SendServerHello \/ SendEncryptedExtensions \/ SendCertificateRequest
    BY <1>2, <2>1
       DEF SendServerHello, SendEncryptedExtensions, SendCertificateRequest, Send, In
  <2>2. CASE AcceptFallsThrough
    <3>1. PICK b : ssl' = [ssl EXCEPT !["server"].authGood = b]
      BY <2>2 DEF AcceptFallsThrough
    <3> QED
      BY <1>0, <1>2, <2>2, <3>1 DEF AcceptFallsThrough, SSLFields
  <2>3. CASE CheckClientAuth
    <3>1. PICK b : ssl' = [ssl EXCEPT !["server"].authGood = b]
      BY <2>3 DEF CheckClientAuth
    <3> QED
      BY <1>0, <1>2, <2>3, <3>1 DEF CheckClientAuth, SSLFields
  <2>4. CASE AcceptWithoutCredentials \/ AcceptSucceeds
    BY <1>2, <2>4 DEF AcceptWithoutCredentials, AcceptSucceeds, session
  <2> QED
    BY <1>2, <2>1, <2>2, <2>3, <2>4 DEF ServerCall, Reads
<1>3. CASE SendCertificate(e) \/ SendCertificateRest(e)
  <2>1. PICK b : ssl' = [ssl EXCEPT ![e].building = FALSE, ![e].fragment = b]
    BY <1>3 DEF SendCertificate, SendCertificateRest
  <2>2. got' = got
    BY <1>3 DEF SendCertificate, SendCertificateRest, Send
  <2>3. st["server"] \in {"ACCEPT_BEGIN", "ACCEPT_CLIENT_HELLO_DONE"} => ss' = ss
    BY <1>3 DEF SendCertificate, SendCertificateRest, In, CertState
  <2> QED
    BY <1>0, <2>1, <2>2, <2>3 DEF SSLFields
<1>4. CASE SendCertificateVerify(e)
  <2>1. PICK a, b : ssl' = [ssl EXCEPT ![e].building = a, ![e].hsKey = b]
    BY <1>4 DEF SendCertificateVerify
  <2> QED
    BY <1>0, <1>4, <2>1 DEF SendCertificateVerify, Send, SSLFields
<1>5. CASE SendFinished(e)
  BY <1>0, <1>5 DEF SendFinished, Send, SSLFields, In, FinishedState
<1>6. CASE Reject(e)
  <2>1. PICK b : ssl' = [ssl EXCEPT ![e].hsKey = b]
    BY <1>6 DEF Reject
  <2> QED
    BY <1>0, <1>6, <2>1 DEF Reject, Fail, SSLFields
<1>7. CASE Free(e)
  <2>1. PICK b : ssl' = [ssl EXCEPT ![e].hsKey = b]
    BY <1>7 DEF Free
  <2> QED
    BY <1>0, <1>7, <2>1 DEF Free, SSLFields
<1>8. CASE DoAlert(e)
  BY <1>0, <1>8 DEF DoAlert, Fail, session
<1>9. CASE ReenterToWrite(e) \/ ReenterToRead(e) \/ ReadNothing(e)
           \/ GiveUp(e) \/ TimePasses(e)
  BY <1>9 DEF ReenterToWrite, ReenterToRead, ReadNothing, GiveUp, TimePasses, session
<1> QED
  BY <1>1, <1>2, <1>3, <1>4, <1>5, <1>6, <1>7, <1>8, <1>9 DEF Program, Reads

\* The only places of the server's flight with these messages.
LEMMA ServerPlaces ==
    ASSUME NEW p \in DOMAIN ExpectedFlight("server")
    PROVE  /\ p \in Nat
           /\ ExpectedFlight("server")[p] = "CERT" =>
                  /\ p = Retried + Asked + 3
                  /\ VerifyPeer("server") =>
                         /\ Retried + 3 \in 1 .. p
                         /\ ExpectedFlight("server")[Retried + 3] = "CR"
           /\ ExpectedFlight("server")[p] = "CR" => VerifyPeer("server")
           /\ p = 1 => ExpectedFlight("server")[p] = IF retry THEN "HRR" ELSE "SH"
<1> DEFINE flight == ExpectedFlight("server")
<1>1. /\ DOMAIN flight = 1 .. Retried + Asked + 5
      /\ retry => flight[1] = "HRR"
      /\ flight[Retried + 1] = "SH"
      /\ flight[Retried + 2] = "EE"
      /\ VerifyPeer("server") => flight[Retried + 3] = "CR"
      /\ flight[Retried + Asked + 3] = "CERT"
      /\ flight[Retried + Asked + 4] = "CV"
      /\ flight[Retried + Asked + 5] = "FIN"
  BY ServerFlight
<1>2. /\ Retried = IF retry THEN 1 ELSE 0
      /\ Asked = IF VerifyPeer("server") THEN 1 ELSE 0
  BY FlightCounts
<1>3. p \in 1 .. Retried + Asked + 5
  BY <1>1
<1> HIDE DEF flight
<1>4. CASE retry /\ VerifyPeer("server")
  <2>1. p \in {1, 2, 3, 4, 5, 6, 7} /\ Retried = 1 /\ Asked = 1
    BY <1>2, <1>3, <1>4
  <2> QED
    BY <1>1, <1>4, <2>1 DEF flight
<1>5. CASE retry /\ ~VerifyPeer("server")
  <2>1. p \in {1, 2, 3, 4, 5, 6} /\ Retried = 1 /\ Asked = 0
    BY <1>2, <1>3, <1>5
  <2> QED
    BY <1>1, <1>5, <2>1 DEF flight
<1>6. CASE ~retry /\ VerifyPeer("server")
  <2>1. p \in {1, 2, 3, 4, 5, 6} /\ Retried = 0 /\ Asked = 1
    BY <1>2, <1>3, <1>6
  <2> QED
    BY <1>1, <1>6, <2>1 DEF flight
<1>7. CASE ~retry /\ ~VerifyPeer("server")
  <2>1. p \in {1, 2, 3, 4, 5} /\ Retried = 0 /\ Asked = 0
    BY <1>2, <1>3, <1>7
  <2> QED
    BY <1>1, <1>7, <2>1 DEF flight
<1> QED
  BY <1>4, <1>5, <1>6, <1>7

LEMMA ServerFollowsKept ==
    ASSUME FlightInv, TypeOK', Grown, NEW e \in Side, Program(e) \/ TimePasses(e)
    PROVE  ServerFollows'
<1>0. /\ TypeOK /\ ServerFollows /\ Decided /\ retry' = retry
      /\ "server" \in Side /\ "client" \in Side
      /\ st["server"] \in OwnStates("server")
      /\ ss \in [Side -> 0 .. 9] /\ cs \in 0 .. 9
  BY FlightFacts DEF Grown
<1>1. CASE e = "client"
  <2>1. Untouched("server") /\ cs' = cs
    BY <1>0, <1>1, OtherSide
  <2> QED
    BY <1>0, <2>1 DEF Untouched, ServerFollows
<1>2. CASE e = "server"
  <2>1. CASE ~Reads(e)
    <3>1. Quiet(e) /\ Still(e) /\ Moved(e)
      BY <1>0, <1>2, <2>1, QuietOrReads, StillOrReads, Moves
    <3>2. st'["server"] \in {"ACCEPT_BEGIN", "ACCEPT_CLIENT_HELLO_DONE"} =>
              /\ st["server"] \in {"ACCEPT_BEGIN", "ACCEPT_CLIENT_HELLO_DONE"}
              /\ ss' = ss /\ cs' = cs
      BY <1>2, <3>1 DEF Quiet, Still, Moved
    <3> QED
      BY <1>0, <3>2 DEF ServerFollows
  <2>2. CASE DoClientHello
    <3>1. /\ Handle("server", "CH") /\ cs' = CLIENT_HELLO_COMPLETE
          /\ ss' = IF retry /\ ss["server"] = NULL_STATE
                   THEN [ss EXCEPT !["server"] = SERVER_HELLO_RETRY_REQUEST_COMPLETE] ELSE ss
      BY <2>2 DEF DoClientHello, Reach
    <3>2. st' = st /\ (st["server"] = "ACCEPT_BEGIN" => cs < CLIENT_HELLO_COMPLETE)
          /\ st["server"] # "ACCEPT_CLIENT_HELLO_DONE"
      BY <1>0, <3>1, HandleEffect DEF BeforeVerify
    <3>3. st["server"] = "ACCEPT_BEGIN" => ss["server"] = NULL_STATE
      BY <1>0, <3>2 DEF ServerFollows, CLIENT_HELLO_COMPLETE
    <3> QED
      BY <1>0, <3>1, <3>2, <3>3
         DEF ServerFollows, NULL_STATE, CLIENT_HELLO_COMPLETE,
             SERVER_HELLO_RETRY_REQUEST_COMPLETE
  <2>3. CASE Reads(e) /\ ~DoClientHello
    <3>1. PICK type \in {"CERT", "CV", "FIN"} : Handle(e, type)
      BY <1>2, <2>3 DEF Reads, DoCertificate, DoCertificateVerify, DoFinished
    <3>2. /\ st' = st /\ InOrder(e, type)
          /\ st["server"] \in {"ACCEPT_BEGIN", "ACCEPT_FIRST_REPLY_DONE", "PRE_TICKET_SENT"}
          /\ st["server"] = "ACCEPT_BEGIN" => cs < CLIENT_HELLO_COMPLETE
      BY <1>0, <1>2, <3>1, HandleEffect DEF BeforeVerify
    <3>3. cs = CLIENT_HELLO_COMPLETE \/ ss["server"] >= SERVER_FINISHED_COMPLETE
      BY <1>2, <3>1, <3>2 DEF InOrder
    <3>4. st["server"] # "ACCEPT_BEGIN"
      <4>1. ASSUME st["server"] = "ACCEPT_BEGIN" PROVE FALSE
        BY <1>0, <3>2, <3>3, <4>1
           DEF ServerFollows, NULL_STATE, CLIENT_HELLO_COMPLETE, SERVER_FINISHED_COMPLETE
      <4> QED
        BY <4>1
    <3> QED
      BY <3>2, <3>4 DEF ServerFollows
  <2> QED
    BY <2>1, <2>2, <2>3
<1> QED
  BY <1>1, <1>2 DEF Side

\* The records a client has processed are the beginning of the server's
\* flight, and so is the one it is about to process.
LEMMA ReadPlace ==
    ASSUME FlightInv, ctl["client"] # "fail", NEW n \in 0 .. 1,
           got["client"] + n <= Len(sent["server"]),
           n = 1 => sent["server"][got["client"] + 1].t # "ALERT"
    PROVE  \A p \in 1 .. got["client"] + n :
               /\ p \in DOMAIN ExpectedFlight("server")
               /\ sent["server"][p].t = ExpectedFlight("server")[p]
<1>0. /\ ClientFollows /\ InFlight("server")
      /\ got["client"] \in Nat /\ Len(sent["server"]) \in Nat
      /\ sent["server"] \in Seq(Messages)
  BY FlightFacts DEF Planned, TypeOK
<1> SUFFICES ASSUME NEW p \in 1 .. got["client"] + n
             PROVE  /\ p \in DOMAIN ExpectedFlight("server")
                    /\ sent["server"][p].t = ExpectedFlight("server")[p]
  OBVIOUS
<1>1. \A j \in 1 .. got["client"] + n : sent["server"][j].t # "ALERT"
  BY <1>0 DEF ClientFollows, HasRead, AnswersRequest, FollowsRetry
<1>2. p \in Nat /\ p \in 1 .. Len(sent["server"]) /\ p \in DOMAIN sent["server"]
      /\ \A j \in 1 .. p : j \in 1 .. got["client"] + n
  BY <1>0
<1>3. Nth(sent["server"], p) = p
  BY <1>1, <1>2, NthWithoutAlerts
<1> QED
  BY <1>0, <1>1, <1>2, <1>3 DEF InFlight

\* serverState before and after the client has processed a message.
BeforeRead ==
    [SH |-> {0, 1}, HRR |-> {0, 1}, EE |-> {2}, CR |-> {3}, CERT |-> {3}, CV |-> {4},
     FIN |-> {5}]

AfterRead == [SH |-> 2, HRR |-> 1, EE |-> 3, CR |-> 3, CERT |-> 4, CV |-> 5, FIN |-> 6]

LEMMA ClientRead ==
    ASSUME TypeOK, Reads("client")
    PROVE  \E type \in DOMAIN AfterRead :
               /\ Handle("client", type) /\ (Alert("client") \/ NoAlert)
               /\ ss["client"] \in BeforeRead[type] /\ ss'["client"] = AfterRead[type]
               /\ ssl'["client"].sendVerify =
                      IF type # "CR" THEN ssl["client"].sendVerify
                      ELSE IF Complete(cfg["client"].mat) THEN "SEND_CERT"
                                                          ELSE "SEND_BLANK_CERT"
<1> DEFINE e == "client"
<1>0. e \in Side /\ ssl \in [Side -> SSLFields] /\ ss \in [Side -> 0 .. 9]
  BY DEF TypeOK, Side
<1>1. ASSUME NEW type \in DOMAIN AfterRead, Handle(e, type)
      PROVE  ss[e] \in BeforeRead[type]
  <2>1. InOrder(e, type)
    BY <1>0, <1>1, HandleEffect
  <2>2. type \in {"SH", "HRR", "EE", "CR", "CERT", "CV", "FIN"}
    BY DEF AfterRead
  <2> QED
    BY <1>0, <2>1, <2>2
       DEF InOrder, BeforeRead, SERVER_HELLO_COMPLETE, SERVER_ENCRYPTED_EXTENSIONS_COMPLETE,
           SERVER_CERT_COMPLETE, SERVER_CERT_VERIFY_COMPLETE
<1>2. DOMAIN AfterRead = {"SH", "HRR", "EE", "CR", "CERT", "CV", "FIN"}
  BY DEF AfterRead
<1>3. CASE DoServerHello
  <2>1. PICK type \in {"SH", "HRR"} : Handle(e, type) /\ ss'[e] = AfterRead[type]
    BY <1>0, <1>3 DEF DoServerHello, Reach, AfterRead, SERVER_HELLO_COMPLETE,
                      SERVER_HELLO_RETRY_REQUEST_COMPLETE
  <2> QED
    BY <1>1, <1>2, <1>3, <2>1 DEF DoServerHello
<1>4. CASE DoEncryptedExtensions
  <2>1. PICK a, b, c : ssl' = [ssl EXCEPT ![e].srvType = a, ![e].cltType = b,
                                          ![e].ssiNegotiated = c]
    BY <1>4 DEF DoEncryptedExtensions
  <2>2. ssl'[e].sendVerify = ssl[e].sendVerify
    BY <1>0, <2>1 DEF SSLFields
  <2>3. Handle(e, "EE") /\ NoAlert /\ ss'[e] = AfterRead["EE"]
    BY <1>0, <1>4 DEF DoEncryptedExtensions, Reach, AfterRead,
                      SERVER_ENCRYPTED_EXTENSIONS_COMPLETE
  <2> QED
    BY <1>1, <1>2, <2>2, <2>3
<1>5. CASE DoCertificateRequest
  <2> DEFINE v == IF Complete(cfg["client"].mat) THEN "SEND_CERT" ELSE "SEND_BLANK_CERT"
  <2>1. /\ Handle(e, "CR") /\ NoAlert /\ ss' = ss
        /\ ssl' = [ssl EXCEPT ![e].sendVerify = v]
    BY <1>5 DEF DoCertificateRequest
  <2>2. ss[e] \in BeforeRead["CR"]
    BY <1>1, <1>2, <2>1
  <2>3. ss'[e] = AfterRead["CR"]
    BY <2>1, <2>2 DEF BeforeRead, AfterRead
  <2> HIDE DEF v
  <2>4. ssl'[e].sendVerify = v
    BY <1>0, <2>1 DEF SSLFields
  <2> QED
    BY <1>2, <2>1, <2>2, <2>3, <2>4 DEF v
<1>6. CASE DoCertificate(e)
  <2> DEFINE kind  == Incoming(e).kind
             after == [ssl[e] EXCEPT !.peerCert = kind # "blank",
                                     !.vcMode = @ \/ kind = "VC"]
             kept  == KeyKept(e, after, ss[e])
  <2>1. /\ Handle(e, "CERT") /\ (Alert(e) \/ NoAlert) /\ ss'[e] = AfterRead["CERT"]
        /\ ssl' = [ssl EXCEPT ![e] = [after EXCEPT !.hsKey = kept]]
    BY <1>0, <1>6 DEF DoCertificate, Reach, AfterRead, SERVER_CERT_COMPLETE
  <2> HIDE DEF kept
  <2>2. after.sendVerify = ssl[e].sendVerify
    BY <1>0 DEF SSLFields
  <2>3. ssl'[e].sendVerify = ssl[e].sendVerify
    BY <1>0, <2>1, <2>2 DEF SSLFields
  <2> QED
    BY <1>1, <1>2, <2>1, <2>3
<1>7. CASE DoCertificateVerify(e)
  <2> DEFINE kept == KeyKept(e, ssl[e], ss'[e])
  <2>1. /\ Handle(e, "CV") /\ NoAlert /\ ss'[e] = AfterRead["CV"]
        /\ ssl' = [ssl EXCEPT ![e].authGood = TRUE, ![e].peerVerify = TRUE, ![e].hsKey = kept]
    BY <1>0, <1>7 DEF DoCertificateVerify, Reach, AfterRead, SERVER_CERT_VERIFY_COMPLETE
  <2> HIDE DEF kept
  <2>2. ssl'[e].sendVerify = ssl[e].sendVerify
    BY <1>0, <2>1 DEF SSLFields
  <2> QED
    BY <1>1, <1>2, <2>1, <2>2
<1>8. CASE DoFinished(e)
  <2>1. Handle(e, "FIN") /\ NoAlert /\ ss'[e] = AfterRead["FIN"] /\ ssl' = ssl
    BY <1>0, <1>8 DEF DoFinished, Reach, AfterRead, SERVER_FINISHED_COMPLETE
  <2> QED
    BY <1>1, <1>2, <2>1
<1> QED
  BY <1>3, <1>4, <1>5, <1>6, <1>7, <1>8 DEF Reads

LEMMA ReadFollows ==
    ASSUME FlightInv, TypeOK', Grown, Reads("client")
    PROVE  ClientFollows'
<1> DEFINE e == "client"
           n == got["client"]
<1>0. /\ TypeOK /\ ClientFollows /\ cfg' = cfg /\ retry' = retry /\ e \in Side /\ n \in Nat
      /\ Peer(e) = "server" /\ ss[e] \in 0 .. 9
      /\ \A d : VerifyPeer(d)' = VerifyPeer(d)
  BY FlightFacts, SameSetup DEF Grown, TypeOK, Peer
<1>1. PICK type \in DOMAIN AfterRead :
          /\ Handle(e, type) /\ (Alert(e) \/ NoAlert)
          /\ ss[e] \in BeforeRead[type] /\ ss'[e] = AfterRead[type]
          /\ ssl'[e].sendVerify =
                 IF type # "CR" THEN ssl[e].sendVerify
                 ELSE IF Complete(cfg[e].mat) THEN "SEND_CERT" ELSE "SEND_BLANK_CERT"
  BY <1>0, ClientRead
<1>2. type \in {"SH", "HRR", "EE", "CR", "CERT", "CV", "FIN"}
  BY DEF AfterRead
<1>3. /\ got'[e] = n + 1 /\ n + 1 <= Len(sent["server"])
      /\ sent'["server"] = sent["server"] /\ sent["server"][n + 1].t = type
      /\ st' = st /\ ctl[e] = "call" /\ Awaits(e)
  <2>1. /\ got'[e] = got[e] + 1 /\ got[e] + 1 \in 1 .. Len(sent["server"])
        /\ sent'["server"] = sent["server"] /\ sent["server"][got[e] + 1].t = type
        /\ st' = st /\ ctl[e] = "call"
    BY <1>0, <1>1, ReadRecord
  <2>2. Awaits(e)
    BY <1>1 DEF Handle
  <2>3. Len(sent["server"]) \in Nat
    BY <1>0 DEF TypeOK, Side
  <2> QED
    BY <2>1, <2>2, <2>3
<1>4. \A p \in 1 .. n + 1 :
          /\ p \in DOMAIN ExpectedFlight("server")
          /\ sent["server"][p].t = ExpectedFlight("server")[p]
  <2>1. /\ 1 \in 0 .. 1 /\ ctl["client"] # "fail" /\ got["client"] + 1 <= Len(sent["server"])
        /\ sent["server"][got["client"] + 1].t # "ALERT"
    BY <1>2, <1>3
  <2> QED
    BY <2>1, ReadPlace
<1>5. n + 1 \in 1 .. n + 1
  BY <1>0
<1>6. type = "CR" => VerifyPeer("server")
  BY <1>3, <1>4, <1>5, ServerPlaces
<1>7. ss'[e] # NULL_STATE
  BY <1>1, <1>2 DEF AfterRead, NULL_STATE
<1>8. ssl[e].sendVerify # "NO" => ssl'[e].sendVerify # "NO"
  BY <1>1
<1>9. \A j \in 1 .. n + 1 :
          /\ sent["server"][j].t # "ALERT"
          /\ sent["server"][j].t = "CR" => ssl'[e].sendVerify # "NO"
  <2> SUFFICES ASSUME NEW j \in 1 .. n + 1
               PROVE  /\ sent["server"][j].t # "ALERT"
                      /\ sent["server"][j].t = "CR" => ssl'[e].sendVerify # "NO"
    OBVIOUS
  <2>1. CASE j = n + 1
    BY <1>1, <1>2, <1>3, <2>1
  <2>2. CASE j \in 1 .. n
    BY <1>0, <1>3, <1>8, <2>2 DEF ClientFollows, HasRead, AnswersRequest, FollowsRetry
  <2> QED
    BY <1>0, <2>1, <2>2
<1>10. ss'[e] >= SERVER_CERT_COMPLETE /\ VerifyPeer("server") => ssl'[e].sendVerify # "NO"
  <2> SUFFICES ASSUME ss'[e] >= SERVER_CERT_COMPLETE, VerifyPeer("server")
               PROVE  ssl'[e].sendVerify # "NO"
    OBVIOUS
  <2>1. CASE type = "CERT"
    <3>0. n + 1 \in DOMAIN ExpectedFlight("server") /\ ExpectedFlight("server")[n + 1] = "CERT"
      BY <1>3, <1>4, <1>5, <2>1
    <3>1. Retried + 3 \in 1 .. n + 1 /\ ExpectedFlight("server")[Retried + 3] = "CR"
      BY <3>0, ServerPlaces
    <3>2. sent["server"][Retried + 3].t = "CR"
      BY <1>4, <3>1
    <3> QED
      BY <1>9, <3>1, <3>2
  <2>2. CASE type # "CERT"
    <3>1. ss[e] >= SERVER_CERT_COMPLETE
      BY <1>1, <1>2, <2>2 DEF AfterRead, BeforeRead, SERVER_CERT_COMPLETE
    <3> QED
      BY <1>0, <1>3, <1>8, <3>1 DEF ClientFollows, HasRead, AnswersRequest, FollowsRetry
  <2> QED
    BY <2>1, <2>2
<1>11. ssl'[e].sendVerify # "NO" =>
           /\ VerifyPeer("server")
           /\ ssl'[e].sendVerify = IF Complete(cfg[e].mat) THEN "SEND_CERT"
                                                           ELSE "SEND_BLANK_CERT"
  BY <1>0, <1>1, <1>6 DEF ClientFollows, HasRead, AnswersRequest, FollowsRetry
<1>12. st[e] \in {"CLIENT_HELLO_SENT", "HELLO_AGAIN_REPLY"}
  BY <1>0, <1>1, HandleEffect
<1>13. st[e] = "CLIENT_HELLO_SENT" =>
           (ss'[e] = SERVER_HELLO_RETRY_REQUEST_COMPLETE) = retry
  <2> SUFFICES ASSUME st[e] = "CLIENT_HELLO_SENT"
               PROVE  (ss'[e] = SERVER_HELLO_RETRY_REQUEST_COMPLETE) = retry
    OBVIOUS
  <2>1. ss[e] = 0
    BY <1>0, <1>3 DEF Awaits, ClientAwaits, SERVER_HELLO_RETRY_REQUEST_COMPLETE
  <2>2. n = 0
    BY <1>0, <1>3, <2>1 DEF ClientFollows, HasRead, AnswersRequest, FollowsRetry, NULL_STATE
  <2>3. type = IF retry THEN "HRR" ELSE "SH"
    BY <1>3, <1>4, <1>5, <2>2, ServerPlaces
  <2>4. retry \in BOOLEAN
    BY <1>0 DEF TypeOK
  <2> QED
    BY <1>1, <2>3, <2>4 DEF AfterRead, SERVER_HELLO_RETRY_REQUEST_COMPLETE
<1>14. /\ ss'[e] = NULL_STATE => got'[e] = 0
       /\ \A j \in 1 .. got'[e] :
              /\ sent'["server"][j].t # "ALERT"
              /\ sent'["server"][j].t = "CR" => ssl'[e].sendVerify # "NO"
       /\ ss'[e] >= SERVER_CERT_COMPLETE /\ VerifyPeer("server")' => ssl'[e].sendVerify # "NO"
  BY <1>0, <1>3, <1>7, <1>9, <1>10
<1>15. ssl'[e].sendVerify # "NO" =>
           /\ VerifyPeer("server")'
           /\ ssl'[e].sendVerify = IF Complete(cfg'[e].mat) THEN "SEND_CERT"
                                                            ELSE "SEND_BLANK_CERT"
  BY <1>0, <1>11
<1>16. /\ st'[e] # "CONNECT_BEGIN" /\ st'[e] # "HELLO_AGAIN"
       /\ st'[e] = "CLIENT_HELLO_SENT" =>
              (ss'[e] = SERVER_HELLO_RETRY_REQUEST_COMPLETE) = retry'
  BY <1>0, <1>3, <1>12, <1>13
<1> HIDE DEF n
<1>17. HasRead'
  BY <1>14 DEF HasRead
<1>18. AnswersRequest'
  BY <1>15 DEF AnswersRequest
<1>19. FollowsRetry'
  BY <1>16 DEF FollowsRetry
<1> QED
  BY <1>17, <1>18, <1>19 DEF ClientFollows

LEMMA ClientFollowsKept ==
    ASSUME FlightInv, TypeOK', Grown, NEW e \in Side, Program(e) \/ TimePasses(e)
    PROVE  ClientFollows'
<1>0. /\ TypeOK /\ HasRead /\ AnswersRequest /\ FollowsRetry
      /\ cfg' = cfg /\ retry' = retry /\ "client" \in Side
      /\ \A d : VerifyPeer(d)' = VerifyPeer(d)
      /\ st["client"] \in OwnStates("client") /\ ss["client"] \in 0 .. 9
      /\ got \in [Side -> Nat] /\ got["client"] <= Len(sent["server"])
      /\ Len(sent["server"]) \in Nat
  <2>1. /\ TypeOK /\ ClientFollows /\ cfg' = cfg /\ retry' = retry /\ "client" \in Side
        /\ st["client"] \in OwnStates("client") /\ ss["client"] \in 0 .. 9
    BY FlightFacts DEF Grown
  <2>2. Peer("server") = "client" /\ "server" \in Side
    BY DEF Peer, Side
  <2>3. /\ got \in [Side -> Nat] /\ got["client"] <= Len(sent["server"])
        /\ Len(sent["server"]) \in Nat
    <3>1. /\ flushed["server"] <= Len(sent["server"])
          /\ got[Peer("server")] <= flushed["server"]
          /\ got \in [Side -> Nat] /\ flushed \in [Side -> Nat]
          /\ sent \in [Side -> Seq(Messages)]
      BY <2>1, <2>2 DEF TypeOK
    <3>2. Len(sent["server"]) \in Nat
      BY <2>2, <3>1
    <3> QED
      BY <2>1, <2>2, <3>1, <3>2
  <2>4. \A d : VerifyPeer(d)' = VerifyPeer(d)
    BY <2>1, SameSetup
  <2>5. HasRead /\ AnswersRequest /\ FollowsRetry
    BY <2>1 DEF ClientFollows
  <2> QED
    BY <2>1, <2>3, <2>4, <2>5
<1>1. \A j \in 1 .. got["client"] : sent'["server"][j] = sent["server"][j]
  BY <1>0 DEF Grown, Side
<1>2. ASSUME st'["client"] = "CONNECT_BEGIN" => st["client"] = "CONNECT_BEGIN",
             st'["client"] = "CLIENT_HELLO_SENT" =>
                 st["client"] \in {"CONNECT_BEGIN", "CLIENT_HELLO_SENT"},
             st'["client"] = "HELLO_AGAIN" =>
                 \/ st["client"] = "HELLO_AGAIN"
                 \/ st["client"] = "CLIENT_HELLO_SENT" /\ ss["client"] # NULL_STATE,
             ss'["client"] = ss["client"],
             ssl'["client"].sendVerify = ssl["client"].sendVerify,
             ctl'["client"] # "fail" => got'["client"] = got["client"] /\ ctl["client"] # "fail"
      PROVE  ClientFollows'
  <2>1. HasRead'
    BY <1>0, <1>1, <1>2 DEF HasRead
  <2>2. AnswersRequest'
    BY <1>0, <1>2 DEF AnswersRequest
  <2>3. FollowsRetry'
    BY <1>0, <1>2 DEF FollowsRetry
  <2> QED
    BY <2>1, <2>2, <2>3 DEF ClientFollows
<1>3. CASE e = "client" /\ Reads(e)
  BY <1>3, ReadFollows
<1>4. CASE e = "client" /\ ~Reads(e)
  <2>1. Quiet("client") /\ Still("client") /\ Moved("client")
    BY <1>0, <1>4, QuietOrReads, StillOrReads, Moves
  <2>2. ctl["client"] = "fail" => ctl'["client"] = "fail"
    BY <2>1 DEF Moved
  <2>3. ctl'["client"] # "fail" => got'["client"] = got["client"] /\ ctl["client"] # "fail"
    BY <2>1, <2>2 DEF Quiet
  <2>4. /\ ss'["client"] = ss["client"]
        /\ ssl'["client"].sendVerify = ssl["client"].sendVerify
    BY <2>1 DEF Quiet, Still
  <2> QED
    BY <1>2, <2>1, <2>3, <2>4 DEF Moved
<1>5. CASE e = "server"
  <2>1. Untouched("client")
    BY <1>0, <1>5, OtherSide DEF Side
  <2>2. got'["client"] = got["client"]
    <3>1. CASE Reads("server")
      <4>1. PICK type \in {"CH", "CERT", "CV", "FIN"} : Handle("server", type)
        BY <3>1 DEF Reads, DoClientHello, DoCertificate, DoCertificateVerify, DoFinished
      <4> QED
        BY <1>0, <4>1 DEF Handle
    <3>2. CASE Quiet("server")
      BY <1>0, <3>2 DEF Quiet
    <3> QED
      BY <1>0, <1>5, <3>1, <3>2, QuietOrReads
  <2> QED
    BY <1>2, <2>1, <2>2 DEF Untouched
<1> QED
  BY <1>3, <1>4, <1>5 DEF Side

-----------------------------------------------------------------------------
(* The theorems.                                                           *)

LEMMA FlightInit == Init => FlightInv
<1> SUFFICES ASSUME Init
             PROVE  (\A e \in Side : Planned(e)) /\ ClientFollows /\ ServerFollows
  BY AgreedInit DEF FlightInv
<1>1. /\ \A e \in Side : /\ ctl[e] = "call" /\ sent[e] = <<>> /\ got[e] = 0
                         /\ ssl[e] = InitSSL(e, cfg[e]) /\ ss[e] = NULL_STATE
                         /\ st[e] = IF e = "client" THEN "CONNECT_BEGIN" ELSE "ACCEPT_BEGIN"
      /\ cs = NULL_STATE
  BY DEF Init
<1>2. \A e \in Side : Total(e) = 0
  <2> SUFFICES ASSUME NEW e \in Side PROVE Total(e) = 0
    OBVIOUS
  <2>1. Len(sent[e]) = 0 /\ \A j \in 1 .. 0 : sent[e][j].t # "ALERT"
    BY <1>1
  <2>2. Nth(sent[e], 0) = 0
    BY <2>1, NthWithoutAlerts
  <2> QED
    BY <2>1, <2>2 DEF Total
<1>3. ASSUME NEW e \in Side PROVE Planned(e)
  <2>1. InFlight(e)
    BY <1>1 DEF InFlight
  <2>2. Behind(e) = 0
    BY <1>1 DEF Behind, BehindAt, ClientBehind, ServerBehind, Side
  <2>3. ~ssl[e].fragment
    BY <1>1, FreshSession
  <2>4. Counted(e) /\ Stuck(e)
    BY <1>1, <1>2, <2>2, <2>3 DEF Counted, Stuck
  <2> QED
    BY <2>1, <2>4 DEF Planned
<1>4. /\ "client" \in Side /\ "server" \in Side
      /\ ssl["client"].sendVerify = "NO"
  <2>1. "client" \in Side /\ "server" \in Side
    BY DEF Side
  <2> QED
    BY <1>1, <2>1, FreshSession
<1>5. ClientFollows
  BY <1>1, <1>4
     DEF ClientFollows, HasRead, AnswersRequest, FollowsRetry, NULL_STATE, SERVER_CERT_COMPLETE
<1>6. ServerFollows
  BY <1>1, <1>4 DEF ServerFollows
<1> QED
  BY <1>3, <1>5, <1>6

LEMMA FlightNext == FlightInv /\ [Next]_vars => FlightInv'
<1> SUFFICES ASSUME FlightInv, [Next]_vars PROVE FlightInv'
  OBVIOUS
<1>1. AgreedInv' /\ TypeOK' /\ Grown /\ TypeOK
  <2>1. AgreedInv'
    BY AgreedNext DEF FlightInv
  <2>2. TypeOK /\ TypeOK'
    BY <2>1, FlightFacts DEF AgreedInv, FinishedInv, HeardInv, HandshakeInv
  <2> QED
    BY <2>1, <2>2, LogsGrow
<1>2. cfg' = cfg /\ retry' = retry
  BY <1>1 DEF Grown
<1>3. CASE Next
  BY <1>1, <1>2, <1>3, PlanKept, ClientFollowsKept, ServerFollowsKept DEF FlightInv, Next
<1>4. CASE UNCHANGED vars
  <2>1. /\ st' = st /\ ctl' = ctl /\ ss' = ss /\ cs' = cs /\ ssl' = ssl /\ sent' = sent
        /\ flushed' = flushed /\ got' = got
    BY <1>4 DEF vars, session, wire
  <2>2. \A e \in Side : Planned(e)'
    BY <1>1, <1>2, <2>1, FlightFacts, StayPlanned
  <2>3. ClientFollows' /\ ServerFollows'
    <3>1. ClientFollows /\ ServerFollows /\ VerifyPeer("server")' = VerifyPeer("server")
      BY <1>2, FlightFacts, SameSetup
    <3> QED
      BY <1>2, <2>1, <3>1
         DEF ClientFollows, HasRead, AnswersRequest, FollowsRetry, ServerFollows
  <2> QED
    BY <1>1, <2>2, <2>3 DEF FlightInv
<1> QED
  BY <1>3, <1>4

\* Where each switch stands says what it has built and what it builds next.
THEOREM FlightInvariant == Spec => []FlightInv
BY FlightInit, FlightNext, PTL DEF Spec

\* Every message of SendBuffered is built once and in its place: no stall and
\* no call after one repeats, drops or swaps a message, on either side.
THEOREM FlightsAreInOrder == Spec => []FlightsInOrder
<1>1. FlightInv => FlightsInOrder
  BY DEF FlightInv, Planned, InFlight, FlightsInOrder
<1> QED
  BY <1>1, FlightInvariant, PTL

=============================================================================
