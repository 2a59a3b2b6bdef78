----------------------------- MODULE TlsProofs -----------------------------
(***************************************************************************)
(* Theorems about TlsHandshake, for every set of configurations and every  *)
(* bound.                                                                  *)
(***************************************************************************)
EXTENDS TlsProperties, TLAPS

States == ConnectStates \cup AcceptStates

-----------------------------------------------------------------------------
(* Negotiation: types of the operators.                                    *)

\* A list in a message: what was set, or an extension that is not sent.
LEMMA ListType ==
    ASSUME NEW list \in PreferenceLists \cup {<<>>}
    PROVE  /\ list \in Seq(CertTypes)
           /\ Len(list) \in 0 .. 2
           /\ DOMAIN list = 1 .. Len(list)
<1>1. CASE list = <<>>
  BY <1>1
<1>2. CASE list \in {<<t>> : t \in CertTypes}
  <2>1. PICK t \in CertTypes : list = <<t>>
    BY <1>2
  <2> QED
    BY <2>1
<1>3. CASE list \in CertTypes \X CertTypes
  <2>1. PICK t \in CertTypes, u \in CertTypes : list = <<t, u>>
    BY <1>3
  <2> QED
    BY <2>1
<1> QED
  BY <1>1, <1>2, <1>3 DEF PreferenceLists

\* GetCommonItem(a, b) is the first type of a that b holds, as MostPreferred
\* of the abstract session says it, and NoType just if there is none.
LEMMA CommonItem ==
    ASSUME NEW a \in PreferenceLists \cup {<<>>},
           NEW b \in PreferenceLists \cup {<<>>}
    PROVE  \/ /\ GetCommonItem(a, b) = NoType
              /\ \A i \in DOMAIN a : ~Listed(a[i], b)
           \/ /\ GetCommonItem(a, b) \in CertTypes
              /\ Session!MostPreferred(GetCommonItem(a, b), a, b)
<1> DEFINE common == {i \in DOMAIN a : Listed(a[i], b)}
<1>1. CASE common = {}
  BY <1>1 DEF GetCommonItem
<1>2. CASE common # {}
  <2>1. /\ common \subseteq {1, 2}
        /\ \A i \in common : a[i] \in CertTypes
    BY ListType
  <2>2. \E i \in common : \A j \in common : i <= j
    BY <1>2, <2>1
  <2> DEFINE first == CHOOSE i \in common : \A j \in common : i <= j
  <2>3. first \in common /\ \A j \in common : first <= j
    BY <2>2
  <2>4. GetCommonItem(a, b) = a[first]
    BY <1>2 DEF GetCommonItem
  <2>5. ASSUME NEW j \in 1 .. first - 1 PROVE ~Listed(a[j], b)
    <3> HIDE DEF first
    <3>1. first \in {1, 2} /\ first \in DOMAIN a
      BY <2>1, <2>3
    <3>2. j \in DOMAIN a /\ ~(first <= j)
      BY <3>1, ListType
    <3> QED
      BY <2>3, <3>2
  <2> HIDE DEF first
  <2>6. Session!MostPreferred(a[first], a, b)
    BY <2>3, <2>5 DEF Session!MostPreferred, Session!Listed, Listed
  <2> QED
    BY <2>1, <2>3, <2>4, <2>6
<1> QED
  BY <1>1, <1>2

\* What the server negotiates from a hello is, of the types that the client
\* offered, the one the server prefers: TLSX_ServerCertificateType_Use and
\* TLSX_ClientCertificateType_Parse, for every pair of lists.
THEOREM NegotiatedIsPreferred ==
    ASSUME NEW config \in Configurations, NEW ch \in Offers
    PROVE  /\ ServerType(config, ch) # NoType =>
                  Session!MostPreferred(ServerType(config, ch), config.srv, ch.srv)
           /\ ClientType(config, ch) # NoType =>
                  Session!MostPreferred(ClientType(config, ch), config.clt, ch.clt)
           /\ ServerTypeAlert(config, ch) =>
                  \A i \in DOMAIN config.srv : ~Listed(config.srv[i], ch.srv)
<1>1. /\ config.srv \in PreferenceLists /\ config.clt \in PreferenceLists
      /\ ch.srv \in PreferenceLists \cup {<<>>}
      /\ ch.clt \in PreferenceLists \cup {<<>>}
  BY DEF Configurations, Offers
<1>2. NoType \notin CertTypes
  BY DEF NoType, CertTypes
<1> QED
  BY <1>1, <1>2, CommonItem DEF ServerType, ClientType, ServerTypeAlert

LEMMA NegotiatedTypes ==
    ASSUME NEW config \in Configurations, NEW ch \in Offers
    PROVE  /\ ServerType(config, ch) \in AnyType
           /\ ClientType(config, ch) \in AnyType
           /\ Len(ch.clt) \in 0 .. 2
<1>1. /\ config.srv \in PreferenceLists /\ config.clt \in PreferenceLists
      /\ ch.srv \in PreferenceLists \cup {<<>>}
      /\ ch.clt \in PreferenceLists \cup {<<>>}
  BY DEF Configurations, Offers
<1> QED
  BY <1>1, CommonItem, ListType DEF ServerType, ClientType, AnyType

LEMMA HelloType ==
    ASSUME NEW config \in Configurations
    PROVE  Hello(config) \in Messages
<1>1. config.srv \in PreferenceLists /\ config.clt \in PreferenceLists
  BY DEF Configurations
<1>2. Listed("VC", config.srv) \in BOOLEAN
  BY DEF Listed
<1>3. ClientHelloExts(config) \in Offers
  BY <1>1, <1>2 DEF ClientHelloExts, Offers
<1> QED
  BY <1>3 DEF Hello, Messages

LEMMA AfterFlushState ==
    ASSUME NEW s \in DOMAIN AfterFlush
    PROVE  AfterFlush[s] \in States
BY DEF AfterFlush, States, ConnectStates, AcceptStates

LEMMA InitType == Init => TypeOK
<1> SUFFICES ASSUME Init PROVE TypeOK
  OBVIOUS
<1>1. cfg \in [Side -> Configurations]
  BY TlsHandshakeAssumption DEF Init, Side
<1>2. \A e \in Side : InitSSL(e, cfg[e]) \in SSLFields
  BY DEF InitSSL, SSLFields, AnyType, NoType, HasVC, HasHsKey
<1> QED
  BY <1>1, <1>2, TlsHandshakeAssumption
     DEF Init, TypeOK, Side, Peer, ConnectStates, AcceptStates, NULL_STATE

-----------------------------------------------------------------------------
(* Every step keeps the types.                                             *)

\* A message built by e, whatever becomes of it.
LEMMA SendType ==
    ASSUME TypeOK,
           NEW e \in Side, NEW m \in Messages, NEW next \in States,
           Send(e, m, next),
           ss' \in [Side -> 0 .. 9],
           ssl' \in [Side -> SSLFields]
    PROVE  TypeOK'
<1> DEFINE log == Append(sent[e], m)
<1> USE DEF Send, TypeOK, setup, clocks
<1>1. log \in Seq(Messages) /\ Len(log) = Len(sent[e]) + 1
  OBVIOUS
<1>2. /\ sent' = [sent EXCEPT ![e] = log]
      /\ flushed' \in [Side -> Nat] /\ stalls' \in [Side -> 0 .. MaxStalls]
      /\ \A d \in Side : flushed'[d] >= flushed[d]
      /\ flushed'[e] <= Len(log) /\ \A d \in Side \ {e} : flushed'[d] = flushed[d]
      /\ st' \in [Side -> States]
      /\ ctl' \in [Side -> {"call", "wants", "ok", "fail"}]
  <2>1. CASE Flush(e, log) /\ Goto(e, next) /\ UNCHANGED ctl
    BY <1>1, <2>1 DEF Flush, Goto, States
  <2>2. CASE Stall(e, log)
    BY <1>1, <2>2, TlsHandshakeAssumption DEF Stall, States
  <2>3. CASE Lose(e)
    BY <1>1, <2>3 DEF Lose, Fail, States
  <2> QED
    BY <2>1, <2>2, <2>3
<1> QED
  BY <1>1, <1>2 DEF States, Side, Peer

\* A record of the peer's taken in by e, with or without an alert in return.
LEMMA IncomingType ==
    ASSUME TypeOK, NEW e \in Side, Arrived(e)
    PROVE  Incoming(e) \in Messages
BY DEF TypeOK, Arrived, Incoming, Side, Peer

LEMMA ReadType ==
    ASSUME TypeOK,
           NEW e \in Side, Arrived(e),
           got' = [got EXCEPT ![e] = @ + 1],
           Alert(e) \/ NoAlert,
           st' \in [Side -> States],
           ctl' \in [Side -> {"call", "wants", "ok", "fail"}],
           ss' \in [Side -> 0 .. 9], cs' \in 0 .. 9,
           ssl' \in [Side -> SSLFields],
           seen' \in [Side -> SUBSET {"CH", "SH", "EE", "CR", "CERT", "CV", "FIN"}],
           UNCHANGED <<setup, stalls, clocks>>
    PROVE  TypeOK'
<1> USE DEF TypeOK, Arrived, setup, clocks
<1>1. CASE NoAlert
  BY <1>1 DEF NoAlert, Side, Peer, States
<1>2. CASE Alert(e)
  <2> DEFINE log == Append(sent[e], Plain("ALERT"))
  <2>1. Plain("ALERT") \in Messages
    BY DEF Plain, Messages
  <2>2. log \in Seq(Messages) /\ Len(log) = Len(sent[e]) + 1
    BY <2>1
  <2>3. sent' = [sent EXCEPT ![e] = log]
    BY <1>2 DEF Alert
  <2>4. flushed' = flushed \/ flushed' = [flushed EXCEPT ![e] = Len(sent[e]) + 1]
    BY <1>2 DEF Alert
  <2> QED
    BY <2>2, <2>3, <2>4 DEF Side, Peer, States
<1> QED
  BY <1>1, <1>2

\* Neither the network nor the logs are touched.
LEMMA InternalType ==
    ASSUME TypeOK,
           st' \in [Side -> States],
           ctl' \in [Side -> {"call", "wants", "ok", "fail"}],
           ss' \in [Side -> 0 .. 9], cs' \in 0 .. 9,
           ssl' \in [Side -> SSLFields],
           expired' \in [Side -> BOOLEAN], open' \in [Side -> BOOLEAN],
           UNCHANGED <<setup, seen, wire, got>>
    PROVE  TypeOK'
BY DEF TypeOK, States, setup, wire

LEMMA HandleType ==
    ASSUME TypeOK,
           NEW e \in Side,
           NEW type \in {"CH", "SH", "HRR", "EE", "CR", "CERT", "CV", "FIN"},
           Handle(e, type),
           Alert(e) \/ NoAlert,
           ss' \in [Side -> 0 .. 9], cs' \in 0 .. 9,
           ssl' \in [Side -> SSLFields]
    PROVE  TypeOK'
<1>1. seen' \in [Side -> SUBSET {"CH", "SH", "EE", "CR", "CERT", "CV", "FIN"}]
  BY DEF Handle, TypeOK
<1>2. /\ Arrived(e) /\ got' = [got EXCEPT ![e] = @ + 1]
      /\ st' \in [Side -> States] /\ ctl' \in [Side -> {"call", "wants", "ok", "fail"}]
      /\ UNCHANGED <<setup, stalls, clocks>>
  BY DEF Handle, TypeOK, States
<1> QED
  BY <1>1, <1>2, ReadType

LEMMA ReachType ==
    ASSUME TypeOK, NEW e \in Side, NEW n \in 0 .. 9, Reach(e, n)
    PROVE  ss' \in [Side -> 0 .. 9]
BY DEF TypeOK, Reach

LEMMA ClientCallType == TypeOK /\ ClientCall => TypeOK'
<1> SUFFICES ASSUME TypeOK, ClientCall PROVE TypeOK'
  OBVIOUS
<1> USE DEF NULL_STATE, SERVER_HELLO_RETRY_REQUEST_COMPLETE, SERVER_HELLO_COMPLETE,
            SERVER_ENCRYPTED_EXTENSIONS_COMPLETE
<1>0. /\ "client" \in Side
      /\ st \in [Side -> States]
      /\ ssl \in [Side -> SSLFields]
      /\ cs \in 0 .. 9
  BY DEF Side, TypeOK, States
<1>1. CASE SendClientHello
  <2>1. Hello(cfg["client"]) \in Messages
    BY HelloType, <1>0 DEF TypeOK
  <2>2. /\ "CLIENT_HELLO_SENT" \in States /\ "HELLO_AGAIN_REPLY" \in States
        /\ ss' \in [Side -> 0 .. 9] /\ ssl' \in [Side -> SSLFields]
    BY <1>1 DEF States, ConnectStates, SendClientHello, TypeOK
  <2> QED
    BY <1>0, <1>1, <2>1, <2>2, SendType DEF SendClientHello
<1>2. CASE DoServerHello
  <2>1. ss' \in [Side -> 0 .. 9] /\ UNCHANGED <<cs, ssl>>
    BY <1>0, <1>2, ReachType DEF DoServerHello
  <2> QED
    BY <1>0, <1>2, <2>1, HandleType DEF DoServerHello, TypeOK
<1>3. CASE DoEncryptedExtensions
  <2>1. /\ Handle("client", "EE") /\ NoAlert /\ UNCHANGED cs
        /\ ss' \in [Side -> 0 .. 9]
    BY <1>0, <1>3, ReachType DEF DoEncryptedExtensions
  <2>2. Incoming("client") \in Messages /\ Incoming("client").t = "EE"
    BY <1>0, <2>1, IncomingType DEF Handle
  <2> DEFINE m == Incoming("client")
             r == [ssl["client"] EXCEPT !.srvType = m.srv, !.cltType = m.clt,
                                        !.ssiNegotiated = m.did]
  <2>3. m.srv \in AnyType /\ m.clt \in AnyType /\ m.did \in BOOLEAN
    BY <2>2 DEF Messages
  <2>4. ssl' = [ssl EXCEPT !["client"] = r]
    BY <1>0, <1>3 DEF DoEncryptedExtensions
  <2>5. r \in SSLFields
    BY <1>0, <2>3 DEF SSLFields
  <2>6. ssl' \in [Side -> SSLFields]
    BY <1>0, <2>4, <2>5
  <2> QED
    BY <1>0, <2>1, <2>6, HandleType DEF TypeOK
<1>4. CASE DoCertificateRequest
  <2>1. ssl' \in [Side -> SSLFields]
    BY <1>0, <1>4 DEF DoCertificateRequest, SSLFields
  <2> QED
    BY <1>0, <1>4, <2>1, HandleType DEF DoCertificateRequest, TypeOK
<1>5. CASE ConnectFallsThrough
  <2> DEFINE b == /\ st["client"] = "FIRST_REPLY_THIRD"
                  /\ ssl["client"].sendVerify = "SEND_BLANK_CERT"
  <2>1. b \in BOOLEAN
    OBVIOUS
  <2>2. ssl' = [ssl EXCEPT !["client"].building = @ \/ b]
    BY <1>5 DEF ConnectFallsThrough
  <2> HIDE DEF b
  <2>3. ssl' \in [Side -> SSLFields]
    BY <1>0, <2>1, <2>2 DEF SSLFields
  <2>4. st' \in [Side -> States]
    BY <1>0, <1>5 DEF ConnectFallsThrough, Goto, States, ConnectStates
  <2> QED
    BY <1>5, <2>3, <2>4, InternalType DEF ConnectFallsThrough, TypeOK, clocks
<1>6. CASE CheckServerAuth
  <2>1. /\ st' \in [Side -> States]
        /\ ctl' \in [Side -> {"call", "wants", "ok", "fail"}]
    BY <1>6 DEF CheckServerAuth, Goto, Fail, TypeOK, States, ConnectStates
  <2> QED
    BY <1>6, <2>1, InternalType DEF CheckServerAuth, TypeOK, clocks, session
<1>7. CASE ConnectSucceeds
  <2>1. ctl' \in [Side -> {"call", "wants", "ok", "fail"}]
    BY <1>7 DEF ConnectSucceeds, TypeOK
  <2> QED
    BY <1>7, <2>1, InternalType DEF ConnectSucceeds, TypeOK, clocks, session, States
<1> QED
  BY <1>1, <1>2, <1>3, <1>4, <1>5, <1>6, <1>7 DEF ClientCall

LEMMA ServerCallType == TypeOK /\ ServerCall => TypeOK'
<1> SUFFICES ASSUME TypeOK, ServerCall PROVE TypeOK'
  OBVIOUS
<1> USE DEF NULL_STATE, SERVER_HELLO_RETRY_REQUEST_COMPLETE, SERVER_HELLO_COMPLETE,
            SERVER_ENCRYPTED_EXTENSIONS_COMPLETE, CLIENT_HELLO_RETRY,
            CLIENT_HELLO_COMPLETE
<1>0. /\ "server" \in Side
      /\ st \in [Side -> States]
      /\ ssl \in [Side -> SSLFields]
      /\ cs \in 0 .. 9
  BY DEF Side, TypeOK, States
<1>1. CASE AcceptWithoutCredentials
  <2>1. ctl' \in [Side -> {"call", "wants", "ok", "fail"}]
    BY <1>1 DEF AcceptWithoutCredentials, Fail, TypeOK
  <2> QED
    BY <1>1, <2>1, InternalType
       DEF AcceptWithoutCredentials, TypeOK, clocks, session, States
<1>2. CASE DoClientHello
  <2> DEFINE m == Incoming("server")
  <2>1. /\ Handle("server", "CH") /\ cs' = CLIENT_HELLO_COMPLETE
        /\ Alert("server") \/ NoAlert
    BY <1>2 DEF DoClientHello
  <2>2. ss' \in [Side -> 0 .. 9]
    BY <1>0, <1>2, ReachType DEF DoClientHello, TypeOK
  <2>3. m \in Messages /\ m.t = "CH"
    BY <1>0, <2>1, IncomingType DEF Handle
  <2>4. m.ext \in Offers /\ cfg["server"] \in Configurations
    BY <1>0, <2>3 DEF Messages, TypeOK
  <2> DEFINE srv == ServerType(cfg["server"], m.ext)
             clt == ClientType(cfg["server"], m.ext)
             n   == IF cfg["server"].verify = "none" THEN 0 ELSE Len(m.ext.clt)
  <2>5. srv \in AnyType /\ clt \in AnyType /\ n \in 0 .. 2 /\ m.ext.did \in BOOLEAN
    BY <2>4, NegotiatedTypes DEF Offers
  <2>6. ssl' = [ssl EXCEPT !["server"].sendVerify = "SEND_CERT",
                           !["server"].srvType = srv,
                           !["server"].cltType = clt,
                           !["server"].cltOffered = n,
                           !["server"].ssiNegotiated = m.ext.did]
    BY <1>2 DEF DoClientHello
  <2> DEFINE r == [ssl["server"] EXCEPT !.sendVerify = "SEND_CERT",
                                        !.srvType = srv, !.cltType = clt,
                                        !.cltOffered = n,
                                        !.ssiNegotiated = m.ext.did]
  <2> HIDE DEF m, srv, clt, n
  <2>7. ssl' = [ssl EXCEPT !["server"] = r]
    BY <1>0, <2>6
  <2>8. r \in SSLFields
    BY <1>0, <2>5 DEF SSLFields
  <2>9. ssl' \in [Side -> SSLFields]
    BY <1>0, <2>7, <2>8
  <2> QED
    BY <1>0, <2>1, <2>2, <2>9, HandleType
<1>3. CASE SendServerHello
  <2>1. /\ "ACCEPT_HELLO_RETRY_REQUEST_DONE" \in States /\ "SERVER_HELLO_SENT" \in States
        /\ Plain("HRR") \in Messages /\ Plain("SH") \in Messages
    BY DEF States, AcceptStates, Plain, Messages
  <2>2. ss' \in [Side -> 0 .. 9] /\ ssl' \in [Side -> SSLFields]
    BY <1>0, <1>3, ReachType DEF SendServerHello, TypeOK
  <2> QED
    BY <1>0, <1>3, <2>1, <2>2, SendType DEF SendServerHello
<1>4. CASE SendEncryptedExtensions
  <2>1. "SERVER_EXTENSIONS_SENT" \in States /\ Answer(ssl["server"]) \in Messages
    BY <1>0 DEF States, AcceptStates, Answer, Messages, TypeOK, SSLFields
  <2>2. ss' \in [Side -> 0 .. 9] /\ ssl' \in [Side -> SSLFields]
    BY <1>0, <1>4, ReachType DEF SendEncryptedExtensions, TypeOK
  <2> QED
    BY <1>0, <1>4, <2>1, <2>2, SendType DEF SendEncryptedExtensions
<1>5. CASE SendCertificateRequest
  <2>1. "CERT_REQ_SENT" \in States /\ Plain("CR") \in Messages
    BY DEF States, AcceptStates, Plain, Messages
  <2> QED
    BY <1>0, <1>5, <2>1, SendType DEF SendCertificateRequest, TypeOK
<1>6. CASE AcceptFallsThrough
  <2> DEFINE b == st["server"] = "SERVER_EXTENSIONS_SENT"
  <2>1. b \in BOOLEAN
    OBVIOUS
  <2>2. ssl' = [ssl EXCEPT !["server"].authGood = @ \/ b]
    BY <1>6 DEF AcceptFallsThrough
  <2> HIDE DEF b
  <2>3. ssl' \in [Side -> SSLFields] /\ cs' \in 0 .. 9
    BY <1>0, <1>6, <2>1, <2>2 DEF AcceptFallsThrough, SSLFields
  <2>4. st' \in [Side -> States]
    BY <1>0, <1>6 DEF AcceptFallsThrough, Goto, States, AcceptStates
  <2> QED
    BY <1>6, <2>3, <2>4, InternalType DEF AcceptFallsThrough, TypeOK, clocks
<1>7. CASE CheckClientAuth
  <2> DEFINE good == \/ ssl["server"].authGood
                     \/ /\ VerifyPeer("server") /\ ~FailNoCert("server")
                        /\ ~ssl["server"].peerCert
  <2>1. good \in BOOLEAN
    BY <1>0 DEF TypeOK, SSLFields, VerifyPeer, FailNoCert
  <2>2. /\ st' \in [Side -> States]
        /\ ctl' \in [Side -> {"call", "wants", "ok", "fail"}]
    BY <1>7 DEF CheckClientAuth, Goto, Fail, TypeOK, States, AcceptStates
  <2>3. ssl' = [ssl EXCEPT !["server"].authGood = good]
    BY <1>7 DEF CheckClientAuth
  <2> HIDE DEF good
  <2>4. ssl' \in [Side -> SSLFields]
    BY <1>0, <2>1, <2>3 DEF SSLFields
  <2> QED
    BY <1>7, <2>2, <2>4, InternalType DEF CheckClientAuth, TypeOK, clocks
<1>8. CASE AcceptSucceeds
  <2>1. ctl' \in [Side -> {"call", "wants", "ok", "fail"}]
    BY <1>8 DEF AcceptSucceeds, TypeOK
  <2> QED
    BY <1>8, <2>1, InternalType DEF AcceptSucceeds, TypeOK, clocks, session, States
<1> QED
  BY <1>1, <1>2, <1>3, <1>4, <1>5, <1>6, <1>7, <1>8 DEF ServerCall

LEMMA SharedType ==
    ASSUME TypeOK, NEW e \in Side,
           \/ SendCertificate(e) \/ SendCertificateRest(e)
           \/ SendCertificateVerify(e) \/ SendFinished(e)
           \/ DoCertificate(e) \/ DoCertificateVerify(e) \/ DoFinished(e)
           \/ Reject(e) \/ DoAlert(e)
    PROVE  TypeOK'
<1> USE DEF SERVER_CERT_COMPLETE, SERVER_CERT_VERIFY_COMPLETE,
            SERVER_FINISHED_COMPLETE, CLIENT_FINISHED_COMPLETE
<1>0. /\ st \in [Side -> States]
      /\ ssl \in [Side -> SSLFields]
      /\ ss \in [Side -> 0 .. 9]
      /\ cs \in 0 .. 9
  BY DEF TypeOK, States
<1>1. /\ AfterCert(e) \in States /\ AfterVerify(e) \in States /\ AfterFinished(e) \in States
      /\ Plain("CV") \in Messages /\ Plain("FIN") \in Messages
  BY DEF AfterCert, AfterVerify, AfterFinished, VerifyState, FinishedState, States,
         ConnectStates, AcceptStates, Plain, Messages
<1>2. \A s \in SSLFields, n \in 0 .. 9 : KeyKept(e, s, n) \in BOOLEAN
  BY DEF KeyKept, SSLFields
<1>3. CASE SendCertificate(e)
  <2> DEFINE blank == ssl[e].sendVerify = "SEND_BLANK_CERT"
             m == Certificate(IF blank THEN "blank" ELSE cfg[e].mat)
             f == ~blank /\ ctl'[e] = "wants"
             r == [ssl[e] EXCEPT !.building = FALSE, !.fragment = f]
  <2>1. m \in Messages
    BY DEF Certificate, Messages, TypeOK, Configurations
  <2>2. f \in BOOLEAN
    OBVIOUS
  <2>3. /\ Send(e, m, AfterCert(e))
        /\ ssl' = [ssl EXCEPT ![e].building = FALSE, ![e].fragment = f]
    BY <1>3 DEF SendCertificate
  <2>4. ss' \in [Side -> 0 .. 9]
    BY <1>0, <1>3, ReachType DEF SendCertificate
  <2> HIDE DEF f, m
  <2>5. ssl' = [ssl EXCEPT ![e] = r] /\ r \in SSLFields
    BY <1>0, <2>2, <2>3 DEF SSLFields
  <2> QED
    BY <1>0, <1>1, <2>1, <2>3, <2>4, <2>5, SendType
<1>4. CASE SendCertificateRest(e)
  <2>1. ss' \in [Side -> 0 .. 9] /\ st' \in [Side -> States]
    BY <1>0, <1>1, <1>4, ReachType DEF SendCertificateRest, Goto
  <2>2. ssl' \in [Side -> SSLFields]
    BY <1>0, <1>4 DEF SendCertificateRest, SSLFields
  <2> QED
    BY <1>4, <2>1, <2>2, InternalType DEF SendCertificateRest, TypeOK, clocks
<1>5. CASE SendCertificateVerify(e)
  <2> DEFINE b == ~CanSign(e)
             k == KeyKept(e, ssl[e], ss[e])
             r == [ssl[e] EXCEPT !.building = b, !.hsKey = k]
  <2>1. b \in BOOLEAN /\ k \in BOOLEAN
    BY <1>0, <1>2
  <2>2. ssl' = [ssl EXCEPT ![e].building = b, ![e].hsKey = k]
    BY <1>5 DEF SendCertificateVerify
  <2> HIDE DEF b, k
  <2>3. ssl' = [ssl EXCEPT ![e] = r] /\ r \in SSLFields
    BY <1>0, <2>1, <2>2 DEF SSLFields
  <2>4. ssl' \in [Side -> SSLFields] /\ ss' \in [Side -> 0 .. 9]
    BY <1>0, <1>5, <2>3 DEF SendCertificateVerify
  <2>5. CASE Send(e, Plain("CV"), AfterVerify(e))
    BY <1>1, <2>4, <2>5, SendType
  <2>6. CASE Fail(e) /\ UNCHANGED <<setup, st, cs, seen, wire, got, clocks>>
    <3>1. ctl' \in [Side -> {"call", "wants", "ok", "fail"}]
      BY <2>6 DEF Fail, TypeOK
    <3> QED
      BY <1>0, <2>4, <2>6, <3>1, InternalType DEF TypeOK, clocks
  <2> QED
    BY <1>5, <2>5, <2>6 DEF SendCertificateVerify
<1>6. CASE SendFinished(e)
  <2>1. ss' \in [Side -> 0 .. 9]
    BY <1>0, <1>6, ReachType DEF SendFinished
  <2>2. ssl' \in [Side -> SSLFields]
    BY <1>0, <1>6 DEF SendFinished, SSLFields
  <2> QED
    BY <1>1, <1>6, <2>1, <2>2, SendType DEF SendFinished
<1>7. CASE DoCertificate(e)
  <2> DEFINE kind  == Incoming(e).kind
             p     == kind # "blank"
             v     == kind = "VC"
             after == [ssl[e] EXCEPT !.peerCert = p, !.vcMode = @ \/ v]
             k     == KeyKept(e, after, ss[e])
             r     == [after EXCEPT !.hsKey = k]
  <2>1. p \in BOOLEAN /\ v \in BOOLEAN
    OBVIOUS
  <2>2. /\ Handle(e, "CERT") /\ UNCHANGED cs
        /\ Alert(e) \/ NoAlert
        /\ ssl' = [ssl EXCEPT ![e] = r]
    BY <1>7 DEF DoCertificate
  <2>3. ss' \in [Side -> 0 .. 9]
    BY <1>0, <1>7, ReachType DEF DoCertificate
  <2> HIDE DEF p, v, k
  <2>4. after \in SSLFields
    BY <1>0, <2>1 DEF SSLFields
  <2> HIDE DEF after
  <2>5. k \in BOOLEAN
    BY <1>0, <1>2, <2>4 DEF k
  <2>6. r \in SSLFields
    BY <2>4, <2>5 DEF SSLFields
  <2> QED
    BY <1>0, <2>2, <2>3, <2>6, HandleType
<1>8. CASE DoCertificateVerify(e)
  <2> DEFINE k == KeyKept(e, ssl[e], ss'[e])
             r == [ssl[e] EXCEPT !.authGood = TRUE, !.peerVerify = TRUE, !.hsKey = k]
  <2>1. /\ Handle(e, "CV") /\ UNCHANGED cs /\ NoAlert
        /\ ssl' = [ssl EXCEPT ![e].authGood = TRUE, ![e].peerVerify = TRUE,
                              ![e].hsKey = k]
    BY <1>8 DEF DoCertificateVerify
  <2>2. ss' \in [Side -> 0 .. 9]
    BY <1>0, <1>8, ReachType DEF DoCertificateVerify
  <2>3. k \in BOOLEAN
    BY <1>0, <1>2, <2>2
  <2> HIDE DEF k
  <2>4. ssl' = [ssl EXCEPT ![e] = r] /\ r \in SSLFields
    BY <1>0, <2>1, <2>3 DEF SSLFields
  <2> QED
    BY <1>0, <2>1, <2>2, <2>4, HandleType
<1>9. CASE DoFinished(e)
  <2>1. ss' \in [Side -> 0 .. 9] /\ cs' \in 0 .. 9
    BY <1>0, <1>9, ReachType DEF DoFinished
  <2> QED
    BY <1>0, <1>9, <2>1, HandleType DEF DoFinished
<1>10. CASE Reject(e)
  <2> DEFINE k == KeyKept(e, ssl[e], ss[e])
             h == IF Incoming(e).t = "CERT" THEN k ELSE ssl[e].hsKey
  <2>1. h \in BOOLEAN
    BY <1>0, <1>2 DEF SSLFields
  <2>2. ssl' = [ssl EXCEPT ![e].hsKey = h]
    BY <1>10 DEF Reject
  <2> HIDE DEF h
  <2>3. ssl' \in [Side -> SSLFields]
    BY <1>0, <2>1, <2>2 DEF SSLFields
  <2>4. ctl' \in [Side -> {"call", "wants", "ok", "fail"}]
    BY <1>10 DEF Reject, Fail, TypeOK
  <2> QED
    BY <1>10, <2>3, <2>4, ReadType DEF Reject, TypeOK, States
<1>11. CASE DoAlert(e)
  <2>1. ctl' \in [Side -> {"call", "wants", "ok", "fail"}]
    BY <1>11 DEF DoAlert, Fail, TypeOK
  <2> QED
    BY <1>11, <2>1, ReadType
       DEF DoAlert, TypeOK, States, NoAlert, session, wire, clocks
<1> QED
  BY <1>3, <1>4, <1>5, <1>6, <1>7, <1>8, <1>9, <1>10, <1>11

LEMMA LoopType ==
    ASSUME TypeOK, NEW e \in Side,
           \/ ReenterToWrite(e) \/ ReenterToRead(e) \/ ReadNothing(e)
           \/ TimePasses(e) \/ GiveUp(e) \/ Free(e)
    PROVE  TypeOK'
<1>0. /\ st \in [Side -> States]
      /\ ctl \in [Side -> {"call", "wants", "ok", "fail"}]
      /\ ssl \in [Side -> SSLFields]
      /\ ss \in [Side -> 0 .. 9]
      /\ expired \in [Side -> BOOLEAN] /\ open \in [Side -> BOOLEAN]
  BY DEF TypeOK, States
<1>1. CASE ReenterToWrite(e)
  <2>1. /\ flushed' \in [Side -> Nat] /\ stalls' \in [Side -> 0 .. MaxStalls]
        /\ \A d \in Side : flushed'[d] >= flushed[d]
        /\ flushed'[e] <= Len(sent[e]) /\ \A d \in Side \ {e} : flushed'[d] = flushed[d]
        /\ st' \in [Side -> States]
        /\ ctl' \in [Side -> {"call", "wants", "ok", "fail"}]
        /\ UNCHANGED <<setup, session, sent, got, clocks>>
    <3>0. UNCHANGED <<setup, session, sent, got, clocks>>
      BY <1>1 DEF ReenterToWrite
    <3>1. CASE /\ Flush(e, sent[e])
               /\ ctl' = [ctl EXCEPT ![e] = "call"]
               /\ IF CaseComplete(e) THEN Goto(e, AfterFlush[st[e]]) ELSE UNCHANGED st
      <4>1. st' \in [Side -> States]
        BY <1>0, <3>1, AfterFlushState DEF CaseComplete, Goto
      <4>2. ctl' \in [Side -> {"call", "wants", "ok", "fail"}]
        BY <1>0, <3>1
      <4>3. /\ flushed' = [flushed EXCEPT ![e] = Len(sent[e])]
            /\ UNCHANGED stalls
        BY <3>1 DEF Flush
      <4> QED
        BY <3>0, <4>1, <4>2, <4>3 DEF TypeOK
    <3>2. CASE Stall(e, sent[e])
      BY <1>1, <3>2, TlsHandshakeAssumption DEF ReenterToWrite, Stall, TypeOK, States
    <3>3. CASE Lose(e)
      BY <1>1, <3>3 DEF ReenterToWrite, Lose, Fail, TypeOK, States
    <3> QED
      BY <1>1, <3>1, <3>2, <3>3 DEF ReenterToWrite
  <2> QED
    BY <2>1 DEF TypeOK, setup, session, clocks, Side, Peer, States
<1>2. CASE ReenterToRead(e)
  BY <1>0, <1>2, InternalType DEF ReenterToRead, TypeOK, session, clocks
<1>3. CASE ReadNothing(e)
  BY <1>0, <1>3, InternalType DEF ReadNothing, Fail, TypeOK, session, clocks
<1>4. CASE TimePasses(e)
  BY <1>0, <1>4, InternalType DEF TimePasses, TypeOK, session
<1>5. CASE GiveUp(e)
  BY <1>0, <1>5, InternalType DEF GiveUp, Fail, TypeOK, session, clocks
<1>6. CASE Free(e)
  <2> DEFINE k == KeyKept(e, ssl[e], ss[e])
  <2>1. k \in BOOLEAN
    BY <1>0 DEF KeyKept, SSLFields
  <2>2. ssl' = [ssl EXCEPT ![e].hsKey = k]
    BY <1>6 DEF Free
  <2> HIDE DEF k
  <2>3. ssl' \in [Side -> SSLFields]
    BY <1>0, <2>1, <2>2 DEF SSLFields
  <2> QED
    BY <1>0, <1>6, <2>3, InternalType DEF Free, TypeOK
<1> QED
  BY <1>1, <1>2, <1>3, <1>4, <1>5, <1>6

LEMMA NextType == TypeOK /\ [Next]_vars => TypeOK'
<1> SUFFICES ASSUME TypeOK, [Next]_vars PROVE TypeOK'
  OBVIOUS
<1>1. ASSUME NEW e \in Side, Program(e) PROVE TypeOK'
  BY <1>1, ClientCallType, ServerCallType, SharedType, LoopType DEF Program
<1>2. ASSUME NEW e \in Side, TimePasses(e) PROVE TypeOK'
  BY <1>2, LoopType
<1>3. CASE UNCHANGED vars
  BY <1>3 DEF vars, TypeOK, setup, session, wire, clocks
<1> QED
  BY <1>1, <1>2, <1>3 DEF Next

\* Every reachable state has the types of TypeOK, and no side reads a record
\* that its peer has not flushed.
THEOREM TypeCorrect == Spec => []TypeOK
BY InitType, NextType, PTL DEF Spec

-----------------------------------------------------------------------------
(* The inductive invariant: what each side has and has not done yet when   *)
(* its switch is in a given state.  It is about one side at a time, so a   *)
(* step of one side leaves it alone on the other.                          *)

\* The states before the one that builds CertificateVerify.
BeforeVerify(e) ==
    IF e = "client"
    THEN {"CONNECT_BEGIN", "CLIENT_HELLO_SENT", "HELLO_AGAIN", "HELLO_AGAIN_REPLY",
          "FIRST_REPLY_DONE", "FIRST_REPLY_FIRST", "FIRST_REPLY_SECOND"}
    ELSE {"ACCEPT_BEGIN", "ACCEPT_CLIENT_HELLO_DONE",
          "ACCEPT_HELLO_RETRY_REQUEST_DONE", "ACCEPT_FIRST_REPLY_DONE",
          "ACCEPT_SECOND_REPLY_DONE", "SERVER_HELLO_SENT",
          "ACCEPT_THIRD_REPLY_DONE", "SERVER_EXTENSIONS_SENT", "CERT_REQ_SENT"}

\* The states of a client that has the server's whole flight.
AfterServer ==
    {"FIRST_REPLY_DONE", "FIRST_REPLY_FIRST", "FIRST_REPLY_SECOND",
     "FIRST_REPLY_THIRD", "FIRST_REPLY_FOURTH", "FINISHED_DONE"}

OwnStates(e) == IF e = "client" THEN ConnectStates ELSE AcceptStates

\* What the case of FIRST_REPLY_SECOND and after may rely on.
ServerProved ==
    /\ ss["client"] >= SERVER_CERT_VERIFY_COMPLETE => ssl["client"].authGood
    /\ ss["client"] >= SERVER_FINISHED_COMPLETE => "FIN" \in seen["client"]
    /\ st["client"] \in AfterServer => ss["client"] >= SERVER_FINISHED_COMPLETE

\* A message under construction or in fragments belongs to the current case.
MessagePlaced(e) ==
    /\ ssl[e].fragment => st[e] = CertState(e) /\ ssl[e].sendVerify # "NO"
    /\ ssl[e].building => st[e] = FinishedState(e) \/ ctl[e] = "fail"
    /\ ctl[e] = "wants" /\ st[e] = VerifyState(e) => Buffered(e)

\* The loaded key lasts until CertificateVerify has been built.
KeyHeld(e) ==
    /\ cfg[e].mat = "VC" => ssl[e].vcMode
    /\ ssl[e].sendVerify = "SEND_CERT" => Complete(cfg[e].mat)
    /\ e = "server" /\ st[e] # "ACCEPT_BEGIN" => Complete(cfg[e].mat)
    /\ cfg[e].mat = "VC" =>
           \/ ssl[e].hsKey
           \/ ctl[e] \in {"ok", "fail"}
           \/ st[e] \notin BeforeVerify(e) \cup {VerifyState(e)}
           \/ st[e] = VerifyState(e) /\ ctl[e] = "wants"

KeyFreed(e) ==
    /\ ctl[e] = "ok" => st[e] \in {"FINISHED_DONE", "TICKET_SENT"}
    /\ ~open[e] => ctl[e] \in {"ok", "fail"}
    /\ ctl[e] = "ok" /\ ~open[e] => ~ssl[e].hsKey

SideInv(e) ==
    /\ st[e] \in OwnStates(e)
    /\ MessagePlaced(e)
    /\ KeyHeld(e)
    /\ KeyFreed(e)
    /\ e = "client" => ServerProved
    /\ e = "server" /\ st[e] \in BeforeVerify(e) => ss[e] < SERVER_FINISHED_COMPLETE

HandshakeInv == TypeOK /\ \A e \in Side : SideInv(e)

LEMMA FreshSession ==
    ASSUME NEW e, NEW config
    PROVE  /\ ~InitSSL(e, config).fragment
           /\ ~InitSSL(e, config).building
           /\ InitSSL(e, config).sendVerify = "NO"
           /\ config.mat = "VC" => InitSSL(e, config).vcMode
           /\ config.mat = "VC" => InitSSL(e, config).hsKey
BY DEF InitSSL, HasVC, HasHsKey

LEMMA InvInit == Init => HandshakeInv
<1> SUFFICES ASSUME Init, NEW e \in Side PROVE SideInv(e)
  BY InitType DEF HandshakeInv
<1>1. /\ ctl[e] = "call" /\ ss[e] = 0 /\ open[e]
      /\ st[e] = IF e = "client" THEN "CONNECT_BEGIN" ELSE "ACCEPT_BEGIN"
      /\ ssl[e] = InitSSL(e, cfg[e])
  BY DEF Init, NULL_STATE
<1>2. /\ ~ssl[e].fragment /\ ~ssl[e].building /\ ssl[e].sendVerify = "NO"
      /\ cfg[e].mat = "VC" => ssl[e].vcMode /\ ssl[e].hsKey
  BY <1>1, FreshSession
<1>3. MessagePlaced(e)
  BY <1>1, <1>2 DEF MessagePlaced, VerifyState
<1>4. KeyHeld(e) /\ KeyFreed(e)
  BY <1>1, <1>2 DEF KeyHeld, KeyFreed
<1>5. e = "client" => ServerProved
  BY <1>1 DEF ServerProved, AfterServer, SERVER_CERT_VERIFY_COMPLETE,
              SERVER_FINISHED_COMPLETE
<1>6. st[e] \in OwnStates(e) /\ ss[e] < SERVER_FINISHED_COMPLETE
  BY <1>1 DEF OwnStates, ConnectStates, AcceptStates, SERVER_FINISHED_COMPLETE
<1> QED
  BY <1>3, <1>4, <1>5, <1>6 DEF SideInv

\* What the invariant reads of side d is the same after the step.
Untouched(d) ==
    /\ cfg'[d] = cfg[d] /\ st'[d] = st[d] /\ ctl'[d] = ctl[d] /\ ss'[d] = ss[d]
    /\ ssl'[d] = ssl[d] /\ seen'[d] = seen[d] /\ sent'[d] = sent[d]
    /\ flushed'[d] = flushed[d] /\ open'[d] = open[d]

LEMMA UntouchedInv ==
    ASSUME NEW d \in Side, SideInv(d), Untouched(d)
    PROVE  SideInv(d)'
<1>1. CASE d = "client"
  BY <1>1 DEF SideInv, Untouched, OwnStates, MessagePlaced, Buffered, KeyHeld, KeyFreed,
         ServerProved, BeforeVerify, CertState, VerifyState, FinishedState
<1>2. CASE d = "server"
  BY <1>2 DEF SideInv, Untouched, OwnStates, MessagePlaced, Buffered, KeyHeld, KeyFreed,
         BeforeVerify, CertState, VerifyState, FinishedState
<1> QED
  BY <1>1, <1>2 DEF Side

LEMMA SendUntouched ==
    ASSUME TypeOK, NEW e \in Side, NEW d \in Side \ {e}, NEW m, NEW next,
           Send(e, m, next),
           ss'[d] = ss[d], ssl'[d] = ssl[d]
    PROVE  Untouched(d)
BY DEF Send, Flush, Stall, Lose, Goto, Fail, Untouched, TypeOK, setup, clocks

LEMMA HandleUntouched ==
    ASSUME TypeOK, NEW e \in Side, NEW d \in Side \ {e}, NEW type,
           Handle(e, type),
           Alert(e) \/ NoAlert,
           ss'[d] = ss[d], ssl'[d] = ssl[d]
    PROVE  Untouched(d)
BY DEF Handle, Alert, NoAlert, Untouched, TypeOK, setup, clocks

LEMMA Frame ==
    ASSUME TypeOK, NEW e \in Side, NEW d \in Side \ {e}, Program(e) \/ TimePasses(e)
    PROVE  Untouched(d)
<1>0. /\ st \in [Side -> States] /\ ctl \in [Side -> {"call", "wants", "ok", "fail"}]
      /\ ss \in [Side -> 0 .. 9] /\ ssl \in [Side -> SSLFields]
      /\ open \in [Side -> BOOLEAN]
  BY DEF TypeOK, States
<1>1. ASSUME e = "client", ClientCall PROVE Untouched(d)
  <2>1. CASE SendClientHello
    BY <1>1, <2>1, SendUntouched DEF SendClientHello
  <2>2. CASE DoServerHello
    BY <1>0, <1>1, <2>2, HandleUntouched DEF DoServerHello, Reach
  <2>3. CASE DoEncryptedExtensions
    BY <1>0, <1>1, <2>3, HandleUntouched DEF DoEncryptedExtensions, Reach
  <2>4. CASE DoCertificateRequest
    BY <1>0, <1>1, <2>4, HandleUntouched DEF DoCertificateRequest
  <2>5. CASE ConnectFallsThrough
    BY <1>0, <1>1, <2>5 DEF ConnectFallsThrough, Goto, Untouched, setup, wire, clocks
  <2>6. CASE CheckServerAuth
    BY <1>0, <1>1, <2>6
       DEF CheckServerAuth, Goto, Fail, Untouched, setup, session, wire, clocks
  <2>7. CASE ConnectSucceeds
    BY <1>0, <1>1, <2>7 DEF ConnectSucceeds, Untouched, setup, session, wire, clocks
  <2> QED
    BY <1>1, <2>1, <2>2, <2>3, <2>4, <2>5, <2>6, <2>7 DEF ClientCall
<1>2. ASSUME e = "server", ServerCall PROVE Untouched(d)
  <2>1. CASE AcceptWithoutCredentials
    BY <1>0, <1>2, <2>1
       DEF AcceptWithoutCredentials, Fail, Untouched, setup, session, wire, clocks
  <2>2. CASE DoClientHello
    BY <1>0, <1>2, <2>2, HandleUntouched DEF DoClientHello, Reach
  <2>3. CASE SendServerHello
    BY <1>0, <1>2, <2>3, SendUntouched DEF SendServerHello, Reach
  <2>4. CASE SendEncryptedExtensions
    BY <1>0, <1>2, <2>4, SendUntouched DEF SendEncryptedExtensions, Reach
  <2>5. CASE SendCertificateRequest
    BY <1>2, <2>5, SendUntouched DEF SendCertificateRequest
  <2>6. CASE AcceptFallsThrough
    BY <1>0, <1>2, <2>6 DEF AcceptFallsThrough, Goto, Untouched, setup, wire, clocks
  <2>7. CASE CheckClientAuth
    BY <1>0, <1>2, <2>7 DEF CheckClientAuth, Goto, Fail, Untouched, setup, wire, clocks
  <2>8. CASE AcceptSucceeds
    BY <1>0, <1>2, <2>8 DEF AcceptSucceeds, Untouched, setup, session, wire, clocks
  <2> QED
    BY <1>2, <2>1, <2>2, <2>3, <2>4, <2>5, <2>6, <2>7, <2>8 DEF ServerCall
<1>3. CASE SendCertificate(e)
  BY <1>0, <1>3, SendUntouched DEF SendCertificate, Reach
<1>4. CASE SendCertificateRest(e)
  BY <1>0, <1>4 DEF SendCertificateRest, Reach, Goto, Untouched, setup, wire, clocks
<1>5. CASE SendCertificateVerify(e)
  <2>1. ssl'[d] = ssl[d] /\ ss'[d] = ss[d]
    BY <1>0, <1>5 DEF SendCertificateVerify
  <2>2. CASE Send(e, Plain("CV"), AfterVerify(e))
    BY <2>1, <2>2, SendUntouched
  <2>3. CASE Fail(e) /\ UNCHANGED <<setup, st, cs, seen, wire, got, clocks>>
    BY <1>0, <2>1, <2>3 DEF Fail, Untouched, setup, wire, clocks
  <2> QED
    BY <1>5, <2>2, <2>3 DEF SendCertificateVerify
<1>6. CASE SendFinished(e)
  BY <1>0, <1>6, SendUntouched DEF SendFinished, Reach
<1>7. CASE DoCertificate(e)
  BY <1>0, <1>7, HandleUntouched DEF DoCertificate, Reach
<1>8. CASE DoCertificateVerify(e)
  BY <1>0, <1>8, HandleUntouched DEF DoCertificateVerify, Reach
<1>9. CASE DoFinished(e)
  BY <1>0, <1>9, HandleUntouched DEF DoFinished, Reach
<1>10. CASE Reject(e)
  BY <1>10 DEF Reject, Fail, Alert, NoAlert, Untouched, TypeOK, setup, clocks
<1>11. CASE DoAlert(e)
  BY <1>0, <1>11 DEF DoAlert, Fail, Untouched, setup, session, wire, clocks
<1>12. CASE ReenterToWrite(e)
  BY <1>12 DEF ReenterToWrite, Flush, Stall, Lose, Goto, Fail, Untouched, TypeOK,
               setup, session, clocks
<1>13. CASE ReenterToRead(e) \/ ReadNothing(e) \/ GiveUp(e) \/ TimePasses(e)
  BY <1>0, <1>13 DEF ReenterToRead, ReadNothing, GiveUp, TimePasses, Fail, Untouched,
                     setup, session, wire, clocks
<1>14. CASE Free(e)
  BY <1>0, <1>14 DEF Free, Untouched, setup, wire
<1> QED
  BY <1>1, <1>2, <1>3, <1>4, <1>5, <1>6, <1>7, <1>8, <1>9, <1>10, <1>11, <1>12, <1>13,
     <1>14 DEF Program

-----------------------------------------------------------------------------
(* The side that takes the step.                                           *)

LEMMA SendEffect ==
    ASSUME TypeOK, NEW e \in Side, NEW m \in Messages, NEW next, Send(e, m, next)
    PROVE  /\ cfg' = cfg /\ open' = open /\ seen' = seen
           /\ sent'[e] = Append(sent[e], m)
           /\ \/ st'[e] = next /\ ctl'[e] = ctl[e]
              \/ st'[e] = st[e] /\ ctl'[e] = "wants" /\ flushed'[e] < Len(sent'[e])
              \/ st'[e] = st[e] /\ ctl'[e] = "fail"
BY DEF Send, Flush, Stall, Lose, Goto, Fail, TypeOK, setup, clocks

LEMMA HandleEffect ==
    ASSUME TypeOK, NEW e \in Side, NEW type, Handle(e, type)
    PROVE  /\ cfg' = cfg /\ open' = open /\ st' = st /\ ctl' = ctl
           /\ ctl[e] = "call"
           /\ e = "client" => st[e] \in {"CLIENT_HELLO_SENT", "HELLO_AGAIN_REPLY"}
           /\ e = "server" => st[e] \in {"ACCEPT_BEGIN", "ACCEPT_FIRST_REPLY_DONE",
                                         "PRE_TICKET_SENT"}
           /\ e = "server" /\ st[e] \in BeforeVerify(e) => cs < CLIENT_HELLO_COMPLETE
           /\ InOrder(e, type)
           /\ seen[e] \subseteq seen'[e]
           /\ type # "HRR" => type \in seen'[e]
<1>1. Awaits(e) /\ InOrder(e, type)
  BY DEF Handle, Accepts
<1>2. /\ cfg' = cfg /\ open' = open /\ st' = st /\ ctl' = ctl
      /\ seen' = [seen EXCEPT ![e] = IF type = "HRR" THEN @ ELSE @ \cup {type}]
  BY DEF Handle, setup, clocks
<1>3. seen[e] \subseteq seen'[e] /\ (type # "HRR" => type \in seen'[e])
  BY <1>2 DEF TypeOK
<1> QED
  BY <1>1, <1>2, <1>3 DEF Awaits, ClientAwaits, ServerAwaits, BeforeVerify

LEMMA ClientCallInv ==
    ASSUME HandshakeInv, ClientCall
    PROVE  SideInv("client")'
<1> USE DEF OwnStates, MessagePlaced, Buffered, KeyHeld, KeyFreed,
            ServerProved, BeforeVerify, AfterServer, CertState, VerifyState,
            FinishedState, ConnectStates, NULL_STATE,
            SERVER_HELLO_RETRY_REQUEST_COMPLETE, SERVER_HELLO_COMPLETE,
            SERVER_ENCRYPTED_EXTENSIONS_COMPLETE, SERVER_CERT_VERIFY_COMPLETE,
            SERVER_FINISHED_COMPLETE
<1>0. /\ "client" \in Side /\ TypeOK /\ SideInv("client")
      /\ st \in [Side -> States] /\ ctl \in [Side -> {"call", "wants", "ok", "fail"}]
      /\ ss \in [Side -> 0 .. 9] /\ ssl \in [Side -> SSLFields]
      /\ cfg["client"].mat \in Materials
  BY DEF HandshakeInv, Side, TypeOK, States, Configurations
<1>1. CASE SendClientHello
  <2> DEFINE m == Hello(cfg["client"])
  <2>1. m \in Messages
    BY HelloType, <1>0 DEF TypeOK
  <2>2. PICK next \in {"CLIENT_HELLO_SENT", "HELLO_AGAIN_REPLY"} : Send("client", m, next)
    BY <1>1 DEF SendClientHello
  <2>3. /\ st["client"] \in {"CONNECT_BEGIN", "HELLO_AGAIN"} /\ ctl["client"] = "call"
        /\ UNCHANGED <<ss, ssl>>
    BY <1>1 DEF SendClientHello, In
  <2> QED
    BY <1>0, <2>1, <2>2, <2>3, SendEffect DEF SideInv
<1>2. CASE DoServerHello
  <2>1. PICK type \in {"SH", "HRR"} : Handle("client", type)
    BY <1>2 DEF DoServerHello
  <2>2. ss'["client"] \in {1, 2} /\ ssl' = ssl
    BY <1>0, <1>2 DEF DoServerHello, Reach
  <2> QED
    BY <1>0, <2>1, <2>2, HandleEffect DEF SideInv
<1>3. CASE DoEncryptedExtensions
  <2>1. /\ Handle("client", "EE") /\ ss'["client"] = 3
    BY <1>0, <1>3 DEF DoEncryptedExtensions, Reach
  <2>2. \E a, b, c : ssl' = [ssl EXCEPT !["client"].srvType = a, !["client"].cltType = b,
                                        !["client"].ssiNegotiated = c]
    BY <1>3 DEF DoEncryptedExtensions
  <2>3. /\ ssl'["client"].fragment = ssl["client"].fragment
        /\ ssl'["client"].building = ssl["client"].building
        /\ ssl'["client"].vcMode = ssl["client"].vcMode
        /\ ssl'["client"].hsKey = ssl["client"].hsKey
        /\ ssl'["client"].sendVerify = ssl["client"].sendVerify
    BY <1>0, <2>2 DEF SSLFields
  <2> QED
    BY <1>0, <2>1, <2>3, HandleEffect DEF SideInv
<1>4. CASE DoCertificateRequest
  <2>1. Handle("client", "CR") /\ ss' = ss
    BY <1>4 DEF DoCertificateRequest
  <2>2. /\ ssl'["client"].fragment = ssl["client"].fragment
        /\ ssl'["client"].building = ssl["client"].building
        /\ ssl'["client"].vcMode = ssl["client"].vcMode
        /\ ssl'["client"].hsKey = ssl["client"].hsKey
        /\ ssl'["client"].authGood = ssl["client"].authGood
        /\ ssl'["client"].sendVerify = "SEND_CERT" => Complete(cfg["client"].mat)
    BY <1>0, <1>4 DEF DoCertificateRequest, SSLFields
  <2> QED
    BY <1>0, <2>1, <2>2, HandleEffect DEF SideInv
<1>5. CASE ConnectFallsThrough
  <2>1. /\ ctl["client"] = "call"
        /\ UNCHANGED <<setup, ctl, ss, cs, seen, wire, got, clocks>>
        /\ ssl'["client"].fragment = ssl["client"].fragment
        /\ ssl'["client"].vcMode = ssl["client"].vcMode
        /\ ssl'["client"].hsKey = ssl["client"].hsKey
        /\ ssl'["client"].authGood = ssl["client"].authGood
        /\ ssl'["client"].sendVerify = ssl["client"].sendVerify
    BY <1>0, <1>5 DEF ConnectFallsThrough, SSLFields
  <2>2. ssl'["client"].building => \/ ssl["client"].building
                                   \/ st["client"] = "FIRST_REPLY_THIRD"
    BY <1>0, <1>5 DEF ConnectFallsThrough, SSLFields
  <2>3. st'["client"] = CASE st["client"] = "CLIENT_HELLO_SENT" -> "HELLO_AGAIN"
                          [] st["client"] = "HELLO_AGAIN" -> "HELLO_AGAIN_REPLY"
                          [] st["client"] = "HELLO_AGAIN_REPLY" -> "FIRST_REPLY_DONE"
                          [] st["client"] = "FIRST_REPLY_DONE" -> "FIRST_REPLY_FIRST"
                          [] st["client"] = "FIRST_REPLY_FIRST" -> "FIRST_REPLY_SECOND"
                          [] OTHER -> "FIRST_REPLY_FOURTH"
    BY <1>0, <1>5 DEF ConnectFallsThrough, Goto
  <2>4. st["client"] \in {"CLIENT_HELLO_SENT", "HELLO_AGAIN", "HELLO_AGAIN_REPLY",
                          "FIRST_REPLY_DONE", "FIRST_REPLY_FIRST", "FIRST_REPLY_THIRD"}
    BY <1>5 DEF ConnectFallsThrough
  <2>5. st["client"] = "HELLO_AGAIN_REPLY" => ss["client"] >= SERVER_FINISHED_COMPLETE
    BY <1>0, <1>5 DEF ConnectFallsThrough, Awaits, ClientAwaits
  <2> QED
    BY <1>0, <2>1, <2>2, <2>3, <2>4, <2>5 DEF SideInv, setup, wire, clocks
<1>6. CASE CheckServerAuth
  <2>1. /\ st["client"] = "FIRST_REPLY_SECOND" /\ ctl["client"] = "call"
        /\ UNCHANGED <<setup, session, wire, got, clocks>>
        /\ \/ st'["client"] = "FIRST_REPLY_THIRD" /\ ctl' = ctl
              /\ (ssl["client"].sendVerify = "NO")
           \/ st' = st /\ ctl'["client"] = "fail"
    BY <1>0, <1>6 DEF CheckServerAuth, In, Goto, Fail
  <2> QED
    BY <1>0, <2>1 DEF SideInv, setup, session, wire, clocks
<1>7. CASE ConnectSucceeds
  <2>1. /\ st["client"] = "FINISHED_DONE" /\ st' = st /\ ctl'["client"] = "ok"
        /\ ctl["client"] = "call"
        /\ UNCHANGED <<setup, session, wire, got, clocks>>
    BY <1>0, <1>7 DEF ConnectSucceeds, In
  <2> QED
    BY <1>0, <2>1 DEF SideInv, setup, session, wire, clocks
<1> QED
  BY <1>1, <1>2, <1>3, <1>4, <1>5, <1>6, <1>7 DEF ClientCall

LEMMA ServerCallInv ==
    ASSUME HandshakeInv, ServerCall
    PROVE  SideInv("server")'
<1> USE DEF OwnStates, MessagePlaced, Buffered, KeyHeld, KeyFreed,
            BeforeVerify, CertState, VerifyState, FinishedState, AcceptStates,
            NULL_STATE, SERVER_HELLO_RETRY_REQUEST_COMPLETE, SERVER_HELLO_COMPLETE,
            SERVER_ENCRYPTED_EXTENSIONS_COMPLETE, SERVER_FINISHED_COMPLETE,
            CLIENT_HELLO_COMPLETE
<1>0. /\ "server" \in Side /\ TypeOK /\ SideInv("server")
      /\ st \in [Side -> States] /\ ctl \in [Side -> {"call", "wants", "ok", "fail"}]
      /\ ss \in [Side -> 0 .. 9] /\ ssl \in [Side -> SSLFields]
      /\ cfg["server"].mat \in Materials
  BY DEF HandshakeInv, Side, TypeOK, States, Configurations
<1>1. CASE AcceptWithoutCredentials
  <2>1. /\ st' = st /\ ctl'["server"] = "fail" /\ ctl["server"] = "call"
        /\ UNCHANGED <<setup, session, wire, got, clocks>>
    BY <1>0, <1>1 DEF AcceptWithoutCredentials, Fail
  <2> QED
    BY <1>0, <2>1 DEF SideInv, setup, session, wire, clocks
<1>2. CASE DoClientHello
  <2>1. Handle("server", "CH")
    BY <1>2 DEF DoClientHello
  <2>2. ss'["server"] \in {ss["server"], 1}
    BY <1>0, <1>2 DEF DoClientHello, Reach
  <2>3. \E a, b, c, d, f :
            ssl' = [ssl EXCEPT !["server"].sendVerify = a, !["server"].srvType = b,
                               !["server"].cltType = c, !["server"].cltOffered = d,
                               !["server"].ssiNegotiated = f]
    BY <1>2 DEF DoClientHello
  <2>4. /\ ssl'["server"].fragment = ssl["server"].fragment
        /\ ssl'["server"].building = ssl["server"].building
        /\ ssl'["server"].vcMode = ssl["server"].vcMode
        /\ ssl'["server"].hsKey = ssl["server"].hsKey
    BY <1>0, <2>3 DEF SSLFields
  <2>5. ssl'["server"].sendVerify = "SEND_CERT"
    BY <1>0, <1>2 DEF DoClientHello, SSLFields
  <2>6. st["server"] = "ACCEPT_BEGIN" => Complete(cfg["server"].mat)
    BY <2>1 DEF Handle, Awaits, ServerAwaits
  <2> QED
    BY <1>0, <2>1, <2>2, <2>4, <2>5, <2>6, HandleEffect DEF SideInv
<1>3. CASE SendServerHello
  <2>1. PICK m \in {Plain("HRR"), Plain("SH")},
             next \in {"ACCEPT_HELLO_RETRY_REQUEST_DONE", "SERVER_HELLO_SENT"} :
            Send("server", m, next)
    BY <1>3 DEF SendServerHello
  <2>2. m \in Messages
    BY DEF Plain, Messages
  <2>3. /\ st["server"] \in {"ACCEPT_CLIENT_HELLO_DONE", "ACCEPT_SECOND_REPLY_DONE"}
        /\ ctl["server"] = "call" /\ ssl' = ssl
        /\ ss'["server"] \in {ss["server"], 2}
    BY <1>0, <1>3 DEF SendServerHello, In, Reach
  <2> QED
    BY <1>0, <2>1, <2>2, <2>3, SendEffect DEF SideInv
<1>4. CASE SendEncryptedExtensions
  <2> DEFINE m == Answer(ssl["server"])
  <2>1. m \in Messages
    BY <1>0 DEF Answer, Messages, SSLFields
  <2>2. /\ Send("server", m, "SERVER_EXTENSIONS_SENT")
        /\ st["server"] = "ACCEPT_THIRD_REPLY_DONE"
        /\ ctl["server"] = "call" /\ ssl' = ssl /\ ss'["server"] = 3
    BY <1>0, <1>4 DEF SendEncryptedExtensions, In, Reach
  <2> HIDE DEF m
  <2> QED
    BY <1>0, <2>1, <2>2, SendEffect DEF SideInv
<1>5. CASE SendCertificateRequest
  <2>1. /\ Send("server", Plain("CR"), "CERT_REQ_SENT")
        /\ st["server"] = "SERVER_EXTENSIONS_SENT"
        /\ ctl["server"] = "call" /\ ssl' = ssl /\ ss' = ss
    BY <1>0, <1>5 DEF SendCertificateRequest, In
  <2>2. Plain("CR") \in Messages
    BY DEF Plain, Messages
  <2> QED
    BY <1>0, <2>1, <2>2, SendEffect DEF SideInv
<1>6. CASE AcceptFallsThrough
  <2>1. /\ ctl["server"] = "call"
        /\ UNCHANGED <<setup, ctl, ss, seen, wire, got, clocks>>
        /\ ssl'["server"].fragment = ssl["server"].fragment
        /\ ssl'["server"].building = ssl["server"].building
        /\ ssl'["server"].vcMode = ssl["server"].vcMode
        /\ ssl'["server"].hsKey = ssl["server"].hsKey
        /\ ssl'["server"].sendVerify = ssl["server"].sendVerify
    BY <1>0, <1>6 DEF AcceptFallsThrough, SSLFields
  <2>2. \/ /\ st["server"] = "ACCEPT_BEGIN" /\ Complete(cfg["server"].mat)
           /\ st'["server"] = "ACCEPT_CLIENT_HELLO_DONE"
        \/ /\ st["server"] \in {"ACCEPT_CLIENT_HELLO_DONE",
                 "ACCEPT_HELLO_RETRY_REQUEST_DONE", "ACCEPT_FIRST_REPLY_DONE",
                 "SERVER_HELLO_SENT", "SERVER_EXTENSIONS_SENT"}
           /\ st'["server"] \in {"ACCEPT_HELLO_RETRY_REQUEST_DONE",
                 "ACCEPT_FIRST_REPLY_DONE", "ACCEPT_SECOND_REPLY_DONE",
                 "ACCEPT_THIRD_REPLY_DONE", "CERT_REQ_SENT"}
        \/ /\ st["server"] \in {"ACCEPT_FINISHED_SENT", "PRE_TICKET_SENT"}
           /\ st'["server"] \in {"PRE_TICKET_SENT", "ACCEPT_FINISHED_DONE"}
    BY <1>0, <1>6 DEF AcceptFallsThrough, Goto
  <2> QED
    BY <1>0, <2>1, <2>2 DEF SideInv, setup, wire, clocks
<1>7. CASE CheckClientAuth
  <2>1. /\ st["server"] = "ACCEPT_FINISHED_DONE" /\ ctl["server"] = "call"
        /\ UNCHANGED <<setup, ss, cs, seen, wire, got, clocks>>
        /\ ssl'["server"].fragment = ssl["server"].fragment
        /\ ssl'["server"].building = ssl["server"].building
        /\ ssl'["server"].vcMode = ssl["server"].vcMode
        /\ ssl'["server"].hsKey = ssl["server"].hsKey
        /\ ssl'["server"].sendVerify = ssl["server"].sendVerify
        /\ \/ st'["server"] = "TICKET_SENT" /\ ctl' = ctl
           \/ st' = st /\ ctl'["server"] = "fail"
    BY <1>0, <1>7 DEF CheckClientAuth, In, Goto, Fail, SSLFields
  <2> QED
    BY <1>0, <2>1 DEF SideInv, setup, wire, clocks
<1>8. CASE AcceptSucceeds
  <2>1. /\ st["server"] = "TICKET_SENT" /\ st' = st /\ ctl'["server"] = "ok"
        /\ ctl["server"] = "call"
        /\ UNCHANGED <<setup, session, wire, got, clocks>>
    BY <1>0, <1>8 DEF AcceptSucceeds, In
  <2> QED
    BY <1>0, <2>1 DEF SideInv, setup, session, wire, clocks
<1> QED
  BY <1>1, <1>2, <1>3, <1>4, <1>5, <1>6, <1>7, <1>8 DEF ServerCall

LEMMA SharedInv ==
    ASSUME HandshakeInv, NEW e \in Side,
           \/ SendCertificate(e) \/ SendCertificateRest(e)
           \/ SendCertificateVerify(e) \/ SendFinished(e)
           \/ DoCertificate(e) \/ DoCertificateVerify(e) \/ DoFinished(e)
           \/ Reject(e) \/ DoAlert(e)
    PROVE  SideInv(e)'
<1> USE DEF OwnStates, MessagePlaced, Buffered, KeyHeld, KeyFreed, ServerProved,
            BeforeVerify, AfterServer, CertState, VerifyState, FinishedState,
            ConnectStates, AcceptStates, SERVER_CERT_COMPLETE,
            SERVER_CERT_VERIFY_COMPLETE, SERVER_FINISHED_COMPLETE,
            CLIENT_HELLO_COMPLETE
<1>0. /\ TypeOK /\ SideInv(e)
      /\ st \in [Side -> States] /\ ctl \in [Side -> {"call", "wants", "ok", "fail"}]
      /\ ss \in [Side -> 0 .. 9] /\ ssl \in [Side -> SSLFields]
      /\ cfg[e].mat \in Materials
      /\ e = "client" \/ e = "server"
  BY DEF HandshakeInv, Side, TypeOK, States, Configurations
<1>1. CASE SendCertificate(e)
  <2>1. PICK m : m \in Messages /\ Send(e, m, VerifyState(e))
    BY <1>0, <1>1 DEF SendCertificate, AfterCert, Certificate, Messages
  <2>2. /\ st[e] = CertState(e) /\ ctl[e] = "call" /\ ssl[e].sendVerify # "NO"
        /\ ss'[e] = ss[e] \/ (e = "server" /\ ss'[e] = 4)
    BY <1>0, <1>1 DEF SendCertificate, In, Reach
  <2>3. \E b : ssl' = [ssl EXCEPT ![e].building = FALSE, ![e].fragment = b]
    BY <1>1 DEF SendCertificate
  <2>4. /\ ~ssl'[e].building
        /\ ssl'[e].vcMode = ssl[e].vcMode /\ ssl'[e].hsKey = ssl[e].hsKey
        /\ ssl'[e].sendVerify = ssl[e].sendVerify
        /\ ssl'[e].authGood = ssl[e].authGood
    BY <1>0, <2>3 DEF SSLFields
  <2>5. ssl'[e].fragment => ctl'[e] = "wants"
    BY <1>0, <1>1 DEF SendCertificate, SSLFields
  <2> QED
    BY <1>0, <2>1, <2>2, <2>4, <2>5, SendEffect DEF SideInv
<1>2. CASE SendCertificateRest(e)
  <2>1. /\ st[e] = CertState(e) /\ ctl[e] = "call"
        /\ st'[e] = VerifyState(e)
        /\ ss'[e] = ss[e] \/ (e = "server" /\ ss'[e] = 4)
        /\ UNCHANGED <<setup, ctl, cs, seen, wire, got, clocks>>
    BY <1>0, <1>2 DEF SendCertificateRest, In, Reach, Goto, AfterCert
  <2>2. ssl' = [ssl EXCEPT ![e].building = FALSE, ![e].fragment = FALSE]
    BY <1>2 DEF SendCertificateRest
  <2>3. /\ ~ssl'[e].building /\ ~ssl'[e].fragment
        /\ ssl'[e].vcMode = ssl[e].vcMode /\ ssl'[e].hsKey = ssl[e].hsKey
        /\ ssl'[e].sendVerify = ssl[e].sendVerify
        /\ ssl'[e].authGood = ssl[e].authGood
    BY <1>0, <2>2 DEF SSLFields
  <2> QED
    BY <1>0, <2>1, <2>3 DEF SideInv, setup, wire, clocks
<1>3. CASE SendCertificateVerify(e)
  <2>1. /\ st[e] = VerifyState(e) /\ ctl[e] = "call" /\ ss' = ss
    BY <1>3 DEF SendCertificateVerify, In
  <2> DEFINE unsigned == ~CanSign(e)
  <2>2. \E b : ssl' = [ssl EXCEPT ![e].building = unsigned, ![e].hsKey = b]
    BY <1>3 DEF SendCertificateVerify
  <2> HIDE DEF unsigned
  <2>3. /\ ssl'[e].fragment = ssl[e].fragment
        /\ ssl'[e].vcMode = ssl[e].vcMode
        /\ ssl'[e].sendVerify = ssl[e].sendVerify
        /\ ssl'[e].authGood = ssl[e].authGood
        /\ ssl'[e].building = unsigned
    BY <1>0, <2>2 DEF SSLFields
  <2>4. CASE CanSign(e)
    <3>1. Send(e, Plain("CV"), FinishedState(e))
      BY <1>3, <2>4 DEF SendCertificateVerify, AfterVerify
    <3>2. Plain("CV") \in Messages
      BY DEF Plain, Messages
    <3>3. ~ssl'[e].building
      BY <2>3, <2>4 DEF unsigned
    <3> QED
      BY <1>0, <2>1, <2>3, <3>1, <3>2, <3>3, SendEffect DEF SideInv
  <2>5. CASE ~CanSign(e)
    <3>1. ctl'[e] = "fail" /\ UNCHANGED <<setup, st, cs, seen, wire, got, clocks>>
      BY <1>0, <1>3, <2>5 DEF SendCertificateVerify, Fail
    <3> QED
      BY <1>0, <2>1, <2>3, <3>1 DEF SideInv, setup, wire, clocks
  <2> QED
    BY <2>4, <2>5
<1>4. CASE SendFinished(e)
  <2>1. Send(e, Plain("FIN"), AfterFinished(e)) /\ Plain("FIN") \in Messages
    BY <1>4 DEF SendFinished, Plain, Messages
  <2>2. /\ st[e] = FinishedState(e) /\ ctl[e] = "call"
        /\ ss'[e] = ss[e] \/ (e = "server" /\ ss'[e] = 6)
        /\ ssl' = [ssl EXCEPT ![e].building = FALSE]
    BY <1>0, <1>4 DEF SendFinished, In, Reach
  <2>3. /\ ~ssl'[e].building /\ ssl'[e].fragment = ssl[e].fragment
        /\ ssl'[e].vcMode = ssl[e].vcMode /\ ssl'[e].hsKey = ssl[e].hsKey
        /\ ssl'[e].sendVerify = ssl[e].sendVerify
        /\ ssl'[e].authGood = ssl[e].authGood
    BY <1>0, <2>2 DEF SSLFields
  <2>4. CASE e = "client"
    BY <1>0, <2>1, <2>2, <2>3, <2>4, SendEffect DEF SideInv, AfterFinished
  <2>5. CASE e = "server"
    BY <1>0, <2>1, <2>2, <2>3, <2>5, SendEffect DEF SideInv, AfterFinished
  <2> QED
    BY <1>0, <2>4, <2>5
<1>5. CASE DoCertificate(e)
  <2>1. Handle(e, "CERT")
    BY <1>5 DEF DoCertificate
  <2>2. ss'[e] = IF e = "client" THEN 4 ELSE ss[e]
    BY <1>0, <1>5 DEF DoCertificate, Reach
  <2>3. PICK a \in BOOLEAN, b \in BOOLEAN, k \in BOOLEAN :
            /\ ssl' = [ssl EXCEPT ![e] = [[ssl[e] EXCEPT !.peerCert = a, !.vcMode = b]
                                              EXCEPT !.hsKey = k]]
            /\ ssl[e].vcMode => b
            /\ e = "client" /\ ss[e] < 6 /\ ssl[e].hsKey /\ b => k
    <3> DEFINE a == Incoming(e).kind # "blank"
               b == ssl[e].vcMode \/ Incoming(e).kind = "VC"
               after == [ssl[e] EXCEPT !.peerCert = a, !.vcMode = b]
               k == KeyKept(e, after, ss[e])
    <3>1. a \in BOOLEAN /\ b \in BOOLEAN /\ (ssl[e].vcMode => b)
      BY <1>0 DEF SSLFields
    <3>2. after.hsKey = ssl[e].hsKey /\ after.vcMode = b
      BY <1>0 DEF SSLFields
    <3>3. k \in BOOLEAN /\ (e = "client" /\ ss[e] < 6 /\ ssl[e].hsKey /\ b => k)
      BY <1>0, <3>1, <3>2 DEF KeyKept, SSLFields
    <3>4. ssl' = [ssl EXCEPT ![e] = [after EXCEPT !.hsKey = k]]
      BY <1>5 DEF DoCertificate
    <3> QED
      BY <3>1, <3>3, <3>4
  <2>4. /\ ssl'[e].fragment = ssl[e].fragment
        /\ ssl'[e].building = ssl[e].building
        /\ ssl'[e].sendVerify = ssl[e].sendVerify
        /\ ssl'[e].authGood = ssl[e].authGood
        /\ ssl'[e].vcMode = b /\ ssl'[e].hsKey = k
    BY <1>0, <2>3 DEF SSLFields
  <2>5. CASE e = "client"
    <3>1. ss[e] = 3 /\ st[e] = "HELLO_AGAIN_REPLY"
      BY <2>1, <2>5 DEF Handle, Accepts, InOrder, Awaits, ClientAwaits,
           SERVER_ENCRYPTED_EXTENSIONS_COMPLETE, SERVER_HELLO_RETRY_REQUEST_COMPLETE
    <3> QED
      BY <1>0, <2>1, <2>2, <2>3, <2>4, <2>5, <3>1, HandleEffect DEF SideInv
  <2>6. CASE e = "server"
    <3>1. st[e] = "PRE_TICKET_SENT"
      BY <1>0, <2>1, <2>6, HandleEffect DEF SideInv, InOrder
    <3> QED
      BY <1>0, <2>1, <2>2, <2>3, <2>4, <2>6, <3>1, HandleEffect DEF SideInv
  <2> QED
    BY <1>0, <2>5, <2>6
<1>6. CASE DoCertificateVerify(e)
  <2>1. Handle(e, "CV")
    BY <1>6 DEF DoCertificateVerify
  <2>2. ss'[e] = IF e = "client" THEN 5 ELSE ss[e]
    BY <1>0, <1>6 DEF DoCertificateVerify, Reach
  <2>3. ssl' = [ssl EXCEPT ![e].authGood = TRUE, ![e].peerVerify = TRUE,
                           ![e].hsKey = KeyKept(e, ssl[e], ss'[e])]
    BY <1>6 DEF DoCertificateVerify
  <2>4. /\ ssl'[e].fragment = ssl[e].fragment
        /\ ssl'[e].building = ssl[e].building
        /\ ssl'[e].sendVerify = ssl[e].sendVerify
        /\ ssl'[e].authGood
        /\ ssl'[e].vcMode = ssl[e].vcMode
    BY <1>0, <2>3 DEF SSLFields
  <2>5. e = "client" /\ ssl[e].hsKey /\ ssl[e].vcMode => ssl'[e].hsKey
    BY <1>0, <2>2, <2>3 DEF SSLFields, KeyKept
  <2> QED
    BY <1>0, <2>1, <2>2, <2>4, <2>5, HandleEffect DEF SideInv, InOrder
<1>7. CASE DoFinished(e)
  <2>1. Handle(e, "FIN") /\ ssl' = ssl
    BY <1>7 DEF DoFinished
  <2>2. ss'[e] = IF e = "client" THEN 6 ELSE ss[e]
    BY <1>0, <1>7 DEF DoFinished, Reach
  <2> QED
    BY <1>0, <2>1, <2>2, HandleEffect DEF SideInv, InOrder
<1>8. CASE Reject(e)
  <2>1. /\ ctl'[e] = "fail" /\ ctl[e] = "call" /\ cfg' = cfg /\ open' = open
        /\ st' = st /\ ss' = ss /\ seen' = seen
    BY <1>0, <1>8 DEF Reject, Fail, Awaits, setup, clocks
  <2>2. \E b : ssl' = [ssl EXCEPT ![e].hsKey = b]
    BY <1>8 DEF Reject
  <2>3. /\ ssl'[e].fragment = ssl[e].fragment
        /\ ssl'[e].building = ssl[e].building
        /\ ssl'[e].sendVerify = ssl[e].sendVerify
        /\ ssl'[e].authGood = ssl[e].authGood
        /\ ssl'[e].vcMode = ssl[e].vcMode
    BY <1>0, <2>2 DEF SSLFields
  <2> QED
    BY <1>0, <2>1, <2>3 DEF SideInv
<1>9. CASE DoAlert(e)
  <2>1. /\ ctl'[e] = "fail" /\ ctl[e] = "call"
        /\ UNCHANGED <<setup, st, session, wire, clocks>>
    BY <1>0, <1>9 DEF DoAlert, Fail, Awaits
  <2> QED
    BY <1>0, <2>1 DEF SideInv, setup, session, wire, clocks
<1> QED
  BY <1>1, <1>2, <1>3, <1>4, <1>5, <1>6, <1>7, <1>8, <1>9

\* connectState++ and acceptState++ follow the order of the switches.
LEMMA AfterFlushOrder ==
    ASSUME NEW e \in Side, NEW s \in DOMAIN AfterFlush, s \in OwnStates(e)
    PROVE  /\ AfterFlush[s] \in OwnStates(e) \ {"ACCEPT_BEGIN"}
           /\ s # "ACCEPT_BEGIN"
           /\ e = "client" /\ AfterFlush[s] \in AfterServer => s \in AfterServer
           /\ AfterFlush[s] \in BeforeVerify(e) => s \in BeforeVerify(e)
           /\ AfterFlush[s] = VerifyState(e) => s \in BeforeVerify(e)
<1>1. CASE e = "client"
  BY <1>1 DEF AfterFlush, OwnStates, ConnectStates, AfterServer, BeforeVerify, VerifyState
<1>2. CASE e = "server"
  BY <1>2 DEF AfterFlush, OwnStates, AcceptStates, BeforeVerify, VerifyState
<1> QED
  BY <1>1, <1>2 DEF Side

LEMMA LoopInv ==
    ASSUME HandshakeInv, NEW e \in Side,
           \/ ReenterToWrite(e) \/ ReenterToRead(e) \/ ReadNothing(e)
           \/ TimePasses(e) \/ GiveUp(e) \/ Free(e)
    PROVE  SideInv(e)'
<1> USE DEF MessagePlaced, Buffered, KeyHeld, KeyFreed, ServerProved,
            SERVER_CERT_VERIFY_COMPLETE, SERVER_FINISHED_COMPLETE
<1>0. /\ TypeOK /\ SideInv(e)
      /\ st \in [Side -> States] /\ ctl \in [Side -> {"call", "wants", "ok", "fail"}]
      /\ ss \in [Side -> 0 .. 9] /\ ssl \in [Side -> SSLFields]
      /\ open \in [Side -> BOOLEAN] /\ flushed \in [Side -> Nat]
      /\ e = "client" \/ e = "server"
  BY DEF HandshakeInv, Side, TypeOK, States
<1>1. VerifyState(e) \in DOMAIN AfterFlush /\ VerifyState(e) \notin BeforeVerify(e)
      /\ CertState(e) # VerifyState(e) /\ FinishedState(e) # VerifyState(e)
  BY <1>0 DEF VerifyState, CertState, FinishedState, BeforeVerify, AfterFlush
<1>2. CASE ReenterToWrite(e)
  <2>1. /\ ctl[e] = "wants" /\ UNCHANGED <<setup, session, sent, got, clocks>>
    BY <1>2 DEF ReenterToWrite
  <2>2. CASE /\ Flush(e, sent[e])
             /\ ctl' = [ctl EXCEPT ![e] = "call"]
             /\ IF CaseComplete(e) THEN Goto(e, AfterFlush[st[e]]) ELSE UNCHANGED st
    <3>1. ctl'[e] = "call"
      BY <1>0, <2>2
    <3>2. CASE CaseComplete(e)
      <4>1. /\ ~ssl[e].fragment /\ ~ssl[e].building /\ st[e] \in DOMAIN AfterFlush
            /\ st'[e] = AfterFlush[st[e]]
        BY <1>0, <2>2, <3>2 DEF CaseComplete, Goto
      <4>2. st[e] \in OwnStates(e)
        BY <1>0 DEF SideInv
      <4>3. /\ st'[e] \in OwnStates(e) \ {"ACCEPT_BEGIN"} /\ st[e] # "ACCEPT_BEGIN"
            /\ e = "client" /\ st'[e] \in AfterServer => st[e] \in AfterServer
            /\ st'[e] \in BeforeVerify(e) => st[e] \in BeforeVerify(e)
            /\ st'[e] = VerifyState(e) => st[e] \in BeforeVerify(e)
        BY <4>1, <4>2, AfterFlushOrder
      <4>4. /\ cfg' = cfg /\ ss' = ss /\ ssl' = ssl /\ seen' = seen /\ open' = open
            /\ sent' = sent
        BY <2>1 DEF setup, session, clocks
      <4>5. MessagePlaced(e)' /\ KeyFreed(e)'
        BY <1>0, <2>1, <3>1, <4>1, <4>4 DEF SideInv
      <4>6. KeyHeld(e)'
        BY <1>0, <1>1, <2>1, <4>3, <4>4 DEF SideInv
      <4>7. e = "client" => ServerProved'
        BY <1>0, <4>3, <4>4 DEF SideInv
      <4> QED
        BY <1>0, <4>3, <4>4, <4>5, <4>6, <4>7 DEF SideInv, OwnStates, BeforeVerify
    <3>3. CASE ~CaseComplete(e)
      <4>1. st' = st
        BY <2>2, <3>3
      <4>2. st[e] # VerifyState(e)
        BY <1>0, <1>1, <2>1, <3>3 DEF CaseComplete, SideInv
      <4> QED
        BY <1>0, <2>1, <3>1, <4>1, <4>2 DEF SideInv, setup, session, clocks
    <3> QED
      BY <3>2, <3>3
  <2>3. CASE Stall(e, sent[e])
    <3>1. ctl' = ctl /\ st' = st /\ flushed'[e] < Len(sent[e])
      BY <1>0, <2>1, <2>3 DEF Stall, TypeOK
    <3> QED
      BY <1>0, <2>1, <3>1 DEF SideInv, setup, session, clocks
  <2>4. CASE Lose(e)
    <3>1. ctl'[e] = "fail" /\ st' = st
      BY <1>0, <2>4 DEF Lose, Fail
    <3> QED
      BY <1>0, <2>1, <3>1 DEF SideInv, setup, session, clocks
  <2> QED
    BY <1>2, <2>2, <2>3, <2>4 DEF ReenterToWrite
<1>3. CASE ReenterToRead(e)
  <2>1. /\ ctl[e] = "wants" /\ ~Buffered(e) /\ ctl'[e] = "call"
        /\ UNCHANGED <<setup, st, session, wire, got, clocks>>
    BY <1>0, <1>3 DEF ReenterToRead
  <2> QED
    BY <1>0, <2>1 DEF SideInv, setup, session, wire, clocks
<1>4. CASE ReadNothing(e)
  <2>1. /\ ctl[e] = "call" /\ ctl'[e] \in {"wants", "fail"} /\ st[e] # VerifyState(e)
        /\ UNCHANGED <<setup, st, session, wire, got, clocks>>
    BY <1>0, <1>4 DEF ReadNothing, Fail, Awaits, ClientAwaits, ServerAwaits, VerifyState
  <2> QED
    BY <1>0, <2>1 DEF SideInv, setup, session, wire, clocks
<1>5. CASE TimePasses(e)
  <2>1. UNCHANGED <<setup, st, ctl, session, wire, got, open>>
    BY <1>5 DEF TimePasses
  <2> QED
    BY <1>0, <2>1 DEF SideInv, setup, session, wire
<1>6. CASE GiveUp(e)
  <2>1. /\ ctl[e] = "wants" /\ ctl'[e] = "fail"
        /\ UNCHANGED <<setup, st, session, wire, got, clocks>>
    BY <1>0, <1>6 DEF GiveUp, Fail
  <2> QED
    BY <1>0, <2>1 DEF SideInv, setup, session, wire, clocks
<1>7. CASE Free(e)
  <2> DEFINE kept == KeyKept(e, ssl[e], ss[e])
  <2>1. ctl[e] = "ok" => ~kept
    BY <1>0, <1>7 DEF SideInv, KeyKept, AfterServer, OwnStates, ConnectStates
  <2>2. /\ ctl[e] \in {"ok", "fail"}
        /\ ssl' = [ssl EXCEPT ![e].hsKey = kept]
        /\ UNCHANGED <<setup, st, ctl, ss, cs, seen, wire, got>>
    BY <1>7 DEF Free
  <2> HIDE DEF kept
  <2>3. /\ ssl'[e].fragment = ssl[e].fragment
        /\ ssl'[e].building = ssl[e].building
        /\ ssl'[e].sendVerify = ssl[e].sendVerify
        /\ ssl'[e].authGood = ssl[e].authGood
        /\ ssl'[e].vcMode = ssl[e].vcMode
        /\ ssl'[e].hsKey = kept
    BY <1>0, <2>2 DEF SSLFields
  <2> QED
    BY <1>0, <2>1, <2>2, <2>3 DEF SideInv, setup, wire
<1> QED
  BY <1>2, <1>3, <1>4, <1>5, <1>6, <1>7

LEMMA InvNext == HandshakeInv /\ [Next]_vars => HandshakeInv'
<1> SUFFICES ASSUME HandshakeInv, [Next]_vars PROVE HandshakeInv'
  OBVIOUS
<1>1. TypeOK'
  BY NextType DEF HandshakeInv
<1>2. ASSUME NEW e \in Side, Program(e) \/ TimePasses(e), NEW d \in Side
      PROVE  SideInv(d)'
  <2>1. CASE d = e
    BY <1>2, <2>1, ClientCallInv, ServerCallInv, SharedInv, LoopInv DEF Program
  <2>2. CASE d # e
    BY <1>2, <2>2, Frame, UntouchedInv DEF HandshakeInv
  <2> QED
    BY <2>1, <2>2
<1>3. ASSUME UNCHANGED vars, NEW d \in Side PROVE SideInv(d)'
  BY <1>3, UntouchedInv DEF HandshakeInv, Untouched, vars, setup, session, wire, clocks
<1> QED
  BY <1>1, <1>2, <1>3 DEF HandshakeInv, Next

\* Where each side's switch stands says which of its messages are behind it,
\* whether its key still exists and what its peer has proved.
THEOREM HandshakeInvariant == Spec => []HandshakeInv
BY InvInit, InvNext, PTL DEF Spec

-----------------------------------------------------------------------------
(* What follows from it.                                                   *)

\* CertificateVerify is never built without the loaded private key: the patch
\* of FreeKeyExchange keeps it over the server's Certificate and
\* CertificateVerify, for any configurations and however often writes block.
THEOREM KeyReady == Spec => []SigningKeyReady
<1>1. HandshakeInv => SigningKeyReady
  <2> SUFFICES ASSUME HandshakeInv, NEW e \in Side, ctl[e] = "call",
                      st[e] = VerifyState(e), ssl[e].sendVerify = "SEND_CERT"
               PROVE  CanSign(e)
    BY DEF SigningKeyReady
  <2>1. KeyHeld(e) /\ cfg[e].mat \in Materials
    BY DEF HandshakeInv, SideInv, TypeOK, Configurations
  <2>2. VerifyState(e) \notin BeforeVerify(e)
    BY DEF VerifyState, BeforeVerify
  <2> QED
    BY <2>1, <2>2 DEF KeyHeld, CanSign, Complete
<1> QED
  BY <1>1, HandshakeInvariant, PTL

\* A session freed after a success holds no key: the patch keeps it only
\* while the server's Finished is still to come.
THEOREM KeyFreedOnSuccess == Spec => []KeyFreedAfterSuccess
<1>1. HandshakeInv => KeyFreedAfterSuccess
  BY DEF HandshakeInv, SideInv, KeyFreed, KeyFreedAfterSuccess
<1> QED
  BY <1>1, HandshakeInvariant, PTL

\* What the client's step may append to its output, and where it stands then.
LEMMA ClientSends ==
    ASSUME HandshakeInv, Program("client"), sent'["client"] # sent["client"]
    PROVE  \/ Last(sent'["client"]).t \in {"CH", "ALERT"}
           \/ st["client"] \in {"FIRST_REPLY_SECOND", "FIRST_REPLY_THIRD",
                                "FIRST_REPLY_FOURTH"}
<1>0. "client" \in Side /\ TypeOK
  BY DEF HandshakeInv, Side
<1>1. \A m \in Messages : Last(Append(sent["client"], m)) = m
  BY <1>0 DEF TypeOK, Last
<1>2. CASE ClientCall
  <2>1. CASE SendClientHello
    <3>1. Hello(cfg["client"]) \in Messages
      BY HelloType, <1>0 DEF TypeOK
    <3>2. PICK next : Send("client", Hello(cfg["client"]), next)
      BY <2>1 DEF SendClientHello
    <3>3. sent'["client"] = Append(sent["client"], Hello(cfg["client"]))
      BY <1>0, <3>1, <3>2, SendEffect
    <3>4. Hello(cfg["client"]).t = "CH"
      BY DEF Hello
    <3> QED
      BY <1>1, <3>1, <3>3, <3>4
  <2>2. CASE DoServerHello \/ DoEncryptedExtensions \/ DoCertificateRequest
    BY <2>2 DEF DoServerHello, DoEncryptedExtensions, DoCertificateRequest, NoAlert
  <2>3. CASE ConnectFallsThrough \/ CheckServerAuth \/ ConnectSucceeds
    BY <2>3 DEF ConnectFallsThrough, CheckServerAuth, ConnectSucceeds, wire
  <2> QED
    BY <1>2, <2>1, <2>2, <2>3 DEF ClientCall
<1>3. CASE Alert("client")
  BY <1>0, <1>1, <1>3 DEF Alert, TypeOK, Plain, Messages
<1>4. CASE DoCertificate("client") \/ DoCertificateVerify("client")
           \/ DoFinished("client") \/ Reject("client") \/ DoAlert("client")
  BY <1>3, <1>4 DEF DoCertificate, DoCertificateVerify, DoFinished, Reject, DoAlert,
                    NoAlert, wire
<1>5. CASE SendCertificate("client") \/ SendCertificateVerify("client")
           \/ SendFinished("client")
  BY <1>5 DEF SendCertificate, SendCertificateVerify, SendFinished, In, CertState,
              VerifyState, FinishedState
<1>6. CASE SendCertificateRest("client")
  BY <1>6 DEF SendCertificateRest, wire
<1>7. CASE ReenterToWrite("client") \/ ReenterToRead("client") \/ ReadNothing("client")
           \/ GiveUp("client") \/ Free("client")
  BY <1>7 DEF ReenterToWrite, ReenterToRead, ReadNothing, GiveUp, Free, wire
<1> QED
  BY <1>2, <1>4, <1>5, <1>6, <1>7 DEF Program

\* The client shows no certificate and signs nothing before the server's
\* signature and Finished have been checked.
THEOREM ClientWaits == Spec => ClientWaitsForServer
<1>1. HandshakeInv /\ [Next]_vars => [ClientSendsAfterServer]_vars
  <2> SUFFICES ASSUME HandshakeInv, Next, sent'["client"] # sent["client"],
                      Last(sent'["client"]).t \in {"CERT", "CV", "FIN"}
               PROVE  ssl["client"].authGood /\ "FIN" \in seen["client"]
    BY DEF ClientSendsAfterServer
  <2>1. "client" \in Side /\ "server" \in Side /\ TypeOK
    BY DEF HandshakeInv, Side
  <2>2. PICK e \in Side : Program(e) \/ TimePasses(e)
    BY DEF Next
  <2>3. e = "client"
    BY <2>1, <2>2, Frame DEF Untouched
  <2>4. Program("client")
    BY <2>2, <2>3 DEF TimePasses, wire
  <2>5. st["client"] \in AfterServer
    BY <2>4, ClientSends DEF AfterServer
  <2>6. ServerProved /\ ss["client"] \in 0 .. 9
    BY <2>1 DEF HandshakeInv, SideInv, TypeOK
  <2> QED
    BY <2>5, <2>6 DEF ServerProved, SERVER_CERT_VERIFY_COMPLETE, SERVER_FINISHED_COMPLETE
<1> QED
  BY <1>1, HandshakeInvariant, PTL DEF Spec, ClientWaitsForServer

=============================================================================
