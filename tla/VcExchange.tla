----------------------------- MODULE VcExchange -----------------------------
(***************************************************************************)
(* The application protocol of the hybrid sketches, which is also that of  *)
(* the SSI-TLS baseline: one server board that serves one connection at a  *)
(* time, SSI clients that exchange Verifiable Credentials with it inside   *)
(* TLS, and X.509 clients that send it one message.  The handshake is what *)
(* TlsSession promises, cut down to the three flights the applications can *)
(* tell apart: CH, SF (the server's) and CF (the client's).                *)
(*                                                                         *)
(* A step is what a board does between two reads that may wait.  A read    *)
(* fails when the peer is gone or, in the callbacks that count time, after *)
(* five seconds; how long anything takes is left open, so it may fail      *)
(* whenever nothing is there to be read.  After a failed read wolfSSL      *)
(* refuses every further one (err).                                        *)
(***************************************************************************)
EXTENDS Link, Naturals

CONSTANTS
    SsiClients,      \* boards that run client_SSI-TLS_hybrid.ino and
    X509Clients,     \* client_x509_hybrid.ino
    Rounds,          \* BENCHMARK_ROUNDS, BM_ROUNDS
    Reconnects,      \* RECONNECT_ATTEMPTS
    Backlog,         \* connections TCP keeps for a server that is busy
    MaxConnections,  \* bound on the connections opened
    MaxCuts,         \* bound on the times a link breaks
    Qualities,       \* of the credentials the boards may hold
    Trust            \* may an X.509 client accept the server's certificate?

ASSUME VcExchangeAssumption ==
    /\ SsiClients \cap X509Clients = {}
    /\ {Rounds, Reconnects} \subseteq Nat \ {0}
    /\ {Backlog, MaxConnections, MaxCuts} \subseteq Nat
    /\ Qualities \subseteq {"good", "unreadable", "unverified"}
    /\ Trust \subseteq BOOLEAN

Clients == SsiClients \cup X509Clients

VARIABLES
    vc,       \* [client, "server" -> quality of its credential]
    trusts,   \* [client -> would its X.509 verification succeed?]
    links,    \* the connections opened so far, with their owner, the server's
              \* outcome and the client's result
    backlog,  \* connections tcpServer.available() has not returned yet
    server,   \* [at: what it reads next, conn, ssi: g_ssi_client_detected, err]
    client,   \* [client -> [at, conn, err, first: firstRun, n: rounds run,
               \*             tries: reconnect]]
    cuts      \* links broken so far

vars == <<vc, trusts, links, backlog, server, client, cuts>>

NoConn == 0

Init ==
    /\ vc \in [Clients \cup {"server"} -> Qualities]
    /\ trusts \in [X509Clients -> Trust]
    /\ links = <<>>
    /\ backlog = <<>>
    /\ server = [at |-> "idle", conn |-> NoConn, ssi |-> FALSE, err |-> FALSE]
    /\ client = [c \in Clients |->
                    [at |-> "idle", conn |-> NoConn, err |-> FALSE,
                     first |-> c \in SsiClients, n |-> 0, tries |-> Reconnects]]
    /\ cuts = 0

-----------------------------------------------------------------------------
(* The server: loop() of server_hybrid.ino.                                *)

Served == links[server.conn]

\* What each read takes for an answer.
Awaited(at) ==
    CASE at = "accepting" -> {"CH"}
      [] at = "finished" -> {"CF"}
      [] at = "vc" -> {"VC"}
      [] at \in {"message", "loop"} -> {"VC", "msg"}

ServerReads(at) ==
    /\ server.at = at
    /\ ~server.err
    /\ Available(Served, "server")
    /\ First(Served, "server") \in Awaited(at)

\* The server goes on to the read that at names, or leaves the connection.
ServerGoesTo(at, l) ==
    /\ links' = [links EXCEPT ![server.conn] = l]
    /\ server' = [server EXCEPT !.at = at]

\* Mutant of ServerLeaves: ssl is not set to NULL.
ServerLeavesStale(l) ==
    /\ links' = [links EXCEPT ![server.conn] = l]
    /\ server' = [server EXCEPT !.at = "idle"]

ServerLeaves(l) ==
    /\ links' = [links EXCEPT ![server.conn] = l]
    /\ server' = [server EXCEPT !.at = "idle", !.conn = NoConn]

Outcome(l, outcome) == [l EXCEPT !.outcome = outcome]

ServerFails == ServerLeaves(Outcome(Stopped(Served, "server"), "failed"))

\* Mutant of Accept: g_ssi_client_detected is not reset.
AcceptUnreset ==
    /\ server.at = "idle"
    /\ backlog # <<>>
    /\ backlog' = Tail(backlog)
    /\ server' = IF Connected(links[Head(backlog)], "server")
                 THEN [server EXCEPT !.at = "accepting", !.conn = Head(backlog),
                                     !.err = FALSE]
                 ELSE server
    /\ UNCHANGED <<vc, trusts, links, client, cuts>>

\* A connection that is gone before it is looked at is skipped.
Accept ==
    /\ server.at = "idle"
    /\ backlog # <<>>
    /\ backlog' = Tail(backlog)
    /\ server' = IF Connected(links[Head(backlog)], "server")
                 THEN [at |-> "accepting", conn |-> Head(backlog),
                       ssi |-> FALSE, err |-> FALSE]
                 ELSE server
    /\ UNCHANGED <<vc, trusts, links, client, cuts>>

\* The library notes in g_ssi_client_detected that the hello has the SSI
\* extensions.
AcceptHello ==
    /\ ServerReads("accepting")
    /\ LET l == Taken(Served, "server")
       IN  IF Connected(l, "server")
           THEN /\ links' = [links EXCEPT ![server.conn] = Put(l, "server", "SF")]
                /\ server' = [server EXCEPT !.at = "finished",
                                 !.ssi = @ \/ Served.owner \in SsiClients]
           ELSE ServerFails
    /\ UNCHANGED <<vc, trusts, backlog, client, cuts>>

\* The handshake is done: send the VC, or wait for an X.509 client's message.
AcceptFinished ==
    /\ ServerReads("finished")
    /\ LET l == Taken(Served, "server")
       IN  CASE ~server.ssi ->
                    ServerGoesTo("message", Outcome(l, "served"))
             [] server.ssi /\ Connected(l, "server") ->
                    ServerGoesTo("vc", Put(l, "server", "VC"))
             [] OTHER -> ServerFails
    /\ UNCHANGED <<vc, trusts, backlog, client, cuts>>

\* Mutual authentication is over, one way or the other.
ReadClientVc ==
    /\ ServerReads("vc")
    /\ LET l == Taken(Served, "server")
           quality == vc[Served.owner]
       IN  CASE quality = "good" ->
                    ServerGoesTo("loop", Outcome(Put(l, "server", "OK"), "accepted"))
             [] quality = "unverified" ->
                    ServerLeaves(Outcome(Stopped(Put(l, "server", "REJECT"), "server"),
                                         "refused"))
             [] quality = "unreadable" ->
                    ServerLeaves(Outcome(Stopped(l, "server"), "refused"))
    /\ UNCHANGED <<vc, trusts, backlog, client, cuts>>

EchoMessage ==
    /\ ServerReads("message") \/ ServerReads("loop")
    /\ ServerLeaves(ShutDown(Put(Taken(Served, "server"), "server", "echo"), "server"))
    /\ UNCHANGED <<vc, trusts, backlog, client, cuts>>

\* Nothing arrives, or something that is no answer.
ServerReadFails ==
    /\ server.at # "idle"
    /\ ~server.err
    /\ Available(Served, "server") => First(Served, "server") \notin Awaited(server.at)
    /\ CASE server.at = "loop" ->
               /\ server' = [server EXCEPT !.err = TRUE]
               /\ links' = [links EXCEPT ![server.conn] =
                               IF Available(@, "server") THEN Taken(@, "server") ELSE @]
         [] server.at = "message" -> ServerLeaves(ShutDown(Served, "server"))
         [] OTHER -> ServerFails
    /\ UNCHANGED <<vc, trusts, backlog, client, cuts>>

\* Mutant of LoopEnds: while (tcpClient.connected()).
LoopEndsUntimed ==
    /\ server.at = "loop"
    /\ ~Connected(Served, "server")
    /\ ServerLeaves(ShutDown(Served, "server"))
    /\ UNCHANGED <<vc, trusts, backlog, client, cuts>>

\* while (tcpClient.connected() && millis() - loopStart < 10000): its first
\* read ends the loop or fails, and after a failure it only runs the time out.
LoopEnds ==
    /\ server.at = "loop"
    /\ server.err \/ ~Connected(Served, "server")
    /\ ServerLeaves(ShutDown(Served, "server"))
    /\ UNCHANGED <<vc, trusts, backlog, client, cuts>>

ServerStep ==
    \/ Accept \/ AcceptHello \/ AcceptFinished \/ ReadClientVc
    \/ EchoMessage \/ ServerReadFails \/ LoopEnds

-----------------------------------------------------------------------------
(* Both kinds of client.                                                   *)

Link(c) == links[client[c].conn]

ClientReads(c, at) ==
    /\ client[c].at = at
    /\ ~client[c].err
    /\ Available(Link(c), "client")

\* No data, and the callback counts the time: connected() or not.
ClientStarves(c, at) ==
    /\ c \in SsiClients
    /\ client[c].at = at
    /\ client[c].err \/ ~Available(Link(c), "client")

ClientGoesTo(c, at, l) ==
    /\ links' = [links EXCEPT ![client[c].conn] = l]
    /\ client' = [client EXCEPT ![c].at = at]

\* What a round leaves behind: the first one is repeated until it succeeds,
\* run_benchmark skips those that fail.
SsiRoundOver(c, result) ==
    LET old == client[c]
        n == IF old.first THEN old.n ELSE old.n + 1
    IN  [old EXCEPT !.at = IF n = Rounds THEN "halted" ELSE "idle",
                    !.conn = NoConn, !.err = FALSE, !.n = n,
                    !.first = @ /\ result = "fail"]

\* client.connect(): the ClientHello follows without waiting.
NewLink(c) ==
    [to |-> Opened("CH").to, up |-> Opened("CH").up,
     owner |-> c, outcome |-> "none", result |-> "none"]

Connect(c) ==
    /\ client[c].at = "idle"
    /\ Len(links) < MaxConnections
    /\ Len(backlog) < Backlog
    /\ links' = Append(links, NewLink(c))
    /\ backlog' = Append(backlog, Len(links'))
    /\ client' = [client EXCEPT ![c].at = "flight", ![c].conn = Len(links'),
                                ![c].err = FALSE]
    /\ UNCHANGED <<vc, trusts, server, cuts>>

AttemptOver(old) ==
    [old EXCEPT !.tries = @ - 1, !.at = IF old.tries > 1 THEN @ ELSE "halted"]

\* TCP refuses: the SSI client's round has failed, the X.509 client tries
\* again until its attempts are used up.
ConnectFails(c) ==
    /\ client[c].at = "idle"
    /\ Len(backlog) = Backlog
    /\ client' = [client EXCEPT ![c] =
                     CASE c \in X509Clients -> AttemptOver(client[c])
                       [] c \in SsiClients -> SsiRoundOver(c, "fail")]
    /\ UNCHANGED <<vc, trusts, links, backlog, server, cuts>>

-----------------------------------------------------------------------------
(* An SSI client: do_ssi_tls_handshake of client_SSI-TLS_hybrid.ino.       *)

SsiLeaves(c, l, result) ==
    /\ links' = [links EXCEPT ![client[c].conn] = [l EXCEPT !.result = result]]
    /\ client' = [client EXCEPT ![c] = SsiRoundOver(c, result)]

SsiFails(c) == SsiLeaves(c, Stopped(Link(c), "client"), "fail")

ConnectFinished(c) ==
    /\ ClientReads(c, "flight")
    /\ LET l == Taken(Link(c), "client")
       IN  IF Connected(l, "client")
           THEN ClientGoesTo(c, "vc", Put(l, "client", "CF"))
           ELSE SsiFails(c)
    /\ UNCHANGED <<vc, trusts, backlog, server, cuts>>

\* Mutant of ReadServerVc: the result of ssi_verify_vc is not looked at.
ReadServerVcUnverified(c) ==
    /\ ClientReads(c, "vc")
    /\ LET l == Taken(Link(c), "client")
       IN  IF /\ First(Link(c), "client") = "VC"
              /\ vc["server"] # "unreadable"
              /\ Connected(l, "client")
           THEN ClientGoesTo(c, "ack", Put(l, "client", "VC"))
           ELSE SsiFails(c)
    /\ UNCHANGED <<vc, trusts, backlog, server, cuts>>

\* The client shows its VC to a server whose VC it could verify.
ReadServerVc(c) ==
    /\ ClientReads(c, "vc")
    /\ LET l == Taken(Link(c), "client")
       IN  IF /\ First(Link(c), "client") = "VC"
              /\ vc["server"] = "good"
              /\ Connected(l, "client")
           THEN ClientGoesTo(c, "ack", Put(l, "client", "VC"))
           ELSE SsiFails(c)
    /\ UNCHANGED <<vc, trusts, backlog, server, cuts>>

\* Mutant of ReadFails: no return after a header that could not be read.
ReadFailsUnnoticed(c) ==
    /\ ClientStarves(c, "flight") \/ ClientStarves(c, "vc")
    /\ IF client[c].at = "flight"
       THEN SsiFails(c)
       ELSE SsiLeaves(c, ShutDown(Link(c), "client"), "ok")
    /\ UNCHANGED <<vc, trusts, backlog, server, cuts>>

ReadFails(c) ==
    /\ ClientStarves(c, "flight") \/ ClientStarves(c, "vc")
    /\ SsiFails(c)
    /\ UNCHANGED <<vc, trusts, backlog, server, cuts>>

\* After the server's answer: the first, verbose run also sends a message.
AfterAck(c, l, err) ==
    IF client[c].first
    THEN /\ links' = [links EXCEPT ![client[c].conn] = Put(l, "client", "msg")]
         /\ client' = [client EXCEPT ![c].at = "echo", ![c].err = err]
    ELSE SsiLeaves(c, ShutDown(l, "client"), "ok")

\* Only an SSI_REJECT that was received is a failure.
ReadAck(c) ==
    /\ ClientReads(c, "ack")
    /\ LET l == Taken(Link(c), "client")
           record == First(Link(c), "client")
       IN  IF record = "REJECT"
           THEN SsiFails(c)
           ELSE AfterAck(c, l, record = "notify")
    /\ UNCHANGED <<vc, trusts, backlog, server, cuts>>

NoAck(c) ==
    /\ ClientStarves(c, "ack")
    /\ AfterAck(c, Link(c), TRUE)
    /\ UNCHANGED <<vc, trusts, backlog, server, cuts>>

\* Mutant of ReadEcho: while (!client.available()), as the X.509 client has it.
ReadEchoWaiting(c) ==
    /\ ClientReads(c, "echo") /\ c \in SsiClients
    /\ SsiLeaves(c, ShutDown(Link(c), "client"), "ok")
    /\ UNCHANGED <<vc, trusts, backlog, server, cuts>>

\* With or without an echo the round has succeeded.
ReadEcho(c) ==
    /\ \/ ClientReads(c, "echo") /\ c \in SsiClients
       \/ ClientStarves(c, "echo")
    /\ SsiLeaves(c, ShutDown(Link(c), "client"), "ok")
    /\ UNCHANGED <<vc, trusts, backlog, server, cuts>>

-----------------------------------------------------------------------------
(* An X.509 client: loop() of client_x509_hybrid.ino.  Its receive callback *)
(* returns 0 when there is no data, whatever the state of the connection,   *)
(* and GetInputData asks again: a read that finds nothing waits for good.   *)

\* Mutant of X509Leaves: the rounds are compared after one more.
X509LeavesLate(c, l) ==
    /\ links' = [links EXCEPT ![client[c].conn] = Stopped(l, "client")]
    /\ client' = [client EXCEPT ![c] =
                     [@ EXCEPT !.at = IF client[c].n > Rounds THEN "halted" ELSE "idle",
                               !.conn = NoConn, !.tries = Reconnects]]

\* The connection is over; g_repeat ends the loop after the last round.
X509Leaves(c, l) ==
    /\ links' = [links EXCEPT ![client[c].conn] = Stopped(l, "client")]
    /\ client' = [client EXCEPT ![c] =
                     [@ EXCEPT !.at = IF client[c].n = Rounds THEN "halted" ELSE "idle",
                               !.conn = NoConn, !.tries = Reconnects]]

\* The handshake is timed and counted whether or not it succeeded.  After one
\* that failed wolfSSL_write fails too, and wolfSSL_shutdown either fails or
\* waits for the server's close_notify.
X509Connect(c) ==
    /\ ClientReads(c, "flight")
    /\ LET l == Taken(Link(c), "client")
       IN  \/ /\ trusts[c]
              /\ links' = [links EXCEPT ![client[c].conn] =
                              Put(Put(l, "client", "CF"), "client", "msg")]
              /\ client' = [client EXCEPT ![c].at = "reply", ![c].n = @ + 1]
           \/ /\ ~trusts[c]
              /\ links' = [links EXCEPT ![client[c].conn] = Put(l, "client", "alert")]
              /\ client' = [client EXCEPT ![c].at = "closing", ![c].n = @ + 1]
    /\ UNCHANGED <<vc, trusts, backlog, server, cuts>>

\* while (!client.available()): then one read, and wolfSSL_shutdown.
X509Reply(c) ==
    /\ ClientReads(c, "reply")
    /\ LET l == Put(Taken(Link(c), "client"), "client", "notify")
       IN  IF First(Link(c), "client") = "notify"
           THEN X509Leaves(c, l)
           ELSE ClientGoesTo(c, "closing", l)
    /\ UNCHANGED <<vc, trusts, backlog, server, cuts>>

X509Closing(c) ==
    /\ \/ ClientReads(c, "closing") /\ First(Link(c), "client") = "notify"
       \/ client[c].at = "closing" /\ ~trusts[c]
    /\ X509Leaves(c, Link(c))
    /\ UNCHANGED <<vc, trusts, backlog, server, cuts>>

-----------------------------------------------------------------------------

ClientStep(c) ==
    \/ Connect(c)
    \/ ConnectFails(c)
    \/ c \in SsiClients /\ (\/ ConnectFinished(c) \/ ReadServerVc(c) \/ ReadFails(c)
                            \/ ReadAck(c) \/ NoAck(c) \/ ReadEcho(c))
    \/ c \in X509Clients /\ (X509Connect(c) \/ X509Reply(c) \/ X509Closing(c))

LinkBreaks(k) ==
    /\ cuts < MaxCuts
    /\ links[k].up["client"] \/ links[k].up["server"]
    /\ cuts' = cuts + 1
    /\ links' = [links EXCEPT ![k] = Cut(@)]
    /\ UNCHANGED <<vc, trusts, backlog, server, client>>

Next ==
    \/ ServerStep
    \/ \E c \in Clients : ClientStep(c)
    \/ \E k \in DOMAIN links : LinkBreaks(k)

Spec == Init /\ [][Next]_vars

\* The boards run on; nothing is asked of the network.
FairSpec ==
    /\ Spec
    /\ WF_vars(ServerStep)
    /\ \A c \in Clients : WF_vars(ClientStep(c))

=============================================================================
