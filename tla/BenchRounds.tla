----------------------------- MODULE BenchRounds -----------------------------
(***************************************************************************)
(* The benchmark of the example sketches: ssi_tls_client.ino opens one     *)
(* connection per round and repeats a round until its handshake succeeds,  *)
(* ssi_tls_server.ino serves one connection at a time, and each counts     *)
(* rounds by itself.  The handshake is what TlsSession promises, cut down  *)
(* to the flights CH, SF (the server's) and CF (the client's).             *)
(*                                                                         *)
(* The callbacks never wait: a read that finds nothing is repeated until a *)
(* deadline passes, and fails at once when the peer has stopped.  A        *)
(* deadline passes at any moment, because of a slow peer or because        *)
(* t0 + HS_TIMEOUT wraps around; it is a fault, as a broken link is.       *)
(***************************************************************************)
EXTENDS Link, Naturals

CONSTANTS
    TOTAL_ROUNDS,    \* the debug round 0 included
    MaxSamples,      \* what hsTimes has room for
    Backlog,         \* connections TCP keeps for a server that is busy
    MaxFaults        \* bound on the deadlines that pass and links that break

ASSUME BenchRoundsAssumption ==
    /\ TOTAL_ROUNDS \in Nat \ {0}
    /\ {MaxSamples, Backlog, MaxFaults} \subseteq Nat

VARIABLES
    links,    \* the connections opened so far, each with its client's round
              \* and whether the server has counted it
    backlog,  \* connections wifiServer.available() has not returned yet
    server,   \* [at: what it reads next, conn, round: roundNum]
    client,   \* [at, conn, round, samples: benchCount, prints: of the statistics]
    faults

vars == <<links, backlog, server, client, faults>>

NoConn == 0

Init ==
    /\ links = <<>>
    /\ backlog = <<>>
    /\ server = [at |-> "idle", conn |-> NoConn, round |-> 0]
    /\ client = [at |-> "idle", conn |-> NoConn, round |-> 0, samples |-> 0, prints |-> 0]
    /\ faults = 0

Fault ==
    /\ faults < MaxFaults
    /\ faults' = faults + 1

\* The next record is one the reader waits for; it is taken by what follows.
Arrives(l, e, record) ==
    /\ Available(l, e)
    /\ First(l, e) = record
    /\ UNCHANGED faults

\* The read loop ends without it: something else, no peer, no time left.
Fails(l, e, record) ==
    \/ /\ IF Available(l, e) THEN First(l, e) # record ELSE ~Connected(l, e)
       /\ UNCHANGED faults
    \/ Fault

-----------------------------------------------------------------------------
(* loop() of ssi_tls_server.ino.                                           *)

Served == links[server.conn]

\* wolfSSL_shutdown, wolfSSL_free, stop(); round is the new roundNum.
ServerLeaves(l, round) ==
    /\ links' = [links EXCEPT ![server.conn] = ShutDown(l, "server")]
    /\ server' = [at |-> "idle", conn |-> NoConn, round |-> round]

Accept ==
    /\ server.at = "idle"
    /\ server.round < TOTAL_ROUNDS
    /\ backlog # <<>>
    /\ backlog' = Tail(backlog)
    /\ server' = IF Connected(links[Head(backlog)], "server")
                 THEN [server EXCEPT !.at = "accepting", !.conn = Head(backlog)]
                 ELSE server
    /\ UNCHANGED <<links, client, faults>>

\* Mutant of HandshakeFails: roundNum is counted for every connection.
HandshakeFailsCounted ==
    /\ \/ server.at = "accepting" /\ Fails(Served, "server", "CH")
       \/ server.at = "finished" /\ Fails(Served, "server", "CF")
    /\ ServerLeaves(Served, server.round + 1)
    /\ UNCHANGED <<backlog, client>>

HandshakeFails ==
    /\ \/ server.at = "accepting" /\ Fails(Served, "server", "CH")
       \/ server.at = "finished" /\ Fails(Served, "server", "CF")
    /\ ServerLeaves(Served, server.round)
    /\ UNCHANGED <<backlog, client>>

\* The hello is answered, unless the client is gone by then.
AcceptHello ==
    /\ server.at = "accepting"
    /\ Arrives(Served, "server", "CH")
    /\ LET l == Taken(Served, "server")
       IN  IF Connected(l, "server")
           THEN /\ links' = [links EXCEPT ![server.conn] = Put(l, "server", "SF")]
                /\ server' = [server EXCEPT !.at = "finished"]
           ELSE ServerLeaves(l, server.round)
    /\ UNCHANGED <<backlog, client>>

\* The handshake has succeeded: write "OK" and wait for the ACK.
AcceptFinished ==
    /\ server.at = "finished"
    /\ Arrives(Served, "server", "CF")
    /\ links' = [links EXCEPT ![server.conn] = Put(Taken(@, "server"), "server", "OK")]
    /\ server' = [server EXCEPT !.at = "ack"]
    /\ UNCHANGED <<backlog, client>>

\* roundNum++, with the ACK or without it.
RoundEnds ==
    /\ server.at = "ack"
    /\ Arrives(Served, "server", "ACK") \/ Fails(Served, "server", "ACK")
    /\ ServerLeaves([Served EXCEPT !.counted = TRUE], server.round + 1)
    /\ UNCHANGED <<backlog, client>>

ServerStep ==
    \/ Accept \/ HandshakeFails \/ AcceptHello \/ AcceptFinished \/ RoundEnds

-----------------------------------------------------------------------------
(* loop() and doRound() of ssi_tls_client.ino.                             *)

Mine == links[client.conn]

\* wolfSSL_shutdown, wolfSSL_free, stop()
ClientLeaves(l) == links' = [links EXCEPT ![client.conn] = ShutDown(l, "client")]

Connection(round) ==
    [to |-> Opened("CH").to, up |-> Opened("CH").up, round |-> round, counted |-> FALSE]

\* A connection that TCP refuses changes nothing: the round is tried again.
Connect ==
    /\ client.at = "idle"
    /\ client.round < TOTAL_ROUNDS
    /\ Len(backlog) < Backlog
    /\ links' = Append(links, Connection(client.round))
    /\ backlog' = Append(backlog, Len(links'))
    /\ client' = [client EXCEPT !.at = "flight", !.conn = Len(links')]
    /\ UNCHANGED <<server, faults>>

\* return false: the round is tried again.
RoundFails(l) ==
    /\ ClientLeaves(l)
    /\ client' = [client EXCEPT !.at = "idle", !.conn = NoConn]

ConnectFails ==
    /\ client.at = "flight"
    /\ Fails(Mine, "client", "SF")
    /\ RoundFails(Mine)
    /\ UNCHANGED <<backlog, server>>

ConnectFinished ==
    /\ client.at = "flight"
    /\ Arrives(Mine, "client", "SF")
    /\ LET l == Taken(Mine, "client")
       IN  IF Connected(l, "client")
           THEN /\ links' = [links EXCEPT ![client.conn] = Put(l, "client", "CF")]
                /\ client' = [client EXCEPT !.at = "ok"]
           ELSE RoundFails(l)
    /\ UNCHANGED <<backlog, server>>

\* Mutant of Sampled: the debug round is a sample too.
SampledAlways(round, samples) == IF samples < MaxSamples THEN samples + 1 ELSE samples

\* Mutant of Sampled: benchCount <= 1000.
SampledBeyond(round, samples) ==
    IF round # 0 /\ samples <= MaxSamples THEN samples + 1 ELSE samples

\* hsTimes[benchCount++], but for the debug round
Sampled(round, samples) ==
    IF round # 0 /\ samples < MaxSamples THEN samples + 1 ELSE samples

\* The handshake has succeeded, and so has the round, with the server's "OK"
\* or without it.
RoundSucceeds ==
    /\ client.at = "ok"
    /\ \/ /\ Arrives(Mine, "client", "OK")
          /\ ClientLeaves(Put(Taken(Mine, "client"), "client", "ACK"))
       \/ /\ Fails(Mine, "client", "OK")
          /\ ClientLeaves(Put(Mine, "client", "ACK"))
    /\ client' = [client EXCEPT !.at = "idle", !.conn = NoConn, !.round = @ + 1,
                                !.samples = Sampled(client.round, @)]
    /\ UNCHANGED <<backlog, server>>

PrintStats ==
    /\ client.at = "idle"
    /\ client.round = TOTAL_ROUNDS
    /\ client' = [client EXCEPT !.round = @ + 1, !.prints = @ + 1]
    /\ UNCHANGED <<links, backlog, server, faults>>

ClientStep ==
    \/ Connect \/ ConnectFails \/ ConnectFinished \/ RoundSucceeds \/ PrintStats

-----------------------------------------------------------------------------

LinkBreaks(k) ==
    /\ Fault
    /\ links[k].up["client"] \/ links[k].up["server"]
    /\ links' = [links EXCEPT ![k] = Cut(@)]
    /\ UNCHANGED <<backlog, server, client>>

Next ==
    \/ ServerStep
    \/ ClientStep
    \/ \E k \in DOMAIN links : LinkBreaks(k)

Spec == Init /\ [][Next]_vars

\* Both boards run on.
FairSpec == Spec /\ WF_vars(ServerStep) /\ WF_vars(ClientStep)

=============================================================================
