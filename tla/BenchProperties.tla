-------------------------- MODULE BenchProperties --------------------------
(***************************************************************************)
(* What the benchmark of the example sketches must, and must never, do.    *)
(***************************************************************************)
EXTENDS BenchRounds

Records == {"CH", "SF", "CF", "OK", "ACK", "notify"}

Connections ==
    [to : [End -> Seq(Records)], up : [End -> BOOLEAN],
     round : 0 .. TOTAL_ROUNDS, counted : BOOLEAN]

\* The type invariant: a board holds a connection exactly while it serves or
\* uses one, and the client's is its latest.
TypeOK ==
    /\ links \in Seq(Connections)
    /\ backlog \in Seq(DOMAIN links)
    /\ server \in [at : {"idle", "accepting", "finished", "ack"},
                   conn : {NoConn} \cup DOMAIN links, round : 0 .. TOTAL_ROUNDS]
    /\ client \in [at : {"idle", "flight", "ok"}, conn : {NoConn, Len(links)},
                   round : 0 .. TOTAL_ROUNDS + 1, samples : 0 .. MaxSamples, prints : Nat]
    /\ faults \in 0 .. MaxFaults
    /\ (server.at = "idle") = (server.conn = NoConn)
    /\ (client.at = "idle") = (client.conn = NoConn)

\* Rounds the client has completed, the one whose handshake is done included.
ClientDone == IF client.at = "ok" THEN client.round + 1 ELSE client.round

\* The server never counts a round the client has to repeat: whatever fails on
\* either side, its roundNum is not ahead of the client's, and a connection it
\* counted is one whose round the client has done.
ServerNeverAhead ==
    /\ server.round <= ClientDone
    /\ \A k \in DOMAIN links : links[k].counted => links[k].round < ClientDone

Least(m, n) == IF m <= n THEN m ELSE n

\* A sample for every round the client has done but the debug round, as far as
\* there is room, and the statistics of all of them are printed once.
StatsOfAllRounds ==
    /\ client.samples = (IF client.round = 0 THEN 0
                         ELSE Least(Least(client.round, TOTAL_ROUNDS) - 1, MaxSamples))
    /\ client.prints = (IF client.round > TOTAL_ROUNDS THEN 1 ELSE 0)

\* The client gets through all its rounds however many deadlines pass and
\* links break, as long as that ends: the server does not stop before it.
ClientHalts == <>(client.round > TOTAL_ROUNDS)

=============================================================================
