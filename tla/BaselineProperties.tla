------------------------- MODULE BaselineProperties -------------------------
(***************************************************************************)
(* What the X.509 baseline must do although neither board has a clock.     *)
(***************************************************************************)
EXTENDS X509Baseline

Records == {"CH", "SF", "CF", "alert", "msg", "reply", "notify"}

\* The type invariant: the server keeps its socket until it looks for the next
\* connection, a client for as long as it uses it.
TypeOK ==
    /\ links \in Seq([to : [End -> Seq(Records)], up : [End -> BOOLEAN],
                      owner : Clients, outcome : {"none", "served"},
                      result : {"none"}])
    /\ backlog \in Seq(DOMAIN links)
    /\ server.at \in {"idle", "accepting", "finished", "waiting", "closing"}
    /\ server.conn \in {NoConn} \cup DOMAIN links
    /\ server.at # "idle" => server.conn # NoConn
    /\ server.conn # NoConn => Served.up["server"] \/ cuts > 0
    /\ \A c \in Clients :
           /\ client[c].at \in {"idle", "halted", "flight", "reply", "closing"}
           /\ (client[c].at \in {"idle", "halted"}) = (client[c].conn = NoConn)
           /\ client[c].n \in 0 .. Rounds /\ client[c].tries \in 0 .. Reconnects

\* No board waits for one that has gone: no wait has a clock, so a record the
\* peer leaves without sending would be waited for in every later round too.
\* Only a link that broke, or a client that refused the certificate, does that.
NeverWaitsForTheGone ==
    /\ server.at # "idle" /\ ~Connected(Served, "server") =>
           cuts > 0 \/ ~trusts[Served.owner]
    /\ \A c \in Clients :
           client[c].conn # NoConn /\ ~Connected(Link(c), "client") => cuts > 0

\* As long as every certificate is accepted, the link holds and the listen
\* queue has room, every client runs all its rounds, and the server is left with
\* nobody to wait for.
AllRoundsRun ==
    (\A c \in Clients : trusts[c]) /\ [](cuts = 0) =>
        /\ \A c \in Clients : <>(client[c].at = "halted" /\ client[c].n = Rounds)
        /\ <>[](server.at = "idle")

=============================================================================
