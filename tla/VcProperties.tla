---------------------------- MODULE VcProperties ----------------------------
(***************************************************************************)
(* What the hybrid sketches must, and must never, do.  The last section    *)
(* states what comments of the sketches say and the sketches do not do.    *)
(***************************************************************************)
EXTENDS VcExchange, SequencesExt

Records == {"CH", "SF", "CF", "VC", "OK", "REJECT", "msg", "echo", "notify", "alert"}

ServerReadsAt == {"accepting", "finished", "vc", "message", "loop"}

ClientReadsAt == {"flight", "vc", "ack", "echo", "reply", "closing"}

\* The type invariant: a board holds a connection exactly while it serves or
\* uses one, and the two ends agree on who is in it.
TypeOK ==
    /\ vc \in [Clients \cup {"server"} -> Qualities]
    /\ trusts \in [X509Clients -> Trust]
    /\ links \in Seq([to : [End -> Seq(Records)], up : [End -> BOOLEAN],
                      owner : Clients,
                      outcome : {"none", "failed", "served", "accepted", "refused"},
                      result : {"none", "ok", "fail"}])
    /\ backlog \in Seq(DOMAIN links)
    /\ server \in [at : {"idle"} \cup ServerReadsAt, conn : {NoConn} \cup DOMAIN links,
                   ssi : BOOLEAN, err : BOOLEAN]
    /\ client \in [Clients -> [at : {"idle", "halted"} \cup ClientReadsAt,
                               conn : {NoConn} \cup DOMAIN links, err : BOOLEAN,
                               first : BOOLEAN, n : 0 .. Rounds,
                               tries : 0 .. Reconnects]]
    /\ (server.at = "idle") = (server.conn = NoConn)
    /\ \A c \in Clients :
           /\ (client[c].at \in {"idle", "halted"}) = (client[c].conn = NoConn)
           /\ client[c].conn # NoConn => Link(c).owner = c

\* Where the server reports mutual authentication, both credentials are good,
\* the client has checked the server's before it showed its own, and it does
\* not report a failure: not by then, and not later.
MutualAuth ==
    \A k \in DOMAIN links :
        LET c == links[k].owner
        IN  links[k].outcome = "accepted" =>
                /\ c \in SsiClients
                /\ vc["server"] = "good" /\ vc[c] = "good"
                /\ IF client[c].conn = k
                   THEN client[c].at \in {"ack", "echo"}
                   ELSE links[k].result = "ok"

\* A round an SSI client counts was one the server took part in: it is not
\* still waiting to be accepted, and the server is past its own handshake.
CountedWasServed ==
    \A k \in DOMAIN links :
        links[k].result = "ok" =>
            /\ vc["server"] = "good"
            /\ ~Contains(backlog, k)
            /\ server.conn = k => server.at \in {"vc", "loop"}

\* g_ssi_client_detected is about the connection being served and no earlier
\* one: an X.509 client is never sent a VC, and the exchange is skipped for
\* no SSI client.
KindServed ==
    /\ server.at \in {"vc", "loop"} => Served.owner \in SsiClients
    /\ server.at = "message" => Served.owner \in X509Clients

-----------------------------------------------------------------------------
(* Liveness.                                                               *)

\* Whatever a client does or stops doing, the server comes back to accept.
ServerReturns == server.at # "idle" ~> server.at = "idle"

\* Every attempt of an SSI client ends, served or not.
SsiReturns ==
    \A c \in SsiClients :
        client[c].conn # NoConn ~> client[c].conn = NoConn

-----------------------------------------------------------------------------
(* What comments of the sketches say.                                      *)

\* "Tunggu konfirmasi dari server", then "Return: durasi handshake dalam ms,
\* atau -1 jika gagal" (client_SSI-TLS_hybrid.ino:301, :159): a round whose
\* credential the server refused has failed.
RefusedNotCounted ==
    \A k \in DOMAIN links :
        ~(links[k].outcome = "refused" /\ links[k].result = "ok")

=============================================================================
