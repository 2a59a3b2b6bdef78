---------------------------- MODULE X509Baseline ----------------------------
(***************************************************************************)
(* The X.509 baseline: wolfssl_baseline_server.ino and clients that run    *)
(* wolfssl_baseline_client.ino, whose loop is the one of the hybrid X.509  *)
(* client (VcExchange).  The server's receive callback returns 0 when      *)
(* there is no data, so a read waits for good; and the sketch itself waits *)
(* without a clock.  What is written to a peer that has gone is lost: the  *)
(* read that follows then waits as the write would have.                   *)
(***************************************************************************)
EXTENDS VcExchange

ASSUME BaselineAssumption == SsiClients = {}

server_vars == <<vc, trusts, client, cuts>>

\* client = server.available(): the assignment stops the last connection,
\* whether or not there is a next one.
BaselineAccept ==
    /\ server.at = "idle"
    /\ backlog # <<>> \/ server.conn # NoConn
    /\ links' = IF server.conn = NoConn THEN links
                ELSE [links EXCEPT ![server.conn] = Stopped(@, "server")]
    /\ IF backlog = <<>>
       THEN /\ server' = [server EXCEPT !.conn = NoConn]
            /\ UNCHANGED backlog
       ELSE /\ server' = [at |-> "accepting", conn |-> Head(backlog),
                          ssi |-> FALSE, err |-> FALSE]
            /\ backlog' = Tail(backlog)
    /\ UNCHANGED server_vars

BaselineReads(at) == server.at = at /\ Available(Served, "server")

BaselineHello ==
    /\ BaselineReads("accepting")
    /\ ServerGoesTo("finished", Put(Taken(Served, "server"), "server", "SF"))
    /\ UNCHANGED <<server_vars, backlog>>

\* A handshake that fails is reported and not left.
BaselineFinished ==
    /\ BaselineReads("finished")
    /\ server' = [server EXCEPT !.at = "waiting",
                     !.err = First(Served, "server") # "CF"]
    /\ links' = [links EXCEPT ![server.conn] = Taken(@, "server")]
    /\ UNCHANGED <<server_vars, backlog>>

\* Mutant of ServerAnswer: the connection is stopped as in the branch that
\* does not repeat.
ServerAnswerAndStop(l) ==
    Stopped(Put(Put(l, "server", "reply"), "server", "notify"), "server")

\* Mutant of ServerAnswer: wolfSSL_free without wolfSSL_shutdown.
ServerAnswerUnnotified(l) == Put(l, "server", "reply")

\* The reply and the first wolfSSL_shutdown.
ServerAnswer(l) == Put(Put(l, "server", "reply"), "server", "notify")

\* while (!client.available()) ends.  wolfSSL_pending is 0 before the first
\* read: the client's message is not read, and the reply is sent all the same.
\* A client whose handshake failed has sent its alert last: after err this
\* loop never ends.
BaselineAnswer ==
    /\ BaselineReads("waiting")
    /\ ~server.err
    /\ ServerGoesTo("closing", Outcome(ServerAnswer(Served), "served"))
    /\ UNCHANGED <<server_vars, backlog>>

\* wolfSSL_shutdown again: what the client wrote is passed over until its
\* close_notify.
BaselineClosing ==
    /\ BaselineReads("closing")
    /\ ServerGoesTo(IF First(Served, "server") = "notify" THEN "idle"
                    ELSE "closing", Taken(Served, "server"))
    /\ UNCHANGED <<server_vars, backlog>>

BaselineServerStep ==
    BaselineAccept \/ BaselineHello \/ BaselineFinished \/ BaselineAnswer
        \/ BaselineClosing

BaselineNext ==
    \/ BaselineServerStep
    \/ \E c \in Clients : ClientStep(c)
    \/ \E k \in DOMAIN links : LinkBreaks(k)

BaselineSpec ==
    /\ Init /\ [][BaselineNext]_vars
    /\ WF_vars(BaselineServerStep)
    /\ \A c \in Clients : WF_vars(ClientStep(c))

=============================================================================
