----------------------------- MODULE TlsSession -----------------------------
(***************************************************************************)
(* What a TLS handshake with certificate-type negotiation promises to the  *)
(* two applications, without a message or a state machine: the server      *)
(* decides once, by its own preferences, what the certificates are; the    *)
(* client learns that decision and no other; and the server succeeds only  *)
(* for a client that is past failing.                                      *)
(***************************************************************************)
EXTENDS SsiNegotiation

VARIABLES
    setup,     \* [client, server: configurations]
    decision,  \* the certificate types decided by the server, or Undecided
    view,      \* the decision as the client knows it, or Undecided
    client,    \* "trying", "done" or "failed"
    server

vars == <<setup, decision, view, client, server>>

Undecided == [srv |-> "undecided", clt |-> "undecided"]

\* type is the first of mine that theirs lists too.
MostPreferred(type, mine, theirs) ==
    \E i \in DOMAIN mine :
        /\ mine[i] = type
        /\ Listed(type, theirs)
        /\ \A j \in 1 .. i - 1 : ~Listed(mine[j], theirs)

Decisions ==
    {d \in [srv : CertTypes \cup {NoType}, clt : CertTypes \cup {NoType}] :
        /\ d.srv # NoType =>
               MostPreferred(d.srv, setup.server.srv, setup.client.srv)
        /\ d.clt # NoType =>
               MostPreferred(d.clt, setup.server.clt, setup.client.clt)}

Init ==
    /\ setup \in [client : Configurations, server : Configurations]
    /\ decision = Undecided
    /\ view = Undecided
    /\ client = "trying"
    /\ server = "trying"

Decide ==
    /\ server = "trying"
    /\ decision = Undecided
    /\ decision' \in Decisions
    /\ UNCHANGED <<setup, view, client, server>>

Learn ==
    /\ client = "trying"
    /\ decision # Undecided
    /\ view = Undecided
    /\ view' = decision
    /\ UNCHANGED <<setup, decision, client, server>>

\* The client's last message is out; nothing can make it fail any more.
ClientFinishes ==
    /\ client = "trying"
    /\ view # Undecided
    /\ client' = "done"
    /\ UNCHANGED <<setup, decision, view, server>>

ServerFinishes ==
    /\ server = "trying"
    /\ client = "done"
    /\ server' = "done"
    /\ UNCHANGED <<setup, decision, view, client>>

ClientFails ==
    /\ client = "trying"
    /\ client' = "failed"
    /\ UNCHANGED <<setup, decision, view, server>>

ServerFails ==
    /\ server = "trying"
    /\ server' = "failed"
    /\ UNCHANGED <<setup, decision, view, client>>

Next ==
    \/ Decide \/ Learn
    \/ ClientFinishes \/ ServerFinishes
    \/ ClientFails \/ ServerFails

Spec == Init /\ [][Next]_vars

=============================================================================
