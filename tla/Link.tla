-------------------------------- MODULE Link --------------------------------
(***************************************************************************)
(* One TCP connection between a client and a server as the sketches see it *)
(* through WiFiClient: what is on its way to each end, and which end still *)
(* holds its socket.  TCP neither loses, duplicates nor reorders; a link   *)
(* that is cut loses what was on its way.                                  *)
(***************************************************************************)
EXTENDS Sequences

End == {"client", "server"}

Other(e) == IF e = "client" THEN "server" ELSE "client"

\* Connected, with the client's first record already sent.
Opened(record) ==
    [to |-> [e \in End |-> IF e = "server" THEN <<record>> ELSE <<>>],
     up |-> [e \in End |-> TRUE]]

\* available() > 0
Available(l, e) == l.to[e] # <<>>

\* connected(): a peer that has stopped is noticed once everything is read.
Connected(l, e) == l.up[Other(e)] \/ Available(l, e)

First(l, e) == Head(l.to[e])

Taken(l, e) == [l EXCEPT !.to[e] = Tail(@)]

\* write(): what is written for a peer that has stopped goes nowhere.
Put(l, e, record) ==
    IF l.up[Other(e)] THEN [l EXCEPT !.to[Other(e)] = Append(@, record)] ELSE l

\* stop()
Stopped(l, e) == [l EXCEPT !.up[e] = FALSE, !.to[e] = <<>>]

\* The Wi-Fi link breaks.
Cut(l) == Stopped(Stopped(l, "client"), "server")

\* wolfSSL_shutdown, wolfSSL_free, stop()
ShutDown(l, e) == Stopped(Put(l, e, "notify"), e)

=============================================================================
