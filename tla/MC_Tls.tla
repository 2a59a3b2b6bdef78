------------------------------- MODULE MC_Tls -------------------------------
(***************************************************************************)
(* Instances of TlsHandshake for TLC: what the two applications set up.    *)
(***************************************************************************)
EXTENDS TlsProperties

Config(list, mat, verify) ==
    [srv |-> list, clt |-> list, mat |-> mat, verify |-> verify]

\* ssi_tls_client.ino and ssi_tls_server.ino.
SketchClients == {Config(<<"VC", "X509">>, "VC", "peer")}
SketchServers == {Config(<<"VC", "X509">>, "VC", "peerRequired")}

\* Clients and servers that need not fit together.
MixedClients ==
    {Config(<<"VC", "X509">>, "VC", "peer"),
     Config(<<"X509", "VC">>, "VC", "peer"),
     Config(<<"RPK", "VC">>, "X509", "default"),
     Config(<<"VC", "X509">>, "none", "peer"),
     Config(<<"X509">>, "none", "peer"),
     Config(<<"VC">>, "VC", "default"),
     Config(<<"VC", "X509">>, "vcHalfKey", "peer"),
     Config(<<"VC", "VC">>, "keyOnly", "peer")}

MixedServers ==
    {Config(<<"VC", "X509">>, "VC", "peerRequired"),
     Config(<<"X509", "VC">>, "X509", "peer"),
     Config(<<"X509", "VC">>, "X509", "peerRequired"),
     Config(<<"X509">>, "X509", "peer"),
     Config(<<"VC", "RPK">>, "VC", "none"),
     Config(<<"RPK", "X509">>, "X509", "default"),
     Config(<<"VC">>, "none", "default"),
     Config(<<"VC", "X509">>, "vcHalfKey", "peerRequired")}

\* A client of raw keys, one that knows nothing of SSI, and a VC server.
RpkClients == {Config(<<"RPK", "X509">>, "X509", "peer")}
PlainClients == {Config(<<"X509">>, "none", "peer")}
VcServers == {Config(<<"VC">>, "VC", "none")}

=============================================================================
