------------------------------ MODULE MC_Record ------------------------------
(* Small record sizes: a message of one record, a Certificate of several     *)
(* and application data of one or two.                                       *)
EXTENDS RecordProperties

Plain(size) == [cert |-> FALSE, size |-> size]

Cert(certSz) == [cert |-> TRUE, size |-> CertHdr + certSz + ExtSz]

Fragmented == [hs |-> <<Plain(1), Cert(10)>>, app |-> <<>>, peer |-> "wolfSSL"]

Written == [hs |-> <<Plain(1), Plain(1)>>, app |-> <<7>>, peer |-> "wolfSSL"]

Packed == [hs |-> <<Plain(1), Plain(2), Plain(0)>>, app |-> <<>>, peer |-> "other"]

ConnSessions == {Fragmented, Written, Packed}

BoundarySessions ==
    {[hs |-> <<Plain(1), Cert(2)>>, app |-> <<>>, peer |-> "wolfSSL"]}

===============================================================================
