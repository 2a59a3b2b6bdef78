---------------------------- MODULE RecordStream ----------------------------
(***************************************************************************)
(* One direction of a TLS connection as a stream of bytes.  A byte is      *)
(* <<record, number>>; recs says what it stands for, and encryption is     *)
(* what it promises: a record opens if its bytes are all there, in order,  *)
(* and no record before it is missing.                                     *)
(***************************************************************************)
EXTENDS Integers, SequencesExt

CONSTANTS
    RecHdr,       \* RECORD_HEADER_SZ
    HsHdr,        \* HANDSHAKE_HEADER_SZ
    CertHdr,      \* headerSz of a Certificate: context and list lengths
    PadSz,        \* content type and tag of an encrypted record
    MaxFragment,  \* MAX_RECORD_SIZE
    StaticLen,    \* STATIC_BUFFER_LEN
    ReadSizes,    \* the sizes of the buffers the application reads into
    Sessions      \* what is sent: [hs, app, peer]

\* A record's header fits the static buffer, and what is left of an encrypted
\* record when another message begins in it does not.
ASSUME RecordSizes ==
    /\ {RecHdr, HsHdr, CertHdr, PadSz, MaxFragment, StaticLen} \subseteq Nat \ {0}
    /\ RecHdr <= StaticLen
    /\ StaticLen <= PadSz
    /\ HsHdr + CertHdr < MaxFragment

\* The two zero bytes of an empty certificate extension: OPAQUE16_LEN
ExtSz == 2

\* A session begins with a handshake.  A Certificate that carries none is like
\* any other message, and a write of nothing builds no record.
ASSUME SessionsAssumption ==
    /\ ReadSizes \subseteq Nat
    /\ \A s \in Sessions :
           /\ s \in [hs : Seq([cert : BOOLEAN, size : Nat]), app : Seq(Nat \ {0}),
                     peer : {"wolfSSL", "other"}]
           /\ s.hs # <<>>
           /\ \A m \in DOMAIN s.hs : s.hs[m].cert => s.hs[m].size > CertHdr + ExtSz

VARIABLES
    session,  \* the session's messages, a member of Sessions
    recs,     \* the records built so far: [type, enc, body]
    wire,     \* the bytes the network has taken and not yet delivered
    link      \* "up", "stopped" by the sender, or "cut"

streamVars == <<session, recs, wire, link>>

Lesser(a, b) == IF a < b THEN a ELSE b

NumHs == Len(session.hs)

NumMsgs == NumHs + Len(session.app)

\* Handshake messages have a header, application data has none.
MsgLen(m) ==
    IF m <= NumHs THEN HsHdr + session.hs[m].size ELSE session.app[m - NumHs]

\* cut: the receiver may be left with the stream ending here.
MsgBytes(m) ==
    [i \in 1 .. MsgLen(m) |->
        [msg |-> m, no |-> i, cut |-> m > NumHs \/ i = MsgLen(m)]]

Script == FlattenSeq([m \in 1 .. NumMsgs |-> MsgBytes(m)])

Filler == [msg |-> 0, no |-> 0, cut |-> FALSE]

\* curSize: what the header announces.
SizeOf(record) == Len(record.body) + (IF record.enc THEN PadSz ELSE 0)

HeaderBytes(r) == [i \in 1 .. RecHdr |-> <<r, i>>]

PayloadBytes(r) == [i \in 1 .. SizeOf(recs[r]) |-> <<r, RecHdr + i>>]

\* What a decrypted byte stands for.
Content(byte) ==
    LET body == recs[byte[1]].body
        i == byte[2] - RecHdr
    IN  IF i \in DOMAIN body THEN body[i] ELSE Filler

Contents(bytes) == [i \in DOMAIN bytes |-> Content(bytes[i])]

StreamInit ==
    /\ session \in Sessions
    /\ recs = <<>>
    /\ wire = <<>>
    /\ link = "up"

\* Either board leaves the network.
Cut ==
    /\ link = "up"
    /\ link' = "cut"
    /\ wire' = <<>>
    /\ UNCHANGED <<session, recs>>

=============================================================================
