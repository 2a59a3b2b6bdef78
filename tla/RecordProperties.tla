-------------------------- MODULE RecordProperties --------------------------
(***************************************************************************)
(* What the record layer owes the handshake and the application.           *)
(***************************************************************************)
EXTENDS RecordLayer

Errors == {"none", "WANT_READ", "WANT_WRITE", "SOCKET_ERROR_E", "MEMORY_E",
           "PARSE_ERROR", "INCOMPLETE_DATA", "BUFFER_ERROR", "DECRYPT_ERROR", "OUT_OF_ORDER_E",
           "ZERO_RETURN"}

Byte == [msg : Nat, no : Nat, cut : BOOLEAN]

\* The types of the variables; the buffers are as long as their indices say.
TypeOK ==
    /\ session \in Sessions
    /\ recs \in Seq([type : {"handshake", "application_data", "alert"}, enc : BOOLEAN,
                     body : Seq(Byte)])
    /\ wire \in Seq(Nat \X Nat)
    /\ link \in {"up", "stopped", "cut"}
    /\ out.buf \in Seq(Nat \X Nat) /\ out.idx \in 0 .. Len(out.buf)
    /\ in.buf \in Seq(Nat \X Nat) /\ in.idx \in 0 .. Len(in.buf)
    /\ Len(in.buf) <= in.size
    /\ wr.error \in Errors /\ rd.error \in Errors
    /\ wr.handed \in Seq(Byte) /\ rd.got \in Seq(Byte)

\* However the bytes arrive, the input buffer holds nothing behind the record
\* that is being read: the keys may change after a handshake message because
\* nothing under the old keys is left, and the end of the buffer may stand
\* for the end of the record where DoTls13HandShakeMsg counts inputLength.
OneRecord ==
    /\ rd.reply = "doProcessInit" => Used(in) < RecHdr
    /\ rd.reply = "getData" => Used(in) <= rd.curSize
    /\ rd.reply = "runProcessingOneMessage" =>
           in.idx + Used(in) = rd.curStart + rd.curSize

\* A sender that gives up without keys closes in the clear; a receiver that
\* has its keys by then takes that for a protocol error.
ClosedInTheClear ==
    \E r \in DOMAIN recs : recs[r].type = "alert" /\ ~recs[r].enc

\* The record being read ends inside the header of a handshake message.  TLS
\* allows that (RFC 8446, 5.1); no record of this repository's writer does.
HeaderSplit ==
    /\ session.peer = "other"
    /\ rd.cur \in DOMAIN recs
    /\ recs[rd.cur].type = "handshake"
    /\ Last(recs[rd.cur].body).no < HsHdr

\* No receiver ever finds a record it cannot open or data before its time,
\* however the sender's calls were blocked and retried, whoever gave up and
\* whatever the network cut off; and no message it cannot parse, except two:
\* that early alert, and a message another implementation splits inside its
\* header.
RecordsOpen ==
    /\ rd.error \notin {"DECRYPT_ERROR", "BUFFER_ERROR", "OUT_OF_ORDER_E"}
    /\ rd.error = "PARSE_ERROR" => ClosedInTheClear \/ HeaderSplit
    /\ rd.error = "INCOMPLETE_DATA" => HeaderSplit

\* GetHandshakeHeader "returns BUFFER_E if there is not enough input data"
\* (internal.c:11697), and DoTls13HandShakeMsg answers that with PARSE_ERROR.
\* It is told the end of the buffer, the padding included: with one to three
\* bytes of a header left in a record it finds enough and reads the padding.
\* So this holds between boards of this repository only (BoardsReadHeaders).
HeadersAreThere == rd.error # "INCOMPLETE_DATA"

\* However often its calls are blocked and made again, a sender hands over the
\* messages of its session in order, each byte once: no fragment of a
\* Certificate and no part of a write is skipped or sent twice.
SentInOrder == IsPrefix(wr.handed, Script)

Channel == INSTANCE ByteChannel WITH
    Bytes <- Byte,
    handed <- wr.handed,
    got <- rd.got,
    ended <- rd.error = "ZERO_RETURN"

\* Records, fragments, padding and the two buffers are invisible: the record
\* layer is a byte channel, and only a close_notify ends it.
IsChannel == Channel!Spec

\* What a sender has closed arrives: when the close_notify has left, the
\* receiver gets everything up to it, unless the network is cut or its buffer
\* could not grow or the alert was sent in the clear or the sender, not one of
\* this repository, split a header and was refused.
Closed == wr.phase = "stopped" /\ wr.sentNotify /\ wr.error = "none"

Arrives ==
    Closed ~> \/ rd.error = "ZERO_RETURN" /\ Channel!Unfinished
              \/ link = "cut"
              \/ rd.error = "MEMORY_E"
              \/ ClosedInTheClear
              \/ HeaderSplit /\ rd.error \in {"PARSE_ERROR", "INCOMPLETE_DATA"}

\* A connection that ends in any other way is not taken for a closed one, and
\* the receiver does not wait for it forever.
NotForever ==
    link # "up" ~> rd.error \notin {"none", "WANT_READ"}

\* AddCertExt: "idx .. fragSz  The maximum size of this fragment."
FragmentsFit ==
    \A r \in DOMAIN recs :
        recs[r].type = "handshake" => Len(recs[r].body) <= MaxFragment

=============================================================================
