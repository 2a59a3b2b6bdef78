---------------------------- MODULE RecordReader ----------------------------
(***************************************************************************)
(* The receiver's record layer: GetInputData fills the input buffer, over  *)
(* as many calls as it takes, with what the next step of ProcessReply      *)
(* needs and no more; a record is opened and its messages go to their      *)
(* handlers, a message split over records through pendingMsg; application  *)
(* data stays in the input buffer until wolfSSL_read has copied it.  Each  *)
(* step here is one case of ProcessReply's switch.                         *)
(***************************************************************************)
EXTENDS RecordStream

VARIABLES
    in,  \* ssl->buffers.inputBuffer: [buf, idx, size]
    rd   \* the rest of the receiver's session

readerVars == <<in, rd>>

ReaderInit ==
    /\ in = [buf |-> <<>>, idx |-> 0, size |-> StaticLen]
    /\ rd = [reply |-> "doProcessInit", cur |-> 0, curSize |-> 0, curStart |-> 0, padSz |-> 0,
             pending |-> <<>>, pendingSz |-> 0,
             clearAt |-> 0, clearLen |-> 0,
             handled |-> 0, opened |-> 0, error |-> "none", got |-> <<>>]

Used(i) == Len(i.buf) - i.idx

Ahead(i, n) == SubSeq(i.buf, i.idx + 1, i.idx + n)

\* IsEncryptionOn: from the first message on.
Encrypted == rd.handled >= 1

HandShakeDone == rd.handled = NumHs

\* Mutant of Reading: WANT_READ is an error like any other.
ReadingOnce == rd.error = "none"

\* connect, accept and wolfSSL_read call again after WANT_READ only.
Reading == rd.error \in {"none", "WANT_READ"}

Failed(error) == rd' = [rd EXCEPT !.error = error]

\* ShrinkInputBuffer
Shrunk(i, clearLen) ==
    IF i.size = StaticLen \/ Used(i) > StaticLen \/ clearLen > 0 THEN i
    ELSE [buf |-> Ahead(i, Used(i)), idx |-> 0, size |-> StaticLen]

\* Mutant of Missing: a partial read before is forgotten.
MissingAlways(i, size) == size

\* inSz: what is still to be read of size bytes.
Missing(i, size) == size - Used(i)

\* GrowInputBuffer, if what is missing does not fit.
Grown(i, size) ==
    IF Missing(i, size) > i.size - Used(i) THEN size + Used(i) ELSE i.size

\* Mutant of Received: what has been processed stays in front.
ReceivedBehind(i, size, n) ==
    [i EXCEPT !.buf = @ \o SubSeq(wire, 1, n), !.size = Grown(i, size)]

\* What is left moves to the front and n bytes from the network follow it.
Received(i, size, n) ==
    [buf |-> Ahead(i, Used(i)) \o SubSeq(wire, 1, n), idx |-> 0,
     size |-> Grown(i, size)]

\* GetInputData, by its results: it reads until size bytes are there, gets less
\* or nothing, or cannot grow the buffer.
GetInputData(size) ==
    LET Result(w, i, e) == [wire |-> w, in |-> i, error |-> e]
        reads == IF link = "cut" THEN {} ELSE 0 .. Lesser(Missing(in, size), Len(wire))
    IN  IF size <= Used(in) THEN {Result(wire, in, "none")}
        ELSE {Result(SubSeq(wire, n + 1, Len(wire)), Received(in, size, n),
                     IF n = Missing(in, size) THEN "none" ELSE "WANT_READ") :
                  n \in reads}
             \cup (IF link # "up" /\ wire = <<>>
                   THEN {Result(wire, in, "SOCKET_ERROR_E")} ELSE {})
             \cup (IF Grown(in, size) > in.size
                   THEN {Result(wire, in, "MEMORY_E")} ELSE {})

Fetched(result) == wire' = result.wire /\ result.error = "none"

NotFetched(result) ==
    /\ wire' = result.wire /\ in' = result.in
    /\ result.error # "none" /\ Failed(result.error)

\* GetRecordHeader, and the check that comes with encryption.
ParseHeader(i) ==
    LET here == {r \in DOMAIN recs : HeaderBytes(r) = Ahead(i, RecHdr)}
        expected == {r \in here : recs[r].enc = Encrypted}
    IN  /\ in' = IF here = {} THEN i ELSE [i EXCEPT !.idx = @ + RecHdr]
        /\ rd' = IF expected = {} THEN [rd EXCEPT !.error = "PARSE_ERROR"]
                 ELSE LET r == CHOOSE x \in expected : TRUE
                      IN  [rd EXCEPT !.cur = r, !.curSize = SizeOf(recs[r]),
                                     !.reply = "getData", !.error = "none"]

\* A call begins without application data at hand; the loop goes on while
\* the buffer holds more.
GetHeader ==
    /\ Reading
    /\ rd.reply = "doProcessInit"
    /\ rd.clearLen = 0 \/ Used(in) > 0
    /\ \E g \in GetInputData(RecHdr) :
           \/ Fetched(g) /\ ParseHeader(g.in)
           \/ NotFetched(g)
    /\ UNCHANGED <<session, recs, link>>

\* The length check, DoDecrypt and removeMsgInnerPadding.
OpenRecord(i) ==
    LET r == rd.cur
        tooLong == recs[r].enc /\ Len(recs[r].body) > MaxFragment
        opens == /\ Ahead(i, rd.curSize) = PayloadBytes(r)
                 /\ recs[r].enc => r = rd.opened + 1
    IN  /\ in' = i
        /\ IF tooLong THEN Failed("BUFFER_ERROR")
           ELSE IF ~opens THEN Failed("DECRYPT_ERROR")
           ELSE rd' = [rd EXCEPT !.opened = @ + 1,
                                 !.padSz = IF recs[r].enc THEN PadSz ELSE 0,
                                 !.curStart = i.idx,
                                 !.reply = "runProcessingOneMessage",
                                 !.error = "none"]

GetData ==
    /\ Reading
    /\ rd.reply = "getData"
    /\ \E g \in GetInputData(rd.curSize) :
           \/ Fetched(g) /\ OpenRecord(g.in)
           \/ NotFetched(g)
    /\ UNCHANGED <<session, recs, link>>

\* Mutant of AfterMessage: the padding is skipped between two messages.
AfterMessageBehindPad(i, r) ==
    LET more == i.idx < Len(i.buf) /\ i.idx - r.curStart < r.curSize
    IN  /\ in' = Shrunk(i, r.clearLen)
        /\ rd' = IF more THEN r ELSE [r EXCEPT !.reply = "doProcessInit"]

\* Mutant of AfterMessage: processReply stays.
AfterMessageUnreset(i, r) == in' = Shrunk(i, r.clearLen) /\ rd' = r

\* After a message: the buffer is exhausted and the call returns, or there is
\* more of this record, or there is another record.
AfterMessage(i, r) ==
    LET exhausted == i.idx >= Len(i.buf)
        sameRecord == i.idx - r.curStart < r.curSize
    IN  IF ~exhausted /\ sameRecord
        THEN /\ in' = Shrunk([i EXCEPT !.idx = @ - r.padSz], r.clearLen)
             /\ rd' = r
        ELSE /\ in' = Shrunk(i, r.clearLen)
             /\ rd' = [r EXCEPT !.reply = "doProcessInit"]

Processing(type) ==
    /\ Reading
    /\ rd.reply = "runProcessingOneMessage"
    /\ recs[rd.cur].type = type
    /\ UNCHANGED <<streamVars>>

\* The bytes that may belong to a handshake message: to the buffer's end.
InputLength == Used(in) - rd.padSz

\* GetHandshakeHeader: which message begins here, 0 for none.
MessageHere ==
    LET msgs == {m \in 1 .. NumHs : /\ Used(in) >= HsHdr
                                    /\ Contents(Ahead(in, HsHdr)) =
                                           SubSeq(MsgBytes(m), 1, HsHdr)}
    IN  IF msgs = {} THEN 0 ELSE CHOOSE m \in msgs : TRUE

\* DoTls13HandShakeMsgType
Handled(r, bytes) ==
    [r EXCEPT !.handled = @ + 1, !.got = @ \o Contents(bytes)]

\* Where a record ends inside a header, GetHandshakeHeader takes the rest of
\* it from the padding, if there is any.  The length it then reads holds the
\* content type or tag bytes, inputLength - HANDSHAKE_HEADER_SZ wraps around,
\* and the message is refused: as too large, out of order or incomplete, for
\* all of which INCOMPLETE_DATA stands.
HeaderError == IF Used(in) < HsHdr THEN "PARSE_ERROR" ELSE "INCOMPLETE_DATA"

\* A message begins: all of it is there, or its first part is kept.
DoMessage ==
    LET m == MessageHere
    IN  /\ Processing("handshake")
        /\ rd.pendingSz = 0
        /\ IF m = 0 THEN Failed(HeaderError) /\ in' = in
           ELSE IF InputLength >= MsgLen(m)
           THEN AfterMessage([in EXCEPT !.idx = @ + MsgLen(m) + rd.padSz],
                    Handled(rd, Ahead(in, MsgLen(m))))
           ELSE AfterMessage([in EXCEPT !.idx = @ + InputLength + rd.padSz],
                    [rd EXCEPT !.pending = Ahead(in, InputLength),
                               !.pendingSz = MsgLen(m)])

\* Another part; the last one goes to the handler with the others.
DoNextFragment ==
    LET n == Lesser(InputLength, rd.pendingSz - Len(rd.pending))
        msg == rd.pending \o Ahead(in, n)
        none == [rd EXCEPT !.pending = <<>>, !.pendingSz = 0]
    IN  /\ Processing("handshake")
        /\ rd.pendingSz > 0
        /\ AfterMessage([in EXCEPT !.idx = @ + n + rd.padSz],
               IF Len(msg) = rd.pendingSz THEN Handled(none, msg)
               ELSE [rd EXCEPT !.pending = msg])

DoApplicationData ==
    /\ Processing("application_data")
    /\ IF ~HandShakeDone THEN Failed("OUT_OF_ORDER_E") /\ in' = in
       ELSE LET dataSz == rd.curSize - rd.padSz
            IN  AfterMessage([in EXCEPT !.idx = @ + dataSz + rd.padSz],
                    [rd EXCEPT !.clearAt = in.idx, !.clearLen = dataSz])

\* A close_notify: the rest of the buffer is skipped.
DoAlert ==
    /\ Processing("alert")
    /\ in' = [in EXCEPT !.idx = Len(in.buf)]
    /\ rd' = [rd EXCEPT !.reply = "doProcessInit", !.error = "ZERO_RETURN"]

\* Mutant of Copied: the pointer stays.
CopiedAgain(r, n) == [r EXCEPT !.clearLen = @ - n]

\* What n bytes copied leave in clearOutputBuffer.
Copied(r, n) == [r EXCEPT !.clearAt = @ + n, !.clearLen = @ - n]

\* wolfSSL_read copies what fits; clearOutputBuffer points into inputBuffer.
ReceiveData ==
    /\ Reading
    /\ rd.reply = "doProcessInit"
    /\ rd.clearLen > 0
    /\ \E sz \in ReadSizes :
          LET n == Lesser(sz, rd.clearLen)
              bytes == SubSeq(in.buf, rd.clearAt + 1, rd.clearAt + n)
          IN  /\ rd' = [Copied(rd, n) EXCEPT !.got = @ \o Contents(bytes)]
              /\ in' = Shrunk(in, rd.clearLen - n)
    /\ UNCHANGED streamVars

Reader ==
    \/ GetHeader \/ GetData
    \/ DoMessage \/ DoNextFragment
    \/ DoApplicationData \/ DoAlert
    \/ ReceiveData

=============================================================================
