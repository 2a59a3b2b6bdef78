---------------------------- MODULE RecordWriter ----------------------------
(***************************************************************************)
(* The sender's record layer: messages become records in the output        *)
(* buffer, a Certificate as many as it needs, and SendBuffered empties the *)
(* buffer as far as the socket takes it.  A call that is blocked returns   *)
(* WANT_WRITE and is made again.  wr.next is the message being sent: the   *)
(* state of the connect or accept switch, then the application's write.    *)
(***************************************************************************)
EXTENDS RecordStream

VARIABLES
    out,  \* ssl->buffers.outputBuffer: [buf, idx]
    wr    \* the rest of the sender's session

writerVars == <<out, wr>>

EmptyOut == [buf |-> <<>>, idx |-> 0]

WriterInit ==
    /\ out = EmptyOut
    /\ wr = [phase |-> "sending", next |-> 1, fragOffset |-> 0,
             sent |-> 0, prevSent |-> 0, plainSz |-> 0,
             error |-> "none", sentNotify |-> FALSE, handed |-> <<>>]

Pending(o) == Len(o.buf) - o.idx

\* All records after the first message are encrypted.
BuildRecord(type, body) ==
    recs' = Append(recs, [type |-> type, enc |-> wr.next > 1, body |-> body])

\* A record goes behind what is still in the output buffer.
Buffered ==
    LET r == Len(recs')
    IN  [out EXCEPT !.buf = @ \o
            [i \in 1 .. RecHdr + SizeOf(recs'[r]) |-> <<r, i>>]]

\* SendBuffered, by its results: the socket takes k bytes before it blocks; the
\* peer may be gone.
SendBuffered(o) ==
    IF link = "cut"
    THEN {[wire |-> wire, out |-> o, error |-> "SOCKET_ERROR_E"]}
    ELSE {[wire  |-> wire \o SubSeq(o.buf, o.idx + 1, o.idx + k),
           out   |-> IF k = Pending(o) THEN EmptyOut ELSE [o EXCEPT !.idx = @ + k],
           error |-> IF k = Pending(o) THEN "none" ELSE "WANT_WRITE"] :
              k \in 0 .. Pending(o)}

Sends(result) == wire' = result.wire /\ out' = result.out

Sending(m) == wr.phase = "sending" /\ wr.next = m /\ m <= NumMsgs

Handshaking == wr.phase = "sending" /\ wr.next <= NumHs

\* connect and accept called again: what was left goes first, and the state
\* only advances when the message is complete.
ResumeHandshake ==
    /\ Handshaking
    /\ wr.error = "WANT_WRITE"
    /\ \E s \in SendBuffered(out) :
           /\ Sends(s)
           /\ wr' = [wr EXCEPT !.error = s.error,
                               !.next = IF s.error = "none" /\ wr.fragOffset = 0
                                        THEN @ + 1 ELSE @]
    /\ UNCHANGED <<session, recs, link>>

\* Every handshake message but the Certificate is one record.
SendHandshake ==
    /\ session.peer = "wolfSSL"
    /\ Handshaking
    /\ ~session.hs[wr.next].cert
    /\ wr.error = "none"
    /\ BuildRecord("handshake", MsgBytes(wr.next))
    /\ \E s \in SendBuffered(Buffered) :
           /\ Sends(s)
           /\ wr' = [wr EXCEPT !.error = s.error,
                               !.handed = @ \o MsgBytes(wr.next),
                               !.next = IF s.error = "none" THEN @ + 1 ELSE @]
    /\ UNCHANGED <<session, link>>

\* Copies from certificate byte idx on; the empty extension goes in if the
\* bytes left to send are not more than a fragment.
AddCertExt(len, idx, fragSz) ==
    LET i == IF idx < len THEN Lesser(len - idx, fragSz) ELSE 0
    IN  IF i = fragSz \/ len + ExtSz - idx - i > fragSz THEN i ELSE i + ExtSz

\* certSz: the bytes of certificate in a Certificate message.
CertSz(m) == session.hs[m].size - CertHdr - ExtSz

Fragment(m) ==
    IF wr.fragOffset = 0
    THEN LET fragSz == Lesser(session.hs[m].size, MaxFragment - HsHdr)
         IN  SubSeq(MsgBytes(m), 1,
                 HsHdr + CertHdr + AddCertExt(CertSz(m), 0, fragSz - CertHdr))
    ELSE LET from == HsHdr + CertHdr + wr.fragOffset
             fragSz == Lesser(MsgLen(m) - from, MaxFragment)
         IN  SubSeq(MsgBytes(m), from + 1,
                    from + AddCertExt(CertSz(m), wr.fragOffset, fragSz))

\* What SendTls13Certificate leaves when it has sent up to fragOffset.
AfterFragment(m, offset, body, error) ==
    LET complete == error = "none" /\ offset = CertSz(m) + ExtSz
    IN  [wr EXCEPT !.error = error,
                   !.handed = @ \o body,
                   !.fragOffset = IF complete \/ error = "SOCKET_ERROR_E"
                                  THEN 0 ELSE offset,
                   !.next = IF complete THEN @ + 1 ELSE @]

SendCertificate ==
    \E m \in 1 .. NumHs :
        /\ session.peer = "wolfSSL"
        /\ Sending(m)
        /\ session.hs[m].cert
        /\ wr.error = "none"
        /\ IF wr.fragOffset < CertSz(m) + ExtSz
           THEN LET body == Fragment(m)
                    header == IF wr.fragOffset = 0 THEN HsHdr + CertHdr ELSE 0
                    offset == wr.fragOffset + Len(body) - header
                IN  /\ BuildRecord("handshake", body)
                    /\ \E s \in SendBuffered(Buffered) :
                           Sends(s) /\ wr' = AfterFragment(m, offset, body, s.error)
           ELSE \* the last fragment was blocked and is out now
                /\ wr' = AfterFragment(m, wr.fragOffset, <<>>, "none")
                /\ UNCHANGED <<recs, wire, out>>
        /\ UNCHANGED <<session, link>>

\* Where a TLS implementation may end a record of its handshake: behind any
\* byte, those of a message's header included.
CutPoints == {p \in DOMAIN Script : Script[p].msg <= NumHs}

\* Another implementation packs messages into records and splits them as it
\* likes, but never across a change of keys (RFC 8446, 5.1); how it buffers
\* them is its own business.
SendOther ==
    /\ session.peer = "other"
    /\ Handshaking
    /\ link = "up"
    /\ \E p \in CutPoints :
          LET from == Len(wr.handed)
              body == SubSeq(Script, from + 1, p)
              at == Script[p]
          IN  /\ p - from \in 1 .. MaxFragment
              /\ from >= MsgLen(1) \/ p <= MsgLen(1)
              /\ BuildRecord("handshake", body)
              /\ wire' = wire \o Buffered.buf
              /\ wr' = [wr EXCEPT !.handed = @ \o body,
                                 !.next = at.msg + IF at.cut THEN 1 ELSE 0]
    /\ UNCHANGED <<session, out, link>>

\* Mutant of ResumeWrite: plainSz is not added to prevSent.
ResumeWriteForgetting ==
    \E m \in NumHs + 1 .. NumMsgs :
        /\ Sending(m)
        /\ wr.error = "WANT_WRITE"
        /\ \E s \in SendBuffered(out) :
               /\ Sends(s)
               /\ wr' = [wr EXCEPT !.error = s.error, !.sent = wr.prevSent]
        /\ UNCHANGED <<session, recs, link>>

\* wolfSSL_write again after WANT_WRITE: the record that was blocked first.
ResumeWrite ==
    \E m \in NumHs + 1 .. NumMsgs :
        /\ Sending(m)
        /\ wr.error = "WANT_WRITE"
        /\ \E s \in SendBuffered(out) :
               /\ Sends(s)
               /\ wr' = IF s.error # "none" THEN [wr EXCEPT !.error = s.error]
                        ELSE LET sent == wr.prevSent + wr.plainSz
                                 done == sent = MsgLen(m)
                             IN  [wr EXCEPT !.error = "none",
                                            !.sent = IF done THEN 0 ELSE sent,
                                            !.next = IF done THEN @ + 1 ELSE @]
        /\ UNCHANGED <<session, recs, link>>

\* One round of SendData's loop.
SendData ==
    \E m \in NumHs + 1 .. NumMsgs :
        /\ Sending(m)
        /\ wr.error = "none"
        /\ LET buffSz == Lesser(MsgLen(m) - wr.sent, MaxFragment)
               body == SubSeq(MsgBytes(m), wr.sent + 1, wr.sent + buffSz)
               done == wr.sent + buffSz = MsgLen(m)
           IN  /\ BuildRecord("application_data", body)
               /\ \E s \in SendBuffered(Buffered) :
                      /\ Sends(s)
                      /\ wr' = IF s.error = "none"
                               THEN [wr EXCEPT !.handed = @ \o body,
                                               !.sent = IF done THEN 0 ELSE @ + buffSz,
                                               !.next = IF done THEN @ + 1 ELSE @]
                               ELSE [wr EXCEPT !.handed = @ \o body,
                                               !.error = s.error,
                                               !.prevSent = wr.sent,
                                               !.plainSz = buffSz]
        /\ UNCHANGED <<session, link>>

Close == wr' = [wr EXCEPT !.phase = "closing"] /\ UNCHANGED <<streamVars, out>>

\* All is written, or the peer is gone.
Finish ==
    /\ wr.phase = "sending"
    /\ wr.next > NumMsgs \/ wr.error = "SOCKET_ERROR_E"
    /\ Close

\* HS_TIMEOUT passes, or the result of a write is ignored; never inside a
\* call that has more to build.
GiveUp ==
    /\ wr.phase = "sending"
    /\ \/ wr.error = "WANT_WRITE"
       \/ wr.fragOffset = 0 /\ wr.sent = 0
    /\ Close

\* wolfSSL_shutdown: what is left first, then the close_notify.
ShutdownFlush ==
    /\ wr.phase = "closing"
    /\ wr.error = "WANT_WRITE"
    /\ \E s \in SendBuffered(out) :
           Sends(s) /\ wr' = [wr EXCEPT !.error = s.error]
    /\ UNCHANGED <<session, recs, link>>

\* A client that has sent its first message has keys when it has the answer.
ShutdownNotify ==
    /\ wr.phase = "closing"
    /\ wr.error = "none"
    /\ ~wr.sentNotify
    /\ \E enc \in {wr.next > 1} \cup {recs[r].enc : r \in {Len(recs)} \ {0}} :
          recs' = Append(recs, [type |-> "alert", enc |-> enc,
                                body |-> <<Filler, Filler>>])
    /\ \E s \in SendBuffered(Buffered) :
           /\ Sends(s)
           /\ wr' = [wr EXCEPT !.error = s.error,
                               !.sentNotify = s.error \in {"none", "WANT_WRITE"}]
    /\ UNCHANGED <<session, link>>

\* wolfSSL_free and stop(): what the socket has not taken is lost.
Stop ==
    /\ wr.phase = "closing"
    /\ wr.sentNotify \/ wr.error # "none"
    /\ wr' = [wr EXCEPT !.phase = "stopped"]
    /\ out' = EmptyOut
    /\ link' = IF link = "up" THEN "stopped" ELSE link
    /\ UNCHANGED <<session, recs, wire>>

Writer ==
    \/ ResumeHandshake \/ SendHandshake \/ SendCertificate \/ SendOther
    \/ ResumeWrite \/ SendData
    \/ Finish \/ ShutdownFlush \/ ShutdownNotify \/ Stop

=============================================================================
