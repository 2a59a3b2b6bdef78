---------------------------- MODULE RecordLayer ----------------------------
(***************************************************************************)
(* Both record layers around the stream: one direction of a connection,    *)
(* from the messages of the sender's handshake and the writes of its       *)
(* application to the handlers and the reads at the other end.             *)
(***************************************************************************)
EXTENDS RecordWriter, RecordReader

vars == <<streamVars, writerVars, readerVars>>

Init == StreamInit /\ WriterInit /\ ReaderInit

WriterStep == Writer /\ UNCHANGED readerVars

ReaderStep == Reader /\ UNCHANGED writerVars

Next ==
    \/ WriterStep
    \/ GiveUp /\ UNCHANGED readerVars
    \/ ReaderStep
    \/ Cut /\ UNCHANGED <<writerVars, readerVars>>

Spec == Init /\ [][Next]_vars

\* Both sides call again while the result is WANT_READ or WANT_WRITE, and the
\* network goes on taking and delivering bytes: a call that changes something
\* is one that moves at least one of them.
FairSpec ==
    /\ Spec
    /\ WF_vars(WriterStep)
    /\ WF_vars(ReaderStep)

=============================================================================
