---------------------------- MODULE ByteChannel ----------------------------
(***************************************************************************)
(* What the record layer promises to the handshake and to the application, *)
(* in one direction, without records or buffers: the receiver gets what    *)
(* the sender handed over, in that order, each piece once; a handshake     *)
(* message only as a whole; and it is told that the stream has ended only  *)
(* when it has got all of it, an unfinished message excepted.              *)
(***************************************************************************)
EXTENDS Integers, SequencesExt

CONSTANT Bytes   \* what may be handed over

VARIABLES
    handed,   \* the bytes the sender's library has accepted
    got,      \* the bytes the receiver's handlers or application have got
    ended     \* the receiver has been told: no more data

vars == <<handed, got, ended>>

\* A byte says with cut whether the receiver may be left with it as its last:
\* a handler gets a handshake message as a whole or not at all.
Whole(bytes) == bytes = <<>> \/ bytes[Len(bytes)].cut

\* Nothing is left but the beginning of a handshake message.
Unfinished == \A i \in Len(got) + 1 .. Len(handed) : ~handed[i].cut

Init ==
    /\ handed = <<>>
    /\ got = <<>>
    /\ ended = FALSE

HandOver ==
    /\ ~ended
    /\ IsStrictPrefix(handed, handed')
    /\ \A i \in DOMAIN handed' : handed'[i] \in Bytes
    /\ UNCHANGED <<got, ended>>

Deliver ==
    /\ ~ended
    /\ IsStrictPrefix(got, got')
    /\ IsPrefix(got', handed)
    /\ Whole(got')
    /\ UNCHANGED <<handed, ended>>

EndOfData ==
    /\ ~ended
    /\ Unfinished
    /\ ended' = TRUE
    /\ UNCHANGED <<handed, got>>

Next == HandOver \/ Deliver \/ EndOfData

Spec == Init /\ [][Next]_vars

=============================================================================
