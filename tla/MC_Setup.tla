------------------------------ MODULE MC_Setup ------------------------------
EXTENDS SetupProperties

TwoKeys == {<<1, 2>>, <<255, 255>>}

\* A short text, the longest that is taken, the shortest that is not, and one
\* that would not fit the credential.
SomeTexts == {"short", "longest", "filling", "tooLong"}
LengthOf == [short |-> 19, longest |-> 255, filling |-> 256, tooLong |-> 300]

\* A list that is taken, and one whose second type is not.
SomeBuffers == {<<"X509", "VC">>, <<"X509", "other">>}

\* The number that digits stand for, the highest first.
Value(digits, base) == Sequence!FoldLeft(LAMBDA n, d : base * n + d, 0, digits)

Inputs == UNION {[1 .. n -> {0, 1, 57, 58, 255}] : n \in 0 .. 3}

\* base58 against its definition: the text has as many leading ones as the
\* input has zero bytes, stands for the same number in digits below 58, and
\* gives the input back; 64 characters hold it, and one too few do not.
ASSUME Base58Encodes ==
    \A input \in Inputs :
        LET text == Encode(input, 64)
        IN  /\ text \in Seq(0 .. 57)
            /\ LeadingZeros(text) = LeadingZeros(input)
            /\ Value(text, 58) = Value(input, 256)
            /\ Decode(text, Len(input)) = input
            /\ Encode(input, Len(text)) = Refused
            /\ input # <<>> => Decode(text, Len(input) - 1) = Refused

\* Keys of full size, which the runs are too slow for.
FullKeys == {[i \in 1 .. SSI_ED25519_PUB_KEY_SIZE |-> 0],
             [i \in 1 .. SSI_ED25519_PUB_KEY_SIZE |-> 255],
             [i \in 1 .. SSI_ED25519_PUB_KEY_SIZE |-> 8 * i - 1]}

\* Their DIDs have 47 characters, 6Mk the first of them as SSI_Identity.did's
\* comment says ("did:key:z6Mk..."), and give the key back.
ASSUME FullKeysFit ==
    \A key \in FullKeys :
        LET text == DidText(key)
        IN  /\ Len(text) = 47 /\ SubSeq(text, 1, 3) = <<5, 20, 43>>
            /\ Decode(text, 64) = Multicodec \o key

=============================================================================
