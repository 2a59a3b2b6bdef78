------------------------------- MODULE Base58 -------------------------------
(***************************************************************************)
(* SSI_Base58_Encode and SSI_Base58_Decode of ssi_identity.h: the text of  *)
(* a did:key.  A byte is a number below 256 and a character its place in   *)
(* SSI_BASE58_ALPHABET, 0 for '1'.                                         *)
(***************************************************************************)
EXTENDS Integers, Sequences

Sequence == INSTANCE SequencesExt

\* The working buffer of both conversions.
TempSize == 64

\* A conversion that returns an error.
Refused == <<-1>>

LeadingZeros(digits) ==
    LET nonzero == {i \in DOMAIN digits : digits[i] # 0}
    IN  IF nonzero = {} THEN Len(digits)
        ELSE (CHOOSE i \in nonzero : \A j \in nonzero : i <= j) - 1

\* temp holds the digits of a number in the given base, the lowest first.  A
\* pass over it that multiplies the number by factor and adds digit: what is
\* carried out of each place.
Carries(temp, factor, digit, base) ==
    LET carry[i \in 0 .. Len(temp)] ==
            IF i = 0 THEN digit
            ELSE (carry[i - 1] + factor * temp[i]) \div base
    IN  carry

\* The digits of the carry that is left.
Spilled(carry, base) ==
    LET digits[rest \in 0 .. carry] ==
            IF rest = 0 THEN <<>>
            ELSE <<rest % base>> \o digits[rest \div base]
    IN  digits[carry]

MultiplyAdd(temp, factor, digit, base) ==
    LET carry == Carries(temp, factor, digit, base)
    IN  [i \in 1 .. Len(temp) |-> (carry[i - 1] + factor * temp[i]) % base]
            \o Spilled(carry[Len(temp)], base)

\* The digits of a number given in base from, the highest first, in base to.
Converted(digits, from, to) ==
    LET temp[n \in 0 .. Len(digits)] ==
            IF n = 0 THEN <<>>
            ELSE MultiplyAdd(temp[n - 1], from, digits[n], to)
    IN  temp[Len(digits)]

\* Leading zeros are counted apart and put in front of the number.
Padded(zeros, temp) == [i \in 1 .. zeros |-> 0] \o Sequence!Reverse(temp)

\* maxOut is the room of the output, the terminating NUL included.
Encode(input, maxOut) ==
    LET zeros == LeadingZeros(input)
        temp  == Converted(SubSeq(input, zeros + 1, Len(input)), 256, 58)
    IN  IF Len(temp) > TempSize \/ zeros + Len(temp) + 1 > maxOut
        THEN Refused ELSE Padded(zeros, temp)

Decode(input, maxOut) ==
    LET zeros == LeadingZeros(input)
        temp  == Converted(SubSeq(input, zeros + 1, Len(input)), 58, 256)
    IN  IF \/ \E i \in DOMAIN input : input[i] \notin 0 .. 57
           \/ Len(temp) > TempSize
           \/ zeros + Len(temp) > maxOut
        THEN Refused ELSE Padded(zeros, temp)

=============================================================================
