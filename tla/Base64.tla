-------------------------------- MODULE Base64 --------------------------------
(***************************************************************************)
(* Convert/Base64.cpp: encoding with either alphabet, line breaks, and     *)
(* decoding.  Texts and bytes are sequences of numbers, characters their   *)
(* codes.  Decoding answers with a record: the bytes, whether it came to   *)
(* the end or threw, and the highest position of the text it has read.     *)
(***************************************************************************)
EXTENDS Texts, SequencesExt

Newline == 10
Pads == {61, 46}                          \* '=' and '.', each read for the other
PadOf(url) == IF url THEN 46 ELSE 61

\* base64_chars: the alphabets differ in their last two characters.
base64_chars(url) ==
    [p \in 0..63 |-> CASE p < 26 -> 65 + p
                       [] p \in 26..51 -> 97 + p - 26
                       [] p \in 52..61 -> 48 + p - 52
                       [] p = 62 -> IF url THEN 45 ELSE 43
                       [] p = 63 -> IF url THEN 95 ELSE 47]

Invalid == -1

\* Mutant: what is in no alphabet counts as zero.
pos_of_char_lenient(c) == CASE c \in 65..90  -> c - 65
                            [] c \in 97..122 -> c - 97 + 26
                            [] c \in 48..57  -> c - 48 + 52
                            [] c \in {43, 45} -> 62
                            [] c \in {47, 95} -> 63
                            [] OTHER -> 0

\* pos_of_char: both alphabets are understood; anything else is thrown at.
pos_of_char(c) == CASE c \in 65..90  -> c - 65
                    [] c \in 97..122 -> c - 97 + 26
                    [] c \in 48..57  -> c - 48 + 52
                    [] c \in {43, 45} -> 62
                    [] c \in {47, 95} -> 63
                    [] OTHER -> Invalid
-----------------------------------------------------------------------------
\* Up to three bytes as four characters.
EncodedGroup(b, url) ==
    LET char == base64_chars(url)
        pad == PadOf(url)
    IN  CASE Len(b) = 1 -> <<char[b[1] \div 4], char[(b[1] % 4) * 16], pad, pad>>
          [] Len(b) = 2 -> <<char[b[1] \div 4], char[(b[1] % 4) * 16 + b[2] \div 16],
                             char[(b[2] % 16) * 4], pad>>
          [] OTHER      -> <<char[b[1] \div 4], char[(b[1] % 4) * 16 + b[2] \div 16],
                             char[(b[2] % 16) * 4 + b[3] \div 64], char[b[3] % 64]>>

base64_encode(bytes, url) ==
    LET n == Len(bytes)
        groups[k \in 0..((n + 2) \div 3)] ==
          IF k = 0 THEN <<>>
          ELSE groups[k - 1] \o EncodedGroup(SubSeq(bytes, 3 * k - 2, IF 3 * k < n THEN 3 * k ELSE n), url)
    IN  groups[(n + 2) \div 3]

\* A line break behind every distance characters that others follow.
insert_linebreaks(str, distance) ==
    LET broken[i \in 0..Len(str)] ==
          IF i = 0 THEN <<>>
          ELSE broken[i - 1] \o (IF i > 1 /\ (i - 1) % distance = 0 THEN <<Newline, str[i]>> ELSE <<str[i]>>)
    IN  broken[Len(str)]
-----------------------------------------------------------------------------
Answer(out, ok, reach) == [out |-> out, ok |-> ok, reach |-> reach]

\* encoded_string[p]; behind the last character there is the terminating zero.
CharAt(text, p) == IF p < Len(text) THEN text[p + 1] ELSE 0

\* One round of the loop of decode, on the characters from p on: the second is
\* looked at first, and the fourth only if the third is no padding.
DecodedGroup(text, p) ==
    LET first  == pos_of_char(CharAt(text, p))
        second == pos_of_char(CharAt(text, p + 1))
        third  == pos_of_char(CharAt(text, p + 2))
        fourth == pos_of_char(CharAt(text, p + 3))
        one    == <<(first * 4 + second \div 16) % 256>>
        two    == Append(one, (second % 16) * 16 + third \div 4)
    IN  IF Invalid \in {first, second} THEN Answer(<<>>, FALSE, p + 1)
        ELSE IF CharAt(text, p + 2) \in Pads THEN Answer(one, TRUE, p + 2)
        ELSE IF third = Invalid THEN Answer(<<>>, FALSE, p + 2)
        ELSE IF CharAt(text, p + 3) \in Pads THEN Answer(two, TRUE, p + 3)
        ELSE IF fourth = Invalid THEN Answer(<<>>, FALSE, p + 3)
        ELSE Answer(Append(two, (third % 4) * 64 + fourth), TRUE, p + 3)

\* The loop of decode: groups of four, up to the first exception.
DecodedGroups(text) ==
    LET decoded[k \in 0..((Len(text) + 3) \div 4)] ==
          IF k = 0 THEN Answer(<<>>, TRUE, -1)
          ELSE LET sofar == decoded[k - 1]
                   group == DecodedGroup(text, 4 * (k - 1))
               IN  IF sofar.ok THEN Answer(sofar.out \o group.out, group.ok, group.reach) ELSE sofar
    IN  decoded[(Len(text) + 3) \div 4]

base64_decode(text, remove_linebreaks) ==
    DecodedGroups(IF remove_linebreaks THEN Without(text, {Newline}) ELSE text)
=============================================================================
