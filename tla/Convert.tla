-------------------------------- MODULE Convert --------------------------------
(***************************************************************************)
(* Convert/Convert.cpp: bytes to hexadecimal digits and back.  Base64 goes *)
(* through to the functions of Base64.                                     *)
(***************************************************************************)
EXTENDS Base64

GetHex(val, upperCase) == CASE val \in 0..9 -> 48 + val
                            [] val \in 10..15 -> (IF upperCase THEN 65 ELSE 97) + val - 10
                            [] OTHER -> 0

\* A character that is no digit counts as zero.
GetByte(c) == CASE c \in 48..57 -> c - 48
                [] c \in 97..102 -> c - 97 + 10
                [] c \in 65..70 -> c - 65 + 10
                [] OTHER -> 0

\* A byte as the code holds it: in a char, which is signed.
AsChar(byte) == IF byte < 128 THEN byte ELSE byte - 256

\* Mutant: the high half is not masked after the shift of the signed char.
HighHalfUnmasked(c) == c \div 16

\* (c >> 4) & 0x0f: the shift keeps the sign.
HighHalf(c) == (c \div 16) % 16

\* The parameter upperCase is not passed on: the digits are lower case always.
ToHex(bytes, upperCase) ==
    [i \in 1..(2 * Len(bytes)) |-> LET c == AsChar(bytes[(i + 1) \div 2])
                                  IN  GetHex(IF i % 2 = 1 THEN HighHalf(c) ELSE c % 16, FALSE)]

\* A text of odd length is answered with nothing.
FromHex(hex) ==
    IF Len(hex) % 2 # 0 THEN <<>>
    ELSE [i \in 1..(Len(hex) \div 2) |-> GetByte(hex[2 * i - 1]) * 16 + GetByte(hex[2 * i])]

ToBase64(bytes) == base64_encode(bytes, FALSE)
FromBase64(text) == base64_decode(text, FALSE)
=============================================================================
