--------------------------------- MODULE Guid ---------------------------------
(***************************************************************************)
(* Guid/Guid.cpp: a Guid made of the sixteen bytes of a uuid, its text,    *)
(* the Guid that is parsed from a text, and its bytes in memory.           *)
(*                                                                         *)
(* The members m_a to m_k are held as their bytes, highest first, so that  *)
(* none is wider than a number of the model.  The texts that are parsed    *)
(* hold digits and dashes: white space, signs and prefixes, which sscanf   *)
(* accepts in front of a number, do not occur.                             *)
(***************************************************************************)
EXTENDS Convert

Dash == 45

\* The members, their sizes, and whether the text has a dash behind them.
Sizes == <<4, 2, 2, 1, 1, 1, 1, 1, 1, 1, 1>>
Dashed == {1, 2, 3, 5}
Members == 1..11

\* Guid(): the bytes of the new uuid from the first to the last.
First == <<1, 5, 7, 9, 10, 11, 12, 13, 14, 15, 16>>
FromUuid(uu) == [m \in Members |-> SubSeq(uu, First[m], First[m] + Sizes[m] - 1)]

UpperHex(bytes) ==
    [i \in 1..(2 * Len(bytes)) |-> LET b == bytes[(i + 1) \div 2]
                                  IN  GetHex(IF i % 2 = 1 THEN b \div 16 ELSE b % 16, TRUE)]

\* operator std::string: %08lX-%04X-%04X-%02X%02X-%02X%02X%02X%02X%02X%02X
ToText(guid) ==
    LET printed[m \in 0..11] ==
          IF m = 0 THEN <<>>
          ELSE printed[m - 1] \o UpperHex(guid[m]) \o (IF m \in Dashed THEN <<Dash>> ELSE <<>>)
    IN  printed[11]

\* GetBytes: every member as it lies in the memory of a little-endian machine.
GetBytes(guid) ==
    Reverse(guid[1]) \o Reverse(guid[2]) \o Reverse(guid[3]) \o [i \in 1..8 |-> guid[i + 3][1]]
-----------------------------------------------------------------------------
IsHexDigit(c) == c \in (48..57) \cup (65..70) \cup (97..102)
Zeros(n) == [i \in 1..n |-> 0]
Zero == [m \in Members |-> Zeros(Sizes[m])]

\* The number some digits denote, as bytes.
Number(digits, size) == FromHex([i \in 1..(2 * size - Len(digits)) |-> 48] \o digits)

\* Which variable the m-th conversion of the format is given: &b comes twice, &c never.
Target(m) == IF m = 3 THEN 2 ELSE m

\* One conversion of sscanf, and the dash behind it: as many digits as there are up
\* to the width; with none, or without the dash, the parsing ends there.
Scan(sofar, m, text) ==
    LET Digits(n) == \A i \in 1..n : sofar.pos + i <= Len(text) /\ IsHexDigit(text[sofar.pos + i])
        width == CHOOSE n \in 0..(2 * Sizes[m]) :
                    Digits(n) /\ (n = 2 * Sizes[m] \/ ~Digits(n + 1))
        digits == SubSeq(text, sofar.pos + 1, sofar.pos + width)
        behind == sofar.pos + width + 1
        dash == m \notin Dashed \/ (behind <= Len(text) /\ text[behind] = Dash)
    IN  IF ~sofar.on \/ width = 0 THEN [sofar EXCEPT !.on = FALSE]
        ELSE [guid |-> [sofar.guid EXCEPT ![Target(m)] = Number(digits, Sizes[m])],
              on   |-> dash,
              pos  |-> IF m \in Dashed THEN behind ELSE behind - 1]

\* Guid(const std::string&): what is not parsed is zero.
FromText(text) ==
    LET scanned[m \in 0..11] ==
          IF m = 0 THEN [guid |-> Zero, on |-> TRUE, pos |-> 0]
          ELSE Scan(scanned[m - 1], m, text)
    IN  scanned[11].guid
=============================================================================
