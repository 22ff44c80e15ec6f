----------------------------- MODULE Conversions -----------------------------
(***************************************************************************)
(* Programs that turn bytes into text with Convert, Base64 and Guid and    *)
(* back: bytes are encoded piece by piece into one text, the text may lose *)
(* its end, or somebody may have typed it.                                 *)
(***************************************************************************)
EXTENDS Guid

CONSTANTS Pieces,     \* the sequences of bytes that are encoded at once
          MaxPieces,  \* bound: calls of an encoder for one text
          Uuids,      \* the bytes uuid_generate may return
          TypedChars, \* the characters somebody types
          MaxTyped,   \* bound: length of a typed text
          PemLine,    \* 64 in encode_pem
          MimeLine    \* 76 in encode_mime

ASSUME ConversionsAssumption ==
         /\ TypedChars \subseteq 0..255 /\ {MaxPieces, MaxTyped} \subseteq Nat
         /\ \A piece \in Pieces : piece \in Seq(0..255)
         /\ \A length \in {PemLine, MimeLine} : length \in Nat \ {0} /\ length % 4 = 0
         /\ \A uu \in Uuids : uu \in Seq(0..255) /\ Len(uu) = 16

VARIABLES kind,     \* how the text is made
          raw,      \* the bytes that were encoded
          encoded,  \* the text
          count,    \* calls of the encoder so far
          cut       \* the text has lost its end

conversionVars == <<kind, raw, encoded, count, cut>>

Base64Kinds == {"base64", "url", "pem", "mime"}

Encode(k, bytes) ==
    CASE k = "base64" -> ToBase64(bytes)
      [] k = "url"    -> base64_encode(bytes, TRUE)
      [] k = "pem"    -> insert_linebreaks(base64_encode(bytes, FALSE), PemLine)
      [] k = "mime"   -> insert_linebreaks(base64_encode(bytes, FALSE), MimeLine)
      [] k = "hex"    -> ToHex(bytes, TRUE)
      [] k = "guid"   -> ToText(FromUuid(bytes))

ConversionInit ==
    /\ kind \in Base64Kinds \cup {"hex", "guid", "typed"}
    /\ raw = <<>>
    /\ encoded \in IF kind = "typed" THEN BoundedSeq(TypedChars, MaxTyped) ELSE {<<>>}
    /\ count = 0
    /\ cut = FALSE

EncodePiece(piece) ==
    /\ kind # "typed" /\ ~cut
    /\ piece \in (IF kind = "guid" THEN Uuids ELSE Pieces)
    /\ count < (IF kind = "guid" THEN 1 ELSE MaxPieces)
    /\ raw' = raw \o piece
    /\ encoded' = encoded \o Encode(kind, piece)
    /\ count' = count + 1
    /\ UNCHANGED <<kind, cut>>

LoseEnd(n) == /\ kind # "typed" /\ ~cut /\ n < Len(encoded)
              /\ encoded' = SubSeq(encoded, 1, n)
              /\ cut' = TRUE
              /\ UNCHANGED <<kind, raw, count>>

ConversionNext == \/ \E piece \in Pieces \cup Uuids : EncodePiece(piece)
                  \/ \E n \in 0..(Len(encoded) - 1) : LoseEnd(n)

ConversionSpec == ConversionInit /\ [][ConversionNext]_conversionVars
-----------------------------------------------------------------------------
\* Base64: what was encoded in pieces, each with its own padding and line breaks, is
\* decoded as one text; only the decoder that does not remove line breaks throws at
\* them. Of a text that lost its end the decoder returns a beginning of the bytes,
\* if it does not throw.
Base64AndBack ==
    kind \in Base64Kinds =>
        LET plain  == FromBase64(encoded)
            broken == base64_decode(encoded, TRUE)
        IN  /\ ~cut => /\ broken.ok /\ broken.out = raw
                       /\ plain.ok <=> Newline \notin ToSet(encoded)
            /\ broken.ok => IsPrefix(broken.out, raw)
            /\ plain.ok => plain.out = broken.out

\* Hexadecimal digits: the same, but an odd length is answered with nothing at all.
HexAndBack ==
    kind = "hex" => /\ ~cut => FromHex(encoded) = raw
                    /\ IsPrefix(FromHex(encoded), raw)

\* A Guid that goes through its text comes back with its third member in place of
\* the second, and a third member of zero (135-153); no other member is harmed. Its
\* bytes in memory are those of the uuid with the first three members turned round.
GuidAndBack ==
    kind = "guid" /\ raw # <<>> /\ ~cut =>
        LET guid == FromUuid(raw)
            From(i) == IF i <= 4 THEN 5 - i ELSE IF i <= 6 THEN 11 - i ELSE IF i <= 8 THEN 15 - i ELSE i
        IN  /\ FromText(encoded) = [guid EXCEPT ![2] = guid[3], ![3] = Zeros(2)]
            /\ GetBytes(guid) = [i \in 1..16 |-> raw[From(i)]]

\* What a conversion makes of bytes, the conversion back makes bytes of again.
ThereAndBack == Base64AndBack /\ HexAndBack /\ GuidAndBack

\* decode reads two or three characters ahead without looking at the length: it never
\* reads past the zero behind a std::string, and of a text of whole groups not even
\* that, as a string_view requires (200-217).
ReadsInside ==
    LET reach == FromBase64(encoded).reach
    IN  /\ reach <= Len(encoded)
        /\ Len(encoded) % 4 = 0 => reach < Len(encoded)
=============================================================================
