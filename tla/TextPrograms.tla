----------------------------- MODULE TextPrograms -----------------------------
(***************************************************************************)
(* Programs over text: one calls a function of StringEx, one converts      *)
(* bytes and texts.  They share nothing; a behaviour is that of one of     *)
(* them, the subject, while the other has not begun.                       *)
(***************************************************************************)
EXTENDS StringEx, Conversions

VARIABLE subject

textVars == <<subject, stringVars, conversionVars>>

NoString == text = <<>> /\ original = <<>> /\ request = NoCall /\ pc = "idle" /\ current = 0 /\ pieces = <<>>
NoConversion == kind = "typed" /\ raw = <<>> /\ encoded = <<>> /\ count = 0 /\ cut = FALSE

TextInit == \/ subject = "string" /\ StringInit /\ NoConversion
            \/ subject = "conversion" /\ NoString /\ ConversionInit

StringRound == subject = "string" /\ Round /\ UNCHANGED <<subject, conversionVars>>

TextNext == \/ subject = "string" /\ StringNext /\ UNCHANGED <<subject, conversionVars>>
            \/ subject = "conversion" /\ ConversionNext /\ UNCHANGED <<subject, stringVars>>

TextSafetySpec == TextInit /\ [][TextNext]_textVars
TextSpec == TextSafetySpec /\ WF_textVars(StringRound)
=============================================================================
