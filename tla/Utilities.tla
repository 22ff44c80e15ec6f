------------------------------ MODULE Utilities ------------------------------
(***************************************************************************)
(* Programs over the utilities that keep a state: one works with spans and *)
(* dates, one with paths and the file system, one fills a table.  They     *)
(* share nothing; a behaviour is that of one of them, the subject, while   *)
(* the others have not begun.                                              *)
(***************************************************************************)
EXTENDS DateTime, Path, ConsoleTable

VARIABLE subject

utilityVars == <<subject, timeVars, vars, tableVars>>

\* The programs that have not begun: any initial state will do.
NoTime == LET tick  == CHOOSE t \in GivenTicks : TRUE
              stamp == CHOOSE t \in GivenStamps : TRUE
          IN  /\ spans = [s \in Spans |-> OfTicks(tick)]
              /\ dates = [d \in Dates |-> FromStamp(stamp, "Local")]
NoPath == LET tree == CHOOSE t \in GivenTrees : TRUE
          IN  dirs = tree.dirs /\ files = tree.files

UtilityInit == /\ DateInit /\ Init /\ TableInit
               /\ \/ subject = "time" /\ NoPath
                  \/ subject = "path" /\ NoTime
                  \/ subject = "table" /\ NoTime /\ NoPath

UtilityNext == \/ subject = "time" /\ TimeNext /\ UNCHANGED <<subject, vars, tableVars>>
               \/ subject = "path" /\ Next /\ UNCHANGED <<subject, timeVars, tableVars>>
               \/ subject = "table" /\ TableNext /\ UNCHANGED <<subject, timeVars, vars>>

UtilitySpec == UtilityInit /\ [][UtilityNext]_utilityVars
=============================================================================
