-------------------------------- MODULE Path --------------------------------
(***************************************************************************)
(* Class Path (Path/Path.cpp): paths as lists of names, and the operations *)
(* on the file system they name.  Callers (threads or processes) share the *)
(* file system; each constructs a Path object and makes a call of it, one  *)
(* after the other.  An operation that asks the system more than once, or  *)
(* recurses, is one action per call of the system, so that callers         *)
(* interleave in between.                                                  *)
(*                                                                         *)
(* A name is a sequence of characters, which only the patterns of          *)
(* GetSubPaths look into.  A text is a sequence of names and dividers.     *)
(* A path whose first name is a drive is absolute; the others are relative *)
(* to the current directory, which nobody changes.                         *)
(***************************************************************************)
EXTENDS Integers, Sequences, FiniteSets, SequencesExt, Pattern

CONSTANTS Callers,        \* the threads or processes
          Drives,         \* names that exist and stay: "C:"
          Home,           \* what GetHomePath returns, as a text
          GivenTexts,     \* the texts Path objects are constructed from
          GivenNames,     \* arguments of Rename
          GivenPatterns,  \* arguments of GetSubPaths
          GivenTrees,     \* the file systems to start with: [dirs, files]
          StackLimit      \* bound: nested calls the stack has room for

VARIABLES dirs, files,    \* the locations at which there is a directory, or a file
          path,           \* m_paths of the object each caller's call in progress is on
          call,           \* the operation in progress: "none", "create" or "walk"
          stack,          \* its nested calls, the innermost last
          rescured,       \* its argument rescured (sic)
          result,         \* what CreatePath has returned, until the next call
          pattern,        \* the argument of GetSubPaths
          paths,          \* what GetSubPaths has found so far
          crashed,        \* "no", "stack overflow", or "empty": back() of no names
          disturbed,      \* ghost: others have changed the file system in the call
          rootless        \* ghost: the first name was missing at some time in the call

treeVars == <<dirs, files>>
argumentVars == <<rescured, pattern>>
vars == <<dirs, files, path, call, stack, rescured, result, pattern, paths, crashed,
          disturbed, rootless>>

divider == "/"            \* PATH_DIVIDER and WRONG_PATH_DIVIDER alike
tilde == <<"~">>
-----------------------------------------------------------------------------
\* ReplacePathDivider: the names between the dividers, empty ones dropped.
Names(text) ==
    LET kept[i \in 0..Len(text)] ==
          IF i = 0 THEN <<>>
          ELSE IF text[i] = divider THEN kept[i - 1] ELSE Append(kept[i - 1], text[i])
    IN  kept[Len(text)]

\* The names joined by dividers, as in Parent() and operator std::string.
Merge(names) ==
    IF names = <<>> THEN <<>>
    ELSE [i \in 1..(2 * Len(names) - 1) |-> IF i % 2 = 1 THEN names[(i + 1) \div 2] ELSE divider]

\* operator std::string: a leading "~" becomes the home directory.
Text(names) == IF names # <<>> /\ Head(names) = tilde
               THEN Home \o Tail(Merge(names))
               ELSE Merge(names)

\* The path of the first name alone.
Root(names) == IF names = <<>> THEN <<>> ELSE <<Head(names)>>

\* Mutant: the last name is not left out.
ParentKeepsAll(names) == Names(Merge(names))

\* Parent(): all but the last name, through a text and back.
Parent(names) == IF names = <<>> THEN <<>> ELSE Names(Merge(Front(names)))

\* Join(): the names of the argument are appended.
Join(names, text) == names \o Names(text)

\* The location the system finds under a path.
Location(names) == Names(Text(names))

\* access(), for which the empty text does not exist.
Exists(names) == Location(names) \in dirs \cup files

\* What the file system allows: mkdir, rmdir, rename, and a listing.
IsDrive(place) == Len(place) = 1 /\ place[1] \in Drives
Reachable(place) == Len(place) = 1 \/ Front(place) \in dirs
CanMake(place) == /\ place # <<>>
                  /\ place \notin dirs \cup files
                  /\ ~IsDrive(place)
                  /\ Reachable(place)
Children(place) == {child \in dirs \cup files : child # <<>> /\ Front(child) = place}
CanRemove(place) == place \in dirs /\ ~IsDrive(place) /\ Children(place) = {}
CanRename(from, to) == /\ from \in dirs \cup files
                       /\ ~IsDrive(from)
                       /\ to = from \/ to \notin dirs \cup files
Moved(places, from, to) ==
    {IF IsPrefix(from, place) THEN to \o SubSeq(place, Len(from) + 1, Len(place)) ELSE place :
        place \in places}

IsSequence(s) == Len(s) \in Nat /\ s = [i \in 1..Len(s) |-> s[i]]

\* Texts and names are sequences, names have no dividers, a tree has the directories
\* above what is in it, and the stack has room for as many calls as a path or a place
\* has names.  A pattern has no characters that mean something to std::regex but dots
\* and stars.
ASSUME PathAssumption ==
    /\ StackLimit \in Nat \ {0}
    /\ \A text \in GivenTexts \cup {Home} :
          IsSequence(text) /\ \A i \in DOMAIN text : text[i] = divider \/ IsSequence(text[i])
    /\ \A text \in GivenTexts : {Len(Names(text)), Len(Location(Names(text)))} \subseteq 0..StackLimit
    /\ \A name \in GivenNames : name # divider /\ IsSequence(name)
    /\ \A p \in GivenPatterns : IsSequence(p) /\ \A i \in DOMAIN p : p[i] \notin {"\\", "(", ")"}
    /\ \A tree \in GivenTrees :
          /\ tree.dirs \cap tree.files = {}
          /\ \A place \in tree.dirs \cup tree.files :
                /\ IsSequence(place) /\ Len(place) \in 1..StackLimit
                /\ \A i \in DOMAIN place : place[i] # divider /\ IsSequence(place[i])
                /\ Len(place) = 1 \/ Front(place) \in tree.dirs
-----------------------------------------------------------------------------
Init == /\ \E tree \in GivenTrees : dirs = tree.dirs /\ files = tree.files
        /\ path = [c \in Callers |-> <<>>]
        /\ call = [c \in Callers |-> "none"]
        /\ stack = [c \in Callers |-> <<>>]
        /\ rescured = [c \in Callers |-> FALSE]
        /\ result = [c \in Callers |-> FALSE]
        /\ pattern = [c \in Callers |-> <<>>]
        /\ paths = [c \in Callers |-> <<>>]
        /\ crashed = "no"
        /\ disturbed = [c \in Callers |-> FALSE]
        /\ rootless = [c \in Callers |-> FALSE]

Idle(c) == call[c] = "none" /\ crashed = "no"
Running(c, operation) == call[c] = operation /\ crashed = "no"
Top(c) == Last(stack[c])
Frame(names, at) == [path |-> names, at |-> at, todo |-> {}]
Goto(c, at) == stack' = [stack EXCEPT ![c][Len(stack[c])].at = at]

\* A call begins and ends.
Begin(c, operation, names, at) ==
    /\ Idle(c)
    /\ call' = [call EXCEPT ![c] = operation]
    /\ path' = [path EXCEPT ![c] = names]
    /\ stack' = [stack EXCEPT ![c] = <<Frame(names, at)>>]
    /\ result' = [result EXCEPT ![c] = FALSE]

End(c) == /\ call' = [call EXCEPT ![c] = "none"]
          /\ path' = [path EXCEPT ![c] = <<>>]
          /\ stack' = [stack EXCEPT ![c] = <<>>]
          /\ rescured' = [rescured EXCEPT ![c] = FALSE]
          /\ pattern' = [pattern EXCEPT ![c] = <<>>]
          /\ paths' = [paths EXCEPT ![c] = <<>>]
-----------------------------------------------------------------------------
\* Remove(): rmdir, whose outcome is ignored.
RemoveCall(c) ==
    /\ Idle(c)
    /\ \E text \in GivenTexts :
          LET place == Location(Names(text))
          IN CanRemove(place) /\ dirs' = dirs \ {place}
    /\ UNCHANGED <<files, path, call, stack, argumentVars, result, paths, crashed>>

\* Rename(): the last name of the path's text, "~" expanded, is replaced.
RenameCall(c) ==
    /\ Idle(c)
    /\ \E text \in GivenTexts, name \in GivenNames :
          LET from == Location(Names(text))
              to == Append(Front(from), name)
          IN /\ from # <<>>
             /\ CanRename(from, to)
             /\ dirs' = Moved(dirs, from, to)
             /\ files' = Moved(files, from, to)
    /\ UNCHANGED <<path, call, stack, argumentVars, result, paths, crashed>>

\* Rename() of an empty path: m_paths.back() of an empty vector.
RenameNothing(c) ==
    /\ Idle(c)
    /\ \E text \in GivenTexts : Location(Names(text)) = <<>>
    /\ crashed' = "empty"
    /\ UNCHANGED <<treeVars, path, call, stack, argumentVars, result, paths>>
-----------------------------------------------------------------------------
\* CreatePath(rescured)
CreateCall(c) == /\ \E text \in GivenTexts, r \in BOOLEAN :
                       /\ rescured' = [rescured EXCEPT ![c] = r]
                       /\ Begin(c, "create", Names(text), IF r THEN "parent" ELSE "self")
                 /\ UNCHANGED <<treeVars, pattern, paths, crashed>>

\* The innermost call returns: FALSE ends the callers too, TRUE lets the next
\* one go on to its own directory.
ReturnFrom(c, rv) ==
    IF rv /\ Len(stack[c]) > 1
    THEN /\ stack' = [stack EXCEPT ![c] = [Front(@) EXCEPT ![Len(@) - 1].at = "self"]]
         /\ UNCHANGED <<call, path, argumentVars, paths, result>>
    ELSE End(c) /\ result' = [result EXCEPT ![c] = rv]

\* if (!Parent().Exists()) Parent().CreatePath(true)
CreateParent(c) ==
    /\ Running(c, "create") /\ Top(c).at = "parent"
    /\ LET parent == Parent(Top(c).path)
       IN IF Exists(parent)
          THEN Goto(c, "self") /\ UNCHANGED crashed
          ELSE IF Len(stack[c]) < StackLimit
               THEN /\ stack' = [stack EXCEPT ![c] = Append(@, Frame(parent, "parent"))]
                    /\ UNCHANGED crashed
               ELSE crashed' = "stack overflow" /\ UNCHANGED stack
    /\ UNCHANGED <<treeVars, path, call, argumentVars, result, paths>>

\* Mutant: CreatePath does not ask whether there is anything to do.
CreateSelfBlind(c) ==
    /\ Running(c, "create") /\ Top(c).at = "self"
    /\ Goto(c, "mkdir")
    /\ UNCHANGED <<treeVars, path, call, argumentVars, result, paths, crashed>>

\* if (Exists()) return true
CreateSelf(c) ==
    /\ Running(c, "create") /\ Top(c).at = "self"
    /\ IF Exists(Top(c).path)
       THEN ReturnFrom(c, TRUE)
       ELSE Goto(c, "mkdir") /\ UNCHANGED <<call, path, argumentVars, paths, result>>
    /\ UNCHANGED <<treeVars, crashed>>

\* return mkdir() >= 0
CreateMkdir(c) ==
    LET place == Location(Top(c).path)
    IN /\ Running(c, "create") /\ Top(c).at = "mkdir"
       /\ IF CanMake(place)
          THEN dirs' = dirs \cup {place} /\ ReturnFrom(c, TRUE)
          ELSE UNCHANGED dirs /\ ReturnFrom(c, FALSE)
       /\ UNCHANGED <<files, crashed>>
-----------------------------------------------------------------------------
\* GetSubPaths(pattern, rescured): an empty pattern finds nothing.
WalkCall(c) == /\ \E text \in GivenTexts, p \in GivenPatterns \ {<<>>}, r \in BOOLEAN :
                     /\ pattern' = [pattern EXCEPT ![c] = p]
                     /\ rescured' = [rescured EXCEPT ![c] = r]
                     /\ Begin(c, "walk", Names(text), "open")
               /\ UNCHANGED <<treeVars, paths, crashed>>

\* WalkDirectory is left; with the outermost one, the call ends.
LeaveDirectory(c) == IF Len(stack[c]) = 1 THEN End(c)
                     ELSE /\ stack' = [stack EXCEPT ![c] = Front(@)]
                          /\ UNCHANGED <<call, path, argumentVars, paths>>

\* if (!path.Exists()) return
WalkExists(c) ==
    /\ Running(c, "walk") /\ Top(c).at = "open"
    /\ IF Exists(Top(c).path)
       THEN Goto(c, "find") /\ UNCHANGED <<call, path, argumentVars, paths>>
       ELSE LeaveDirectory(c)
    /\ UNCHANGED <<treeVars, result, crashed>>

\* _findfirst: what is not a directory has no listing.  The entries are those of this
\* moment, with the attributes of this moment.
WalkOpen(c) ==
    LET place == Location(Top(c).path)
    IN /\ Running(c, "walk") /\ Top(c).at = "find"
       /\ IF place \in dirs
          THEN /\ stack' = [stack EXCEPT ![c][Len(stack[c])] =
                              [@ EXCEPT !.at = "list",
                                        !.todo = {[name |-> Last(child), dir |-> child \in dirs] :
                                                     child \in Children(place)}]]
               /\ UNCHANGED <<call, path, argumentVars, paths>>
          ELSE LeaveDirectory(c)
       /\ UNCHANGED <<treeVars, result, crashed>>

\* getDir: directories are reported if the pattern has no dot.
GetDir(p) == FindLastOf(p, <<".">>) = npos

\* One entry: a directory is reported and entered, a file is matched.
WalkEntry(c) ==
    /\ Running(c, "walk") /\ Top(c).at = "list"
    /\ \E entry \in Top(c).todo :
          LET currentPath == Join(Top(c).path, <<entry.name>>)
              reported == IF entry.dir THEN GetDir(pattern[c])
                          ELSE IsPatternMatched(entry.name, PatternToRegex(pattern[c]))
              rest == [stack[c] EXCEPT ![Len(stack[c])].todo = @ \ {entry}]
          IN /\ paths' = IF reported THEN [paths EXCEPT ![c] = Append(@, currentPath)] ELSE paths
             /\ stack' = [stack EXCEPT ![c] = IF entry.dir /\ rescured[c]
                                              THEN Append(rest, Frame(currentPath, "open"))
                                              ELSE rest]
    /\ UNCHANGED <<treeVars, path, call, argumentVars, result, crashed>>

\* _findnext has no more entries.
WalkClose(c) == /\ Running(c, "walk") /\ Top(c).at = "list"
                /\ Top(c).todo = {}
                /\ LeaveDirectory(c)
                /\ UNCHANGED <<treeVars, result, crashed>>
-----------------------------------------------------------------------------
Step(c) == \/ RemoveCall(c) \/ RenameCall(c) \/ RenameNothing(c)
           \/ CreateCall(c) \/ CreateParent(c) \/ CreateSelf(c) \/ CreateMkdir(c)
           \/ WalkCall(c) \/ WalkExists(c) \/ WalkOpen(c) \/ WalkEntry(c) \/ WalkClose(c)

\* Ghosts: what the calls in progress live through in a step of c.
Watch(c) ==
    /\ disturbed' = [s \in Callers |->
                        /\ call'[s] # "none"
                        /\ disturbed[s] \/ (s # c /\ <<dirs, files>>' # <<dirs, files>>)]
    /\ rootless' = [s \in Callers |->
                       /\ call'[s] = "create"
                       /\ rootless[s] \/ ~Exists(Root(path[s]))']

Next == \E c \in Callers : Step(c) /\ Watch(c)

Spec == Init /\ [][Next]_vars
-----------------------------------------------------------------------------
TypeOK == /\ \A place \in dirs \cup files : place # <<>> /\ Reachable(place)
          /\ dirs \cap files = {}
          /\ call \in [Callers -> {"none", "create", "walk"}]
          /\ \A c \in Callers : /\ Len(stack[c]) <= StackLimit
                               /\ stack[c] = <<>> <=> call[c] = "none"
                               /\ \A i \in DOMAIN stack[c] :
                                     stack[c][i].at \in {"parent", "self", "mkdir", "open", "find", "list"}
          /\ rescured \in [Callers -> BOOLEAN]
          /\ result \in [Callers -> BOOLEAN]
          /\ crashed \in {"no", "stack overflow", "empty"}
          /\ disturbed \in [Callers -> BOOLEAN]
          /\ rootless \in [Callers -> BOOLEAN]

\* The state is well-typed, and CreatePath(true) recurses for ever only from the top:
\* on a path of a single name, whose parent is the empty path, which never exists, or
\* on one whose first name was missing at some time in the call (Path.cpp 293-302).  A
\* directory that others remove or rename below the first name costs a level of the
\* recursion and no more.
OverflowsAtTheTop ==
    /\ TypeOK
    /\ crashed = "stack overflow" =>
          \E c \in Callers : call[c] = "create" /\ (Len(path[c]) <= 1 \/ rootless[c])

\* A file stands where the path needs a directory.
FileInTheWay(place) == \E i \in 1..(Len(place) - 1) : SubSeq(place, 1, i) \in files

Ends(c, operation) == call[c] = operation /\ call'[c] = "none"

\* CreatePath returns TRUE with the path in place.  It returns FALSE only
\* because of a file in the way, a parent it was not told to create, or a
\* change that others made during the call, such as a second caller that
\* creates the same directory between Exists() and mkdir() (291-310).
CreationIsHonest ==
    [][\A c \in Callers : Ends(c, "create") =>
          IF result'[c] THEN Location(path[c]) \in dirs' \cup files'
          ELSE \/ disturbed[c]
               \/ FileInTheWay(Location(path[c]))
               \/ ~rescured[c] /\ ~Exists(Parent(path[c]))]_vars

\* What GetSubPaths should find under a directory: with rescured everything
\* below it, without only what is in it; of that the files the pattern means,
\* and the directories if the pattern has no dot.
Meant(c) ==
    LET place == Location(path[c])
    IN {below \in dirs \cup files :
           /\ place # <<>> /\ IsStrictPrefix(place, below)
           /\ rescured[c] \/ Len(below) = Len(place) + 1
           /\ IF below \in dirs THEN \A i \in DOMAIN pattern[c] : pattern[c][i] # "."
              ELSE Wildcard(pattern[c], Last(below))}

\* A walk that nobody disturbs finds each of them once, and nothing else
\* (PatternToRegex 35-113, WalkDirectory 143-184).  Of a walk during which the file
\* system is changed nothing is said.
WalkFindsAll ==
    [][\A c \in Callers : Ends(c, "walk") /\ ~disturbed[c] =>
          /\ {Location(paths[c][i]) : i \in DOMAIN paths[c]} = Meant(c)
          /\ Len(paths[c]) = Cardinality(Meant(c))]_vars
=============================================================================
