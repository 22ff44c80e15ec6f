------------------------------ MODULE Registry ------------------------------
(***************************************************************************)
(* The registry wrapper of Windows/Registry (Registry.cpp): RegistryKey    *)
(* objects handed out by reference, and the map m_usingKeys that owns      *)
(* them.  The map is indexed by the path as it was given to OpenSubKey or  *)
(* CreateSubKey, relative to the key it was called on, so that equal       *)
(* paths below different keys share an entry; Close looks for an entry by  *)
(* the last name of the path.                                              *)
(*                                                                         *)
(* Paths are sequences of names; a path given with a trailing separator    *)
(* ends in an empty name.  The registry itself is external: a set of       *)
(* paths, closed under prefixes, that may refuse to delete a key and does  *)
(* not mind a trailing separator.                                          *)
(* DeleteSubKeyTree calls itself: stack holds its calls in progress, the   *)
(* innermost last, and an action is one step of that one.                  *)
(*                                                                         *)
(* The program calls only keys that are not deleted, but two reads of      *)
(* freed memory are the wrapper's own: DeleteSubKeyTree may come back to a *)
(* key that was deleted further in, and Close passes on the name of its    *)
(* key by reference, to be read again when that key is deleted.  Neither   *)
(* has a defined effect.  The model sets wild and stops, and for the freed *)
(* name it also goes on, as the builds do where the string still reads as  *)
(* it was, or as empty.  Values, which touch no RegistryKey, are in        *)
(* RegistryValues.                                                         *)
(***************************************************************************)
EXTENDS Integers, Sequences, FiniteSets, SequencesExt, FiniteSetsExt

CONSTANTS Names,      \* the names of registry keys
          NoName,     \* the empty name that follows a trailing separator
          Given,      \* the relative paths the program passes
          MaxDepth,   \* bound: length of a path in the registry
          MaxKeys     \* bound: keys in the registry

Root == <<>>
Single == {<<name>> : name \in Names}
Relative == Given \cup Single
Paths == UNION {[1..n -> Names] : n \in 1..MaxDepth}

\* The path without a trailing separator.
Located(rel) == IF Last(rel) = NoName THEN Front(rel) ELSE rel

ASSUME RegistryAssumption ==
         /\ IsFiniteSet(Names) /\ NoName \notin Names
         /\ MaxDepth \in Nat /\ MaxKeys \in Nat
         /\ IsFiniteSet(Given) /\ Given \subseteq Seq(Names \cup {NoName}) \ {Root}
         /\ \A rel \in Given : Located(rel) \in Seq(Names) \ {Root}

\* The RegistryKeys are numbered.  HKey is Registry::LocalMachine, which the map
\* does not own.
Nobody == 0
Keys == 1..(Cardinality(Relative) + 2 * MaxDepth)
HKey == Max(Keys) + 1

VARIABLES registry,     \* the paths that exist (external)
          m_usingKeys,  \* relative path |-> RegistryKey, or Nobody: no entry
          m_hSubKey,    \* RegistryKey |-> the path its handle is open on
          m_name,       \* RegistryKey |-> its name
          objects,      \* the RegistryKeys that are not deleted
          stack,        \* the calls of DeleteSubKeyTree in progress
          before,       \* ghost: what registry and m_usingKeys were before them
          wild          \* a deleted RegistryKey was used

keyVars == <<m_usingKeys, m_hSubKey, m_name, objects>>
vars == <<registry, keyVars, stack, before, wild>>

Here == [registry |-> registry, map |-> m_usingKeys]

Init == /\ registry = {}
        /\ m_usingKeys = [rel \in Relative |-> Nobody]
        /\ m_hSubKey = [k \in Keys \cup {HKey} |-> Root]
        /\ m_name = [k \in Keys \cup {HKey} |-> Root]
        /\ objects = {HKey}
        /\ stack = <<>>
        /\ before = Here
        /\ wild = FALSE

\* When no call is in progress, the ghost is what the next one finds.
Settle == before' = IF stack' = <<>> THEN Here' ELSE before

Calm == ~wild /\ stack = <<>>
Under(path) == {p \in registry : IsPrefix(path, p)}
Children(path) == {p \in Under(path) : Len(p) = Len(path) + 1}
-----------------------------------------------------------------------------
\* GetKeyNameOfPath: what follows the last separator but a trailing one.
GetKeyNameOfPath(rel) == <<Last(Located(rel))>>

\* A new RegistryKey: numbers that the calls in progress refer to are not taken
\* again, so that a stale reference shows.
InCalls == UNION {{stack[i].this, stack[i].subKey} : i \in 1..Len(stack)}
NewKey == Min(Keys \ (objects \cup InCalls))

\* The object of an entry.
Entry(rel) == {m_usingKeys[rel]} \ {Nobody}
Closed(k, rel) == k \in Entry(rel)

\* Delete the object of an entry, and the entry.  Called by Close, the path is the
\* name of the object just deleted: if it reads as empty then, the entry survives
\* with NULL, which is as good as none.
RemoveUsingRegistryKey(rel) ==
    /\ m_usingKeys' = [m_usingKeys EXCEPT ![rel] = Nobody]
    /\ objects' = objects \ Entry(rel)
    /\ m_hSubKey' = [k \in DOMAIN m_hSubKey |-> IF Closed(k, rel) THEN Root ELSE m_hSubKey[k]]
    /\ m_name' = [k \in DOMAIN m_name |-> IF Closed(k, rel) THEN Root ELSE m_name[k]]

\* Mutant: what had the entry is not deleted.
Kept(rel) == {}

\* What AddUsingRegistryKey removes first: what had the entry.
Replaced(rel) == Entry(rel)

\* A new RegistryKey on a handle that was opened, and its entry in the map.
AddUsingRegistryKey(rel, path) ==
    /\ m_usingKeys' = [m_usingKeys EXCEPT ![rel] = NewKey]
    /\ objects' = (objects \ Replaced(rel)) \cup {NewKey}
    /\ m_hSubKey' = [k \in DOMAIN m_hSubKey |-> IF k = NewKey THEN path
                        ELSE IF k \in Replaced(rel) THEN Root ELSE m_hSubKey[k]]
    /\ m_name' = [k \in DOMAIN m_name |-> IF k = NewKey THEN GetKeyNameOfPath(rel)
                        ELSE IF k \in Replaced(rel) THEN Root ELSE m_name[k]]
-----------------------------------------------------------------------------
\* The calls of the program.  A call that throws changes nothing.
CreateSubKey(k, rel) ==
    /\ Calm /\ k \in objects
    /\ LET path == m_hSubKey[k] \o Located(rel)
       IN  /\ m_hSubKey[k] \in registry \cup {Root}
           /\ path \in Paths
           /\ registry' = registry \cup (Prefixes(path) \ {Root})
           /\ Cardinality(registry') <= MaxKeys
           /\ AddUsingRegistryKey(rel, path)
    /\ UNCHANGED <<stack, wild>> /\ Settle

OpenSubKey(k, rel) ==
    /\ Calm /\ k \in objects
    /\ m_hSubKey[k] \o Located(rel) \in registry
    /\ AddUsingRegistryKey(rel, m_hSubKey[k] \o Located(rel))
    /\ UNCHANGED <<registry, stack, wild>> /\ Settle

\* RegDeleteKeyEx: only a key that exists and has no subkeys.
Deletable(path) == path \in registry /\ Children(path) = {}

DeleteSubKey(k, rel) ==
    /\ Calm /\ k \in objects
    /\ Deletable(m_hSubKey[k] \o Located(rel))
    /\ registry' = registry \ {m_hSubKey[k] \o Located(rel)}
    /\ UNCHANGED <<keyVars, stack, wild>> /\ Settle

\* A key is closed by its name, whichever key has the entry of that name.
Close(k) ==
    /\ Calm /\ k \in objects \ {HKey}
    /\ RemoveUsingRegistryKey(m_name[k])
    /\ UNCHANGED <<registry, stack, wild>> /\ Settle

\* Closing the key deletes the owner of the path that is erased next: the entry of
\* its name is its own.
FreesOwnName(k) == k \in objects \ {HKey} /\ Closed(k, m_name[k])
-----------------------------------------------------------------------------
\* DeleteSubKeyTree(subKeyNode), called on a key.
Frame(this, node) == [at |-> "open", this |-> this, node |-> node,
                      path |-> m_hSubKey[this] \o Located(node),
                      subKey |-> Nobody, names |-> {}]
Top == Last(stack)
Replace(frame) == Append(Front(stack), frame)
Target == Top.path

DeleteSubKeyTree(k, rel) ==
    /\ Calm /\ k \in objects
    /\ stack' = <<Frame(k, rel)>>
    /\ UNCHANGED <<registry, keyVars, before, wild>>

In(at) == ~wild /\ stack # <<>> /\ Top.at = at

\* Open the node and list its subkeys.  If it is not there, the exception leaves
\* every call in progress.
TreeOpen ==
    /\ In("open") /\ Top.this \in objects
    /\ IF Target \in registry
       THEN /\ AddUsingRegistryKey(Top.node, Target)
            /\ stack' = Replace([Top EXCEPT !.at = "loop", !.subKey = NewKey,
                                            !.names = {<<Last(p)>> : p \in Children(Target)}])
       ELSE stack' = <<>> /\ UNCHANGED keyVars
    /\ UNCHANGED <<registry, wild>> /\ Settle

\* Mutant: the call is made on this, not on subKey (and cut off where it would not end).
TreeDescendThis ==
    /\ In("loop") /\ Len(stack) <= MaxDepth
    /\ \E name \in Top.names :
          stack' = Append(Replace([Top EXCEPT !.names = @ \ {name}]), Frame(Top.this, name))
    /\ UNCHANGED <<registry, keyVars, before, wild>>

\* for each name: subKey.DeleteSubKeyTree(name)
TreeDescend ==
    /\ In("loop")
    /\ \E name \in Top.names :
          stack' = Append(Replace([Top EXCEPT !.names = @ \ {name}]), Frame(Top.subKey, name))
    /\ UNCHANGED <<registry, keyVars, before, wild>>

\* DeleteSubKey(subKeyNode), which may be refused and then throws.
TreeDelete ==
    /\ In("loop") /\ Top.names = {} /\ Top.this \in objects
    /\ \/ /\ Deletable(Target)
          /\ registry' = registry \ {Target}
          /\ stack' = Replace([Top EXCEPT !.at = "close"])
       \/ stack' = <<>> /\ UNCHANGED registry
    /\ UNCHANGED <<keyVars, wild>> /\ Settle

\* Mutant: subKey is not closed.
TreeNoClose == /\ In("close")
               /\ stack' = Front(stack)
               /\ UNCHANGED <<registry, keyVars, wild>> /\ Settle

\* Mutant: the key itself is closed, not subKey.
TreeCloseThis == /\ In("close") /\ Top.this \in objects \ {HKey}
                 /\ RemoveUsingRegistryKey(m_name[Top.this])
                 /\ stack' = Front(stack)
                 /\ UNCHANGED <<registry, wild>> /\ Settle

\* subKey.Close()
TreeClose ==
    /\ In("close") /\ Top.subKey \in objects
    /\ RemoveUsingRegistryKey(m_name[Top.subKey])
    /\ stack' = Front(stack)
    /\ UNCHANGED <<registry, wild>> /\ Settle

\* A key of a call in progress was deleted by a call further in.
Stale == stack # <<>> /\ (IF Top.at = "close" THEN Top.subKey ELSE Top.this) \notin objects

TreeDangles == /\ ~wild /\ Stale
               /\ wild' = TRUE
               /\ UNCHANGED <<registry, keyVars, stack, before>>

\* A close, of the program or of DeleteSubKeyTree, reads a freed name.
NameDangles == /\ \/ Calm /\ \E k \in Keys : FreesOwnName(k)
                  \/ In("close") /\ FreesOwnName(Top.subKey)
               /\ wild' = TRUE
               /\ UNCHANGED <<registry, keyVars, stack, before>>

Next == \/ \E k \in Keys \cup {HKey}, rel \in Given :
              \/ CreateSubKey(k, rel) \/ OpenSubKey(k, rel)
              \/ DeleteSubKey(k, rel) \/ DeleteSubKeyTree(k, rel)
        \/ \E k \in Keys : Close(k)
        \/ TreeOpen \/ TreeDescend \/ TreeDelete \/ TreeClose \/ TreeDangles
        \/ NameDangles

Spec == Init /\ [][Next]_vars
-----------------------------------------------------------------------------
TypeOK == /\ registry \subseteq Paths
          /\ m_usingKeys \in [Relative -> Keys \cup {Nobody}]
          /\ m_hSubKey \in [Keys \cup {HKey} -> Paths \cup {Root}]
          /\ m_name \in [Keys \cup {HKey} -> Single \cup {Root}]
          /\ objects \subseteq Keys \cup {HKey} /\ HKey \in objects
          /\ \A i \in 1..Len(stack) :
                /\ stack[i].at \in {"open", "loop", "close"}
                /\ stack[i].this \in Keys \cup {HKey} /\ stack[i].node \in Relative
          /\ wild \in BOOLEAN

\* The state is well-typed, and the map owns every RegistryKey that is not deleted,
\* each by one entry, and no deleted one: none is leaked, none deleted twice (95-111,
\* 200-203).
MapOwnsAll ==
    /\ TypeOK
    /\ {m_usingKeys[rel] : rel \in Relative} \ {Nobody} = objects \ {HKey}
    /\ \A r, s \in Relative : m_usingKeys[r] = m_usingKeys[s] /\ r # s => m_usingKeys[r] = Nobody

\* While DeleteSubKeyTree runs, all that is gone from the registry was at or
\* below its node, and no key is left without its parent (246-259): so a call
\* that throws half-way has deleted parts of that tree, bottom up.
Outermost == stack[1].path
OnlyTheTree ==
    stack # <<>> /\ ~wild =>
        /\ registry \subseteq before.registry
        /\ \A p \in before.registry \ registry : IsPrefix(Outermost, p)
        /\ \A p \in registry : Prefixes(p) \ {Root} \subseteq registry

\* A call of DeleteSubKeyTree that returns has deleted its whole tree.  Given a
\* single name, and no separator, it has also closed every key it opened: the entries
\* of the names in the tree are empty, the others what they were.
Returns == ~wild /\ stack' = <<>> /\ In("close")
TreeIsGone ==
    [][Returns =>
         LET tree == {p \in before.registry : IsPrefix(Outermost, p)}
             used == {<<Last(p)>> : p \in tree}
         IN  /\ registry' = before.registry \ tree
             /\ Top.node \in Single =>
                   \A rel \in Relative :
                      m_usingKeys'[rel] = IF rel \in used THEN Nobody ELSE before.map[rel]]_vars

\* What DeleteSubKeyTree reads of deleted keys (107-109, 246-259).  It comes back to
\* one only if a name occurs twice on the way down: in the path of the key it was
\* called on, or below it.  But whatever the calls further in have closed, its own
\* close finds its key by its name, and so reads the name of a deleted key, for every
\* node that is a single name, as all below the first are; and only for these.
DanglesByName ==
    /\ Stale => \E p \in before.registry : IsPrefix(Outermost, p) /\ ~IsInjective(p)
    /\ In("close") /\ Top.subKey \in objects =>
          (FreesOwnName(Top.subKey) <=> Top.node \in Single)
=============================================================================
