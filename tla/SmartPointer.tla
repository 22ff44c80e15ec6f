---------------------------- MODULE SmartPointer ----------------------------
(***************************************************************************)
(* common::memory::smart_pointer (SmartPointer.hpp): handles that share a  *)
(* counted block, which owns one object.  The object may have a            *)
(* smart_pointer member of its own, as a list node has: deleting the       *)
(* object destroys the member, which may delete the next object, and so    *)
(* on.  The counts are plain integers, so handles to one block belong to   *)
(* one thread, and an operation is one action.                             *)
(*                                                                         *)
(* Every object is new when a handle takes it: two handles made from one   *)
(* raw pointer would own it twice.                                         *)
(***************************************************************************)
EXTENDS Integers, FiniteSets

CONSTANTS Variables,  \* the program's smart_pointer variables
          Blocks,     \* the class pointer: one per object made
          None        \* NULL

ASSUME SmartPointerAssumption ==
         /\ IsFiniteSet(Variables) /\ IsFiniteSet(Blocks)
         /\ Variables \cap Blocks = {}
         /\ None \notin Variables \cup Blocks

\* The member of the object of block b is called b, too.
Handles == Variables \cup Blocks

VARIABLES m_pPtr,        \* handle |-> its block or None
          m_nRefCount,   \* block |-> its count
          alive,         \* the handles that are constructed
          freed,         \* the blocks that were deleted
          wild           \* a member of a deleted object was read

vars == <<m_pPtr, m_nRefCount, alive, freed, wild>>

Init == /\ m_pPtr = [h \in Handles |-> None]
        /\ m_nRefCount = [b \in Blocks |-> 0]
        /\ alive = {}
        /\ freed = {}
        /\ wild = FALSE

Live == alive \cap Blocks
\* The blocks met from a handle by following the members.
From(h) == LET Nth[n \in 0..Cardinality(Blocks)] ==
                   IF n = 0 THEN m_pPtr[h]
                   ELSE IF Nth[n - 1] = None THEN None ELSE m_pPtr[Nth[n - 1]]
           IN  {Nth[n] : n \in DOMAIN Nth} \ {None}
Reachable == UNION {From(v) : v \in Variables \cap alive}

\* The handles the program can name: its variables, and members it can reach.
Usable == (Variables \cap alive) \cup Reachable
-----------------------------------------------------------------------------
\* decrease_ref, and delete m_pPtr at zero: the blocks that giving up one
\* reference to b visits, each the next of one that is deleted.
Visited(b) ==
    LET Nth[n \in 0..Cardinality(Blocks)] ==
            IF n = 0 THEN b
            ELSE LET last == Nth[n - 1]
                 IN  IF last # None /\ m_nRefCount[last] = 1 THEN m_pPtr[last] ELSE None
    IN  {Nth[n] : n \in DOMAIN Nth} \ {None}

\* Mutant: the member of a deleted object keeps its reference.
DeletesOne(b) == {b} \cap {x \in Blocks : m_nRefCount[x] = 1}

Deletes(b) == {x \in Visited(b) : m_nRefCount[x] = 1}

\* The counts after a reference to b is given up and one to c is taken.
Decreased(b) == [x \in Blocks |-> IF x \in Visited(b) THEN m_nRefCount[x] - 1 ELSE m_nRefCount[x]]
Increased(c, counts) == [x \in Blocks |-> IF x = c THEN counts[x] + 1 ELSE counts[x]]

\* A block that is deleted takes its object, and the object its member, along.
Release(b) == /\ freed' = freed \cup Deletes(b)
              /\ alive' = alive \ Deletes(b)
-----------------------------------------------------------------------------
\* smart_pointer(T*): NULL, or a new object whose member is NULL.
Construct(v) ==
    /\ v \in Variables \ alive
    /\ \/ /\ m_pPtr' = [m_pPtr EXCEPT ![v] = None]
          /\ alive' = alive \cup {v}
          /\ UNCHANGED m_nRefCount
       \/ \E b \in Blocks \ (alive \cup freed) :
             /\ m_pPtr' = [m_pPtr EXCEPT ![v] = b, ![b] = None]
             /\ m_nRefCount' = [m_nRefCount EXCEPT ![b] = 1]
             /\ alive' = alive \cup {v, b}
    /\ UNCHANGED <<freed, wild>>

\* smart_pointer(const smart_pointer&)
CopyConstruct(v, that) ==
    /\ v \in Variables \ alive /\ that \in Usable
    /\ m_pPtr' = [m_pPtr EXCEPT ![v] = m_pPtr[that]]
    /\ m_nRefCount' = Increased(m_pPtr[that], m_nRefCount)
    /\ alive' = alive \cup {v}
    /\ UNCHANGED <<freed, wild>>

\* Mutant: the new block is not counted.
AssignUncounted(h, that) ==
    /\ {h, that} \subseteq Usable /\ h # that
    /\ m_pPtr[h] # None => {h, that} \cap Deletes(m_pPtr[h]) = {}
    /\ m_pPtr' = [m_pPtr EXCEPT ![h] = m_pPtr[that]]
    /\ m_nRefCount' = IF m_pPtr[h] = None THEN m_nRefCount ELSE Decreased(m_pPtr[h])
    /\ IF m_pPtr[h] = None THEN UNCHANGED <<freed, alive>> ELSE Release(m_pPtr[h])
    /\ UNCHANGED wild

\* operator=: give up the old block first, then read the source.  If the source
\* was a member of an object that is deleted by now, what follows is undefined:
\* the model sets wild and stops.
Assign(h, that) ==
    /\ {h, that} \subseteq Usable /\ h # that
    /\ LET old == m_pPtr[h]
           new == m_pPtr[that]
       IN  IF old = None
           THEN /\ m_pPtr' = [m_pPtr EXCEPT ![h] = new]
                /\ m_nRefCount' = Increased(new, m_nRefCount)
                /\ UNCHANGED <<alive, freed, wild>>
           ELSE IF {h, that} \cap Deletes(old) # {}
           THEN /\ wild' = TRUE
                /\ UNCHANGED <<m_pPtr, m_nRefCount, alive, freed>>
           ELSE /\ Release(old)
                /\ m_pPtr' = [m_pPtr EXCEPT ![h] = new]
                /\ m_nRefCount' = Increased(new, Decreased(old))
                /\ UNCHANGED wild

\* ~smart_pointer of a variable.
Destruct(v) ==
    /\ v \in Variables \cap alive
    /\ IF m_pPtr[v] = None
       THEN alive' = alive \ {v} /\ UNCHANGED <<m_nRefCount, freed>>
       ELSE /\ freed' = freed \cup Deletes(m_pPtr[v])
            /\ alive' = alive \ (Deletes(m_pPtr[v]) \cup {v})
            /\ m_nRefCount' = Decreased(m_pPtr[v])
    /\ UNCHANGED <<m_pPtr, wild>>

Next == /\ ~wild
        /\ \/ \E v \in Variables : Construct(v) \/ Destruct(v)
           \/ \E v \in Variables, that \in Handles : CopyConstruct(v, that)
           \/ \E h, that \in Handles : Assign(h, that)

Spec == Init /\ [][Next]_vars
-----------------------------------------------------------------------------
TypeOK == /\ m_pPtr \in [Handles -> Blocks \cup {None}]
          /\ m_nRefCount \in [Blocks -> 0..Cardinality(Handles)]
          /\ alive \subseteq Handles
          /\ freed \subseteq Blocks
          /\ wild \in BOOLEAN

\* The state is well-typed, the count of a block is the number of handles to it,
\* members of objects included, and nobody has a handle to a deleted block (66-112):
\* so an object is deleted once, by its last handle.
CountsAreHandles ==
    /\ TypeOK
    /\ \A b \in Live : m_nRefCount[b] = Cardinality({h \in alive : m_pPtr[h] = b})
    /\ \A h \in alive : m_pPtr[h] # None => m_pPtr[h] \in Live
    /\ Live \cap freed = {}

\* An object no variable leads to is on a cycle, or behind one: nothing else
\* leaks (82-89, 104-111).
OnlyCyclesLeak ==
    \A b \in Live \ Reachable :
        \E c \in Live \ Reachable : c \in From(c) /\ b \in From(c)
=============================================================================
