------------------------------ MODULE Resources ------------------------------
(***************************************************************************)
(* Programs that hold resources of the system through objects: the TLS     *)
(* slots of threads, a mutex, the environments of a Java virtual machine,  *)
(* the values of a registry key, the arguments of the program.  They share *)
(* nothing; a behaviour is that of one of them, the subject, while the     *)
(* others have not begun.                                                  *)
(***************************************************************************)
EXTENDS ThreadLocal

CONSTANTS Lockers, None, MaxDepth,                   \* of Monitor
          JavaThreads, Enviroments,                  \* of JNIEnviroment
          RegistryKeys, ValueNames, Texts, Numbers,  \* of RegistryValues
          ArgChars, MaxArg, MaxArgs                  \* of ArgumentParser

VARIABLES subject,
          owner, depth, waiting, held,                              \* of Monitor
          vm, attached, holds, ending, wild, elsewhere, strays,     \* of JNIEnviroment
          there, values, handle, reading, answer, put, during,      \* of RegistryValues
          argv, m_arguments, index, outcome                         \* of ArgumentParser

monitorVars == <<owner, depth, waiting, held>>
javaVars == <<vm, attached, holds, ending, wild, elsewhere, strays>>
valueVars == <<there, values, handle, reading, answer, put, during>>
argumentVars == <<argv, m_arguments, index, outcome>>

Mon == INSTANCE Monitor WITH Threads <- Lockers
Java == INSTANCE JNIEnviroment
Val == INSTANCE RegistryValues
Args == INSTANCE ArgumentParser

\* The assumptions of the modules that are instantiated.
ASSUME ResourcesAssumption ==
    Mon!MonitorAssumption /\ Val!ValuesAssumption /\ Args!ArgumentAssumption

NoJava == /\ vm = "none" /\ attached = {} /\ holds = [o \in Enviroments |-> Java!Invalid]
          /\ ending = {} /\ wild = FALSE /\ elsewhere = {} /\ strays = {}
NoArguments == argv = <<>> /\ m_arguments = [k \in {} |-> <<>>] /\ index = 0 /\ outcome = "parsing"

ResourcesInit ==
    /\ Init /\ Mon!Init /\ Val!Init
    /\ \/ subject \in {"threads", "monitor", "registry"} /\ NoJava /\ NoArguments
       \/ subject = "java" /\ Java!Init /\ NoArguments
       \/ subject = "arguments" /\ NoJava /\ Args!Init

ResourcesNext ==
    \/ /\ subject = "threads" /\ Next
       /\ UNCHANGED <<subject, monitorVars, javaVars, valueVars, argumentVars>>
    \/ /\ subject = "monitor" /\ Mon!Next
       /\ UNCHANGED <<subject, vars, javaVars, valueVars, argumentVars>>
    \/ /\ subject = "java" /\ Java!Next
       /\ UNCHANGED <<subject, vars, monitorVars, valueVars, argumentVars>>
    \/ /\ subject = "registry" /\ Val!Next
       /\ UNCHANGED <<subject, vars, monitorVars, javaVars, argumentVars>>
    \/ /\ subject = "arguments" /\ Args!Next
       /\ UNCHANGED <<subject, vars, monitorVars, javaVars, valueVars>>

resourcesVars == <<subject, vars, monitorVars, javaVars, valueVars, argumentVars>>
ResourcesSpec == ResourcesInit /\ [][ResourcesNext]_resourcesVars
-----------------------------------------------------------------------------
\* A wait with the mutex held more than once keeps it: see Monitor (mutex.cpp 61,
\* condition_variable.cpp 63-70).
NestedWaitKeepsMutex == Mon!NestedWaitKeepsMutex

\* A wait returns with the hold it was called with: see Monitor (condition_variable.cpp
\* 63-70).
WaitRestoresHold == Mon!WaitRestoresHold

\* A thread is attached to the virtual machine just while it holds an environment,
\* unless one has strayed: see JNIEnviroment (JNIEnviroment.cpp 53-64, 116).
AttachedWhileHeld == Java!AttachedWhileHeld

\* Values are read as they were set: see RegistryValues (Registry.cpp 297-352).
ValuesReadBack == Val!ValuesReadBack

\* The last of several arguments counts: see ArgumentParser (ArgumentParser.cpp 12-21).
LastArgumentCounts == Args!LastArgumentCounts
=============================================================================
