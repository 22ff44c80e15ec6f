---------------------------- MODULE JNIEnviroment ----------------------------
(***************************************************************************)
(* JNIEnviroment of JNIUtilities (JNIEnviroment.cpp, .h): objects that     *)
(* share the environment of a thread of a Java virtual machine.  An        *)
(* environment got from a running machine attaches the thread that asks    *)
(* for it, and its deleter detaches the thread that destroys the last      *)
(* object; one got from a JAR creates the machine, and its deleter         *)
(* destroys it.                                                            *)
(*                                                                         *)
(* The machine is external: there is one in the life of a process, a       *)
(* thread is attached or not, however often it asked to be, and            *)
(* DestroyJavaVM waits until no other thread is attached.  That the        *)
(* library of the machine is released as soon as it runs                   *)
(* (DynamicLibraryLoader is a local of GetEnviromentFromJAR) is assumed    *)
(* to do no harm, as the machine keeps its library loaded.  The pointer    *)
(* that operator-> hands out shares the environment until the end of the   *)
(* expression; it is not counted, so no object is let go within one.       *)
(***************************************************************************)
EXTENDS Integers, FiniteSets

CONSTANTS JavaThreads,  \* the threads of the program
          Enviroments   \* the JNIEnviroment objects of the program

VARIABLES vm,        \* "none", "running", "ending" (in DestroyJavaVM), "destroyed"
          attached,  \* the threads attached to the machine
          holds,     \* object |-> the environment it shares, or Invalid
          ending,    \* the thread inside DestroyJavaVM
          wild,      \* the deleter went through a null JavaVM
          elsewhere, \* ghost: threads that other code attached before
          strays     \* ghost: threads that let an environment go that was not theirs,
                     \* or while they had another one or had been attached elsewhere

vars == <<vm, attached, holds, ending, wild, elsewhere, strays>>

\* An environment: the deleter of its m_env and m_jvm, its thread, and a number
\* that tells it from others.
Ids == 1..(Cardinality(Enviroments) + 1)
Env == [kind : {"jvm", "null", "jar"}, thread : JavaThreads, id : Ids]
Invalid == [kind |-> "invalid"]
Shared == {holds[o] : o \in Enviroments} \ {Invalid}
Holders(env) == {o \in Enviroments : holds[o] = env}
New(kind, t) == [kind |-> kind, thread |-> t,
                 id |-> CHOOSE n \in Ids : \A env \in Shared : env.id # n]

Init == /\ vm \in {"none", "running"}
        /\ elsewhere \in IF vm = "running" THEN SUBSET JavaThreads ELSE {{}}
        /\ attached = elsewhere
        /\ holds = [o \in Enviroments |-> Invalid]
        /\ ending = {}
        /\ wild = FALSE
        /\ strays = {}

Running == vm \in {"running", "ending"}
Free(t) == ~wild /\ t \notin ending
-----------------------------------------------------------------------------
\* Mutant: every object detaches the thread in its destructor.
LetsGoEach(o, env) == holds[o] # Invalid

\* Object o, which shares env from now on, was the last one of what it shared.
LetsGo(o, env) == holds[o] \notin {Invalid, env} /\ Holders(holds[o]) = {o}

\* Object o gives up what it shares and shares env from now on; now are the threads
\* attached before.  The last object of an environment runs its deleter, which detaches the
\* thread it runs in.
Replace(t, o, env, now) ==
    LET old == holds[o]
        last == LetsGo(o, env)
        others == {e \in Shared \cup {env} : e # Invalid /\ e # old /\ e.thread = t}
    IN  /\ holds' = [holds EXCEPT ![o] = env]
        /\ attached' = IF last /\ old.kind = "jvm" /\ Running THEN now \ {t} ELSE now
        /\ ending' = IF last /\ old.kind = "jar" THEN {t} ELSE ending
        /\ wild' = (last /\ old.kind = "null")
        /\ UNCHANGED elsewhere
        /\ strays' = IF last /\ old.kind # "null" /\ (old.thread # t \/ others # {} \/ t \in elsewhere)
                     THEN strays \cup {t} ELSE strays

\* Replace has run the deleter that destroys the machine, or not.
Onwards == IF ending' # ending THEN "ending" ELSE vm

\* o = GetEnviromentFromJVM(jvm), or the construction of o from it.
GetEnviromentFromJVM(t, o) ==
    /\ Free(t)
    /\ vm # "none"
    /\ Replace(t, o, New("jvm", t), IF Running THEN attached \cup {t} ELSE attached)
    /\ vm' = Onwards

\* The same with a null pointer: there is no environment, but there is a deleter.
GetEnviromentFromNull(t, o) ==
    /\ Free(t)
    /\ Replace(t, o, New("null", t), attached)
    /\ vm' = Onwards

\* o = GetEnviromentFromJAR(...): JNI_CreateJavaVM attaches the thread; it fails when
\* the process has or had a machine, and then o becomes invalid.
GetEnviromentFromJAR(t, o) ==
    /\ Free(t)
    /\ IF vm = "none"
       THEN Replace(t, o, New("jar", t), {t}) /\ vm' = "running"
       ELSE Replace(t, o, Invalid, attached) /\ vm' = Onwards

\* o = p, or the construction of o from p.
Copy(t, o, p) ==
    /\ Free(t) /\ holds[p] # holds[o]
    /\ Replace(t, o, holds[p], attached)
    /\ vm' = Onwards

\* ~JNIEnviroment
Destruct(t, o) ==
    /\ Free(t) /\ holds[o] # Invalid
    /\ Replace(t, o, Invalid, attached)
    /\ vm' = Onwards

\* DestroyJavaVM comes back once the thread in it is the last one.
DestroyJavaVM ==
    /\ vm = "ending" /\ attached \subseteq ending
    /\ vm' = "destroyed"
    /\ attached' = {}
    /\ ending' = {}
    /\ UNCHANGED <<holds, wild, elsewhere, strays>>

Next == \/ DestroyJavaVM
        \/ \E t \in JavaThreads, o \in Enviroments :
              \/ GetEnviromentFromJVM(t, o) \/ GetEnviromentFromNull(t, o)
              \/ GetEnviromentFromJAR(t, o) \/ Destruct(t, o)
              \/ \E p \in Enviroments : Copy(t, o, p)

Spec == Init /\ [][Next]_vars
-----------------------------------------------------------------------------
Usable(env) == env.kind \in {"jvm", "jar"}

\* As long as every environment is let go by its own thread, one at a time, a thread
\* is attached just while it has one: nothing that is held dangles, and a thread in
\* DestroyJavaVM waits for nobody who has let everything go. It takes a stray thread
\* to break that: one that destroys the last object of another thread's environment,
\* gets a second environment and lets go of the first, or lets go of one when it was
\* attached before it got any (53-64, 116).
AttachedWhileHeld ==
    Running /\ strays = {} =>
        \A t \in JavaThreads \ ending :
            t \in attached <=> t \in elsewhere \/ \E env \in Shared : Usable(env) /\ env.thread = t
=============================================================================
