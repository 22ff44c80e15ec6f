---------------------------- MODULE RegistryValues ----------------------------
(***************************************************************************)
(* The values of a registry key, through RegistryKey of Windows/Registry   *)
(* (Registry.cpp): SetValue, DeleteValue and both GetValue, on one key     *)
(* that is created, opened, deleted and created again, and while a         *)
(* GetValue of a string is between its two calls of the system.            *)
(*                                                                         *)
(* Data are sequences of bytes, as the registry keeps them; a TCHAR is a   *)
(* byte, and a number is its four bytes, lowest first.  The registry is    *)
(* external: RegSetValueEx adds the zero behind a string that is not       *)
(* empty, and a handle on a key that was deleted fails for ever.           *)
(***************************************************************************)
EXTENDS Integers, Sequences, SequencesExt

CONSTANTS RegistryKeys,  \* the RegistryKey objects
          ValueNames,    \* the names of values
          Texts,         \* the strings that are set
          Numbers        \* the numbers that are set, as their bytes

Bytes4 == 4

\* A string is set through c_str(): it has no zero inside. A number is its four bytes.
ValuesAssumption == /\ \A s \in Texts : s \in Seq(Nat \ {0})
                    /\ \A n \in Numbers : n \in Seq(Nat) /\ Len(n) = Bytes4

Missing == [type |-> "missing", bytes |-> <<>>]

VARIABLES there,     \* the key exists
          values,    \* name |-> its value in the key, or Missing
          handle,    \* object |-> "none", "read", "write", or "stale": its key is gone
          reading,   \* the GetValue in progress: object, name and the size it was told
          answer,    \* what the last GetValue of a string returned
          put,       \* ghost: name |-> what was set last
          during     \* ghost: the values the name has had during the GetValue

vars == <<there, values, handle, reading, answer, put, during>>

Text(s) == [type |-> "text", bytes |-> s]
Number(n) == [type |-> "number", bytes |-> n]
Default == [type |-> "default", bytes |-> <<>>]
Overrun == [type |-> "overrun", bytes |-> <<>>]
NoRead == [key |-> "nobody", name |-> "none", size |-> 0]

Init == /\ there = FALSE
        /\ values = [name \in ValueNames |-> Missing]
        /\ handle = [k \in RegistryKeys |-> "none"]
        /\ reading = NoRead
        /\ answer = Default
        /\ put = [name \in ValueNames |-> Missing]
        /\ during = {}
-----------------------------------------------------------------------------
\* What the object sees of a value: nothing, if its key is gone.
Seen(k, name) == IF handle[k] \in {"read", "write"} THEN values[name] ELSE Missing

\* The ghost of the GetValue in progress.
Watch == during' = IF reading = NoRead THEN during ELSE during \cup {Seen(reading.key, reading.name)'}

\* RegSetValueEx
Stored(value) == IF value.type = "text" /\ value.bytes # <<>>
                 THEN [value EXCEPT !.bytes = Append(@, 0)]
                 ELSE value

\* CreateSubKey and OpenSubKey, on an object that has no key yet.
CreateSubKey(k) ==
    /\ handle[k] = "none"
    /\ there' = TRUE
    /\ handle' = [handle EXCEPT ![k] = "write"]
    /\ UNCHANGED <<values, reading, answer, put>> /\ Watch

OpenSubKey(k, writable) ==
    /\ handle[k] = "none" /\ there
    /\ handle' = [handle EXCEPT ![k] = IF writable THEN "write" ELSE "read"]
    /\ UNCHANGED <<there, values, reading, answer, put>> /\ Watch

\* DeleteSubKey on the key above.
DeleteSubKey ==
    /\ there
    /\ there' = FALSE
    /\ values' = [name \in ValueNames |-> Missing]
    /\ put' = [name \in ValueNames |-> Missing]
    /\ handle' = [k \in RegistryKeys |-> IF handle[k] = "none" THEN "none" ELSE "stale"]
    /\ UNCHANGED <<reading, answer>> /\ Watch

\* SetValue and DeleteValue throw unless the key is there and was opened for writing.
SetValue(k, name, value) ==
    /\ handle[k] = "write"
    /\ values' = [values EXCEPT ![name] = Stored(value)]
    /\ put' = [put EXCEPT ![name] = value]
    /\ UNCHANGED <<there, handle, reading, answer>> /\ Watch

DeleteValue(k, name) ==
    /\ handle[k] = "write" /\ values[name] # Missing
    /\ values' = [values EXCEPT ![name] = Missing]
    /\ put' = [put EXCEPT ![name] = Missing]
    /\ UNCHANGED <<there, handle, reading, answer>> /\ Watch
-----------------------------------------------------------------------------
\* GetValue of a number: any value of up to four bytes will do, whatever its type.
GetNumber(k, name) ==
    LET value == Seen(k, name)
    IN  IF value = Missing \/ Len(value.bytes) > Bytes4 THEN Default
        ELSE Number(value.bytes \o [i \in 1..(Bytes4 - Len(value.bytes)) |-> 0])

\* StringType(buffer): the characters in front of the first zero.  The buffer has as
\* many characters as the size it was allocated for, zero where nothing was read.
Terminated(bytes, size) ==
    LET zeros == {i \in DOMAIN bytes : bytes[i] = 0}
    IN  IF zeros # {} THEN Text(SubSeq(bytes, 1, (CHOOSE i \in zeros : \A j \in zeros : i <= j) - 1))
        ELSE IF Len(bytes) < size THEN Text(bytes)
        ELSE Overrun

\* Mutant: what RegQueryValueEx returns is not looked at.
SecondReadUnchecked(value, size) == Terminated(IF Len(value.bytes) > size THEN <<>> ELSE value.bytes, size)

\* The second RegQueryValueEx, into a buffer of the size the first one returned; it
\* fails if the value is gone or has become longer.
SecondRead(value, size) ==
    IF value = Missing \/ Len(value.bytes) > size THEN Default ELSE Terminated(value.bytes, size)

\* GetValue of a string: ask for the size, which stays zero if there is no value ...
GetSize(k, name) ==
    /\ reading = NoRead /\ handle[k] # "none"
    /\ LET size == Len(Seen(k, name).bytes)
       IN  IF size = 0 THEN reading' = NoRead /\ answer' = Default
           ELSE reading' = [key |-> k, name |-> name, size |-> size] /\ answer' = answer
    /\ during' = {Seen(k, name)}
    /\ UNCHANGED <<there, values, handle, put>>

\* ... and read the value.
GetData ==
    /\ reading # NoRead
    /\ answer' = SecondRead(Seen(reading.key, reading.name), reading.size)
    /\ reading' = NoRead
    /\ UNCHANGED <<there, values, handle, put, during>>

Next == \/ DeleteSubKey \/ GetData
        \/ \E k \in RegistryKeys :
              \/ CreateSubKey(k)
              \/ \E writable \in BOOLEAN : OpenSubKey(k, writable)
              \/ \E name \in ValueNames :
                    \/ DeleteValue(k, name) \/ GetSize(k, name)
                    \/ \E s \in Texts : SetValue(k, name, Text(s))
                    \/ \E n \in Numbers : SetValue(k, name, Number(n))

Spec == Init /\ [][Next]_vars
-----------------------------------------------------------------------------
\* A number that was set is read through every object whose key was not deleted. So
\* is a string of up to three characters, as the number its bytes make up; a longer
\* one is answered with the default, and everything is once the key was deleted, also
\* when there is a key of that name again (297-314).
NumbersReadBack ==
    \A k \in RegistryKeys, name \in ValueNames :
        LET got == GetNumber(k, name)
        IN  IF handle[k] \notin {"read", "write"} \/ put[name] = Missing THEN got = Default
            ELSE IF put[name].type = "number" THEN got = put[name]
            ELSE (got = Default) <=> Len(put[name].bytes) >= Bytes4

\* What the GetValue of a string answers, whatever is set between its two calls: a
\* value the name has had meanwhile, whole - or the number's bytes up to a zero. The
\* default only if it has been missing, empty, or shorter than it became. It reads
\* past its buffer for nothing but a number without a zero byte (316-352).
StringsReadBack ==
    reading = NoRead =>
        CASE answer.type = "text" ->
               \E v \in during : IF v.type = "text" THEN v = Stored(answer)
                                 ELSE IsPrefix(answer.bytes, v.bytes)
          [] answer.type = "overrun" ->
               \E v \in during : v.type = "number" /\ 0 \notin ToSet(v.bytes)
          [] OTHER ->
               during = {} \/ \E v, w \in during : v.bytes = <<>> \/ Len(v.bytes) < Len(w.bytes)

\* Values are read as they were set, as far as that goes.
ValuesReadBack == NumbersReadBack /\ StringsReadBack
=============================================================================
