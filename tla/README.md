# CommonUtility in TLA+

CommonUtility is a collection of small C++ libraries (about 4700 lines of
implementation, in one directory each). They do not form one system: a few of
them share state between threads, talk to a kernel, or own memory, and the
rest are functions. This directory specifies the former and most of the latter,
checks the specifications on small instances with TLC, and proves theorems about
all of these with TLAPS: every safety property of a passing run is also a theorem, for
every value of the constants that the named assumptions allow. Liveness is checked by TLC only.

* [Inventory](#inventory): the components, their state and their hazards
* [Modules](#modules): which module stands for which code, and how
* [Runs](#runs): what is checked, at which bounds
* [Fairness](#fairness)
* [Proofs](#proofs)
* [What is not modelled](#what-is-not-modelled)
* [Plan](#plan)

## Inventory

`PROJECT.json` lists the components with their sources, and the hazards with
the line at which each bites.

| Component | State | Operations | What is hard | What makes it correct |
|---|---|---|---|---|
| `Thread/event` | a flag, its kind, a code, a mutex and a condition variable | `wait`, timed `wait`, `notify`, `reset`, `destroy` | wake-ups that race with the test of the flag and with deadlines; the code is accessed outside the mutex | it is an event: no lost wake-up, one release per notify (auto reset), nothing taken by a timeout |
| `Thread/mutex`, `condition_variable` | owner and depth of a recursive mutex, sleepers | `lock`, `unlock`, `scoped_lock`, `wait`, `notify_one`, `notify_all` | a wait gives up one level only | a wait returns with the hold it had |
| `Thread/main.cpp` | a queue under the mutex, an event | one producer, one consumer, one thread that waits for the event | the notify is made after the unlock | each item printed once and in order, none left while all sleep |
| `Thread/thread_local_storage` | an index per object, a slot per thread and index, a heap of values | construct, assign, read, destroy | the destructor runs in one thread; indexes run out and are used again | a thread reads what it wrote; which values are lost |
| `Windows/IOCP` | completion port, socket contexts with lists of I/O contexts, the map of connections, worker threads | `Start`, `Send`, `Remove`, `Shutdown`, the handlers of accepts, receives and sends | workers handle completions of one connection concurrently; operations fail or are cancelled; contexts are deleted while others use them | nothing freed is used, the accepts are kept up, callbacks make sense in their order, the workers end |
| IOCP helpers (`ThreadHelper`, `CriticalSection`, ...) | thin wrappers | | | |
| `MemoryLeakDetector` | a doubly linked list of blocks, two counters, a critical section | the replaced `operator new` and `operator delete`, the report, the destructor | threads that reuse an address at once; a loop that does not advance | the list is the live allocations, the counters are the list |
| `SmartPointer` | handles, counted blocks | construct, copy, assign, destruct | objects that own handles themselves: deletion cascades | counts are handles; only cycles leak |
| `Windows/Registry` | the map that owns the `RegistryKey` objects; the values of keys | `CreateSubKey`, `OpenSubKey`, `DeleteSubKey`, `DeleteSubKeyTree`, `Close`; `SetValue`, `GetValue`, `DeleteValue` | objects are owned under a relative path, so the same path below another key evicts; a string is read by two calls of the system | one owner per object, a deleted tree is gone, when references dangle and freed names are read; values read as they were set |
| `DateTime`: `TimeSpan` | ticks and parts | constructors, assignment, sums, `Negate`, `Duration` | two routes between ticks and parts, one through `int` | both denote the same time |
| `DateTime`: `DateTime` | timestamp, calendar fields, kind | constructors, assignment, sums, `AddYears` ... `AddMilliseconds`, conversions | fields that are not normalised, UTC fields counted as local, references into freed data | fields read the timestamp |
| `Path` | a list of names; the file system | `CreatePath`, `Remove`, `Rename`, `GetSubPaths`, `Parent`, `Join` | several system calls per operation, recursion, patterns rewritten to regular expressions | honest results, a complete walk |
| `StringEx` | a string | `remove`, `split`, `replace`, `tolower`, `toupper`, `foreach` | empty arguments, unsigned differences that wrap | against reference definitions; which calls end |
| `Convert` and `Base64`, `Guid` | none; eleven members | bytes to text and back | padding, line breaks, what is read ahead, texts cut short | what is encoded is decoded again |
| `ArgumentParser` | a map filled once | the constructor, `get` | several equals signs, repeated and empty arguments | the last one counts |
| `ConsoleTable` | names, widths and cells by column | `add_column`, `add_row`, `print` | kept by column, printed by row | rows stay together |
| `JNIUtilities` | the virtual machine, shared environments | `GetEnviromentFromJVM`, `GetEnviromentFromJAR`, copies, destructors | a deleter that detaches whichever thread runs it | a thread is attached while it has an environment |
| `ArgumentVerifier`, `Integer`, `Scope`, `Encoding`, `Manual`, `DynamicLibraryLoader` | none, or one handle | checks, forwarding operators, layout, calls of other libraries | little | |

How they interact: `main.cpp` of `Thread` composes the mutex, the condition
variable and the event. The IOCP server calls its application back from the
worker threads, and the application calls `Send` from within callbacks; the
kernel posts completions to the port that the workers share. The leak detector
replaces the operators of the program it is linked to. A `DateTime` is added to
and subtracted into `TimeSpan`s. The other libraries do not use each other.

## Modules

| Module | Code | Notes |
|---|---|---|
| `AbstractEvent` | what an event promises (and what the `WIN32` branch of `event.cpp` delegates to) | a flag and the calls in progress |
| `Event` | `Thread/event.cpp`, POSIX branch | one action per step another thread can observe; `Promise` is the refinement mapping to `AbstractEvent` |
| `Monitor` | `Thread/mutex.*`, `Thread/condition_variable.*` | any thread makes any call the classes allow |
| `ProducerConsumer` | `Thread/main.cpp` | instances of `Monitor` and `AbstractEvent`, any number of producers and consumers |
| `ThreadProofs` | | theorems about `Event`, then about `ProducerConsumer` |
| `IOCP` | `Windows/IOCP/IOCP.cpp`, `Types.h`, its `main.cpp` | workers, the application and the kernel |
| `IOCPProofs` | | theorems about `IOCP` |
| `MemoryLeakDetector` | `MemoryLeakDetector/MemoryLeakDetector.cpp` | |
| `MemoryLeakDetectorProofs` | | theorems about `MemoryLeakDetector` |
| `SmartPointer` | `SmartPointer/SmartPointer.hpp` | one thread: the counts are plain integers |
| `SmartPointerProofs` | | theorems about `SmartPointer` |
| `Registry` | `Windows/Registry/Registry.cpp` | keys; the recursion of `DeleteSubKeyTree` is a stack of frames |
| `RegistryValues` | `SetValue`, `GetValue`, `DeleteValue` of the same file | values, on one key |
| `RegistryProofs` | | theorems about `Registry` |
| `ThreadLocal` | `Thread/thread_local_storage.hpp` | objects, threads that end, a heap of values |
| `JNIEnviroment` | `JNIUtilities/JNIEnviroment.cpp` | shared environments over an external virtual machine |
| `TimeSpan` | `class TimeSpan` of `DateTime/DateTime.cpp` | units and the width of an `int` are parameters |
| `DateTime` | `class DateTime` of the same file | extends `TimeSpan`; the calendar is a parameter |
| `Pattern` | `SplitString`, `ReplaceString`, `PatternToRegex` of `Path/Path.cpp` | pure functions, and `Wildcard`, what a caller means by a pattern |
| `Path` | the class of `Path/Path.cpp` | callers that interleave on one file system |
| `Utilities` | | one specification for `DateTime`, `Path` and `ConsoleTable` |
| `UtilityProofs` | | theorems about `TimeSpan`, `DateTime`, `Path` and `ConsoleTable`, and about all together |
| `Texts` | | `Without`, which `StringEx` and `Base64` share |
| `StringEx` | `StringEx/String.hpp` | every round of a loop is a step |
| `Convert`, `Base64`, `Guid` | the files of these names | pure functions on sequences of bytes, each extending the one before but for `Base64`, which comes first |
| `Conversions` | | programs that use these functions: encode in pieces, lose the end of a text, type one |
| `ArgumentParser`, `ConsoleTable` | the classes of these names | |
| `TextPrograms` | | one specification for `StringEx` and `Conversions` |
| `TextProofs` | | theorems about each of these, and about both together |
| `Resources` | | one specification for `ThreadLocal`, `Monitor`, `JNIEnviroment`, `RegistryValues` and `ArgumentParser` |
| `ResourcesProofs` | | theorems about each of these, and about all together |

Each `MC...` module instantiates the module of its name for TLC (`MCText`, that is
`TextPrograms`). `TextPrograms`, `Utilities` and `Resources` put together components
that share nothing: a behaviour is one of a single component, chosen in the initial
state, while the variables of the others rest. What they check of a component is what a
run of its own would (`TextsAreApart`, `UtilitiesAreApart` and `PartsAreThemselves`
prove it). Definitions that are
marked "Mutant" or "slip" are not part of a specification: each is a plausible bug, by
which a definition can be replaced to see a property fail; `PROJECT.json` pairs them
under `mutants`.

### Conventions

*Locations.* Where a thread stands in the code is `pc[t]`, and its values are
named for the next thing the thread does (`"wait.cond"`, `"accept.insert"`). A
section of code under a lock that nothing outside the lock can observe is one
action; what is done outside of it, like `m_code = code` in `notify()`, is an
action of its own.

*Ghosts.* Variables marked "ghost" are not in the code. They record history that
a property needs and no guard reads them: which notify raised the flag
(`Event`), at which depth a thread called `wait` (`Monitor`), which callbacks
were made (`IOCP`; the application reads it, as an application knows what it
was told), the registry before a deletion (`Registry`), whether others have
interfered in a call (`Path`).

*Undefined behaviour.* Where the code touches freed memory or recurses without
end, the model sets a flag (`wild`, `crashed`) and stops. Properties of such
modules are claims about all steps up to there. Where reaching that point is
itself worth a statement there is one: `ReceivesNeverDangle`,
`DanglesByName`, `OverflowsAtTheTop`, `ReadsInside` say that, or when, it
is reached. One such read every ordinary program makes, that of a freed name in
`RegistryKey::Close`: there the model stops, and in other behaviours goes on as a build
does in which the string still reads as it was, or as empty. The other properties of
`Registry` say something of such builds only.

*Types.* Where a type invariant is not proved on its own it is the first conjunct
of the invariant that speaks about most of the state: `IOAccounting`,
`WellLinked`, `CountsAreHandles`, `MapOwnsAll`, `OverflowsAtTheTop`,
`ValuesBelongToThreads`.

*External code.* The kernel side of IOCP (`AcceptDone`, `RecvDone`, ...), the
Windows registry, the file system, the calendar of the C library, TLS slots, the
Java virtual machine, `std::string` and `sscanf` are modelled
from how the code uses them and marked external in `PROJECT.json`.

### Event

`holder` is `CORE->mutex`, the threads at `"wait.cond"` are asleep on
`CORE->cond`. `WaitCall`, `WaitLock`, `WaitTest`, `WaitRelock`, `WaitExit` and
`WaitReturn` are `wait()` from its call to `return m_code`; `Expire` is a
deadline that passes during `pthread_cond_timedwait`, `SpuriousWake` a return
nobody asked for. `NotifyCall` stores the code, before the mutex is taken, and
`NotifySet` raises the flag and wakes. Notifies are numbered and each passes its
number as the code, so that all codes are distinct. The kind and the initial state, arguments
of the constructor, are chosen in `Init`. `Abstime` is the arithmetic by which the
deadline is made; in the state machine a deadline may pass at any moment.

### Monitor and ProducerConsumer

`Enter` and `Leave` are one level of the recursive mutex. `wait` gives up
**one** level: with the mutex held twice, the sleeper keeps it
(`NestedWaitKeepsMutex`). That is how `pthread_cond_wait` on a recursive mutex
and `SleepConditionVariableCS` behave, and a thing to know about this class,
since the mutex is recursive by construction (`mutex.cpp` 61).

`ProducerConsumer` takes the monitor's actions and adds the queue. It uses
`AbstractEvent` where the code has an `event`: that `Event` implements it is the
property `ImplementsEvent`.

### IOCP

A client stands for a connection, its socket context and its accepted socket.
`ctx` says whether the context exists, `map` is `m_clientSocketContexts`, `ios`
the length of a context's list of I/O contexts, `accepts`, `recvs` and `sends`
the operations the kernel has, `port` the queue of completions. `Dequeue` and
`Dispatch` are the loop of `_WorkerThread`; `Accept...`, `Recv...`, `Sent...` and
`Lost...` the handlers, cut where another thread can see a difference; `Send...`
is `Send`, called from `OnRecved` or `OnAccepted`; `Remove...` and `Shutdown...`
are the application. `UseAfterFree` is enabled when a thread stands before code
that touches something freed.

What a server does is a member of `Servers`, chosen in `Init` (`ServerKind`): which
connections come in, whether `OnAccepted` or `OnRecved` answers, whether the
application removes connections, whether it shuts the server down. So
`ReceivesNeverDangle` can say of all of them at once in which steps freed memory
is touched: those of a send, and those after `Remove`, `Shutdown` or a send of no bytes.

A completion of no bytes, of a receive or of a send, is a lost client (`IOCP.cpp`
136-143): `OnClientLost` is called and the context deleted. `told` distinguishes the
two, `"lost"` and `"dropped"`, because only of the first can be said that it is the
last. `Send` always passes the whole buffer, so whether the system ever completes one
with no bytes is not known here; `SendDone` allows it of any send.

Failures: any operation or system call may fail, at most `MaxFailures` times in
a behaviour; one worker thread may fail to be created.

### MemoryLeakDetector

`heap` is the user's memory, `block` the `MemoryBlock`s. `New` is the `malloc` of
`operator new`, `InsertEnter`, `InsertCount` and `InsertLink` are `InsertBlock`;
`Delete`, `RemoveEnter`, `RemoveUnlink`, `RemoveFree` and `Free` are
`operator delete`. A block has a copy of the file's name or, if
`file` is `NULL`, none. `PlainNew` is an allocation the detector does not see but
whose release it does. `Report` is `GetCurrentThreadMemoryLeak`, whose loop never
advances: with a block in the list its thread stays in the critical section.

### SmartPointer

Every object has a `smart_pointer` member, so that objects form lists and cycles.
`Visited` and `Deletes` are the cascade of `decrease_ref` and destructors. The
assignment from a member of the object that the assignment itself deletes
(`p = p->next`) is where the model stops.

### Registry

A path is a sequence of names, with an empty one at its end if it was given with a
trailing separator, which `GetKeyNameOfPath` and the registry drop (`Located`) and the
map does not. `AddUsingRegistryKey` evicts and deletes the
object that has the entry of the same relative path; `Close` removes the entry
of the *last name* of the path it was opened with, which may be another object's.
`DeleteSubKeyTree` is `TreeOpen`, `TreeDescend`, `TreeDelete` and `TreeClose` on
the innermost frame; a `RegDeleteKeyEx` that is refused throws through all frames.
`TreeDangles` is a call that comes back to a key deleted further in (`Stale`).
`NameDangles` is a close that deletes the owner of the name it goes on to erase by
(`FreesOwnName`, `Registry.cpp` 107-109); `Close` and `TreeClose` are enabled beside it.

`RegistryValues` has several `RegistryKey`s on one key, some of them opened before
the key was deleted and created again. A value is a sequence of bytes, with the
zero that `RegSetValueEx` puts behind a string. `GetSize` and `GetData` are the two
calls of `GetValue` for a string; between them anybody may set, delete or change
the type of the value.

### ThreadLocal

A member function touches the slot and the value of its own thread only, so a
call is one action. `slots` is what `TlsGetValue` returns, `heap` the values.
`ConstructWith` assigns for the constructing thread alone: the others read the
default. `Destroy` frees the value of the thread that runs it, `ThreadEnds` none:
`OthersAreLost` says that these are the values that leak, all of them and no
others, and `ReadsItsOwn` that an index that is used again brings nothing over.

### JNIEnviroment

An environment is what `m_env` and `m_jvm` share, a record of its deleter's kind
and the thread it was made in; `holds` maps objects to environments. `Replace` is
an assignment, a construction or a destruction: the object gives up what it
shared, and if it was the last one (`LetsGo`) the deleter runs, in the thread that
is at work. `strays` records the threads that ran a deleter in a way that detaches
a thread that still needs the machine or leaves one attached that does not.
`AttachedWhileHeld` says that nothing else can break the correspondence. The pointer
that `operator->` hands out is not counted as a holder: it is a temporary, and the
objects are taken to outlive the expression it is used in.

### TimeSpan and DateTime

`PartsOf` is `FromTicks`, `Total` and `Products` are `FromDateTime`, whose
operands are all `int`: a product that does not fit is undefined and `Products`
is the set of what a build may store. `Parsed` is `ParseDateTimeFromTicks`,
`Counted` is `ParseTicksFromDateTime`, which reads the fields as local time
whatever the kind. The calendar is a function from months to day numbers;
`mktime`, `gmtime` and `localtime` are defined from it.

### Path

The texts of paths are sequences of names and dividers; names are sequences of
characters, which only `Pattern` looks into. `CreatePath(true)` recurses on its
parent: `stack` holds the calls in progress. `CreateParent`, `CreateSelf` and
`CreateMkdir` are its three system calls; `WalkExists`, `WalkOpen`, `WalkEntry` and
`WalkClose` are `WalkDirectory`. `Names` and `Merge` go by positions, so that what a path
becomes on its way through a text and back can be proved. `PatternToRegex` is the two
replacements of the code, `IsPatternMatched` what `regex_match` makes of the outcome, from
the places of the expression to those of the name, and `Wildcard` says, without either, that
the name divides up among the characters of the pattern.

### StringEx

`RemoveNext`, `SplitFound`, `SplitEnd` and `ReplaceJoin` are the rounds of the loops.
Characters are codes and positions count from zero; `npos` and differences wrap at
`SizeRange`. The results are compared with `PiecesAround`, the pieces of a string around
all occurrences of a separator, by recursion over positions. `CallsEnd` says that a call
ends if and only if its target is not empty.

### Conversions

`Base64`, `Convert` and `Guid` are functions; a decoder returns whether it threw,
its output, and the furthest position it read (`ReadsInside`). `Conversions` gives
them texts as a program would: encoded piece by piece and joined, cut short, or
typed by somebody. `TextPrograms` has a program call a function of `StringEx` or convert.

### ArgumentParser and ConsoleTable

`Parse` is one round of the constructor's loop, with a key length that wraps when
an argument begins with an equals sign; `GetString` and `GetBool` are `get`.
`add_column` and `add_row` keep cells by column. `Unpacked` is `_unpack_values`, a
function from the number of values handled to the table they leave, and `Handled` is
`_handle_value`. `min_rows_count`, `Printed` and `Cut` say what `print` makes of the cells.

## Runs

| Run | Instance | What it shows |
|---|---|---|
| `event` | 3 threads, 5 calls, either kind and initial state | `NoLostWakeup`, `FreshCode`, and `ImplementsEvent`: the POSIX code is the abstract event, liveness included |
| `producer_consumer` | 2 producers, 2 consumers, 3 items | items are neither lost, doubled nor reordered; no missed notify; all are printed; the event is seen; no deadlock |
| `iocp` | 2 workers, 1 failure; a server that only receives (2 clients), one that answers and whose application removes (1), one that is shut down (1) | `AcceptsKept`, `SingleReceive`, `ReceivesNeverDangle`, `IOAccounting`, `ConnectionsAsTold` |
| `iocp_shutdown` | 2 workers, 1 failure, the server that is shut down (1 client) | `ShutdownStopsWorkers` (liveness) |
| `iocp_shutdown_releases` | the server that is shut down, no failure | a violation, see below |
| `leak_detector` | 2 threads, 3 addresses, 3 blocks, sizes 0 and 2, one reporter | list and counters |
| `leak_detector_returns` | 2 threads, 2 addresses, 2 blocks, one size, one reporter | the operators return (liveness) |
| `smart_pointer` | 3 variables, 4 objects | counts, and what leaks |
| `registry` | 2 names, paths `A`, `B` and `A\B\`, depth 3, 4 keys | ownership, what deleting a tree does, and which closes read a freed name |
| `utilities` | 2 dates, 1 span, a calendar of two months, an `int` that overflows just after one day; 2 callers, 5 texts, 3 initial trees, stack of 4; 3 columns of 2 names, 3 rows of up to 3 cells | `ReadsItsStamp`, `AddingNothing`, `PartsDenoteTicks`: fields, weekdays, parts and ticks; `OverflowsAtTheTop`, `CreationIsHonest`: when `CreatePath` overflows or fails; `WalkFindsAll`; `RowsStayTogether` |
| `resources` | 2 threads, 3 objects, 2 indexes, 3 blocks; 3 threads and depth 3 for the mutex; 2 keys, 4 texts, 2 numbers; 2 arguments of up to 4 characters | `ValuesBelongToThreads`; `NestedWaitKeepsMutex` and `WaitRestoresHold`: who holds the mutex during and after a wait; `AttachedWhileHeld`, `ValuesReadBack`, `LastArgumentCounts` |
| `text` | strings of up to 4 characters of 3; pieces of up to 3 bytes and two longer ones, 256 uuids | `ResultsAreExact`, `CallsEnd`, `ThereAndBack`, `ReadsInside` |

### The bounds, and why they are enough

* `event`: three threads are two waiters and a notifier, or a waiter between two
  notifiers; five calls allow two waits, two notifies and a reset. A
  lost wake-up needs one waiter asleep, one on its way, and one notify. The
  theorems of `ThreadProofs` hold without any bound.
* `producer_consumer`: with two consumers a notify can reach the wrong one, with
  three items a batch may hold several and another may follow. A batch is
  handled outside the lock, so more items repeat the same steps.
* `iocp`: two workers are what two completions of one connection need; two
  connections and a failure let one accept of the server go wrong while the other
  goes on. The servers that answer, remove or are shut down have one connection,
  since other connections touch nothing of it but the map and the port; one send
  in flight already meets a receive, a loss and a removal, and one that completes with
  no bytes meets a receive that is pending, queued or handled.
* `iocp_shutdown`: liveness needs all behaviours, without symmetry, so it is checked on
  the only server for which the property says anything.
* `leak_detector`: with three blocks there is a middle one to unlink, with three
  addresses one can be reused while another is on its way. The sizes are 0 and 2, so
  that a total cannot pass for a count, nor an empty total for an empty list.
* `leak_detector_returns`: two threads and two blocks are what makes one wait for the
  other in either operator.
* `smart_pointer`: three variables and four objects allow a cycle of two with
  another object behind it, and a variable to drop it.
* `registry`: two names are the least that repeat and differ; depth three lets a
  name recur under another one, and four keys a tree with others beside it; the path of two
  names and a trailing separator is stored under another path than the name its key is
  closed by, and names a key that the single names reach too.
* `utilities`, dates: the calendar has a month of one day that has two in leap years,
  days of two seconds, and a zone one second ahead, so that every field carries,
  and local and UTC readings fall on different days.
* `utilities`, paths: paths of no name, one name, two and three, absolute, relative and under
  the home directory; a stack of four is deeper than any path that ends.
* `utilities`, tables: three columns of two names make one name appear twice; rows of
  one to three cells have too few values, enough, and too many; texts of length 0 and 4
  are shorter and longer than the names.
* `resources`: three objects and two indexes, so that indexes run out and come back;
  for the mutex, three levels distinguish "gave all up", "kept one", "kept several",
  and the third thread is the one that competes;
  three objects of one thread or two are what shares, replaces and outlives an
  environment; texts whose bytes, with the zero behind them, are fewer than, as
  many as and more than the four of a number; two arguments can give one key twice,
  with and without a value, and four characters hold a dash, a key, and a value or a
  second equals sign.
* `text`: a target of two characters can overlap itself, straddle what was erased,
  and be longer than the string; pieces of one, two and three bytes have each
  padding, and lines of 4 (PEM) and 8 (MIME) characters instead of 64 and 76 are
  broken by texts this short; the uuids vary the bytes of members that change
  places.

Symmetry is used where no definition tells the members of a set apart: the
callers and the dates (`utilities`), the workers (`iocp`), the addresses
(`leak_detector`), the variables and objects (`smart_pointer`), and the threads,
objects, indexes and blocks of `ThreadLocal` (`resources`). No run with a liveness property uses it.

`CHECK_DEADLOCK FALSE` is set where the system may come to rest: an event after
its last call or `destroy()`, a server or a program that reached undefined
behaviour (the runs of `IOCP`, `smart_pointer`, `registry`), a detector after its
destructor or under `Report` (`leak_detector`, `leak_detector_returns`), a call that has
returned (`text`), a recursion that overflowed the stack and a table that is full
(`utilities`), threads that have all ended, or wait in `DestroyJavaVM` or on a condition
variable nobody notifies, arguments that were all read (`resources`).
`producer_consumer` is checked for deadlock.

### The violation

`iocp_shutdown_releases` checks `ShutdownReleasesAll`, what the comment at
`IOCP.cpp:490` says of the loop below it: that it releases all socket contexts.
The loop visits those in the map. A connection that was accepted but not yet
inserted (`IOCP.cpp` 254-265) is not among them, and `Shutdown` does not come back to
its context. Only a later completion that closes the connection, or the `Shutdown` that
the destructor calls again, might release it. The loop has another flaw that this
property does not catch: workers may erase the entry it stands on. There the model
stops (`IteratorLost`).

### Things the models show that are worth knowing

* A server that sends, or whose application calls `Remove`, reaches `wild`: a
  context is deleted under another thread (`IOCP.cpp` 433, 483). A server that
  only receives does not, and the handlers of receives never do before a removal,
  a shutdown or a send of no bytes (`ReceivesNeverDangle`).
* A send that completes with no bytes loses the client while a receive is pending or
  handled elsewhere: the application may hear of the loss, then of data, then of the
  loss again, and the context is used after it was deleted (`IOCP.cpp` 136-143).
  `ConnectionsAsTold` and `ReceivesNeverDangle` except such connections.
* Once an accept fails, or the binding or first receive of a connection, the
  server waits for one connection fewer for good; `AcceptsKept` states both that
  it never waits for more and that without failures it does not wait for fewer.
* `CreatePath(true)` on a relative path of one name, or one whose first name does
  not exist, never ends (`OverflowsAtTheTop`).
* `DeleteSubKeyTree` comes back to a freed key only if a name repeats on the way
  down, but every close of a key that was opened by a single name reads the name of the
  key it has just deleted, in `DeleteSubKeyTree` as in the program (`DanglesByName`).
* Blocks of size 0 that were never deleted make the destructor of the leak detector say
  that there is no leak, and then list them (`MemoryLeakDetector.cpp` 42).
* `PartsDenoteTicks` holds up to multiples of the range of `int`: copying a span
  of 25 days or more changes its ticks.
* `AddMonths(0)` moves a UTC date by the offset of the zone or leaves it
  (`AddingNothing`).
* `thread_local_storage` leaks the values of all threads but the one that runs the
  destructor, and of threads that end (`OthersAreLost`).
* An environment of a Java thread that is destroyed by another thread leaves the
  first attached, and a second environment of one thread dies with the first
  (`AttachedWhileHeld`, by its exception).
* `GetValue` of a string that is really a number without a zero byte reads past its
  buffer (`StringsReadBack`).
* `split` forgets the empty piece behind a separator of several characters
  (`SplitIsExact`); `replace` throws `length_error` and loses the string when it
  consists of such separators only (`ReplaceIsExact`).
* A `Guid` does not survive its text: the parser writes the third member into the
  second (`GuidAndBack`).
* A table without rows prints 0xffffffff of them (`RowsStayTogether`).

## Fairness

* `Event`: weak fairness of the steps a thread takes inside the library
  (`Run(t)`). A runnable thread eventually runs. Nothing is assumed of calls,
  deadlines or spurious wake-ups. A thread that contends for the mutex need not
  get it under weak fairness; calls are bounded in the instance, so contention
  ends there. Under unbounded calls `ImplementsEvent` would need a fair mutex.
* `ProducerConsumer`: weak fairness of each thread, and of the event thread's call
  and release. The producers stop at `MaxItems`.
* `IOCP`: weak fairness of each worker, of what the application has begun
  (`Finish`) and of undefined behaviour once it is due. Clients, failures and the
  application's decisions are not fair.
* `MemoryLeakDetector`: strong fairness of entering the critical section (a thread
  that keeps waiting is granted it in the end, as with any mutex whose holders
  leave), weak fairness inside.
* `StringEx`: weak fairness of the rounds of a call (`Round`): a thread that is in a
  loop goes on.
* The other modules have safety properties only.

## Proofs

All are checked by TLAPS from the assumptions named in the modules (`EventAssumption`,
`ProducerConsumerAssumption`, `IOCPAssumption`, `DetectorAssumption`,
`SmartPointerAssumption`, `RegistryAssumption`, `ThreadLocalAssumption`,
`ResourcesAssumption`, `UnitAssumption`, `InputAssumption`, `CalendarAssumption`,
`GivenStampsAssumption`, `PathAssumption`, `TableAssumption`, `StringExAssumption`,
`ConversionsAssumption`), which TLC evaluates in the runs. They say that sets of
threads, objects and addresses are finite where something is counted, that `None` and
the like are none of their members, and that bounds are natural numbers. Six say more:
`ProducerConsumerAssumption` that there is a consumer (`main.cpp` starts one; without
any, a notify that is due reaches nobody and `NoMissedNotify` would be false for want of
sleepers to speak of), `DetectorAssumption` that there are at least as many
`MemoryBlock`s as addresses, so that the detector's own `malloc` does not fail (the code
does not look), `PathAssumption` that the stack has room for as many nested calls as a
path given, or a place of the file system, has names (a system limits the length of its
paths to some hundred characters), so that only a recursion without end overflows it,
that names are sequences of characters, and that patterns have no backslash and no
parentheses, which the code hands to `std::regex` as they are, `TableAssumption` that
there are fewer cells than 0xffffffff, which `print` takes for a table whose columns are
all empty, `StringExAssumption` that characters are bytes and that a `size_type` counts
every text that can come up, and `ConversionsAssumption` that the lengths of lines are
multiples of four (they are 64 and 76) and uuids have 16 bytes. The assumptions of
modules that are only instantiated (`ArgumentAssumption`, `MonitorAssumption`,
`ValuesAssumption`) are definitions, which `Resources` (`ResourcesAssumption`) assumes.
That of `RegistryValues` says that the strings that are set have no zero inside, as they
pass through `c_str()`, and that numbers are four bytes.

**`ThreadProofs`**, first of `Event`, for any set of threads and any number of calls. The invariant
`IInv` is the conjunction of

* `TypeOK`;
* `MutexInv`: the threads between lock and unlock are the holder;
* `DeadlineInv`: only a thread whose deadline has passed carries `ETIMEDOUT`, and
  it neither tests the flag nor sleeps again;
* `FlagInv`: a thread that left the loop without a timeout still sees the flag up,
  for nobody else has been inside the mutex since;
* `WakeInv`: threads sleep beside a raised flag only on an auto-reset event, and
  then one of them is on its way to take it;
* `CodeInv`: the codes written so far bound the code of the flag and of every
  release.

`NoLostWakeup` alone is not inductive: to see that the step that lowers the flag
or sends a thread to sleep keeps it, one must know who holds the mutex. Theorems:
`TypeCorrect`, `InductiveInvariant`, `NoWakeupIsLost`, `CodesAreFresh`, and
`ImplementsAbstractEvent`: `Spec => Promise!SafetySpec`. The liveness part of the
refinement stays with TLC. `DeadlineIsExact` is a theorem about `Abstime` alone: the
deadline is the time of day plus the milliseconds, to the microsecond the clock
has, and its nanoseconds stay below a second, since neither part that is added
reaches one.

Then of `ProducerConsumer`, for any numbers of producers, consumers and items. `ProgramInv`
is the conjunction of

* `Control`: what each location says of the mutex and the condition variable: a
  thread owns the mutex just while it pushes or tests the predicate, at depth one,
  and is among the waiters just while it is in `wait`;
* `NoMissedNotify`, which is inductive beside `Control`: a producer that has left the
  lock is at `notify_one` until it has notified;
* `Queues`: a consumer has a batch only while it prints;
* `Ordered`: numbers increase along the queue and along what each consumer has had
  (`Has`: printed, then in the batch), and what is queued is larger than either;
* `Placed`: the items pushed are those in the queue and those had, and no two
  consumers have had the same.

`Placed` says with sets what `ExactlyOnce` says by counting: the lemma
`IncreasingCounts` takes one to the other, as a sequence that increases has nothing
twice. Theorems: `ProgramInvariant`, `NoNotifyIsMissed`, `PrintedInOrder`,
`ItemsAreKept`, and `UsesItsParts`: `ProgramSafetySpec => M!Spec /\ E!SafetySpec`, that every
step of the program is one of `Monitor` and of `AbstractEvent`, or leaves them alone,
so that what is proved of these holds of the program. This takes the invariant, too:
that a thread at `notify_one` is outside of the mutex, or the depth a `wait` begins at.

**`IOCPProofs`**, for any workers, connections, sends and failures, and any server of
`ServerKind`. None of the five invariants of the run is inductive. `IInv` consists of

* `Types` and `Locations`: where a worker can stand for each kind of completion, and
  the application's thread in `Remove` and `Shutdown`;
* `Unbound`: a connection that is not bound yet has no operations, no entry in the
  map and no I/O contexts, and only such a one has an accept packet;
* `OneReceive`: the right to receive for a connection is in one place: the accept
  packet, its handler up to the first receive, a pending receive, or the packet or the
  handler of one that is done. `SingleReceive` is what is left of that without the accepts;
* `OneAccept`, `Lost`, `Announced`, `Registered`: one handler accepts a connection,
  after the loss that a receive reports only the handler of the loss may be at work on a
  receive, a handler of a loss has told the application which kind it is (`Loss`), and
  until `OnAccepted` is called the application knows nothing else of the connection;
* `FreedUnreached`: a freed context has no completion of a receive unless the
  application removed it, shut the server down or a send of no bytes dropped it;
* `FailuresCounted`, `AcceptsKept`, `NoContexts`, `Balanced`: the accepts and their
  failures, and the equation between the I/O contexts of an owner and its operations
  in flight, queued, handled and failed.

Theorems: `InductiveInvariant`, `AcceptsAreKept`, `ContextsAreAccounted`,
`OneReceiveAtATime`, `ToldTruly`, `NoReceiveDangles`.

**`MemoryLeakDetectorProofs`**, for any threads, addresses, blocks and sizes.
`WellLinked` speaks of the list by walking along `next`; the invariant speaks of it by
the sequence of its blocks (`IsList`), which an insertion extends at its end and a
removal cuts. `IInv` is

* `TypeOK`, `Mutex` (one thread inside the critical section) and `Quiet` (nobody is in
  an operator once the detector is destroyed);
* `Locals` and `Pointers`: the block and the address each thread has, no address in two
  hands;
* `Recorded`: the allocated blocks stand one to one for the tracked allocations that
  nobody is about to insert or has removed;
* `Linked`: `head`, `tail`, `next` and `prev` are those of some sequence of the blocks
  that are neither on their way in nor out (`Listed`);
* `Totals`: the counters are the number and the sum of the blocks that were counted,
  which differ from the listed ones between `InsertCount` and `InsertLink`.

The last four are claimed until the detector is destroyed. That sums over sets
(`MapThenSumSet`) grow and shrink with their sets, and what `Nth`, `Reached` and
`FindBlock` compute along a sequence, are lemmas, by the least counterexample.
Theorems: `InductiveInvariant`, `ListIsWellLinked`, `ReportsAreExact`.

**`SmartPointerProofs`**, for any variables and objects. `IInv` adds to `CountsAreHandles`
that no object that lives is without a handle, and says it of the set of the handles
(`Owners`). The walk of the cascade (`Visited`) is spoken of by what it meets: a set that
has the start, is closed under the step (`MetClosed`: a walk as long as there are
blocks has come back to where it was), and has nothing that is not the step of
another member (`MetFrom`). `CascadeIs` says that every block the cascade visits loses
exactly one handle, even if the walk runs in a circle; `Released`, that the counts it leaves
are the handles it leaves. Theorems: `InductiveInvariant`, `CountsAreTheHandles`, and
`OnlyCyclesAreLeaked`: from an object no variable leads to there is a trail back along
its owners that is longer than there are blocks (`TrailExists`), which meets a block
twice; that block is on a cycle.

**`ResourcesProofs`**: the parts of `Resources` share nothing, and the theorems are about
each by itself. First of `ThreadLocal`, for any threads, objects, indexes, values and
blocks. That a thread reads what it wrote (`ReadsItsOwn`) is not inductive: an
assignment might change the value in another slot, a new object might inherit what is
left of an old one. `IInv` adds

* `GhostsOK`: nothing was written to an object that is not constructed yet;
* `OwnIndex`: no two objects have one index;
* `OwnBlock`: no block is in two slots of taken indexes;
* `InHeap`, `EndedEmpty`: such slots point to values, those of ended threads nowhere.

Slots of free indexes are not spoken of: `Destroy` leaves dangling pointers in them,
which `TlsAlloc` clears. Theorems: `InductiveInvariant` and `EveryValueBelongs`, which
is `ValuesBelongToThreads`, the loss of values (`OthersAreLost`) included.

Then of `JNIEnviroment`, for any threads and objects. `AttachedWhileHeld` is inductive
but for what the deleters do: `JavaStages` says that at most one environment is the one
that destroys the machine, that it is shared no more once somebody is in
`DestroyJavaVM`, and that without a machine there are only empty environments. The lemma
`SharedAfter` says what an assignment leaves shared: the new environment, and what was
there before but for one whose last object this was. Theorems: `JavaInvariant`,
`AttachedByHolding`.

Then of `Monitor`, for any threads and nesting. `MonitorInv` adds `WaitInv` to
`TypeOK`: a thread that waits has given the mutex up altogether if it held it
once, and otherwise owns it with one level less. That is what makes
`WaitRestoresHold` follow: a return adds one level. Theorems: `MonitorTypeCorrect`,
`MonitorInvariant`, `NestedWaits`, `WaitsRestoreTheirHold`.

Then of `RegistryValues`, for any names, strings and numbers and any number of key
objects.
`ValueInv` says that what is kept is what was set (`KeptAsSet`), and of a `GetValue`
between its calls (`Watched`) that the value as it is seen now is among those seen
during the call, and so is one of the size it was told. `TerminatedIs` says what the
constructor of a string makes of a buffer. Theorems: `ValueInvariant`,
`ValuesAreReadBack`.

Then of `ArgumentParser`, for any number of arguments of any length. `ArgInv` says that of
the arguments read so far the map has the keys, each with the value of the last argument
that has it (`LastSoFar`), and that just an empty one throws. `LastArgumentCounts` speaks of
the arguments as they are written, `-key` or `-key=value`; the lemma `KeyIs` takes one to
the other: an argument that begins with a dash gives a key without an equals sign just if
the constructor cuts that key and that value out of it. Theorems: `ArgsInvariant`,
`LastArgumentWins`.

Last, of all together: `PartsAreThemselves` shows that a behaviour of `ResourcesSpec` is one
of every part's specification, so that what was proved of the parts holds under the
specification that TLC checks (`HoldsTogether`).

**`RegistryProofs`**, for any names, any relative paths the program
passes, any depth. `IInv` consists of

* `Types`, `Rooted`: no key is in the registry without its parents;
* `Owned`, `Named`: each key object has one entry, whose last name is the one it was
  opened under, so that `Close` removes an entry of that name;
* `Shape`, `Distinct`: where each call of `DeleteSubKeyTree` stands, on the key its
  caller opened, no key being that of two calls;
* `Held`, `Nested`: as long as the key of a call is not deleted, it is open on the path
  of the call, and the path of a call continues that of the call around it. This ends
  when a call below opens the same relative path, evicts the entry and deletes the key;
* `Shrinks`: what was deleted is in the tree of the outermost call;
* `Dangles`: a key of a call in progress was deleted only if a name repeats on some path
  of the tree. Two calls under one name make that path, by `Nested`. That its own close
  reads a freed name just if the node is a single one follows from `Held`, `Owned` and
  `Named`: the entry found under that name is then that of the key itself, and a path of
  several names or with a trailing separator has its entry elsewhere;
* `Entries`: the entries of names outside the tree are untouched, those of names met are
  empty or of a call in progress.

That the map owns all takes that `Keys` has a number for every new object
(`NewKeyIs`): an object has an entry of its own, so there are no more than relative
paths. Theorems: `InductiveInvariant`, `OwnsAll`, `TakesOnlyTheTree`,
`CloseReadsAFreedName`, and `ReturnsWithTheTreeGone`, an action property.

**`UtilityProofs`**, first of spans, for any lengths of the units and any width of
`int`. The lemmas say what C's division does, that the parts of `PartsOf` add up to the
ticks but for the days cut to an `int`, and that `AsInt` changes a number by a
multiple of the range. `SpanParts`: the invariant is that every span is sound,
i.e. typed with parts and ticks congruent.

Then of dates, for any calendar and any zone of constant offset. `DateInv` is
`AllSound /\ AllProper`: the spans as above, and every date typed, with fields
that read its timestamp. Theorems: `TypeCorrect`, `SpansStaySound`,
`DatesReadTheirStamps`, `AddingNothingIsSafe` (an action property: the invariant
says which of the two readings the fields were before).

Then of `Path`, for any number of callers, any drives, names and patterns, any paths
they are given and any file systems to start with. The lemmas come in three groups:

* texts: the names of a text and one more token are those of the text and perhaps one
  more (`KeptOfAppend`), so `Names` undoes `Merge` (`NamesOfMerge`); hence `Parent`
  drops the last name, a name that is appended to a path is appended to its location,
  and the location of the first names of a path is the first part of its location, with
  "~" expanded or not (`LocationAbove`). That a fact passes from a sequence to a longer
  one makes it true of all by the least length at which it fails (`SequencesAre`);
* trees: `TreeOK` says that each place is below directories only, up to the top, and is
  kept by `mkdir`, `rmdir` and `rename`. A rename moves what is below along, and gives no
  two places one name, since the new name was free (`MovedKeepsTree`);
* `PathInv`: `Types`, with the tree; `Fits`, that the stack is empty between calls and
  never too deep; `Creating`, that the i-th nested call of `CreatePath` is about the
  path i - 1 levels above that of the call, that there are fewer calls than names as long
  as the first name was there all the time, and that what a call saw of its directory and
  of the parent is still so unless others have changed the file system (`StillSo`);
  `Walking`, that each nested call of `WalkDirectory` is a level deeper than the one
  around it, and what is listed at the bottom is empty; `Overflow`, the claim itself.

`StepIsOwn` has a lemma per action, and `OwnSuffices` shows once for all that a step of
one caller keeps the invariant of the others, whose ghosts `Watch` tells of it. Theorems:
`OverflowsOnlyAtTheTop`, and `CreatesHonestly`, an action property: a `mkdir` that fails
undisturbed has no parent it could stand in, or one that is a file, and
then that file lies on the way of the whole path (`FailsHonestly`).

That `GetSubPaths` finds what it should takes two more parts.

* Patterns. `SplitString` at one character and `ReplaceString` of the pieces come to
  replacing each character by itself (`Replaced`), so the expression is a row of tokens, one
  for each character of the pattern (`Token`), and what `regex_match` keeps of a place in
  the expression is the places of the name from which the rest of the pattern can be
  divided up. `PatternMatchesWhatIsMeant`: `IsPatternMatched(name,
  PatternToRegex(pattern)) <=> Wildcard(pattern, name)`, for all patterns and names.
* The walk. `WalkInv` says of a walk that nobody disturbs (`WalkOK`): what was found is what
  is sought but for what is still ahead of some nested call (`Ahead`, `Left`); no place was
  found twice, for there are as many as entries; the listing of each call is of the tree, below
  where the walk began (`FrameOK`); and what a call has still to handle is not above a call
  inside it (`Beside`). Without the last, nothing would keep an outer call from coming to a
  place again that an inner one has handled. `WalkGoesIn` (`Exists`), `WalkOpens`,
  `WalkHandles` and `WalkLeaves` are its steps, after which `WalkIsOver` has nothing ahead
  and `MeantIs` names what was sought.

Theorem: `WalksFindAll`, an action property: a walk that returns undisturbed has found each
directory and each file that it should, once.

Then of `ConsoleTable`, for any columns, and rows of any number of values. What a row
makes of the table is a recursive function of the values handled so far. What each value
keeps all of them keep, for there is no least number of values that breaks it
(`FillingKeeps`), and the function is the only one of its kind (`FillingOnce`). So
`add_row` puts each value that is taken at the end of its column (`RowIs`), and no more
cells into a column than there are columns. `TableInv`: the types; counts that are bounded;
a column that has cells once a row was added; and, unless a column was added behind a row
or twice, names that differ (`Distinct`), and cells of whole rows in their places, no
wider than their columns (`InPlace`). Theorem: `TablesPrintTheirRows`.

Last, of all together: `UtilitiesAreApart`, each behaviour of `UtilitySpec` is one of
`TimeSpec`, of the `Spec` of `Path` and of `TableSpec`, hence `UtilitiesHold`.

**`TextProofs`**, for texts, targets, pieces and lines of any length. The installed provers
cannot take an induction theorem with an operator for its parameter, so what a recursive
function computes is proved in another way: claims are sets, a set of numbers that has 0 and
the successor of each of its members has all of them (`NumbersAre`, from the least
counterexample), likewise one of sequences (`SequencesAre`); that a recursive function is what
its equation says (`Recursed`) comes from the table of its first values, which exists for every
length.

First of `StringEx`. `StringInv` says of each place in the code what has been done:

* `Splitting`: the pieces so far and the pieces of the rest are together those of the string
  (`PiecesFrom` at `current`), and a separator stands right before `current`;
* `Splitted`, `SplitAsMeant`: what a split leaves for `split` to return and for `replace` to join;
* `Removing`: the characters of what is left that the target does not have are those of
  the string, in their order, and its length differs by a multiple of the target's;
* `Replaced`, `Thrown`: what the join leaves, and that it throws for separators only.

Theorems: `StringInvHolds`, `SearchesAreExact` (`ResultsAreExact`), and `EmptyTargetsNeverEnd`,
the half of `CallsEnd` that is safety: with an empty target a search always finds something,
and `current` stays at 0, so a call never returns.

Then of `Conversions`. `ConversionInv` says that there is a text the program has or
has the beginning of (`IsFull`), which stands for the bytes that were encoded (`Meant`):

* base64 (`Base64Text`): the first line break stands behind whole groups of four (`Aligned`),
  and without the line breaks the text is a row of groups that decodes to the bytes (`Good`).
  Two such texts make another (`GoodConcat`), although the first may end in padding, and the
  beginning of one decodes to a beginning of the bytes, or throws (`DecodePrefix`);
* `HexText`: two digits for each byte;
* a `Guid` is that of the uuid, whose text `FromText` reads back as `FromTextIs` says, with the
  third member written into the second.

Theorems: `ConversionInvariant`, `ConversionsThereAndBack` (`ThereAndBack`), and
`DecodeReadsInside` (`ReadsInside`), from the lemma `DecodeInside`, which holds of every text,
encoded or not.

Last, of both together: `TextsAreApart`, each behaviour of `TextPrograms` is one of both
programs, hence `TextsHold`.

Only model-checked is liveness: `ImplementsEvent` beyond its safety part,
`EverythingPrinted`, `EventSeen`, `ShutdownStopsWorkers`, `OperatorsReturn`, and that
calls of `StringEx` with a target end (the other half of `CallsEnd`). Every other property
of a passing run is the subject of a theorem above.

## What is not modelled

* `event`: the `WIN32` branch (a kernel event, which `AbstractEvent` describes),
  system calls that fail on initialised objects, calls on a destroyed event; a
  `long` that overflows when seconds are added to the time of day.
* `IOCP`: the constructor, buffers and what is in them, addresses, options of
  sockets, error texts; the kernel's writes into an `OVERLAPPED` that was freed;
  the contents of `Send`'s data.
* `MemoryLeakDetector`: file names and lines but for the lifetime of their
  buffer, the text of reports, `operator new` during static destruction.
* `SmartPointer`: handles shared by threads, two handles made from one raw
  pointer; comparison and dereference, which only read.
* `Registry`: keys another process changes while a tree is deleted. `RegistryValues`:
  the wide build; `delete` of what `new[]` returned (`Registry.cpp` 338, 347), which has
  no effect on a build where both are `malloc`; `GetValueNames`, which only reads.
* `ThreadLocal`: `TlsSetValue` that fails, a `new` that throws, two threads that
  construct or destroy one object at once.
* `JNIEnviroment`: calls of a running machine that fail, as `AttachCurrentThread`, whose
  result the code does not look at, a library that cannot be loaded, the paths and
  options given to the machine, the release of its library, which is assumed to stay
  loaded.
  Of `JNIUtilities`, the wrappers of methods and conversions of strings and arrays
  forward to the machine.
* `StringEx`: constructors, `find` and the forms of `foreach` that only read.
* `Guid`: texts with white space, signs or prefixes, which `sscanf` accepts; the copies.
* `ArgumentParser`: getters of other types (a `stringstream`), and those that throw.
* `ConsoleTable`: the texts of values, a line longer than its static buffer, colours.
* `TimeSpan`: totals (doubles) and the rounding of `FromDays` to `FromSeconds`;
  comparisons.
* `DateTime`: the part of a second, which is only shown; hour, minute and second
  are one number; daylight saving (`tm_isdst` is uninitialised in the code, which
  has no effect in a zone of constant offset); formatting.
* `Path`: the `io.h` branch is the one modelled; names that begin with `~` but are
  not `~`; characters other than `.` and `*` that mean something to `std::regex`;
  an unset home directory; permissions. A listing is a snapshot.
* The components with status `not_modelled` in `PROJECT.json`, for the reasons
  given there.

Hazards that were seen and that no property covers, beyond those listed in
`PROJECT.json`: a `pthread_cond_signal` that fails would return with the mutex
locked (`event.cpp` 168); `Send` leaves `wsaBuf.len` at the size of the buffer, so
all of the buffer is transmitted (`IOCP.cpp` 441); a failed accept frees its I/O context
without closing the socket (`Types.h` 34); the kernel may still write into I/O contexts a socket
context's destructor frees (`Types.h` 87); `AddSeconds` cuts a sum to whole seconds
(`DateTime.cpp` 593); `Rename` takes `back()` of an empty path (`Path.cpp` 227);
metacharacters in patterns are not escaped (`Path.cpp` 99); `destroy()` and the
destructor of an event both go through its handle (`event.cpp` 212); a `delete`
after the global leak detector is destroyed walks a freed list
(`MemoryLeakDetector.cpp` 79), and its destructor takes blocks of size 0 for no leak
(`MemoryLeakDetector.cpp` 42); the conversion of wide characters discards its result
on POSIX with C++98, and a failed `iconv_open` is compared with 0 instead of -1
(`Encoding.cpp` 98, 25).

## Plan

Done: the modules above, in the order event, monitor, producer and consumer,
IOCP, leak detector, smart pointer, registry, time and date, path, thread-local
storage, Java environments, registry values, text; the proofs of all of them.

Next: what a walk that is disturbed still finds (the places that stay); the rounding of
`TimeSpan::FromDays` and its kin; a socket count for `IOCP`; a second process that changes keys while `DeleteSubKeyTree` runs.
