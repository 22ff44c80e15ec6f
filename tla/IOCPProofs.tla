------------------------------ MODULE IOCPProofs ------------------------------
(***************************************************************************)
(* Theorems about IOCP, for any number of worker threads, connections,     *)
(* sends and failures.  None of the invariants the runs check is inductive *)
(* alone.  They take where a worker stands for each kind of completion     *)
(* (Locations); that a connection not bound yet has nothing, and that only *)
(* such a connection is being accepted (Unbound); and that the right to    *)
(* receive for a connection is in one place at a time: its accept packet,  *)
(* the handler of it up to the first receive, a pending receive, or the    *)
(* packet or the handler of one that is done (OneReceive).                 *)
(***************************************************************************)
EXTENDS IOCP, FiniteSetTheorems, SequenceTheorems, WellFoundedInduction, TLAPS

Packets == [kind : packetKinds, who : Owners]
sending == {"send.lookup", "send.post"}
binding == {"completed", "accept.bind"}
opening == binding \cup {"accept.recv"}

Bit(b) == IF b THEN 1 ELSE 0

CurKinds == packetKinds \cup {"none", "absent", "null", "ctx"}
ThreadTypes == /\ pc \in [Threads -> startLocations \cup workerLocations]
               /\ cur \in [Threads -> [kind : CurKinds, who : Owners]]
               /\ back \in [Threads -> {"none", "accept.remove", "recv.remove", "stopped", "gone"}]
PortTypes == /\ port \in Seq(Packets)
             /\ \A i \in 1..Len(port) : /\ port[i].kind = "exit" => port[i].who = Listen
                                        /\ port[i].kind \notin {"exit", "fail"} => port[i].who \in Clients
KernelTypes == /\ server \in Servers /\ wild \in BOOLEAN
               /\ accepts \in Nat /\ recvs \subseteq Clients /\ sends \in [Clients -> 0..MaxSends]
               /\ slot \in 0..m_nCountOfThreads /\ failures \in 0..MaxFailures
ContextTypes == /\ ctx \in [Clients -> {"none", "live", "freed"}]
                /\ map \in [Clients -> {"absent", "null", "ctx"}]
                /\ ios \in [Owners -> Int] /\ failed \in [Owners -> Nat]
                /\ told \in [Clients -> SUBSET {"accepted", "lost", "dropped", "removed"}]
Types == ThreadTypes /\ PortTypes /\ KernelTypes /\ ContextTypes

\* Where a worker stands for the completion it handles.
LocationsOf(w) ==
    /\ cur[w].kind \in {"none", "accept", "data", "close", "sent", "unsent"}
    /\ cur[w].kind = "none" => pc[w] \in {"none", "dequeue", "exited"}
    /\ cur[w].kind # "none" => cur[w].who \in Clients
    /\ cur[w].kind = "accept" =>
          \/ pc[w] \in opening \cup {"accept.insert", "accept.callback", "accept.remove", "accept.post"}
          \/ pc[w] \in sending /\ back[w] = "accept.remove"
    /\ cur[w].kind = "data" =>
          \/ pc[w] \in {"completed", "recv.callback", "recv.remove", "recv.post"}
          \/ pc[w] \in sending /\ back[w] = "recv.remove"
    /\ cur[w].kind \in {"close", "unsent"} => pc[w] \in {"completed", "lost.erase", "lost.delete"}
    /\ cur[w].kind = "sent" => pc[w] \in {"completed", "sent.remove"}
AppLocations ==
    /\ pc[App] \in startLocations
    /\ pc[App] = "start" => \A w \in Workers : pc[w] = "none"
    /\ pc[App] \in {"remove.delete", "shutdown.delete", "shutdown.null"} => Client(App) \in Clients
    /\ pc[App] \in {"shutdown.next", "shutdown.delete", "shutdown.null", "shutdown.exits"} =>
          back[App] \in {"stopped", "gone"}
Locations == AppLocations /\ \A w \in Workers : LocationsOf(w)

\* A worker that accepts the connection, up to its binding.
Binds(w, c) == cur[w] = Packet("accept", c) /\ pc[w] \in binding
Unbound ==
    \A c \in Clients :
       /\ ctx[c] = "none" =>
             /\ c \notin recvs /\ sends[c] = 0 /\ map[c] = "absent" /\ told[c] = {} /\ failed[c] = 0
             /\ Queued({"data", "close", "sent", "unsent", "fail"}, c) = 0
             /\ \A w \in Workers : cur[w].who = c => Binds(w, c)
       /\ ctx[c] # "none" =>
             /\ Queued({"accept"}, c) = 0
             /\ \A w \in Workers : ~Binds(w, c)

\* The workers that have the right to receive for a connection.
Receiving(c) == {w \in Workers : /\ cur[w].who = c
                                 /\ \/ cur[w].kind \in {"data", "close"}
                                    \/ cur[w].kind = "accept" /\ pc[w] \in opening}
OneReceive ==
    \A c \in Clients :
       Bit(c \in recvs) + Queued({"accept", "data", "close"}, c)
          + Cardinality(Receiving(c)) <= 1

OneAccept == \A v, w \in Workers : cur[v].kind = "accept" /\ cur[v] = cur[w] => v = w

\* After the loss that a receive told of, only the handler of it has the right to
\* receive; and a loss is told before its handler goes on.
Loss(w) == IF cur[w].kind = "close" THEN "lost" ELSE "dropped"
Lost == /\ \A c \in Clients : "lost" \in told[c] =>
              /\ c \notin recvs
              /\ Queued({"accept", "data", "close"}, c) = 0
              /\ \A w \in Receiving(c) : pc[w] \in {"lost.erase", "lost.delete"}
        /\ \A w \in Workers : pc[w] \in {"lost.erase", "lost.delete"} =>
              Loss(w) \in told[Client(w)]

\* Until OnAccepted is called the application has not been told, and when it is
\* called the connection is registered.
Announced ==
    \A w \in Workers : cur[w].kind = "accept" =>
       /\ pc[w] \in opening \cup {"accept.insert", "accept.callback"} => "accepted" \notin told[Client(w)]
       /\ pc[w] = "accept.callback" /\ ~Ended(Client(w)) => map[Client(w)] = "ctx"

\* A context that is freed, and neither by the application's thread nor by the
\* handler of a send of no bytes, has no receive that could still reach it.
FreedUnreached ==
    /\ \A c \in Clients : ctx[c] = "freed" => Removed(c) \/
          /\ Queued({"data", "close"}, c) = 0
          /\ Handling({"data", "close"}, c) = {}
    /\ pc[App] = "remove.delete" => "removed" \in told[Client(App)]

\* A failed accept is a failure.
FailuresCounted == failures = 0 => Queued({"fail"}, Listen) = 0

\* A connection not bound yet has no I/O contexts, and one that was has no debts.
NoContexts == \A c \in Clients :
                 /\ ctx[c] = "none" => ios[c] = 0
                 /\ ctx[c] = "freed" => ios[c] >= 0

\* The equation of IOAccounting.
Balanced == \A o \in Owners : (o = Listen \/ ctx[o] = "live") =>
               ios[o] = InFlight(o) + InPort(o) + Cardinality(Holding(o)) + failed[o]

IInv == /\ Types /\ Locations /\ Unbound /\ OneReceive /\ OneAccept
        /\ Lost /\ Announced /\ Registered /\ FreedUnreached
        /\ FailuresCounted /\ AcceptsKept /\ NoContexts /\ Balanced
-----------------------------------------------------------------------------
\* Counting the places of a sequence whose elements are in a set.
PlacesOf(s, S) == {i \in 1..Len(s) : s[i] \in S}

LEMMA PlacesFinite ==
  ASSUME NEW T, NEW s \in Seq(T), NEW S
  PROVE  /\ IsFiniteSet(PlacesOf(s, S)) /\ Cardinality(PlacesOf(s, S)) \in Nat
         /\ Cardinality(PlacesOf(s, S)) = 0 <=> \A i \in 1..Len(s) : s[i] \notin S
  <1>1. Len(s) \in Nat
    BY LenProperties
  <1>2. IsFiniteSet(1..Len(s))
    BY <1>1, FS_Interval
  <1>3. PlacesOf(s, S) \subseteq 1..Len(s)
    BY DEF PlacesOf
  <1>4. IsFiniteSet(PlacesOf(s, S))
    BY <1>2, <1>3, FS_Subset
  <1>5. PlacesOf(s, S) = {} <=> \A i \in 1..Len(s) : s[i] \notin S
    BY DEF PlacesOf
  <1> QED  BY <1>4, <1>5, FS_EmptySet, FS_CardinalityType

LEMMA PlacesAppend ==
  ASSUME NEW T, NEW s \in Seq(T), NEW e \in T, NEW S
  PROVE  Cardinality(PlacesOf(Append(s, e), S)) = Cardinality(PlacesOf(s, S)) + Bit(e \in S)
  <1>1. /\ Len(s) \in Nat /\ Len(Append(s, e)) = Len(s) + 1
        /\ \A i \in 1..Len(s) : Append(s, e)[i] = s[i]
        /\ Append(s, e)[Len(s) + 1] = e
    BY AppendProperties, LenProperties
  <1>2. ASSUME NEW i
        PROVE  i \in PlacesOf(Append(s, e), S) <=>
                  i \in PlacesOf(s, S) \/ (i = Len(s) + 1 /\ e \in S)
    BY <1>1 DEF PlacesOf
  <1>3. Len(s) + 1 \notin PlacesOf(s, S) /\ IsFiniteSet(PlacesOf(s, S))
    BY <1>1, PlacesFinite DEF PlacesOf
  <1>4. CASE e \in S
    <2>1. PlacesOf(Append(s, e), S) = PlacesOf(s, S) \cup {Len(s) + 1}
      BY <1>2, <1>4
    <2> QED  BY <1>3, <1>4, <2>1, FS_AddElement DEF Bit
  <1>5. CASE e \notin S
    <2>1. PlacesOf(Append(s, e), S) = PlacesOf(s, S)
      BY <1>2, <1>5
    <2>2. Cardinality(PlacesOf(s, S)) \in Nat
      BY PlacesFinite
    <2> QED  BY <1>5, <2>1, <2>2 DEF Bit
  <1> QED  BY <1>4, <1>5

LEMMA PlacesTail ==
  ASSUME NEW T, NEW s \in Seq(T), s # <<>>, NEW S
  PROVE  Cardinality(PlacesOf(s, S)) = Cardinality(PlacesOf(Tail(s), S)) + Bit(Head(s) \in S)
  <1>1. /\ Head(s) = s[1] /\ Tail(s) \in Seq(T) /\ Len(Tail(s)) = Len(s) - 1
        /\ \A i \in 1..Len(Tail(s)) : Tail(s)[i] = s[i + 1]
        /\ Len(s) \in Nat /\ Len(s) >= 1
    BY HeadTailProperties, LenProperties, EmptySeq
  <1> DEFINE P == PlacesOf(s, S) \ {1}
             f == [i \in PlacesOf(Tail(s), S) |-> i + 1]
  <1>2. f \in Bijection(PlacesOf(Tail(s), S), P)
    <2>1. ASSUME NEW i \in PlacesOf(Tail(s), S) PROVE i \in Nat /\ i + 1 \in P
      <3>1. i \in 1..Len(s) - 1 /\ s[i + 1] \in S
        BY <1>1 DEF PlacesOf
      <3>2. i \in Nat /\ i + 1 \in 1..Len(s) /\ i + 1 # 1
        BY <1>1, <3>1
      <3> QED  BY <3>1, <3>2 DEF PlacesOf
    <2>2. ASSUME NEW j \in P PROVE \E i \in PlacesOf(Tail(s), S) : i + 1 = j
      <3>1. j \in 1..Len(s) /\ j # 1 /\ s[j] \in S
        BY DEF PlacesOf
      <3>2. j - 1 \in 1..Len(s) - 1 /\ (j - 1) + 1 = j
        BY <1>1, <3>1
      <3>3. Tail(s)[j - 1] = s[j]
        BY <1>1, <3>2
      <3>4. j - 1 \in PlacesOf(Tail(s), S)
        BY <1>1, <3>1, <3>2, <3>3 DEF PlacesOf
      <3> QED  BY <3>2, <3>4
    <2>3. f \in [PlacesOf(Tail(s), S) -> P]
      BY <2>1
    <2>4. \A i, j \in PlacesOf(Tail(s), S) : f[i] = f[j] => i = j
      BY <2>1
    <2>5. \A j \in P : \E i \in PlacesOf(Tail(s), S) : f[i] = j
      BY <2>2
    <2> HIDE DEF P, f
    <2> QED  BY <2>3, <2>4, <2>5 DEF Bijection, Injection, Surjection, IsInjective
  <1>3. IsFiniteSet(PlacesOf(s, S)) /\ IsFiniteSet(PlacesOf(Tail(s), S))
    BY <1>1, PlacesFinite
  <1>4. Cardinality(P) = Cardinality(PlacesOf(Tail(s), S))
    BY <1>2, <1>3, FS_Bijection DEF ExistsBijection
  <1>5. 1 \in PlacesOf(s, S) <=> Head(s) \in S
    BY <1>1 DEF PlacesOf
  <1>6. Cardinality(PlacesOf(s, S)) \in Nat
    BY PlacesFinite
  <1>7. Cardinality(P) = IF 1 \in PlacesOf(s, S) THEN Cardinality(PlacesOf(s, S)) - 1
                         ELSE Cardinality(PlacesOf(s, S))
    BY <1>3, FS_RemoveElement
  <1> QED  BY <1>4, <1>5, <1>6, <1>7 DEF Bit

LEMMA PlacesConcat ==
  ASSUME NEW T, NEW s \in Seq(T), NEW t \in Seq(T), NEW S, \A i \in 1..Len(t) : t[i] \notin S
  PROVE  PlacesOf(s \o t, S) = PlacesOf(s, S)
  <1>1. /\ Len(s) \in Nat /\ Len(t) \in Nat /\ Len(s \o t) = Len(s) + Len(t)
        /\ \A i \in 1..Len(s) + Len(t) : (s \o t)[i] = IF i <= Len(s) THEN s[i] ELSE t[i - Len(s)]
    BY ConcatProperties, LenProperties
  <1>2. ASSUME NEW i \in 1..Len(s) + Len(t), i > Len(s) PROVE (s \o t)[i] \notin S
    <2>1. i - Len(s) \in 1..Len(t)
      BY <1>1, <1>2
    <2> QED  BY <1>1, <1>2, <2>1
  <1>3. ASSUME NEW i PROVE i \in PlacesOf(s \o t, S) <=> i \in PlacesOf(s, S)
    BY <1>1, <1>2 DEF PlacesOf
  <1> QED  BY <1>3

\* A finite set in which the membership of one element may change.
LEMMA OneChanges ==
  ASSUME NEW A, NEW B, NEW w, IsFiniteSet(A), A \ {w} = B \ {w}
  PROVE  /\ IsFiniteSet(B) /\ Cardinality(A) \in Nat /\ Cardinality(B) \in Nat
         /\ Cardinality(B) + Bit(w \in A) = Cardinality(A) + Bit(w \in B)
  <1> DEFINE C == A \ {w}
  <1>1. IsFiniteSet(C) /\ Cardinality(A) \in Nat
    BY FS_RemoveElement, FS_CardinalityType
  <1>2. A = IF w \in A THEN C \cup {w} ELSE C
    OBVIOUS
  <1>3. B = IF w \in B THEN C \cup {w} ELSE C
    OBVIOUS
  <1>4. w \notin C
    OBVIOUS
  <1> HIDE DEF C
  <1>5. /\ IsFiniteSet(C \cup {w}) /\ Cardinality(C \cup {w}) = Cardinality(C) + 1
        /\ Cardinality(C) \in Nat
    BY <1>1, <1>4, FS_AddElement, FS_CardinalityType
  <1>6. Cardinality(A) = Cardinality(C) + Bit(w \in A)
    BY <1>2, <1>5 DEF Bit
  <1>7. IsFiniteSet(B) /\ Cardinality(B) = Cardinality(C) + Bit(w \in B)
    <2>1. CASE w \in B
      <3>1. B = C \cup {w}
        BY <1>3, <2>1
      <3> QED  BY <1>5, <2>1, <3>1 DEF Bit
    <2>2. CASE w \notin B
      <3>1. B = C
        BY <1>3, <2>2
      <3> QED  BY <1>1, <1>5, <2>2, <3>1 DEF Bit
    <2> QED  BY <2>1, <2>2
  <1>8. Bit(w \in A) \in {0, 1} /\ Bit(w \in B) \in {0, 1}
    BY DEF Bit
  <1> QED  BY <1>1, <1>5, <1>6, <1>7, <1>8
-----------------------------------------------------------------------------
\* The packets of the port, counted.
With(kinds, who) == {p \in Packets : p.kind \in kinds /\ p.who = who}

LEMMA QueuedIs ==
  ASSUME port \in Seq(Packets), NEW kinds, NEW who
  PROVE  /\ Queued(kinds, who) = Cardinality(PlacesOf(port, With(kinds, who)))
         /\ Queued(kinds, who) \in Nat
         /\ Queued(kinds, who) = 0 <=>
               \A i \in 1..Len(port) : ~(port[i].kind \in kinds /\ port[i].who = who)
  <1>1. \A i \in 1..Len(port) : port[i] \in Packets
    BY ElementOfSeq
  <1>2. {i \in 1..Len(port) : port[i].kind \in kinds /\ port[i].who = who}
           = PlacesOf(port, With(kinds, who))
    BY <1>1 DEF PlacesOf, With
  <1>3. Queued(kinds, who) = Cardinality(PlacesOf(port, With(kinds, who)))
    BY <1>2 DEF Queued
  <1> QED  BY <1>1, <1>3, PlacesFinite DEF With

LEMMA QueuedAppend ==
  ASSUME port \in Seq(Packets), NEW p \in Packets, port' = Append(port, p), NEW kinds, NEW who
  PROVE  Queued(kinds, who)' = Queued(kinds, who) + Bit(p.kind \in kinds /\ p.who = who)
  <1>1. port' \in Seq(Packets)
    BY AppendProperties
  <1>2. Queued(kinds, who)' = Cardinality(PlacesOf(port', With(kinds, who)))
    <2>1. \A i \in 1..Len(port') : port'[i] \in Packets
      BY <1>1, ElementOfSeq
    <2>2. {i \in 1..Len(port') : port'[i].kind \in kinds /\ port'[i].who = who}
             = PlacesOf(port', With(kinds, who))
      BY <2>1 DEF PlacesOf, With
    <2> QED  BY <2>2 DEF Queued
  <1>3. p \in With(kinds, who) <=> p.kind \in kinds /\ p.who = who
    BY DEF With
  <1> QED  BY <1>2, <1>3, QueuedIs, PlacesAppend DEF Bit

LEMMA QueuedTail ==
  ASSUME port \in Seq(Packets), port # <<>>, port' = Tail(port), NEW kinds, NEW who
  PROVE  Queued(kinds, who) = Queued(kinds, who)' + Bit(Head(port).kind \in kinds /\ Head(port).who = who)
  <1>1. port' \in Seq(Packets) /\ Head(port) \in Packets
    BY HeadTailProperties
  <1>2. Queued(kinds, who)' = Cardinality(PlacesOf(port', With(kinds, who)))
    <2>1. \A i \in 1..Len(port') : port'[i] \in Packets
      BY <1>1, ElementOfSeq
    <2>2. {i \in 1..Len(port') : port'[i].kind \in kinds /\ port'[i].who = who}
             = PlacesOf(port', With(kinds, who))
      BY <2>1 DEF PlacesOf, With
    <2> QED  BY <2>2 DEF Queued
  <1>3. Head(port) \in With(kinds, who) <=> Head(port).kind \in kinds /\ Head(port).who = who
    BY <1>1 DEF With
  <1> QED  BY <1>2, <1>3, QueuedIs, PlacesTail DEF Bit
-----------------------------------------------------------------------------
LEMMA Constants == /\ Threads = Workers \cup {App} /\ App \notin Workers
                   /\ Owners = Clients \cup {Listen} /\ Listen \notin Clients
                   /\ IsFiniteSet(Workers) /\ Clients \subseteq Nat
                   /\ m_nCountOfThreads \in Nat /\ MaxSends \in Nat /\ MaxFailures \in Nat
  BY IOCPAssumption, FS_CardinalityType DEF Threads, Owners, m_nCountOfThreads

LEMMA Bounds == MaxSends \in Nat /\ MaxFailures \in Nat /\ m_nCountOfThreads \in Nat
  BY Constants

\* The packets of the port after one is added at the end, or taken off.
LEMMA PortAppend ==
  ASSUME port \in Seq(Packets), NEW p \in Packets, port' = Append(port, p)
  PROVE  /\ port' \in Seq(Packets)
         /\ \A i \in 1..Len(port') : port'[i] = p \/ \E j \in 1..Len(port) : port'[i] = port[j]
  <1>1. /\ Len(port) \in Nat /\ Len(port') = Len(port) + 1 /\ port' \in Seq(Packets)
        /\ \A i \in 1..Len(port) : port'[i] = port[i]
        /\ port'[Len(port) + 1] = p
    BY AppendProperties, LenProperties
  <1> QED  BY <1>1

LEMMA PortTail ==
  ASSUME port \in Seq(Packets), port # <<>>, port' = Tail(port)
  PROVE  /\ port' \in Seq(Packets) /\ Head(port) \in Packets
         /\ \E j \in 1..Len(port) : Head(port) = port[j]
         /\ \A i \in 1..Len(port') : \E j \in 1..Len(port) : port'[i] = port[j]
  <1>1. /\ Len(port) \in Nat /\ Len(port) >= 1 /\ Len(port') = Len(port) - 1 /\ port' \in Seq(Packets)
        /\ Head(port) = port[1] /\ Head(port) \in Packets
        /\ \A i \in 1..Len(port') : port'[i] = port[i + 1]
    BY HeadTailProperties, LenProperties, EmptySeq
  <1>2. ASSUME NEW i \in 1..Len(port') PROVE i + 1 \in 1..Len(port)
    BY <1>1
  <1> QED  BY <1>1, <1>2

\* Shutdown's exit packets are no packets of an owner's operations.
LEMMA PortExits ==
  ASSUME port \in Seq(Packets), port' = port \o ExitPackets
  PROVE  /\ port' \in Seq(Packets)
         /\ \A i \in 1..Len(port') : port'[i] = Packet("exit", Listen)
                                       \/ \E j \in 1..Len(port) : port'[i] = port[j]
         /\ \A S : Packet("exit", Listen) \notin S => PlacesOf(port', S) = PlacesOf(port, S)
  <1>1. /\ Packet("exit", Listen) \in Packets
        /\ ExitPackets \in Seq(Packets)
        /\ Len(ExitPackets) = m_nCountOfThreads
        /\ \A i \in 1..Len(ExitPackets) : ExitPackets[i] = Packet("exit", Listen)
    BY Constants DEF ExitPackets, Packets, Packet, packetKinds
  <1>2. /\ Len(port) \in Nat /\ Len(ExitPackets) \in Nat
        /\ port' \in Seq(Packets) /\ Len(port') = Len(port) + Len(ExitPackets)
        /\ \A i \in 1..Len(port) + Len(ExitPackets) :
              port'[i] = IF i <= Len(port) THEN port[i] ELSE ExitPackets[i - Len(port)]
    BY <1>1, ConcatProperties, LenProperties
  <1>3. ASSUME NEW i \in 1..Len(port')
        PROVE  port'[i] = Packet("exit", Listen) \/ \E j \in 1..Len(port) : port'[i] = port[j]
    <2>1. CASE i <= Len(port)
      <3>1. i \in 1..Len(port)
        BY <1>2, <2>1
      <3> QED  BY <1>2, <2>1, <3>1
    <2>2. CASE i > Len(port)
      <3>1. i - Len(port) \in 1..Len(ExitPackets)
        BY <1>2, <2>2
      <3> QED  BY <1>1, <1>2, <2>2, <3>1
    <2> QED  BY <1>2, <2>1, <2>2
  <1>4. ASSUME NEW S, Packet("exit", Listen) \notin S PROVE PlacesOf(port', S) = PlacesOf(port, S)
    BY <1>1, <1>4, PlacesConcat
  <1> QED  BY <1>2, <1>3, <1>4
-----------------------------------------------------------------------------
\* A step of a worker moves no other thread.
LEMMA WorkerMoves ==
  ASSUME ThreadTypes, NEW w \in Workers, Worker(w)
  PROVE  /\ \A v \in Threads \ {w} : pc'[v] = pc[v] /\ cur'[v] = cur[v] /\ back'[v] = back[v]
         /\ DOMAIN pc' = Threads /\ DOMAIN cur' = Threads /\ DOMAIN back' = Threads
         /\ pc' = [pc EXCEPT ![w] = pc'[w]]
         /\ cur' = [cur EXCEPT ![w] = cur'[w]]
         /\ back' = [back EXCEPT ![w] = back'[w]]
         /\ UNCHANGED <<slot, wild>> /\ Alive
  <1>0. w \in Threads
    BY Constants
  <1>1. \/ \E x : pc' = [pc EXCEPT ![w] = x]
        \/ UNCHANGED pc
    BY DEF Goto, Done, Dequeue, Dispatch, SentRemove, AcceptBind, AcceptRecv, AcceptInsert,
           AcceptCallback, AcceptRemove, AcceptPost, RecvCallback, RecvRemove, RecvPost, LostErase,
           LostDelete, Send, SendLookup, SendPost, Worker
  <1>2. \/ \E x : cur' = [cur EXCEPT ![w] = x]
        \/ UNCHANGED cur
    BY DEF Goto, Done, Dequeue, Dispatch, SentRemove, AcceptBind, AcceptRecv, AcceptInsert,
           AcceptCallback, AcceptRemove, AcceptPost, RecvCallback, RecvRemove, RecvPost, LostErase,
           LostDelete, Send, SendLookup, SendPost, Worker
  <1>3. \/ \E x : back' = [back EXCEPT ![w] = x]
        \/ UNCHANGED back
    BY DEF Goto, Done, Dequeue, Dispatch, SentRemove, AcceptBind, AcceptRecv, AcceptInsert,
           AcceptCallback, AcceptRemove, AcceptPost, RecvCallback, RecvRemove, RecvPost, LostErase,
           LostDelete, Send, SendLookup, SendPost, Worker
  <1>4. UNCHANGED <<slot, wild>> /\ Alive
    BY DEF At, Dequeue, Dispatch, SentRemove, AcceptBind, AcceptRecv, AcceptInsert,
           AcceptCallback, AcceptRemove, AcceptPost, RecvCallback, RecvRemove, RecvPost, LostErase,
           LostDelete, Send, SendLookup, SendPost, Worker
  <1>5. /\ pc' = [pc EXCEPT ![w] = pc'[w]] /\ DOMAIN pc' = Threads
        /\ \A v \in Threads \ {w} : pc'[v] = pc[v]
    BY <1>0, <1>1 DEF ThreadTypes
  <1>6. /\ cur' = [cur EXCEPT ![w] = cur'[w]] /\ DOMAIN cur' = Threads
        /\ \A v \in Threads \ {w} : cur'[v] = cur[v]
    BY <1>0, <1>2 DEF ThreadTypes
  <1>7. /\ back' = [back EXCEPT ![w] = back'[w]] /\ DOMAIN back' = Threads
        /\ \A v \in Threads \ {w} : back'[v] = back[v]
    BY <1>0, <1>3 DEF ThreadTypes
  <1> QED  BY <1>4, <1>5, <1>6, <1>7

\* What a worker takes off the port, and where it goes.
LEMMA DequeueMoves ==
  ASSUME ThreadTypes, PortTypes, NEW w \in Workers, LocationsOf(w), Dequeue(w)
  PROVE  /\ pc[w] = "dequeue" /\ cur[w].kind = "none"
         /\ port # <<>> /\ port' = Tail(port) /\ Head(port) \in Packets
         /\ Head(port).kind \notin {"exit", "fail"} => Head(port).who \in Clients
         /\ \/ Head(port).kind = "exit" /\ pc'[w] = "exited" /\ UNCHANGED <<cur, failed>>
            \/ /\ Head(port).kind = "fail" /\ UNCHANGED <<cur, pc>>
               /\ failed' = [failed EXCEPT ![Head(port).who] = @ + 1]
            \/ /\ Head(port).kind \in {"accept", "data", "close", "sent", "unsent"}
               /\ pc'[w] = "completed" /\ cur'[w] = Head(port) /\ UNCHANGED failed
         /\ UNCHANGED <<ctx, map, ios, kernelVars, back, slot, failures, wild, told>>
  <1> USE Constants DEF Dequeue, At, Goto
  <1>1. port # <<>> /\ port' = Tail(port) /\ pc[w] = "dequeue"
    OBVIOUS
  <1>2. /\ Head(port) \in Packets
        /\ Head(port).kind \notin {"exit", "fail"} => Head(port).who \in Clients
    BY <1>1, PortTail DEF PortTypes
  <1>3. cur[w].kind = "none"
    BY <1>1 DEF LocationsOf, opening, binding, sending
  <1>4. Head(port).kind \in {"accept", "data", "close", "sent", "unsent", "fail", "exit"}
    BY <1>2 DEF Packets, packetKinds
  <1>5. CASE Head(port).kind = "exit"
    BY <1>1, <1>2, <1>3, <1>5 DEF ThreadTypes
  <1>6. CASE Head(port).kind = "fail"
    BY <1>1, <1>2, <1>3, <1>6
  <1>7. CASE Head(port).kind \in {"accept", "data", "close", "sent", "unsent"}
    <2>1. Goto(w, "completed") /\ cur' = [cur EXCEPT ![w] = Head(port)] /\ UNCHANGED failed
      BY <1>7
    <2> QED  BY <1>1, <1>2, <1>3, <1>7, <2>1 DEF ThreadTypes
  <1> QED  BY <1>4, <1>5, <1>6, <1>7

\* A worker that is not between two completions handles one, for a connection.
LEMMA Handles ==
  ASSUME NEW w \in Workers, LocationsOf(w), pc[w] \notin {"none", "dequeue", "exited"}
  PROVE  cur[w].kind \in {"accept", "data", "close", "sent", "unsent"} /\ Client(w) \in Clients
  BY DEF LocationsOf, Client
-----------------------------------------------------------------------------
\* Where the step of a worker leads it.
LEMMA WorkerLocations ==
  ASSUME ThreadTypes, PortTypes, NEW w \in Workers, LocationsOf(w), Worker(w)
  PROVE  LocationsOf(w)' /\ cur'[w] \in [kind : CurKinds, who : Owners]
  <1> USE Constants DEF ThreadTypes
  <1>0. NoPacket \in [kind : CurKinds, who : Owners] /\ NoPacket.kind = "none"
    BY DEF NoPacket, Packet, CurKinds
  <1>1. CASE Dequeue(w)
    <2>1. Packets \subseteq [kind : CurKinds, who : Owners]
      BY DEF Packets, CurKinds
    <2>2. CASE UNCHANGED cur /\ cur[w].kind = "none" /\ pc'[w] \in {"dequeue", "exited"}
      BY <2>2 DEF LocationsOf
    <2>3. CASE cur'[w] = Head(port) /\ pc'[w] = "completed" /\ Head(port).kind \in {"accept", "data", "close", "sent", "unsent"}
      BY <1>1, <2>1, <2>3, DequeueMoves DEF LocationsOf, opening, binding
    <2> QED  BY <1>1, <2>2, <2>3, DequeueMoves
  <1>2. CASE Dispatch(w)
    <2>1. /\ pc[w] = "completed" /\ UNCHANGED <<cur, back>>
          /\ pc'[w] = Handler(cur[w].kind)
      BY <1>2 DEF Dispatch, At, Goto
    <2>2. cur[w].kind \in {"accept", "data", "close", "sent", "unsent"}
      BY <2>1, Handles
    <2> QED  BY <2>1, <2>2 DEF Handler, LocationsOf, opening, binding
  <1>3. ASSUME Done(w) PROVE LocationsOf(w)' /\ cur'[w] \in [kind : CurKinds, who : Owners]
    BY <1>0, <1>3 DEF Done, LocationsOf
  <1>4. CASE UNCHANGED <<cur, back>>
    <2>1. CASE AcceptBind(w) \/ AcceptRecv(w) \/ AcceptInsert(w) \/ AcceptCallback(w)
      BY <1>3, <1>4, <2>1 DEF AcceptBind, AcceptRecv, AcceptInsert, AcceptCallback, At, Goto,
                              LocationsOf, opening, binding, sending
    <2>2. CASE AcceptRemove(w) \/ RecvCallback(w) \/ RecvRemove(w) \/ LostErase(w)
      BY <1>4, <2>2 DEF AcceptRemove, RecvCallback, RecvRemove, LostErase, At, Goto,
                        LocationsOf, opening, binding, sending
    <2>3. CASE SendLookup(w) \/ SendPost(w)
      <3>1. /\ pc[w] \in sending /\ pc'[w] \in {"send.post", back[w]}
        BY <2>3 DEF SendLookup, SendPost, At, Goto, sending
      <3> QED  BY <1>4, <3>1 DEF LocationsOf, opening, binding, sending
    <2>4. CASE SentRemove(w) \/ AcceptPost(w) \/ RecvPost(w) \/ LostDelete(w)
      BY <1>3, <2>4 DEF SentRemove, AcceptPost, RecvPost, LostDelete
    <2> QED  BY <1>1, <1>2, <2>1, <2>2, <2>3, <2>4 DEF Worker, Send
  <1>5. CASE ~UNCHANGED <<cur, back>>
    <2>1. CASE AcceptBind(w) \/ AcceptRecv(w) \/ SentRemove(w) \/ AcceptPost(w) \/ RecvPost(w) \/ LostDelete(w)
      BY <1>3, <1>5, <2>1 DEF SentRemove, AcceptPost, RecvPost, LostDelete, AcceptBind, AcceptRecv
    <2>2. CASE AcceptCallback(w)
      BY <1>5, <2>2 DEF AcceptCallback, At, Goto, LocationsOf, opening, binding, sending
    <2>3. CASE RecvCallback(w)
      BY <1>5, <2>3 DEF RecvCallback, At, Goto, LocationsOf, opening, binding, sending
    <2> QED  BY <1>1, <1>2, <1>5, <2>1, <2>2, <2>3
             DEF Worker, AcceptInsert, AcceptRemove, RecvRemove, LostErase, Send, SendLookup, SendPost
  <1> QED  BY <1>4, <1>5

LEMMA WorkerThreads ==
  ASSUME ThreadTypes, PortTypes, Locations, NEW w \in Workers, Worker(w)
  PROVE  ThreadTypes' /\ Locations'
  <1> USE Constants
  <1>1. LocationsOf(w)' /\ cur'[w] \in [kind : CurKinds, who : Owners]
    BY WorkerLocations DEF Locations
  <1>2. /\ \A v \in Threads \ {w} : pc'[v] = pc[v] /\ cur'[v] = cur[v] /\ back'[v] = back[v]
        /\ pc' = [pc EXCEPT ![w] = pc'[w]]
        /\ cur' = [cur EXCEPT ![w] = cur'[w]]
        /\ back' = [back EXCEPT ![w] = back'[w]]
    BY WorkerMoves
  <1>3. \A v \in Workers \ {w} : LocationsOf(v)'
    BY <1>2 DEF Locations, LocationsOf
  <1>4. pc[w] # "none"
    BY DEF Worker, Dequeue, Dispatch, SentRemove, AcceptBind, AcceptRecv, AcceptInsert,
           AcceptCallback, AcceptRemove, AcceptPost, RecvCallback, RecvRemove, RecvPost, LostErase,
           LostDelete, Send, SendLookup, SendPost, At
  <1>5. pc'[App] = pc[App] /\ cur'[App] = cur[App] /\ back'[App] = back[App]
    BY <1>2
  <1>6. AppLocations'
    BY <1>4, <1>5 DEF Locations, AppLocations, Client
  <1>7. pc'[w] \in startLocations \cup workerLocations
    BY <1>1 DEF LocationsOf, workerLocations, opening, binding, sending
  <1>8. back'[w] \in {"none", "accept.remove", "recv.remove", "stopped", "gone"}
    <2>1. \/ UNCHANGED back
          \/ back' = [back EXCEPT ![w] = "accept.remove"]
          \/ back' = [back EXCEPT ![w] = "recv.remove"]
      BY DEF Worker, Dequeue, Dispatch, SentRemove, AcceptBind, AcceptRecv, AcceptInsert,
             AcceptCallback, AcceptRemove, AcceptPost, RecvCallback, RecvRemove, RecvPost, LostErase,
             LostDelete, Send, SendLookup, SendPost
    <2> QED  BY <2>1 DEF ThreadTypes
  <1>9. ThreadTypes'
    BY <1>1, <1>2, <1>7, <1>8 DEF ThreadTypes
  <1> QED  BY <1>1, <1>3, <1>6, <1>9 DEF Locations

\* The steps of the application leave the workers alone, but for the first.
LEMMA AppMoves ==
  ASSUME ThreadTypes, Application, ~StartThreads
  PROVE  \A w \in Workers : pc'[w] = pc[w] /\ cur'[w] = cur[w] /\ back'[w] = back[w]
  <1> USE Constants DEF ThreadTypes
  <1>1. \/ UNCHANGED pc
        \/ \E x : pc' = [pc EXCEPT ![App] = x]
    BY DEF Application, StartAccept, RemoveTake, ShutdownCall, Finish, RemoveDelete, ShutdownNext,
           ShutdownDelete, ShutdownNull, ShutdownExits, Goto
  <1>2. \/ UNCHANGED cur
        \/ \E x : cur' = [cur EXCEPT ![App] = x]
    BY DEF Application, StartAccept, RemoveTake, ShutdownCall, Finish, RemoveDelete, ShutdownNext,
           ShutdownDelete, ShutdownNull, ShutdownExits, Goto
  <1>3. \/ UNCHANGED back
        \/ \E x : back' = [back EXCEPT ![App] = x]
    BY DEF Application, StartAccept, RemoveTake, ShutdownCall, Finish, RemoveDelete, ShutdownNext,
           ShutdownDelete, ShutdownNull, ShutdownExits, Goto
  <1> QED  BY <1>1, <1>2, <1>3

\* The first step of the application creates the workers, or most of them.
LEMMA StartMoves ==
  ASSUME ThreadTypes, Locations, StartThreads
  PROVE  /\ pc[App] = "start" /\ pc'[App] \in {"start.accept", "running"}
         /\ \A w \in Workers : /\ pc[w] = "none" /\ cur[w].kind = "none"
                               /\ pc'[w] \in {"none", "dequeue"}
         /\ DOMAIN pc' = Threads
         /\ UNCHANGED <<cur, back, ctx, map, ios, kernelVars, port, slot, wild, ghostVars>>
  <1> USE Constants DEF ThreadTypes, StartThreads
  <1>1. pc[App] = "start" /\ \A w \in Workers : pc[w] = "none"
    BY DEF At, Locations, AppLocations
  <1>2. \A w \in Workers : cur[w].kind = "none"
    BY <1>1 DEF Locations, LocationsOf, opening, binding, sending
  <1>3. /\ pc'[App] \in {"start.accept", "running"} /\ DOMAIN pc' = Threads
        /\ \A w \in Workers : pc'[w] \in {"none", "dequeue"}
    <2>1. CASE Goto(App, "running")
      BY <1>1, <2>1 DEF Goto
    <2>2. ASSUME NEW lost \in SUBSET Workers,
                 pc' = [t \in Threads |-> IF t = App THEN "start.accept"
                                          ELSE IF t \in lost THEN "none" ELSE "dequeue"]
          PROVE  /\ pc'[App] \in {"start.accept", "running"} /\ DOMAIN pc' = Threads
                 /\ \A w \in Workers : pc'[w] \in {"none", "dequeue"}
      BY <2>2
    <2> QED  BY <2>1, <2>2
  <1> QED  BY <1>1, <1>2, <1>3

\* The loop of Shutdown goes on to a connection of the map.
LEMMA LeastIsThere ==
  ASSUME NEW S \in SUBSET Nat, S # {}
  PROVE  Min(S) \in S
  <1> DEFINE R == {ss \in Nat \X Nat : ss[1] < ss[2]}
  <1>1. IsWellFoundedOn(R, Nat)
    BY NatLessThanWellFounded DEF OpToRel
  <1>2. \A x, y \in S : <<y, x>> \in R <=> y < x
    OBVIOUS
  <1> HIDE DEF R
  <1>3. \E x \in S : \A y \in S : ~(<<y, x>> \in R)
    BY <1>1, WFMin
  <1>4. \E x \in S : \A y \in S : x =< y
    <2>1. PICK x \in S : \A y \in S : ~(<<y, x>> \in R)
      BY <1>3
    <2>2. ASSUME NEW y \in S PROVE x =< y
      <3>1. ~(y < x)
        BY <1>2, <2>1, Zenon
      <3> QED  BY <3>1
    <2> QED  BY <2>2
  <1> QED  BY <1>4 DEF Min

LEMMA NextMoves ==
  ASSUME ThreadTypes, ShutdownNext
  PROVE  \/ pc' = [pc EXCEPT ![App] = "shutdown.exits"] /\ UNCHANGED cur
         \/ /\ pc' = [pc EXCEPT ![App] = "shutdown.delete"]
            /\ \E c \in Clients : map[c] # "absent" /\ cur' = [cur EXCEPT ![App] = Packet(map[c], c)]
  <1> DEFINE later == {c \in Clients : map[c] # "absent" /\ (Client(App) = Listen \/ c > Client(App))}
  <1>1. \/ later = {} /\ Goto(App, "shutdown.exits") /\ UNCHANGED cur
        \/ /\ later # {} /\ Goto(App, "shutdown.delete")
           /\ cur' = [cur EXCEPT ![App] = Packet(map[Min(later)], Min(later))]
    BY DEF ShutdownNext
  <1>2. later # {} => Min(later) \in later
    BY LeastIsThere, Constants
  <1> QED  BY <1>1, <1>2 DEF Goto

LEMMA AppThreads ==
  ASSUME Types, Locations, Registered, Unbound, Application
  PROVE  ThreadTypes' /\ Locations'
  <1> USE Constants
  <1>1. CASE StartThreads
    <2>1. AppLocations'
      BY <1>1, StartMoves DEF Types, AppLocations, startLocations
    <2>2. \A w \in Workers : LocationsOf(w)'
      BY <1>1, StartMoves DEF Types, LocationsOf
    <2>3. pc' \in [Threads -> startLocations \cup workerLocations]
      BY <1>1, StartMoves DEF Types, startLocations, workerLocations, StartThreads, Goto, ThreadTypes
    <2> QED  BY <1>1, <2>1, <2>2, <2>3, StartMoves DEF Types, ThreadTypes, Locations
  <1>2. CASE ~StartThreads
    <2>1. \A w \in Workers : LocationsOf(w)'
      BY <1>2, AppMoves DEF Types, Locations, LocationsOf
    <2> SUFFICES ThreadTypes' /\ AppLocations'
      BY <2>1 DEF Locations
    <2> USE DEF Types, ThreadTypes, ContextTypes, Locations, AppLocations, Goto, At, Client, startLocations
    <2>2. CASE StartAccept
      BY <1>2, <2>2 DEF StartAccept
    <2>3. ASSUME NEW c \in Clients, RemoveTake(c) PROVE ThreadTypes' /\ AppLocations'
      BY <1>2, <2>3 DEF RemoveTake, Packet, CurKinds
    <2>4. CASE ShutdownCall
      BY <1>2, <2>4 DEF ShutdownCall, NoPacket, Packet, CurKinds
    <2>5. CASE RemoveDelete \/ ShutdownDelete
      BY <1>2, <2>5 DEF RemoveDelete, ShutdownDelete
    <2>6. CASE ShutdownNext
      <3>1. UNCHANGED back /\ pc[App] = "shutdown.next"
        BY <2>6 DEF ShutdownNext
      <3>2. CASE pc' = [pc EXCEPT ![App] = "shutdown.exits"] /\ UNCHANGED cur
        BY <3>1, <3>2
      <3>3. ASSUME NEW c \in Clients, pc' = [pc EXCEPT ![App] = "shutdown.delete"],
                   cur' = [cur EXCEPT ![App] = Packet(map[c], c)]
            PROVE  ThreadTypes' /\ AppLocations'
        BY <3>1, <3>3 DEF Packet, CurKinds
      <3> QED  BY <2>6, <3>2, <3>3, NextMoves
    <2>7. CASE ShutdownNull
      BY <1>2, <2>7 DEF ShutdownNull
    <2>8. CASE ShutdownExits
      BY <1>2, <2>8 DEF ShutdownExits, NoPacket, Packet, CurKinds
    <2> QED  BY <1>2, <2>2, <2>3, <2>4, <2>5, <2>6, <2>7, <2>8 DEF Application, Finish
  <1> QED  BY <1>1, <1>2
-----------------------------------------------------------------------------
\* The types of the rest of the state, for each kind of step.
LEMMA EntryChanges ==
  ASSUME NEW D, NEW T, NEW f \in [D -> T], NEW d, NEW x \in T
  PROVE  [f EXCEPT ![d] = x] \in [D -> T]
  OBVIOUS

LEMMA CountChanges ==
  ASSUME NEW D, NEW f \in [D -> Int], NEW d
  PROVE  /\ [f EXCEPT ![d] = @ + 1] \in [D -> Int]
         /\ [f EXCEPT ![d] = @ - 1] \in [D -> Int]
         /\ [f EXCEPT ![d] = 0] \in [D -> Int]
  <1>1. CASE d \in D
    <2>1. f[d] + 1 \in Int /\ f[d] - 1 \in Int /\ 0 \in Int
      BY <1>1
    <2> QED  BY <2>1, EntryChanges
  <1>2. CASE d \notin D
    BY <1>2
  <1> QED  BY <1>1, <1>2

\* How a step may change the variables of the connections.
Marks == \/ UNCHANGED ctx
         \/ \E c, s : s \in {"live", "freed"} /\ ctx' = [ctx EXCEPT ![c] = s]
Maps == \/ UNCHANGED map
        \/ \E c, s : s \in {"absent", "null", "ctx"} /\ map' = [map EXCEPT ![c] = s]
Counts == \/ UNCHANGED ios
          \/ \E o : ios' = [ios EXCEPT ![o] = @ + 1]
          \/ \E o : ios' = [ios EXCEPT ![o] = @ - 1]
          \/ \E o : ios' = [ios EXCEPT ![o] = 0]
Fails == UNCHANGED failed \/ \E o : failed' = [failed EXCEPT ![o] = @ + 1]
Tells == \/ UNCHANGED told
         \/ \E c, s : s \in {"accepted", "lost", "dropped", "removed"} /\ Tell(c, s)

LEMMA Changes ==
  ASSUME ContextTypes, Marks, Maps, Counts, Fails, Tells
  PROVE  ContextTypes'
  <1>1. ctx' \in [Clients -> {"none", "live", "freed"}]
    BY EntryChanges DEF ContextTypes, Marks
  <1>2. map' \in [Clients -> {"absent", "null", "ctx"}]
    BY EntryChanges DEF ContextTypes, Maps
  <1>3. ios' \in [Owners -> Int]
    BY CountChanges DEF ContextTypes, Counts
  <1>4. failed' \in [Owners -> Nat]
    BY DEF ContextTypes, Fails
  <1>5. told' \in [Clients -> SUBSET {"accepted", "lost", "dropped", "removed"}]
    BY DEF ContextTypes, Tells, Tell
  <1> QED  BY <1>1, <1>2, <1>3, <1>4, <1>5 DEF ContextTypes

LEMMA WorkerChanges ==
  ASSUME NEW w \in Workers, Worker(w)
  PROVE  Marks /\ Maps /\ Counts /\ Fails /\ Tells
  <1>1. Marks
    BY DEF Marks, Worker, Dequeue, Dispatch, SentRemove, AcceptBind, AcceptRecv, AcceptInsert,
           AcceptCallback, AcceptRemove, AcceptPost, RecvCallback, RecvRemove, RecvPost, LostErase,
           LostDelete, Send, SendLookup, SendPost, Delete
  <1>2. Maps
    BY DEF Maps, Worker, Dequeue, Dispatch, SentRemove, AcceptBind, AcceptRecv, AcceptInsert,
           AcceptCallback, AcceptRemove, AcceptPost, RecvCallback, RecvRemove, RecvPost, LostErase,
           LostDelete, Send, SendLookup, SendPost, Insert
  <1>3. Counts
    BY DEF Counts, Worker, Dequeue, Dispatch, SentRemove, AcceptBind, AcceptRecv, AcceptInsert,
           AcceptCallback, AcceptRemove, AcceptPost, RecvCallback, RecvRemove, RecvPost, LostErase,
           LostDelete, Send, SendLookup, SendPost, Delete, PostAccept, NewIOContext, RemoveContext
  <1>4. Fails
    BY DEF Fails, Worker, Dequeue, Dispatch, SentRemove, AcceptBind, AcceptRecv, AcceptInsert,
           AcceptCallback, AcceptRemove, AcceptPost, RecvCallback, RecvRemove, RecvPost, LostErase,
           LostDelete, Send, SendLookup, SendPost, ghostVars
  <1>5. Tells
    BY DEF Tells, Worker, Dequeue, Dispatch, SentRemove, AcceptBind, AcceptRecv, AcceptInsert,
           AcceptCallback, AcceptRemove, AcceptPost, RecvCallback, RecvRemove, RecvPost, LostErase,
           LostDelete, Send, SendLookup, SendPost, ghostVars
  <1> QED  BY <1>1, <1>2, <1>3, <1>4, <1>5

LEMMA AppChanges ==
  ASSUME Types, Application
  PROVE  Marks /\ Maps /\ Counts /\ Fails /\ Tells
  <1>1. Marks
    BY DEF Marks, Application, StartThreads, StartAccept, RemoveTake, ShutdownCall, Finish, RemoveDelete,
           ShutdownNext, ShutdownDelete, ShutdownNull, ShutdownExits, Delete
  <1>2. Maps
    BY DEF Maps, Application, StartThreads, StartAccept, RemoveTake, ShutdownCall, Finish, RemoveDelete,
           ShutdownNext, ShutdownDelete, ShutdownNull, ShutdownExits
  <1>3. Counts
    BY DEF Counts, Application, StartThreads, StartAccept, RemoveTake, ShutdownCall, Finish, RemoveDelete,
           ShutdownNext, ShutdownDelete, ShutdownNull, ShutdownExits, Delete, PostAccept, NewIOContext
  <1>4. Fails
    BY DEF Fails, Application, StartThreads, StartAccept, RemoveTake, ShutdownCall, Finish, RemoveDelete,
           ShutdownNext, ShutdownDelete, ShutdownNull, ShutdownExits, ghostVars
  <1>5. Tells
    BY DEF Tells, Application, StartThreads, StartAccept, RemoveTake, ShutdownCall, Finish, RemoveDelete,
           ShutdownNext, ShutdownDelete, ShutdownNull, ShutdownExits, ghostVars
  <1> QED  BY <1>1, <1>2, <1>3, <1>4, <1>5

LEMMA WorkerTypes ==
  ASSUME Types, Locations, NEW w \in Workers, Worker(w), UNCHANGED server
  PROVE  PortTypes' /\ KernelTypes' /\ ContextTypes'
  <1>0. LocationsOf(w)
    BY DEF Locations
  <1>1. PortTypes'
    <2>1. CASE Dequeue(w)
      <3>1. port # <<>> /\ port' = Tail(port)
        BY <2>1 DEF Dequeue
      <3> QED  BY <3>1, PortTail DEF Types, PortTypes
    <2>2. CASE ~Dequeue(w)
      <3>1. UNCHANGED port
        BY <2>2 DEF Worker, Dispatch, SentRemove, AcceptBind, AcceptRecv, AcceptInsert,
               AcceptCallback, AcceptRemove, AcceptPost, RecvCallback, RecvRemove, RecvPost, LostErase,
               LostDelete, Send, SendLookup, SendPost
      <3> QED  BY <3>1 DEF Types, PortTypes
    <2> QED  BY <2>1, <2>2
  <1>2. ContextTypes'
    BY WorkerChanges, Changes DEF Types
  <1>3. KernelTypes'
    <2>1. UNCHANGED <<slot, wild>>
      BY WorkerMoves DEF Types
    <2>2. \/ UNCHANGED accepts
          \/ accepts' = accepts + 1
      BY DEF Worker, Dequeue, Dispatch, SentRemove, AcceptBind, AcceptRecv, AcceptInsert,
             AcceptCallback, AcceptRemove, AcceptPost, RecvCallback, RecvRemove, RecvPost, LostErase,
             LostDelete, Send, SendLookup, SendPost, PostAccept, kernelVars
    <2>3. UNCHANGED failures \/ Fail
      <3>1. CASE SendPost(w)
        <4>1. Client(w) \in Clients
          BY <1>0, <3>1, Handles DEF SendPost, At
        <4>2. sends[Client(w)] < MaxSends \/ sends[Client(w)] = MaxSends
          <5>1. sends[Client(w)] \in 0..MaxSends
            BY <4>1 DEF Types, KernelTypes
          <5> QED  BY <5>1, Bounds
        <4> QED  BY <3>1, <4>2 DEF SendPost, Succeed
      <3>2. CASE ~SendPost(w)
        BY <3>2 DEF Worker, Dequeue, Dispatch, SentRemove, AcceptBind, AcceptRecv, AcceptInsert,
               AcceptCallback, AcceptRemove, AcceptPost, RecvCallback, RecvRemove, RecvPost, LostErase,
               LostDelete, Send, SendLookup, PostAccept, Succeed
      <3> QED  BY <3>1, <3>2
    <2>4. UNCHANGED recvs \/ (recvs' = recvs \cup {Client(w)} /\ Client(w) \in Clients)
      <3>1. CASE AcceptRecv(w) \/ RecvPost(w)
        BY <1>0, <3>1, Handles DEF AcceptRecv, RecvPost, At
      <3>2. CASE ~AcceptRecv(w) /\ ~RecvPost(w)
        BY <3>2 DEF Worker, Dequeue, Dispatch, SentRemove, AcceptBind, AcceptInsert,
               AcceptCallback, AcceptRemove, AcceptPost, RecvCallback, RecvRemove, LostErase,
               LostDelete, Send, SendLookup, SendPost, kernelVars
      <3> QED  BY <3>1, <3>2
    <2>5. \/ UNCHANGED sends
          \/ /\ Client(w) \in Clients /\ sends[Client(w)] < MaxSends
             /\ sends' = [sends EXCEPT ![Client(w)] = @ + 1]
      <3>1. CASE SendPost(w)
        BY <1>0, <3>1, Handles DEF SendPost, At
      <3>2. CASE ~SendPost(w)
        BY <3>2 DEF Worker, Dequeue, Dispatch, SentRemove, AcceptBind, AcceptInsert,
               AcceptCallback, AcceptRemove, AcceptPost, RecvCallback, RecvRemove, LostErase,
               LostDelete, Send, SendLookup, AcceptRecv, RecvPost, kernelVars
      <3> QED  BY <3>1, <3>2
    <2>6. accepts' \in Nat /\ recvs' \subseteq Clients
      BY <2>2, <2>4 DEF Types, KernelTypes
    <2>8. failures' \in 0..MaxFailures
      BY <2>3, Bounds DEF Types, KernelTypes, Fail
    <2>7. sends' \in [Clients -> 0..MaxSends]
      BY <2>5, Bounds DEF Types, KernelTypes
    <2> QED  BY <2>1, <2>6, <2>7, <2>8 DEF Types, KernelTypes
  <1> QED  BY <1>1, <1>2, <1>3

LEMMA AppTypes ==
  ASSUME Types, Application, UNCHANGED server
  PROVE  PortTypes' /\ KernelTypes' /\ ContextTypes'
  <1>1. PortTypes'
    <2>1. CASE ShutdownExits
      <3>1. port' = port \o ExitPackets /\ port \in Seq(Packets)
        BY <2>1 DEF ShutdownExits, Types, PortTypes
      <3>2. /\ port' \in Seq(Packets)
            /\ \A i \in 1..Len(port') : port'[i] = Packet("exit", Listen)
                                          \/ \E j \in 1..Len(port) : port'[i] = port[j]
        BY <3>1, PortExits
      <3> QED  BY <3>2 DEF Types, PortTypes, Packet
    <2>2. CASE ~ShutdownExits
      <3>1. UNCHANGED port
        BY <2>2 DEF Application, StartThreads, StartAccept, RemoveTake, ShutdownCall, Finish, RemoveDelete,
                    ShutdownNext, ShutdownDelete, ShutdownNull
      <3> QED  BY <3>1 DEF Types, PortTypes
    <2> QED  BY <2>1, <2>2
  <1>2. KernelTypes'
    <2>1. UNCHANGED <<recvs, sends, wild>>
      BY DEF Application, StartThreads, StartAccept, RemoveTake, ShutdownCall, Finish, RemoveDelete,
             ShutdownNext, ShutdownDelete, ShutdownNull, ShutdownExits, kernelVars
    <2>2. /\ UNCHANGED accepts \/ accepts' = accepts + 1
          /\ UNCHANGED slot \/ (slot < m_nCountOfThreads /\ slot' = slot + 1)
          /\ UNCHANGED failures \/ Fail
      BY DEF Application, StartThreads, StartAccept, PostAccept, AcceptsAsked, RemoveTake, ShutdownCall,
             Finish, RemoveDelete, ShutdownNext, ShutdownDelete, ShutdownNull, ShutdownExits, kernelVars, Succeed
    <2> QED  BY <2>1, <2>2, Bounds DEF Types, KernelTypes, Fail
  <1>3. ContextTypes'
    BY AppChanges, Changes DEF Types
  <1> QED  BY <1>1, <1>2, <1>3
\* A step of the kernel adds one packet for an operation it takes.
Took(p) == \/ /\ p.kind = "accept" /\ p.who \in Clients /\ Fresh(p.who)
              /\ accepts > 0 /\ accepts' = accepts - 1 /\ UNCHANGED <<recvs, sends, failures>>
           \/ /\ p = Packet("fail", Listen) /\ Fail
              /\ accepts > 0 /\ accepts' = accepts - 1 /\ UNCHANGED <<recvs, sends>>
           \/ /\ p.kind \in {"data", "close", "fail"} /\ p.who \in recvs
              /\ recvs' = recvs \ {p.who} /\ UNCHANGED <<accepts, sends>>
              /\ ctx[p.who] = "live" \/ p.kind = "fail"
              /\ UNCHANGED failures \/ (p.kind = "fail" /\ Fail)
           \/ /\ p.kind \in {"sent", "unsent", "fail"} /\ p.who \in Clients /\ sends[p.who] > 0
              /\ sends' = [sends EXCEPT ![p.who] = @ - 1] /\ UNCHANGED <<accepts, recvs>>
              /\ ctx[p.who] = "live" \/ p.kind = "fail"
              /\ UNCHANGED failures \/ (p.kind = "fail" /\ Fail)

LEMMA KernelMoves ==
  ASSUME Types, Kernel
  PROVE  /\ \E p \in Packets : port' = Append(port, p) /\ Took(p)
         /\ UNCHANGED <<ctx, map, ios, threadVars, slot, wild, ghostVars>>
  <1> USE Constants DEF Types, Took, Packets, Packet, packetKinds
  <1>1. CASE AcceptFail
    BY <1>1 DEF AcceptFail, Post
  <1>2. ASSUME NEW c \in Clients, AcceptDone(c) PROVE \E p \in Packets : port' = Append(port, p) /\ Took(p)
    <2>1. Packet("accept", c) \in Packets /\ Took(Packet("accept", c)) /\ port' = Append(port, Packet("accept", c))
      BY <1>2 DEF AcceptDone, Post
    <2> QED  BY <2>1
  <1>3. ASSUME NEW c \in Clients, RecvDone(c) PROVE \E p \in Packets : port' = Append(port, p) /\ Took(p)
    <2>1. PICK kind \in {"data", "close"} : port' = Append(port, Packet(kind, c))
      BY <1>3 DEF RecvDone, Post
    <2>2. Packet(kind, c) \in Packets /\ Took(Packet(kind, c))
      BY <1>3 DEF RecvDone
    <2> QED  BY <2>1, <2>2
  <1>4. ASSUME NEW c \in Clients, SendDone(c) PROVE \E p \in Packets : port' = Append(port, p) /\ Took(p)
    <2>1. PICK kind \in {"sent", "unsent"} : port' = Append(port, Packet(kind, c))
      BY <1>4 DEF SendDone, Post
    <2>2. Packet(kind, c) \in Packets /\ Took(Packet(kind, c))
      BY <1>4 DEF SendDone
    <2> QED  BY <2>1, <2>2
  <1>5. ASSUME NEW c \in Clients, OperationFails(c) PROVE \E p \in Packets : port' = Append(port, p) /\ Took(p)
    <2>1. Packet("fail", c) \in Packets /\ Took(Packet("fail", c)) /\ port' = Append(port, Packet("fail", c))
      BY <1>5 DEF OperationFails, Post, Succeed
    <2> QED  BY <2>1
  <1>6. UNCHANGED <<ctx, map, ios, threadVars, slot, wild, ghostVars>>
    BY DEF Kernel, AcceptFail, AcceptDone, RecvDone, SendDone, OperationFails, Post
  <1> QED  BY <1>1, <1>2, <1>3, <1>4, <1>5, <1>6 DEF Kernel

LEMMA TookTypes ==
  ASSUME KernelTypes, NEW p \in Packets, Took(p)
  PROVE  /\ p.kind # "exit"
         /\ p.kind # "fail" => p.who \in Clients
         /\ accepts' \in Nat /\ recvs' \subseteq Clients
         /\ failures' \in 0..MaxFailures
         /\ sends' \in [Clients -> 0..MaxSends]
  <1>1. CASE p.kind = "accept" /\ p.who \in Clients /\ accepts > 0 /\ accepts' = accepts - 1 /\ UNCHANGED <<recvs, sends, failures>>
    BY <1>1 DEF KernelTypes
  <1>2. CASE p = Packet("fail", Listen) /\ Fail /\ accepts > 0 /\ accepts' = accepts - 1 /\ UNCHANGED <<recvs, sends>>
    BY <1>2, Bounds DEF KernelTypes, Fail, Packet
  <1>3. CASE p.kind \in {"data", "close", "fail"} /\ p.who \in recvs /\ recvs' = recvs \ {p.who} /\ UNCHANGED <<accepts, sends>>
             /\ (UNCHANGED failures \/ Fail)
    <2>1. p.who \in Clients /\ p.kind # "exit"
      BY <1>3 DEF KernelTypes
    <2>2. failures' \in 0..MaxFailures
      BY <1>3, Bounds DEF KernelTypes, Fail
    <2>3. UNCHANGED <<accepts, sends>> /\ recvs' \subseteq recvs
      BY <1>3
    <2> QED  BY <2>1, <2>2, <2>3 DEF KernelTypes
  <1>4. CASE p.kind \in {"sent", "unsent", "fail"} /\ p.who \in Clients /\ sends[p.who] > 0
             /\ sends' = [sends EXCEPT ![p.who] = @ - 1] /\ UNCHANGED <<accepts, recvs>>
             /\ (UNCHANGED failures \/ Fail)
    <2>1. p.kind # "exit" /\ accepts' \in Nat /\ recvs' \subseteq Clients
      BY <1>4 DEF KernelTypes
    <2>2. failures' \in 0..MaxFailures
      BY <1>4, Bounds DEF KernelTypes, Fail
    <2>3. sends[p.who] - 1 \in 0..MaxSends
      <3>1. sends[p.who] \in 0..MaxSends /\ sends[p.who] > 0
        BY <1>4 DEF KernelTypes
      <3> QED  BY <3>1, Bounds
    <2> QED  BY <1>4, <2>1, <2>2, <2>3, EntryChanges DEF KernelTypes
  <1> QED  BY <1>1, <1>2, <1>3, <1>4 DEF Took

LEMMA KernelStepTypes ==
  ASSUME Types, Locations, Kernel, UNCHANGED server
  PROVE  Types' /\ Locations'
  <1>1. PICK p \in Packets : port' = Append(port, p) /\ Took(p)
    BY KernelMoves
  <1>2. UNCHANGED <<ctx, map, ios, threadVars, slot, wild, ghostVars>>
    BY KernelMoves
  <1>3. PortTypes'
    <2>1. port \in Seq(Packets)
      BY DEF Types, PortTypes
    <2>2. p.kind # "exit" /\ (p.kind # "fail" => p.who \in Clients)
      BY <1>1, TookTypes DEF Types
    <2>3. /\ port' \in Seq(Packets)
          /\ \A i \in 1..Len(port') : port'[i] = p \/ \E j \in 1..Len(port) : port'[i] = port[j]
      BY <1>1, <2>1, PortAppend
    <2> QED  BY <2>2, <2>3 DEF Types, PortTypes
  <1>4. KernelTypes'
    BY <1>1, <1>2, TookTypes DEF Types, KernelTypes
  <1>5. ThreadTypes' /\ ContextTypes'
    BY <1>2 DEF Types, ThreadTypes, ContextTypes, threadVars, ghostVars
  <1>6. Locations'
    BY <1>2 DEF Locations, AppLocations, LocationsOf, threadVars, Client
  <1> QED  BY <1>3, <1>4, <1>5, <1>6 DEF Types
-----------------------------------------------------------------------------
\* Counting: packets in the port, and workers.
AcceptsQueued == Cardinality({i \in 1..Len(port) : port[i].kind = "accept"})
Accepting == {w \in Workers : cur[w].kind = "accept"}
OfKind(kind) == {p \in Packets : p.kind = kind}

LEMMA AcceptsQueuedIs ==
  ASSUME port \in Seq(Packets)
  PROVE  /\ AcceptsQueued = Cardinality(PlacesOf(port, OfKind("accept")))
         /\ AcceptsQueued \in Nat
  <1>1. \A i \in 1..Len(port) : port[i] \in Packets
    BY ElementOfSeq
  <1>2. {i \in 1..Len(port) : port[i].kind = "accept"} = PlacesOf(port, OfKind("accept"))
    BY <1>1 DEF PlacesOf, OfKind
  <1>3. AcceptsQueued = Cardinality(PlacesOf(port, OfKind("accept")))
    BY <1>2 DEF AcceptsQueued
  <1> QED  BY <1>3, PlacesFinite

\* What a packet that comes in, that is taken off, or an exit packet changes.
LEMMA QueueGrows ==
  ASSUME port \in Seq(Packets), NEW p \in Packets, port' = Append(port, p)
  PROVE  /\ \A kinds, who : /\ Queued(kinds, who) \in Nat /\ Queued(kinds, who)' \in Nat
                            /\ Queued(kinds, who)' = Queued(kinds, who) + Bit(p.kind \in kinds /\ p.who = who)
         /\ AcceptsQueued \in Nat /\ AcceptsQueued' \in Nat
         /\ AcceptsQueued' = AcceptsQueued + Bit(p.kind = "accept")
  <1>1. port' \in Seq(Packets)
    BY AppendProperties
  <1>2. ASSUME NEW kinds, NEW who
        PROVE  /\ Queued(kinds, who) \in Nat /\ Queued(kinds, who)' \in Nat
               /\ Queued(kinds, who)' = Queued(kinds, who) + Bit(p.kind \in kinds /\ p.who = who)
    <2>1. Queued(kinds, who)' = Queued(kinds, who) + Bit(p.kind \in kinds /\ p.who = who)
      BY QueuedAppend
    <2>2. Queued(kinds, who) \in Nat
      BY QueuedIs
    <2> QED  BY <2>1, <2>2 DEF Bit
  <1>3. AcceptsQueued' = Cardinality(PlacesOf(port', OfKind("accept")))
    <2>1. \A i \in 1..Len(port') : port'[i] \in Packets
      BY <1>1, ElementOfSeq
    <2>2. {i \in 1..Len(port') : port'[i].kind = "accept"} = PlacesOf(port', OfKind("accept"))
      BY <2>1 DEF PlacesOf, OfKind
    <2> QED  BY <2>2 DEF AcceptsQueued
  <1>4. p \in OfKind("accept") <=> p.kind = "accept"
    BY DEF OfKind
  <1>5. AcceptsQueued' = AcceptsQueued + Bit(p.kind = "accept") /\ AcceptsQueued \in Nat
    BY <1>3, <1>4, AcceptsQueuedIs, PlacesAppend DEF Bit
  <1> QED  BY <1>2, <1>5 DEF Bit

LEMMA QueueShrinks ==
  ASSUME port \in Seq(Packets), port # <<>>, port' = Tail(port)
  PROVE  /\ \A kinds, who : /\ Queued(kinds, who) \in Nat /\ Queued(kinds, who)' \in Nat
                            /\ Queued(kinds, who) = Queued(kinds, who)'
                                  + Bit(Head(port).kind \in kinds /\ Head(port).who = who)
         /\ AcceptsQueued \in Nat /\ AcceptsQueued' \in Nat
         /\ AcceptsQueued = AcceptsQueued' + Bit(Head(port).kind = "accept")
  <1>1. port' \in Seq(Packets) /\ Head(port) \in Packets
    BY HeadTailProperties
  <1>2. ASSUME NEW kinds, NEW who
        PROVE  /\ Queued(kinds, who) \in Nat /\ Queued(kinds, who)' \in Nat
               /\ Queued(kinds, who) = Queued(kinds, who)' + Bit(Head(port).kind \in kinds /\ Head(port).who = who)
    <2>1. Queued(kinds, who) = Queued(kinds, who)' + Bit(Head(port).kind \in kinds /\ Head(port).who = who)
      BY QueuedTail
    <2>2. Queued(kinds, who) \in Nat
      BY QueuedIs
    <2>3. Queued(kinds, who)' \in Nat
      <3>1. IsFiniteSet({i \in 1..Len(port') : port'[i].kind \in kinds /\ port'[i].who = who})
        <4>1. Len(port') \in Nat
          BY <1>1, LenProperties
        <4>2. IsFiniteSet(1..Len(port'))
          BY <4>1, FS_Interval
        <4> QED  BY <4>2, FS_Subset
      <3> QED  BY <3>1, FS_CardinalityType DEF Queued
    <2> QED  BY <2>1, <2>2, <2>3
  <1>3. AcceptsQueued' = Cardinality(PlacesOf(port', OfKind("accept")))
    <2>1. \A i \in 1..Len(port') : port'[i] \in Packets
      BY <1>1, ElementOfSeq
    <2>2. {i \in 1..Len(port') : port'[i].kind = "accept"} = PlacesOf(port', OfKind("accept"))
      BY <2>1 DEF PlacesOf, OfKind
    <2> QED  BY <2>2 DEF AcceptsQueued
  <1>4. Head(port) \in OfKind("accept") <=> Head(port).kind = "accept"
    BY <1>1 DEF OfKind
  <1>5. AcceptsQueued' \in Nat
    BY <1>1, <1>3, PlacesFinite
  <1>6. AcceptsQueued = AcceptsQueued' + Bit(Head(port).kind = "accept") /\ AcceptsQueued \in Nat
    BY <1>3, <1>4, AcceptsQueuedIs, PlacesTail DEF Bit
  <1> QED  BY <1>2, <1>5, <1>6

LEMMA QueueStays ==
  ASSUME port \in Seq(Packets), UNCHANGED port \/ port' = port \o ExitPackets
  PROVE  /\ \A kinds, who : "exit" \notin kinds => Queued(kinds, who)' = Queued(kinds, who)
         /\ AcceptsQueued' = AcceptsQueued
         /\ \A kinds, who : Queued(kinds, who) \in Nat
         /\ AcceptsQueued \in Nat
  <1>1. CASE UNCHANGED port
    BY <1>1, QueuedIs, AcceptsQueuedIs DEF Queued, AcceptsQueued
  <1>2. CASE port' = port \o ExitPackets
    <2>1. /\ port' \in Seq(Packets)
          /\ \A S : Packet("exit", Listen) \notin S => PlacesOf(port', S) = PlacesOf(port, S)
      BY <1>2, PortExits
    <2>2. \A i \in 1..Len(port') : port'[i] \in Packets
      BY <2>1, ElementOfSeq
    <2>3. ASSUME NEW kinds, NEW who, "exit" \notin kinds
          PROVE  Queued(kinds, who)' = Queued(kinds, who)
      <3>1. {i \in 1..Len(port') : port'[i].kind \in kinds /\ port'[i].who = who}
               = PlacesOf(port', With(kinds, who))
        BY <2>2 DEF PlacesOf, With
      <3>2. Packet("exit", Listen) \notin With(kinds, who)
        BY <2>3 DEF With, Packet
      <3>3. PlacesOf(port', With(kinds, who)) = PlacesOf(port, With(kinds, who))
        BY <2>1, <3>2
      <3>4. Queued(kinds, who)' = Cardinality(PlacesOf(port', With(kinds, who)))
        BY <3>1 DEF Queued
      <3> QED  BY <3>3, <3>4, QueuedIs
    <2>4. AcceptsQueued' = AcceptsQueued
      <3>1. {i \in 1..Len(port') : port'[i].kind = "accept"} = PlacesOf(port', OfKind("accept"))
        BY <2>2 DEF PlacesOf, OfKind
      <3>2. Packet("exit", Listen) \notin OfKind("accept")
        BY DEF OfKind, Packet
      <3>3. PlacesOf(port', OfKind("accept")) = PlacesOf(port, OfKind("accept"))
        BY <2>1, <3>2
      <3>4. AcceptsQueued' = Cardinality(PlacesOf(port', OfKind("accept")))
        BY <3>1 DEF AcceptsQueued
      <3> QED  BY <3>3, <3>4, AcceptsQueuedIs
    <2> QED  BY <2>3, <2>4, QueuedIs, AcceptsQueuedIs
  <1> QED  BY <1>1, <1>2

LEMMA WorkerSets ==
  /\ IsFiniteSet(Accepting) /\ Cardinality(Accepting) \in Nat
  /\ \A c : IsFiniteSet(Receiving(c)) /\ Cardinality(Receiving(c)) \in Nat
  /\ \A o : IsFiniteSet(Holding(o)) /\ Cardinality(Holding(o)) \in Nat
  <1>1. Accepting \subseteq Workers
    BY DEF Accepting
  <1>2. \A c : Receiving(c) \subseteq Workers
    BY DEF Receiving
  <1>3. \A o : Holding(o) \subseteq Workers
    BY DEF Holding
  <1>4. \A S \in SUBSET Workers : IsFiniteSet(S) /\ Cardinality(S) \in Nat
    BY Constants, FS_Subset, FS_CardinalityType
  <1> QED  BY <1>1, <1>2, <1>3, <1>4

\* One worker moves: a set that counts workers gains or loses it, or stays.
LEMMA WorkerCounts ==
  ASSUME NEW w \in Workers, \A v \in Workers \ {w} : pc'[v] = pc[v] /\ cur'[v] = cur[v]
  PROVE  /\ /\ Cardinality(Accepting)' \in Nat
            /\ Cardinality(Accepting)' + Bit(w \in Accepting) = Cardinality(Accepting) + Bit(w \in Accepting')
         /\ \A c : /\ Cardinality(Receiving(c))' \in Nat
                   /\ Cardinality(Receiving(c))' + Bit(w \in Receiving(c))
                         = Cardinality(Receiving(c)) + Bit(w \in Receiving(c)')
         /\ \A o : /\ Cardinality(Holding(o))' \in Nat
                   /\ Cardinality(Holding(o))' + Bit(w \in Holding(o))
                         = Cardinality(Holding(o)) + Bit(w \in Holding(o)')
  <1>1. Accepting \ {w} = Accepting' \ {w}
    BY DEF Accepting
  <1>2. ASSUME NEW c PROVE Receiving(c) \ {w} = Receiving(c)' \ {w}
    <2>1. ASSUME NEW v \in Workers \ {w} PROVE v \in Receiving(c) <=> v \in Receiving(c)'
      BY DEF Receiving
    <2> QED  BY <2>1 DEF Receiving
  <1>3. ASSUME NEW o PROVE Holding(o) \ {w} = Holding(o)' \ {w}
    <2>1. ASSUME NEW v \in Workers \ {w} PROVE v \in Holding(o) <=> v \in Holding(o)'
      BY DEF Holding
    <2> QED  BY <2>1 DEF Holding
  <1>4. /\ Cardinality(Accepting') \in Nat
        /\ Cardinality(Accepting') + Bit(w \in Accepting) = Cardinality(Accepting) + Bit(w \in Accepting')
    BY <1>1, WorkerSets, OneChanges
  <1>5. ASSUME NEW c
        PROVE  /\ Cardinality(Receiving(c)') \in Nat
               /\ Cardinality(Receiving(c)') + Bit(w \in Receiving(c))
                      = Cardinality(Receiving(c)) + Bit(w \in Receiving(c)')
    BY <1>2, WorkerSets, OneChanges
  <1>6. ASSUME NEW o
        PROVE  /\ Cardinality(Holding(o)') \in Nat
               /\ Cardinality(Holding(o)') + Bit(w \in Holding(o))
                      = Cardinality(Holding(o)) + Bit(w \in Holding(o)')
    BY <1>3, WorkerSets, OneChanges
  <1> QED  BY <1>4, <1>5, <1>6

\* No worker moves, but that Start creates them.
LEMMA WorkersStay ==
  ASSUME \A w \in Workers : cur'[w] = cur[w] /\ (pc'[w] = pc[w] \/ cur[w].kind = "none")
  PROVE  /\ Accepting' = Accepting
         /\ \A c : Receiving(c)' = Receiving(c)
         /\ \A o : Holding(o)' = Holding(o)
         /\ \A kinds, c : Handling(kinds, c)' = Handling(kinds, c)
  <1>1. Accepting' = Accepting
    BY DEF Accepting
  <1>2. ASSUME NEW c PROVE Receiving(c)' = Receiving(c)
    <2>1. ASSUME NEW v \in Workers PROVE v \in Receiving(c) <=> v \in Receiving(c)'
      BY DEF Receiving
    <2> QED  BY <2>1 DEF Receiving
  <1>3. ASSUME NEW o PROVE Holding(o)' = Holding(o)
    <2>1. ASSUME NEW v \in Workers PROVE v \in Holding(o) <=> v \in Holding(o)'
      BY DEF Holding
    <2> QED  BY <2>1 DEF Holding
  <1>4. \A kinds, c : Handling(kinds, c)' = Handling(kinds, c)
    BY DEF Handling
  <1> QED  BY <1>1, <1>2, <1>3, <1>4

LEMMA AtMostOne ==
  ASSUME NEW S, IsFiniteSet(S), Cardinality(S) <= 1, NEW x \in S
  PROVE  S = {x} /\ Cardinality(S) = 1
  <1>1. Cardinality(S) \in Nat /\ Cardinality(S) # 0
    BY FS_CardinalityType, FS_EmptySet
  <1>2. Cardinality(S) = 1
    BY <1>1
  <1> QED  BY <1>2, FS_Singleton

LEMMA AtLeastOne ==
  ASSUME NEW S, IsFiniteSet(S), NEW x \in S
  PROVE  Cardinality(S) \in Nat /\ Cardinality(S) >= 1
  <1>1. Cardinality(S) \in Nat /\ Cardinality(S) # 0
    BY FS_CardinalityType, FS_EmptySet
  <1> QED  BY <1>1
-----------------------------------------------------------------------------
\* A worker that does not take a packet handles one.
LEMMA HandlerMoves ==
  ASSUME ThreadTypes, NEW w \in Workers, LocationsOf(w), Worker(w), ~Dequeue(w)
  PROVE  /\ UNCHANGED <<port, failed>>
         /\ cur[w].kind \in {"accept", "data", "close", "sent", "unsent"} /\ Client(w) \in Clients
         /\ \/ cur'[w] = cur[w] /\ pc'[w] # "completed"
            \/ cur'[w] = NoPacket /\ pc'[w] = "dequeue"
  <1>1. UNCHANGED <<port, failed>>
    BY DEF Worker, Dispatch, SentRemove, AcceptBind, AcceptRecv, AcceptInsert,
           AcceptCallback, AcceptRemove, AcceptPost, RecvCallback, RecvRemove, RecvPost, LostErase,
           LostDelete, Send, SendLookup, SendPost, ghostVars
  <1>2. pc[w] \notin {"none", "dequeue", "exited"}
    BY DEF Worker, Dispatch, SentRemove, AcceptBind, AcceptRecv, AcceptInsert,
           AcceptCallback, AcceptRemove, AcceptPost, RecvCallback, RecvRemove, RecvPost, LostErase,
           LostDelete, Send, SendLookup, SendPost, At
  <1>3. cur[w].kind \in {"accept", "data", "close", "sent", "unsent"} /\ Client(w) \in Clients
    BY <1>2, Handles
  <1>4. w \in Threads
    BY Constants
  <1>5. CASE Done(w)
    BY <1>1, <1>3, <1>4, <1>5 DEF Done, ThreadTypes
  <1>6. CASE UNCHANGED cur
    <2>1. CASE Dispatch(w)
      BY <1>3, <1>4, <2>1 DEF Dispatch, Goto, Handler, ThreadTypes
    <2>2. CASE SendLookup(w) \/ SendPost(w)
      <3>1. pc'[w] \in {"send.post", back[w]} /\ pc[w] \in {"send.lookup", "send.post"}
        BY <1>4, <2>2 DEF SendLookup, SendPost, At, Goto, ThreadTypes
      <3> QED  BY <1>1, <1>3, <1>4, <1>6, <3>1 DEF LocationsOf, opening, binding
    <2>3. CASE AcceptBind(w) \/ AcceptRecv(w) \/ AcceptInsert(w) \/ AcceptCallback(w) \/ AcceptRemove(w)
               \/ RecvCallback(w) \/ RecvRemove(w) \/ LostErase(w)
      <3>1. Done(w) \/ \E x : x # "completed" /\ Goto(w, x)
        BY <2>3 DEF AcceptBind, AcceptRecv, AcceptInsert, AcceptCallback, AcceptRemove, RecvCallback,
                    RecvRemove, LostErase
      <3> QED  BY <1>1, <1>3, <1>4, <1>5, <1>6, <3>1 DEF Goto, ThreadTypes
    <2>4. CASE SentRemove(w) \/ AcceptPost(w) \/ RecvPost(w) \/ LostDelete(w)
      BY <1>5, <2>4 DEF SentRemove, AcceptPost, RecvPost, LostDelete
    <2> QED  BY <1>1, <1>3, <1>6, <2>1, <2>2, <2>3, <2>4 DEF Worker, Send
  <1>7. UNCHANGED cur \/ Done(w)
    BY DEF Worker, Dispatch, SentRemove, AcceptBind, AcceptRecv, AcceptInsert,
           AcceptCallback, AcceptRemove, AcceptPost, RecvCallback, RecvRemove, RecvPost, LostErase,
           LostDelete, Send, SendLookup, SendPost
  <1> QED  BY <1>5, <1>6, <1>7

\* It keeps the right to receive, gives it up, or turns it into a pending receive.
LEMMA HandlerReceives ==
  ASSUME ThreadTypes, NEW w \in Workers, LocationsOf(w), Worker(w), ~Dequeue(w)
  PROVE  /\ \A c : w \in Receiving(c)' => w \in Receiving(c)
         /\ \/ UNCHANGED recvs
            \/ /\ recvs' = recvs \cup {Client(w)}
               /\ w \in Receiving(Client(w)) /\ \A c : w \notin Receiving(c)'
               /\ pc[w] \in {"accept.recv", "recv.post"}
  <1> USE Constants
  <1>1. /\ cur[w].kind \in {"accept", "data", "close", "sent", "unsent"}
        /\ \/ cur'[w] = cur[w]
           \/ cur'[w] = NoPacket
    BY HandlerMoves
  <1>2. NoPacket.kind = "none"
    BY DEF NoPacket, Packet
  <1>3. cur'[w] = cur[w] /\ pc'[w] \in opening => pc[w] \in opening \/ cur[w].kind # "accept"
    <2>1. CASE Dispatch(w)
      BY <2>1 DEF Dispatch, At, opening, binding
    <2>2. CASE AcceptBind(w)
      BY <2>2 DEF AcceptBind, At, opening, binding
    <2>3. CASE SendLookup(w) \/ SendPost(w)
      <3>1. pc'[w] \in {"send.post", back[w]} /\ pc[w] \in {"send.lookup", "send.post"}
        BY <2>3 DEF SendLookup, SendPost, At, Goto, ThreadTypes
      <3> QED  BY <3>1 DEF LocationsOf, opening, binding
    <2>4. CASE ~Dispatch(w) /\ ~AcceptBind(w) /\ ~SendLookup(w) /\ ~SendPost(w)
      <3>1. pc'[w] \notin opening
        BY <2>4 DEF Worker, SentRemove, AcceptRecv, AcceptInsert,
             AcceptCallback, AcceptRemove, AcceptPost, RecvCallback, RecvRemove, RecvPost, LostErase,
             LostDelete, Send, Goto, Done, ThreadTypes, opening, binding
      <3> QED  BY <3>1
    <2> QED  BY <2>1, <2>2, <2>3, <2>4
  <1>4. \A c : w \in Receiving(c)' => w \in Receiving(c)
    BY <1>1, <1>2, <1>3 DEF Receiving
  <1>5. CASE AcceptRecv(w)
    <2>1. pc[w] = "accept.recv" /\ pc'[w] \in {"accept.insert", "dequeue"}
      BY <1>5 DEF AcceptRecv, At, Goto, Done, ThreadTypes
    <2>2. cur[w].kind = "accept"
      BY <2>1 DEF LocationsOf, sending
    <2>3. w \in Receiving(Client(w)) /\ \A c : w \notin Receiving(c)'
      BY <1>1, <1>2, <2>1, <2>2 DEF Receiving, opening, binding, Client
    <2> QED  BY <1>4, <1>5, <2>1, <2>3 DEF AcceptRecv
  <1>6. CASE RecvPost(w)
    <2>1. pc[w] = "recv.post" /\ cur'[w] = NoPacket
      BY <1>6 DEF RecvPost, At, Goto, Done, ThreadTypes
    <2>2. cur[w].kind = "data"
      BY <2>1 DEF LocationsOf, sending, opening, binding
    <2>3. w \in Receiving(Client(w)) /\ \A c : w \notin Receiving(c)'
      BY <1>1, <1>2, <2>1, <2>2 DEF Receiving, Client
    <2> QED  BY <1>4, <1>6, <2>1, <2>3 DEF RecvPost
  <1>7. CASE ~AcceptRecv(w) /\ ~RecvPost(w)
    <2>1. UNCHANGED recvs
      BY <1>7 DEF Worker, Dispatch, SentRemove, AcceptBind, AcceptInsert,
           AcceptCallback, AcceptRemove, AcceptPost, RecvCallback, RecvRemove, LostErase,
           LostDelete, Send, SendLookup, SendPost, kernelVars
    <2> QED  BY <1>4, <2>1
  <1> QED  BY <1>5, <1>6, <1>7

\* Of a connection whose accept has just been done nothing else exists.
LEMMA FreshIsUnbound ==
  ASSUME Types, Unbound, NEW c \in Clients, Fresh(c)
  PROVE  /\ ctx[c] = "none" /\ c \notin recvs
         /\ \A kinds : Queued(kinds, c) = 0
         /\ Receiving(c) = {}
  <1>1. \A i \in 1..Len(port) : port[i].who # c
    BY DEF Fresh, Types, PortTypes
  <1>2. \A t \in Workers : cur[t].who # c
    BY Constants DEF Fresh, Client
  <1> QED  BY <1>1, <1>2, QueuedIs DEF Fresh, Unbound, Types, PortTypes, Receiving

LEMMA OneReceiveStep ==
  ASSUME Types, Locations, Unbound, OneReceive, Application \/ Kernel \/ \E w \in Workers : Worker(w)
  PROVE  OneReceive'
  <1> DEFINE kinds == {"accept", "data", "close"}
  <1>0. port \in Seq(Packets)
    BY DEF Types, PortTypes
  <1> SUFFICES ASSUME NEW c \in Clients
               PROVE  Bit(c \in recvs') + Queued(kinds, c)' + Cardinality(Receiving(c))' <= 1
    BY DEF OneReceive
  <1>1. /\ Bit(c \in recvs) + Queued(kinds, c) + Cardinality(Receiving(c)) <= 1
        /\ Queued(kinds, c) \in Nat /\ Cardinality(Receiving(c)) \in Nat
    BY <1>0, QueuedIs, WorkerSets DEF OneReceive
  <1>2. ASSUME UNCHANGED recvs, UNCHANGED port \/ port' = port \o ExitPackets,
               \A w \in Workers : cur'[w] = cur[w] /\ (pc'[w] = pc[w] \/ cur[w].kind = "none")
        PROVE  Bit(c \in recvs') + Queued(kinds, c)' + Cardinality(Receiving(c))' <= 1
    <2>1. Queued(kinds, c)' = Queued(kinds, c)
      BY <1>0, <1>2, QueueStays
    <2>2. Receiving(c)' = Receiving(c)
      BY <1>2, WorkersStay
    <2> QED  BY <1>1, <1>2, <2>1, <2>2
  <1>3. CASE Application
    <2>1. UNCHANGED recvs /\ (UNCHANGED port \/ port' = port \o ExitPackets)
      BY <1>3 DEF Application, StartThreads, StartAccept, RemoveTake, ShutdownCall, Finish, RemoveDelete,
             ShutdownNext, ShutdownDelete, ShutdownNull, ShutdownExits, kernelVars
    <2>2. \A w \in Workers : cur'[w] = cur[w] /\ (pc'[w] = pc[w] \/ cur[w].kind = "none")
      BY <1>3, AppMoves, StartMoves DEF Types
    <2> QED  BY <1>2, <2>1, <2>2
  <1>4. CASE Kernel
    <2>1. PICK p \in Packets : port' = Append(port, p) /\ Took(p)
      BY <1>4, KernelMoves
    <2>2. \A w \in Workers : cur'[w] = cur[w] /\ pc'[w] = pc[w]
      BY <1>4, KernelMoves DEF threadVars
    <2>3. Receiving(c)' = Receiving(c)
      BY <2>2, WorkersStay
    <2>4. Queued(kinds, c)' = Queued(kinds, c) + Bit(p.kind \in kinds /\ p.who = c)
      BY <1>0, <2>1, QueueGrows
    <2>5. CASE p.who = c /\ p.kind = "accept"
      <3>1. Fresh(c) /\ UNCHANGED recvs
        BY <2>1, <2>5 DEF Took, Packet
      <3>2. c \notin recvs /\ Queued(kinds, c) = 0 /\ Receiving(c) = {}
        BY <3>1, FreshIsUnbound
      <3> QED  BY <2>3, <2>4, <3>1, <3>2, FS_EmptySet DEF Bit
    <2>6. CASE p.who = c /\ p.kind \in {"data", "close"}
      <3>1. c \in recvs /\ c \notin recvs'
        BY <2>1, <2>6 DEF Took, Packet
      <3> QED  BY <1>1, <2>3, <2>4, <2>6, <3>1 DEF Bit
    <2>7. CASE p.who # c \/ p.kind \notin kinds
      <3>1. c \in recvs' => c \in recvs
        BY <2>1 DEF Took
      <3>2. Queued(kinds, c)' = Queued(kinds, c)
        BY <1>1, <2>4, <2>7 DEF Bit
      <3> QED  BY <1>1, <2>3, <3>1, <3>2 DEF Bit
    <2> QED  BY <2>5, <2>6, <2>7
  <1>5. ASSUME NEW w \in Workers, Worker(w)
        PROVE  Bit(c \in recvs') + Queued(kinds, c)' + Cardinality(Receiving(c))' <= 1
    <2>0. LocationsOf(w) /\ ThreadTypes /\ PortTypes
      BY DEF Locations, Types
    <2>1. \A v \in Workers \ {w} : pc'[v] = pc[v] /\ cur'[v] = cur[v]
      BY <1>5, <2>0, WorkerMoves, Constants
    <2>2. /\ Cardinality(Receiving(c))' \in Nat
          /\ Cardinality(Receiving(c))' + Bit(w \in Receiving(c))
                = Cardinality(Receiving(c)) + Bit(w \in Receiving(c)')
      BY <2>1, WorkerCounts
    <2>3. CASE Dequeue(w)
      <3>1. /\ Queued(kinds, c)' \in Nat
            /\ Queued(kinds, c) = Queued(kinds, c)' + Bit(Head(port).kind \in kinds /\ Head(port).who = c)
        BY <1>0, <2>0, <2>3, DequeueMoves, QueueShrinks
      <3>2. UNCHANGED recvs /\ w \notin Receiving(c)
        BY <2>0, <2>3, DequeueMoves DEF kernelVars, Receiving
      <3>3. w \in Receiving(c)' => Head(port).kind \in kinds /\ Head(port).who = c
        BY <2>0, <2>3, DequeueMoves DEF Receiving
      <3> QED  BY <1>1, <2>2, <3>1, <3>2, <3>3 DEF Bit
    <2>4. CASE ~Dequeue(w)
      <3>1. Queued(kinds, c)' = Queued(kinds, c)
        BY <1>0, <1>5, <2>0, <2>4, HandlerMoves, QueueStays
      <3>2. w \in Receiving(c)' => w \in Receiving(c)
        BY <1>5, <2>0, <2>4, HandlerReceives
      <3>3. c \in recvs' => c \in recvs \/ (w \in Receiving(c) /\ w \notin Receiving(c)')
        BY <1>5, <2>0, <2>4, HandlerReceives
      <3> QED  BY <1>1, <2>2, <3>1, <3>2, <3>3 DEF Bit
    <2> QED  BY <2>3, <2>4
  <1> QED  BY <1>3, <1>4, <1>5

\* A handler changes what belongs to its connection, and to no other.
LEMMA HandlerFrame ==
  ASSUME Types, NEW w \in Workers, Worker(w), ~Dequeue(w)
  PROVE  /\ \A c \in Clients \ {Client(w)} :
                 /\ ctx'[c] = ctx[c] /\ map'[c] = map[c] /\ told'[c] = told[c]
                 /\ sends'[c] = sends[c] /\ ios'[c] = ios[c]
         /\ \A c \in Clients : (ctx'[c] = "none" <=> ctx[c] = "none") \/ AcceptBind(w)
         /\ \A c \in Clients : ctx'[c] = "none" => ctx[c] = "none"
         /\ \A c \in Clients : told[c] \subseteq told'[c]
  <1>1. \/ UNCHANGED ctx
        \/ ctx[Client(w)] = "live" /\ ctx' = [ctx EXCEPT ![Client(w)] = "freed"]
        \/ AcceptBind(w) /\ \E x \in {"live", "freed"} : ctx' = [ctx EXCEPT ![Client(w)] = x]
    BY DEF Worker, Dispatch, SentRemove, AcceptBind, AcceptRecv, AcceptInsert,
           AcceptCallback, AcceptRemove, AcceptPost, RecvCallback, RecvRemove, RecvPost, LostErase,
           LostDelete, Send, SendLookup, SendPost, Delete
  <1>2. UNCHANGED map \/ \E x : map' = [map EXCEPT ![Client(w)] = x]
    BY DEF Worker, Dispatch, SentRemove, AcceptBind, AcceptRecv, AcceptInsert,
           AcceptCallback, AcceptRemove, AcceptPost, RecvCallback, RecvRemove, RecvPost, LostErase,
           LostDelete, Send, SendLookup, SendPost, Insert
  <1>3. UNCHANGED told \/ \E x : Tell(Client(w), x)
    BY DEF Worker, Dispatch, SentRemove, AcceptBind, AcceptRecv, AcceptInsert,
           AcceptCallback, AcceptRemove, AcceptPost, RecvCallback, RecvRemove, RecvPost, LostErase,
           LostDelete, Send, SendLookup, SendPost, ghostVars
  <1>4. UNCHANGED sends \/ \E x : sends' = [sends EXCEPT ![Client(w)] = x]
    BY DEF Worker, Dispatch, SentRemove, AcceptBind, AcceptRecv, AcceptInsert,
           AcceptCallback, AcceptRemove, AcceptPost, RecvCallback, RecvRemove, RecvPost, LostErase,
           LostDelete, Send, SendLookup, SendPost, kernelVars
  <1>5. UNCHANGED ios \/ \E x : \E o \in {Client(w), Listen} : ios' = [ios EXCEPT ![o] = x]
    BY DEF Worker, Dispatch, SentRemove, AcceptBind, AcceptRecv, AcceptInsert,
           AcceptCallback, AcceptRemove, AcceptPost, RecvCallback, RecvRemove, RecvPost, LostErase,
           LostDelete, Send, SendLookup, SendPost, Delete, PostAccept, NewIOContext, RemoveContext
  <1>6. \A c \in Clients \ {Client(w)} : ctx'[c] = ctx[c] /\ map'[c] = map[c]
    BY <1>1, <1>2 DEF Types, ContextTypes
  <1>7. \A c \in Clients : /\ (ctx'[c] = "none" <=> ctx[c] = "none") \/ AcceptBind(w)
                           /\ ctx'[c] = "none" => ctx[c] = "none"
    BY <1>1 DEF Types, ContextTypes
  <1>8. \A c \in Clients \ {Client(w)} : told'[c] = told[c]
    BY <1>3 DEF Types, ContextTypes, Tell
  <1>9. \A c \in Clients : told[c] \subseteq told'[c]
    BY <1>3 DEF Types, ContextTypes, Tell
  <1>10. \A c \in Clients \ {Client(w)} : sends'[c] = sends[c]
    BY <1>4 DEF Types, KernelTypes
  <1>11. \A c \in Clients \ {Client(w)} : ios'[c] = ios[c]
    BY <1>5, Constants DEF Types, ContextTypes
  <1> QED  BY <1>6, <1>7, <1>8, <1>9, <1>10, <1>11

\* The one worker that has the right to receive for a connection.
LEMMA OnlyReceiver ==
  ASSUME Types, OneReceive, NEW c \in Clients, NEW w \in Receiving(c)
  PROVE  /\ c \notin recvs /\ Receiving(c) = {w}
         /\ \A kinds \in SUBSET {"accept", "data", "close"} : Queued(kinds, c) = 0
  <1>1. port \in Seq(Packets)
    BY DEF Types, PortTypes
  <1>2. /\ Bit(c \in recvs) + Queued({"accept", "data", "close"}, c) + Cardinality(Receiving(c)) <= 1
        /\ Queued({"accept", "data", "close"}, c) \in Nat
    BY <1>1, QueuedIs DEF OneReceive
  <1>3. IsFiniteSet(Receiving(c)) /\ Cardinality(Receiving(c)) \in Nat /\ Cardinality(Receiving(c)) >= 1
    BY WorkerSets, AtLeastOne
  <1>4. c \notin recvs /\ Queued({"accept", "data", "close"}, c) = 0 /\ Cardinality(Receiving(c)) <= 1
    BY <1>2, <1>3 DEF Bit
  <1>5. Receiving(c) = {w}
    BY <1>3, <1>4, AtMostOne
  <1>6. ASSUME NEW kinds \in SUBSET {"accept", "data", "close"} PROVE Queued(kinds, c) = 0
    <2>1. \A i \in 1..Len(port) : ~(port[i].kind \in {"accept", "data", "close"} /\ port[i].who = c)
      BY <1>1, <1>4, QueuedIs
    <2>2. \A i \in 1..Len(port) : ~(port[i].kind \in kinds /\ port[i].who = c)
      BY <2>1
    <2> QED  BY <1>1, <2>2, QueuedIs
  <1> QED  BY <1>4, <1>5, <1>6

\* A packet at the head of the port is one of those queued.
LEMMA HeadQueued ==
  ASSUME Types, port # <<>>, NEW kinds, NEW c, Head(port).kind \in kinds, Head(port).who = c
  PROVE  Queued(kinds, c) # 0
  <1>1. port \in Seq(Packets)
    BY DEF Types, PortTypes
  <1>2. Len(port) >= 1 /\ Len(port) \in Nat /\ Head(port) = port[1]
    BY <1>1, HeadTailProperties, LenProperties, EmptySeq
  <1> QED  BY <1>1, <1>2, QueuedIs

LEMMA UnboundStep ==
  ASSUME Types, Locations, Unbound, OneReceive, Application \/ Kernel \/ \E w \in Workers : Worker(w)
  PROVE  Unbound'
  <1> DEFINE done == {"data", "close", "sent", "unsent", "fail"}
             NoneOf(c) == /\ c \notin recvs /\ sends[c] = 0 /\ map[c] = "absent" /\ told[c] = {}
                          /\ failed[c] = 0 /\ Queued(done, c) = 0
             AllBind(c) == \A w \in Workers : cur[w].who = c => Binds(w, c)
             NoAccept(c) == Queued({"accept"}, c) = 0 /\ \A w \in Workers : ~Binds(w, c)
  <1>0. port \in Seq(Packets)
    BY DEF Types, PortTypes
  <1> SUFFICES ASSUME NEW c \in Clients
               PROVE  /\ ctx'[c] = "none" => NoneOf(c)' /\ AllBind(c)'
                      /\ ctx'[c] # "none" => NoAccept(c)'
    BY DEF Unbound
  <1>1. /\ ctx[c] = "none" => NoneOf(c) /\ AllBind(c)
        /\ ctx[c] # "none" => NoAccept(c)
    BY DEF Unbound
  <1>2. CASE Application
    <2>1. UNCHANGED <<recvs, sends, failed>> /\ (UNCHANGED port \/ port' = port \o ExitPackets)
      BY <1>2 DEF Application, StartThreads, StartAccept, RemoveTake, ShutdownCall, Finish, RemoveDelete,
             ShutdownNext, ShutdownDelete, ShutdownNull, ShutdownExits, kernelVars, ghostVars
    <2>2. \A w \in Workers : cur'[w] = cur[w] /\ (pc'[w] = pc[w] \/ cur[w].kind = "none")
      BY <1>2, AppMoves, StartMoves DEF Types
    <2>3. \A w \in Workers : (cur[w].who = c => Binds(w, c))' <=> (cur[w].who = c => Binds(w, c))
      BY <2>2 DEF Binds, Packet
    <2>4. \A w \in Workers : Binds(w, c)' <=> Binds(w, c)
      BY <2>2 DEF Binds, Packet
    <2>5. Queued(done, c)' = Queued(done, c) /\ Queued({"accept"}, c)' = Queued({"accept"}, c)
      BY <1>0, <2>1, QueueStays
    <2>6. ctx'[c] = "none" <=> ctx[c] = "none"
      <3>1. UNCHANGED ctx \/ \E d : ctx[d] = "live" /\ ctx' = [ctx EXCEPT ![d] = "freed"]
        BY <1>2 DEF Application, StartThreads, StartAccept, RemoveTake, ShutdownCall, Finish, RemoveDelete,
             ShutdownNext, ShutdownDelete, ShutdownNull, ShutdownExits, Delete
      <3> QED  BY <3>1 DEF Types, ContextTypes
    <2>7. ctx[c] = "none" => UNCHANGED <<map[c], told[c]>>
      <3>1. ASSUME NEW d \in Clients, RemoveTake(d), ctx[c] = "none" PROVE UNCHANGED <<map[c], told[c]>>
        <4>1. "accepted" \in told[d] /\ map' = [map EXCEPT ![d] = "absent"] /\ Tell(d, "removed")
          BY <3>1 DEF RemoveTake
        <4>2. d # c
          BY <1>1, <3>1, <4>1
        <4> QED  BY <4>1, <4>2 DEF Tell, Types, ContextTypes
      <3>2. CASE ShutdownNull /\ ctx[c] = "none"
        <4>1. /\ map[Client(App)] # "absent" /\ map' = [map EXCEPT ![Client(App)] = "null"]
              /\ Tell(Client(App), "removed")
          BY <3>2 DEF ShutdownNull
        <4>2. Client(App) # c
          BY <1>1, <3>2, <4>1
        <4> QED  BY <4>1, <4>2 DEF Tell, Types, ContextTypes
      <3>3. CASE ~ShutdownNull /\ ~\E d \in Clients : RemoveTake(d)
        BY <1>2, <3>3 DEF Application, StartThreads, StartAccept, ShutdownCall, Finish, RemoveDelete,
             ShutdownNext, ShutdownDelete, ShutdownExits, ghostVars
      <3> QED  BY <3>1, <3>2, <3>3
    <2> QED  BY <1>1, <2>1, <2>3, <2>4, <2>5, <2>6, <2>7
  <1>3. CASE Kernel
    <2>1. PICK p \in Packets : port' = Append(port, p) /\ Took(p)
      BY <1>3, KernelMoves
    <2>2. UNCHANGED <<ctx, map, pc, cur, failed, told>>
      BY <1>3, KernelMoves DEF threadVars, ghostVars
    <2>3. AllBind(c)' <=> AllBind(c)
      BY <2>2 DEF Binds, Packet
    <2>4. (\A w \in Workers : ~Binds(w, c))' <=> \A w \in Workers : ~Binds(w, c)
      BY <2>2 DEF Binds, Packet
    <2>5. /\ Queued(done, c)' = Queued(done, c) + Bit(p.kind \in done /\ p.who = c)
          /\ Queued({"accept"}, c)' = Queued({"accept"}, c) + Bit(p.kind \in {"accept"} /\ p.who = c)
      BY <1>0, <2>1, QueueGrows
    <2>6. ASSUME ctx[c] = "none" PROVE NoneOf(c)' /\ AllBind(c)'
      <3>1. ~(p.kind \in done /\ p.who = c)
        BY <1>1, <2>1, <2>6, Constants DEF Took, Packet
      <3>2. c \notin recvs' /\ sends'[c] = 0
        BY <1>1, <2>1, <2>6 DEF Took, Types, KernelTypes
      <3>3. Queued(done, c)' = 0
        BY <1>1, <2>5, <2>6, <3>1 DEF Bit
      <3> QED  BY <1>1, <2>2, <2>3, <2>6, <3>2, <3>3
    <2>7. ASSUME ctx[c] # "none" PROVE NoAccept(c)'
      <3>1. ~(p.kind \in {"accept"} /\ p.who = c)
        BY <2>1, <2>7 DEF Took, Packet, Fresh
      <3>2. Queued({"accept"}, c)' = 0
        BY <1>1, <2>5, <2>7, <3>1 DEF Bit
      <3> QED  BY <1>1, <2>4, <2>7, <3>2
    <2> QED  BY <2>2, <2>6, <2>7
  <1>4. ASSUME NEW w \in Workers, Worker(w)
        PROVE  /\ ctx'[c] = "none" => NoneOf(c)' /\ AllBind(c)'
               /\ ctx'[c] # "none" => NoAccept(c)'
    <2>0. LocationsOf(w) /\ ThreadTypes /\ PortTypes
      BY DEF Locations, Types
    <2>1. \A v \in Workers \ {w} : pc'[v] = pc[v] /\ cur'[v] = cur[v]
      BY <1>4, <2>0, WorkerMoves, Constants
    <2>2. \A v \in Workers \ {w} : /\ Binds(v, c)' <=> Binds(v, c)
                                   /\ (cur[v].who = c => Binds(v, c))' <=> (cur[v].who = c => Binds(v, c))
      BY <2>1 DEF Binds, Packet
    <2>3. CASE Dequeue(w)
      <3>1. /\ Queued(done, c)' \in Nat
            /\ Queued({"accept"}, c)' \in Nat
            /\ Queued(done, c) = Queued(done, c)' + Bit(Head(port).kind \in done /\ Head(port).who = c)
            /\ Queued({"accept"}, c) = Queued({"accept"}, c)' + Bit(Head(port).kind \in {"accept"} /\ Head(port).who = c)
        BY <1>0, <2>0, <2>3, DequeueMoves, QueueShrinks
      <3>2. /\ UNCHANGED <<ctx, map, told, recvs, sends>> /\ cur[w].kind = "none"
            /\ Head(port) \in Packets
            /\ \/ Head(port).kind = "exit" /\ UNCHANGED <<cur, failed>>
               \/ /\ Head(port).kind = "fail" /\ UNCHANGED <<cur, pc>>
                  /\ failed' = [failed EXCEPT ![Head(port).who] = @ + 1]
               \/ /\ Head(port).kind \in {"accept", "data", "close", "sent", "unsent"}
                  /\ pc'[w] = "completed" /\ cur'[w] = Head(port) /\ UNCHANGED failed
        BY <2>0, <2>3, DequeueMoves DEF kernelVars
      <3>3. ASSUME ctx[c] = "none" PROVE NoneOf(c)' /\ AllBind(c)'
        <4>1. ~(Head(port).kind \in done /\ Head(port).who = c) /\ Queued(done, c)' = 0
          BY <1>1, <3>1, <3>3 DEF Bit
        <4>2. failed'[c] = 0
          <5>1. failed[c] = 0 /\ failed \in [Owners -> Nat] /\ c \in Owners
            BY <1>1, <3>3, Constants DEF Types, ContextTypes
          <5>2. \/ UNCHANGED failed
                \/ Head(port).who # c /\ failed' = [failed EXCEPT ![Head(port).who] = @ + 1]
            BY <3>2, <4>1
          <5> QED  BY <5>1, <5>2
        <4>3. cur'[w].who = c => Binds(w, c)'
          <5>1. CASE cur'[w] = cur[w]
            <6>1. cur[w].who # c
              BY <1>1, <3>2, <3>3 DEF Binds, Packet
            <6> QED  BY <5>1, <6>1
          <5>2. CASE Head(port).kind \in {"accept", "data", "close", "sent", "unsent"} /\ pc'[w] = "completed" /\ cur'[w] = Head(port)
            <6>1. Head(port).who = c => Head(port).kind = "accept"
              BY <4>1, <5>2
            <6>2. Head(port).who = c => Head(port) = Packet("accept", c)
              BY <3>2, <6>1 DEF Packets, Packet
            <6> QED  BY <5>2, <6>2 DEF Binds, binding
          <5> QED  BY <3>2, <5>1, <5>2
        <4> QED  BY <1>1, <2>2, <3>2, <3>3, <4>1, <4>2, <4>3
      <3>4. ASSUME ctx[c] # "none" PROVE NoAccept(c)'
        <4>1. ~(Head(port).kind \in {"accept"} /\ Head(port).who = c) /\ Queued({"accept"}, c)' = 0
          BY <1>1, <3>1, <3>4 DEF Bit
        <4>2. ~Binds(w, c)'
          BY <3>2, <4>1 DEF Binds, Packet
        <4> QED  BY <1>1, <2>2, <3>4, <4>1, <4>2
      <3> QED  BY <3>2, <3>3, <3>4
    <2>4. CASE ~Dequeue(w)
      <3>1. /\ UNCHANGED <<port, failed>>
            /\ \/ cur'[w] = cur[w] /\ pc'[w] # "completed"
               \/ cur'[w] = NoPacket /\ pc'[w] = "dequeue"
        BY <1>4, <2>0, <2>4, HandlerMoves
      <3>2. Queued(done, c)' = Queued(done, c) /\ Queued({"accept"}, c)' = Queued({"accept"}, c)
        BY <1>0, <3>1, QueueStays
      <3>3. ASSUME ctx'[c] = "none" PROVE NoneOf(c)' /\ AllBind(c)'
        <4>1. ctx[c] = "none"
          BY <1>4, <2>4, <3>3, HandlerFrame
        <4>2. CASE Client(w) = c
          <5>1. cur[w] = Packet("accept", c) /\ pc[w] \in {"completed", "accept.bind"}
            BY <1>1, <4>1, <4>2 DEF Binds, binding, Client
          <5>2. ~AcceptBind(w)
            BY <3>3, <4>2 DEF AcceptBind, Types, ContextTypes
          <5>3. Dispatch(w)
            BY <1>4, <2>4, <5>1, <5>2 DEF Worker, SentRemove, AcceptRecv, AcceptInsert,
               AcceptCallback, AcceptRemove, AcceptPost, RecvCallback, RecvRemove, RecvPost, LostErase,
               LostDelete, Send, SendLookup, SendPost, At
          <5>4. /\ UNCHANGED <<map, told, recvs, sends, cur>> /\ pc'[w] = "accept.bind"
            BY <2>0, <5>1, <5>3, Constants DEF Dispatch, Goto, Handler, Packet, kernelVars, ThreadTypes
          <5> QED  BY <1>1, <2>2, <3>1, <3>2, <4>1, <5>1, <5>4 DEF Binds, binding, Packet
        <4>3. CASE Client(w) # c
          <5>1. map'[c] = map[c] /\ told'[c] = told[c] /\ sends'[c] = sends[c]
            BY <1>4, <2>4, <4>3, HandlerFrame
          <5>2. c \in recvs' => c \in recvs
            BY <1>4, <2>0, <2>4, <4>3, HandlerReceives
          <5>3. cur'[w].who # c
            BY <3>1, <4>3, Constants DEF NoPacket, Packet, Client
          <5> QED  BY <1>1, <2>2, <3>1, <3>2, <4>1, <5>1, <5>2, <5>3
        <4> QED  BY <4>2, <4>3
      <3>4. ASSUME ctx'[c] # "none" PROVE NoAccept(c)'
        <4>1. CASE ctx[c] # "none"
          <5>1. ~Binds(w, c)'
            <6>1. ~Binds(w, c)
              BY <1>1, <4>1
            <6>2. Binds(w, c)' => cur'[w] = cur[w] /\ pc'[w] = "accept.bind"
              BY <3>1 DEF Binds, binding, Packet, NoPacket
            <6>3. pc'[w] = "accept.bind" => pc[w] \in {"completed"} \/ pc[w] \in sending
              BY <1>4, <2>0, <2>4, Constants DEF Worker, Dispatch, SentRemove, AcceptBind, AcceptRecv, AcceptInsert,
               AcceptCallback, AcceptRemove, AcceptPost, RecvCallback, RecvRemove, RecvPost, LostErase,
               LostDelete, Send, SendLookup, SendPost, At, Goto, Done, ThreadTypes, sending
            <6>4. pc'[w] = "accept.bind" => pc[w] \notin sending
              <7>1. pc[w] \in sending => back[w] \in {"accept.remove", "recv.remove"}
                BY <2>0 DEF LocationsOf, sending, opening, binding
              <7>2. pc[w] \in sending => Send(w)
                BY <1>4, <2>4 DEF Worker, Dispatch, SentRemove, AcceptBind, AcceptRecv, AcceptInsert,
                  AcceptCallback, AcceptRemove, AcceptPost, RecvCallback, RecvRemove, RecvPost, LostErase,
                  LostDelete, At, sending
              <7>3. Send(w) => pc'[w] \in {"send.post", back[w]}
                BY <2>0, Constants DEF Send, SendLookup, SendPost, Goto, ThreadTypes
              <7> QED  BY <7>1, <7>2, <7>3
            <6> QED  BY <6>1, <6>2, <6>3, <6>4 DEF Binds, binding, Packet
          <5> QED  BY <1>1, <2>2, <3>2, <4>1, <5>1
        <4>2. CASE ctx[c] = "none"
          <5>1. AcceptBind(w) /\ Client(w) = c
            BY <1>4, <2>4, <3>4, <4>2, HandlerFrame
          <5>2. pc[w] = "accept.bind" /\ pc'[w] \in {"accept.recv", "dequeue"}
            BY <2>0, <5>1, Constants DEF AcceptBind, At, Goto, Done, ThreadTypes
          <5>3. cur[w].kind = "accept" /\ cur[w].who = c
            BY <2>0, <5>1, <5>2 DEF LocationsOf, sending, Client
          <5>4. w \in Receiving(c)
            BY <5>2, <5>3 DEF Receiving, opening, binding
          <5>5. Queued({"accept"}, c) = 0 /\ Receiving(c) = {w}
            BY <5>4, OnlyReceiver
          <5>6. \A v \in Workers : Binds(v, c) => v \in Receiving(c)
            BY DEF Binds, Packet, Receiving, opening
          <5>7. ~Binds(w, c)'
            BY <5>2 DEF Binds, binding
          <5> QED  BY <2>2, <3>2, <5>5, <5>6, <5>7
        <4> QED  BY <4>1, <4>2
      <3> QED  BY <3>3, <3>4
    <2> QED  BY <2>3, <2>4
  <1> QED  BY <1>2, <1>3, <1>4
-----------------------------------------------------------------------------
\* No worker moves in a step of the application or the kernel, but that Start
\* creates them.
LEMMA OthersStay ==
  ASSUME Types, Locations, Application \/ Kernel
  PROVE  \A w \in Workers : /\ cur'[w] = cur[w]
                            /\ \/ pc'[w] = pc[w]
                               \/ cur[w].kind = "none" /\ pc'[w] \in {"none", "dequeue"}
  BY AppMoves, StartMoves, KernelMoves DEF Types, threadVars

\* What the application was told is not taken back.
LEMMA ToldGrows ==
  ASSUME ContextTypes, Tells
  PROVE  \A c \in Clients : told[c] \subseteq told'[c]
  BY DEF ContextTypes, Tells, Tell

LEMMA AppTells ==
  ASSUME Types, Application
  PROVE  \A c \in Clients : told'[c] \subseteq told[c] \cup {"removed"}
  <1>1. UNCHANGED told \/ \E c : Tell(c, "removed")
    BY DEF Application, StartThreads, StartAccept, RemoveTake, ShutdownCall, Finish, RemoveDelete,
           ShutdownNext, ShutdownDelete, ShutdownNull, ShutdownExits, ghostVars
  <1> QED  BY <1>1 DEF Types, ContextTypes, Tell

LEMMA OneAcceptStep ==
  ASSUME Types, Locations, Unbound, OneReceive, OneAccept,
         Application \/ Kernel \/ \E w \in Workers : Worker(w)
  PROVE  OneAccept'
  <1>1. CASE Application \/ Kernel
    BY <1>1, OthersStay DEF OneAccept
  <1>2. ASSUME NEW w \in Workers, Worker(w) PROVE OneAccept'
    <2>0. LocationsOf(w) /\ ThreadTypes /\ PortTypes
      BY DEF Locations, Types
    <2>1. \A v \in Workers \ {w} : pc'[v] = pc[v] /\ cur'[v] = cur[v]
      BY <1>2, <2>0, WorkerMoves, Constants
    <2>2. CASE cur'[w] = cur[w] \/ cur'[w].kind # "accept"
      <3> SUFFICES ASSUME NEW u \in Workers, NEW v \in Workers, cur'[u].kind = "accept", cur'[u] = cur'[v]
                   PROVE  u = v
        BY DEF OneAccept
      <3>1. cur'[u] = cur[u] /\ cur'[v] = cur[v]
        BY <2>1, <2>2
      <3> QED  BY <3>1 DEF OneAccept
    <2>3. CASE Dequeue(w) /\ cur'[w] # cur[w] /\ cur'[w].kind = "accept"
      <3>1. /\ port # <<>> /\ Head(port) \in Packets /\ cur'[w] = Head(port)
            /\ Head(port).kind = "accept" /\ Head(port).who \in Clients
        BY <2>0, <2>3, DequeueMoves
      <3>2. PICK c \in Clients : Head(port).who = c
        BY <3>1
      <3>3. Queued({"accept"}, c) # 0
        BY <3>1, <3>2, HeadQueued
      <3>4. ctx[c] = "none"
        BY <3>3 DEF Unbound
      <3>5. ASSUME NEW v \in Workers \ {w}, cur[v].who = c PROVE FALSE
        <4>1. Binds(v, c)
          BY <3>4, <3>5 DEF Unbound
        <4>2. v \in Receiving(c)
          BY <4>1 DEF Binds, Receiving, Packet, opening
        <4> QED  BY <3>3, <4>2, OnlyReceiver
      <3> SUFFICES ASSUME NEW u \in Workers, NEW v \in Workers, cur'[u].kind = "accept", cur'[u] = cur'[v]
                   PROVE  u = v
        BY DEF OneAccept
      <3>6. CASE u # w /\ v # w
        BY <2>1, <3>6 DEF OneAccept
      <3>7. CASE u = w /\ v # w
        BY <2>1, <3>1, <3>2, <3>5, <3>7
      <3>8. CASE u # w /\ v = w
        BY <2>1, <3>1, <3>2, <3>5, <3>8
      <3> QED  BY <3>6, <3>7, <3>8
    <2>4. ~Dequeue(w) => cur'[w] = cur[w] \/ cur'[w].kind # "accept"
      BY <1>2, <2>0, HandlerMoves DEF NoPacket, Packet
    <2> QED  BY <2>2, <2>3, <2>4
  <1> QED  BY <1>1, <1>2

LEMMA LostStep ==
  ASSUME Types, Locations, Unbound, OneReceive, Lost,
         Application \/ Kernel \/ \E w \in Workers : Worker(w)
  PROVE  Lost'
  <1> DEFINE kinds == {"accept", "data", "close"}
             leaving == {"lost.erase", "lost.delete"}
             Over(c) == /\ c \notin recvs /\ Queued(kinds, c) = 0
                        /\ \A w \in Receiving(c) : pc[w] \in leaving
             Left(w) == pc[w] \in leaving => Loss(w) \in told[Client(w)]
  <1>0. port \in Seq(Packets)
    BY DEF Types, PortTypes
  <1>1. /\ \A c \in Clients : "lost" \in told[c] => Over(c)
        /\ \A w \in Workers : Left(w)
    BY DEF Lost
  <1> SUFFICES /\ \A c \in Clients : "lost" \in told'[c] => Over(c)'
               /\ \A w \in Workers : Left(w)'
    BY DEF Lost
  <1>2. CASE Application \/ Kernel
    <2>1. \A w \in Workers : /\ cur'[w] = cur[w]
                             /\ \/ pc'[w] = pc[w]
                                \/ cur[w].kind = "none" /\ pc'[w] \in {"none", "dequeue"}
      BY <1>2, OthersStay
    <2>2. \A c \in Clients : /\ "lost" \in told'[c] => "lost" \in told[c]
                             /\ told[c] \subseteq told'[c]
      <3>1. CASE Application
        BY <3>1, AppTells, AppChanges, ToldGrows DEF Types
      <3>2. CASE Kernel
        BY <3>2, KernelMoves DEF ghostVars
      <3> QED  BY <1>2, <3>1, <3>2
    <2>3. \A w \in Workers : Left(w)'
      <3> SUFFICES ASSUME NEW w \in Workers, pc'[w] \in leaving PROVE Loss(w)' \in told'[Client(w)']
        OBVIOUS
      <3>1. pc'[w] = pc[w] /\ Client(w)' = Client(w) /\ Loss(w)' = Loss(w)
        BY <2>1 DEF Client, Loss
      <3>2. Client(w) \in Clients
        BY <3>1, Handles DEF Locations
      <3> QED  BY <1>1, <2>2, <3>1, <3>2
    <2>4. ASSUME NEW c \in Clients, "lost" \in told[c] PROVE Over(c)'
      <3>1. \A w \in Receiving(c)' : w \in Receiving(c) /\ pc'[w] = pc[w]
        BY <2>1 DEF Receiving
      <3>2. Over(c) /\ ctx[c] # "none"
        BY <1>1, <2>4 DEF Unbound
      <3>3. CASE Application
        <4>1. UNCHANGED recvs /\ (UNCHANGED port \/ port' = port \o ExitPackets)
          BY <3>3 DEF Application, StartThreads, StartAccept, RemoveTake, ShutdownCall, Finish, RemoveDelete,
             ShutdownNext, ShutdownDelete, ShutdownNull, ShutdownExits, kernelVars
        <4>2. Queued(kinds, c)' = Queued(kinds, c)
          BY <1>0, <4>1, QueueStays
        <4> QED  BY <3>1, <3>2, <4>1, <4>2
      <3>4. CASE Kernel
        <4>1. PICK p \in Packets : port' = Append(port, p) /\ Took(p)
          BY <3>4, KernelMoves
        <4>2. ~(p.kind \in kinds /\ p.who = c) /\ c \notin recvs'
          BY <3>2, <4>1 DEF Took, Packet, Fresh
        <4>3. Queued(kinds, c)' = 0
          BY <1>0, <3>2, <4>1, <4>2, QueueGrows DEF Bit
        <4> QED  BY <3>1, <3>2, <4>2, <4>3
      <3> QED  BY <1>2, <3>3, <3>4
    <2> QED  BY <2>2, <2>3, <2>4
  <1>3. ASSUME NEW w \in Workers, Worker(w)
        PROVE  /\ \A c \in Clients : "lost" \in told'[c] => Over(c)'
               /\ \A v \in Workers : Left(v)'
    <2>0. LocationsOf(w) /\ ThreadTypes /\ PortTypes /\ ContextTypes
      BY DEF Locations, Types
    <2>1. \A v \in Workers \ {w} : pc'[v] = pc[v] /\ cur'[v] = cur[v]
      BY <1>3, <2>0, WorkerMoves, Constants
    <2>2. \A c \in Clients : told[c] \subseteq told'[c]
      BY <1>3, <2>0, WorkerChanges, ToldGrows
    <2>3. \A v \in Workers \ {w} : Left(v)'
      <3> SUFFICES ASSUME NEW v \in Workers \ {w}, pc'[v] \in leaving PROVE Loss(v)' \in told'[Client(v)']
        OBVIOUS
      <3>1. pc'[v] = pc[v] /\ Client(v)' = Client(v) /\ Loss(v)' = Loss(v)
        BY <2>1 DEF Client, Loss
      <3>2. Client(v) \in Clients
        BY <3>1, Handles DEF Locations
      <3> QED  BY <1>1, <2>2, <3>1, <3>2
    <2>4. \A c \in Clients : \A v \in Receiving(c)' : v # w => v \in Receiving(c) /\ pc'[v] = pc[v]
      BY <2>1 DEF Receiving
    <2>5. CASE Dequeue(w)
      <3>1. /\ \A c \in Clients : told'[c] = told[c]
            /\ UNCHANGED recvs /\ pc'[w] \notin leaving
            /\ port # <<>> /\ port' = Tail(port)
            /\ \A c : w \in Receiving(c)' => Head(port).kind \in kinds /\ Head(port).who = c
        BY <2>0, <2>5, DequeueMoves DEF kernelVars, Receiving
      <3>2. ASSUME NEW c \in Clients, "lost" \in told[c] PROVE Over(c)'
        <4>1. Over(c)
          BY <1>1, <3>2
        <4>2. ~(Head(port).kind \in kinds /\ Head(port).who = c)
          BY <3>1, <4>1, HeadQueued
        <4>3. Queued(kinds, c)' = 0
          BY <1>0, <3>1, <4>1, <4>2, QueueShrinks DEF Bit
        <4> QED  BY <2>4, <3>1, <4>1, <4>2, <4>3
      <3> QED  BY <2>3, <3>1, <3>2
    <2>6. CASE ~Dequeue(w)
      <3>1. /\ UNCHANGED port /\ cur[w].kind \in {"accept", "data", "close", "sent", "unsent"} /\ Client(w) \in Clients
            /\ \/ cur'[w] = cur[w]
               \/ cur'[w] = NoPacket /\ pc'[w] = "dequeue"
        BY <1>3, <2>0, <2>6, HandlerMoves
      <3>2. /\ \A c : w \in Receiving(c)' => w \in Receiving(c)
            /\ \/ UNCHANGED recvs
               \/ /\ recvs' = recvs \cup {Client(w)}
                  /\ w \in Receiving(Client(w)) /\ \A c : w \notin Receiving(c)'
                  /\ pc[w] \in {"accept.recv", "recv.post"}
        BY <1>3, <2>0, <2>6, HandlerReceives
      <3>3. \A c : Queued(kinds, c)' = Queued(kinds, c)
        BY <1>0, <3>1, QueueStays
      <3>4. CASE Dispatch(w) /\ cur[w].kind = "close"
        <4>1. /\ UNCHANGED recvs /\ pc'[w] = "lost.erase" /\ cur'[w] = cur[w] /\ Tell(Client(w), "lost")
          BY <2>0, <3>4, Constants DEF Dispatch, Goto, Handler, kernelVars, ThreadTypes
        <4>0. PICK d \in Clients : d = Client(w)
          BY <3>1
        <4>2. w \in Receiving(d)
          BY <3>4, <4>0 DEF Receiving, Client
        <4>3. Receiving(d) = {w} /\ d \notin recvs /\ Queued(kinds, d) = 0
          BY <4>2, OnlyReceiver
        <4>4. Over(d)'
          BY <2>4, <3>2, <3>3, <4>1, <4>3
        <4>5. "lost" \in told'[Client(w)']
          BY <2>0, <3>1, <4>1 DEF Tell, ContextTypes, Client
        <4>6. ASSUME NEW c \in Clients, c # d, "lost" \in told'[c] PROVE Over(c)'
          <5>1. "lost" \in told[c]
            BY <1>3, <2>6, <4>0, <4>6, HandlerFrame
          <5>2. Over(c) /\ w \notin Receiving(c)
            BY <1>1, <4>0, <4>6, <5>1 DEF Receiving, Client
          <5> QED  BY <2>4, <3>2, <3>3, <4>1, <5>2
        <4>7. \A c \in Clients : "lost" \in told'[c] => Over(c)'
          BY <4>4, <4>6
        <4>8. Left(w)'
          BY <3>4, <4>1, <4>5 DEF Client, Loss
        <4> QED  BY <2>3, <4>7, <4>8
      <3>5. CASE ~(Dispatch(w) /\ cur[w].kind = "close")
        <4>1. \A c \in Clients : "lost" \in told'[c] => "lost" \in told[c]
          <5>1. UNCHANGED told \/ Tell(Client(w), "accepted") \/ Tell(Client(w), "dropped")
            BY <1>3, <2>6, <3>5 DEF Worker, Dispatch, SentRemove, AcceptBind, AcceptRecv, AcceptInsert,
               AcceptCallback, AcceptRemove, AcceptPost, RecvCallback, RecvRemove, RecvPost, LostErase,
               LostDelete, Send, SendLookup, SendPost, ghostVars
          <5> QED  BY <2>0, <5>1 DEF Tell, ContextTypes
        <4>2. ASSUME pc'[w] \in leaving
              PROVE  /\ cur'[w] = cur[w]
                     /\ pc[w] = "lost.erase" \/ (cur[w].kind = "unsent" /\ Tell(Client(w), "dropped"))
          <5>1. ~SendLookup(w) /\ ~SendPost(w)
            <6>1. SendLookup(w) \/ SendPost(w) => pc[w] \in sending /\ pc'[w] \in {"send.post", back[w]}
              BY <2>0, Constants DEF SendLookup, SendPost, At, Goto, ThreadTypes, sending
            <6>2. pc[w] \in sending => back[w] \in {"accept.remove", "recv.remove"}
              BY <2>0 DEF LocationsOf, sending, opening, binding
            <6> QED  BY <4>2, <6>1, <6>2
          <5>2. CASE Dispatch(w)
            <6>1. pc'[w] = Handler(cur[w].kind) /\ UNCHANGED cur
              BY <2>0, <5>2, Constants DEF Dispatch, Goto, ThreadTypes
            <6>2. cur[w].kind = "unsent"
              BY <3>1, <3>5, <4>2, <5>2, <6>1 DEF Handler
            <6>3. Tell(Client(w), "dropped")
              BY <5>2, <6>2 DEF Dispatch
            <6> QED  BY <6>1, <6>2, <6>3
          <5>3. CASE ~Dispatch(w)
            <6>1. LostErase(w)
              BY <1>3, <2>0, <2>6, <4>2, <5>1, <5>3, Constants
              DEF Worker, SentRemove, AcceptBind, AcceptRecv, AcceptInsert,
               AcceptCallback, AcceptRemove, AcceptPost, RecvCallback, RecvRemove, RecvPost,
               LostDelete, Send, Goto, Done, ThreadTypes
            <6> QED  BY <6>1 DEF LostErase, At
          <5> QED  BY <5>2, <5>3
        <4>3. Left(w)'
          <5> SUFFICES ASSUME pc'[w] \in leaving PROVE Loss(w)' \in told'[Client(w)']
            OBVIOUS
          <5>1. Client(w)' = Client(w) /\ Loss(w)' = Loss(w)
            BY <4>2 DEF Client, Loss
          <5>2. CASE pc[w] = "lost.erase"
            BY <1>1, <2>2, <3>1, <5>1, <5>2
          <5>3. CASE cur[w].kind = "unsent" /\ Tell(Client(w), "dropped")
            BY <2>0, <3>1, <5>1, <5>3 DEF Loss, Tell, ContextTypes
          <5> QED  BY <4>2, <5>2, <5>3
        <4>4. ASSUME NEW c \in Clients, "lost" \in told'[c] PROVE Over(c)'
          <5>1. Over(c)
            BY <1>1, <4>1, <4>4
          <5>2. c \notin recvs'
            BY <3>1, <3>2, <5>1
          <5>3. w \in Receiving(c)' => pc'[w] \in leaving
            <6> SUFFICES ASSUME w \in Receiving(c)' PROVE pc'[w] \in leaving
              OBVIOUS
            <6>1. pc[w] \in leaving /\ cur'[w] = cur[w]
              BY <3>1, <3>2, <5>1, Constants DEF Receiving, NoPacket, Packet
            <6>2. LostErase(w) \/ LostDelete(w)
              BY <1>3, <2>6, <6>1 DEF Worker, Dispatch, SentRemove, AcceptBind, AcceptRecv, AcceptInsert,
               AcceptCallback, AcceptRemove, AcceptPost, RecvCallback, RecvRemove, RecvPost,
               Send, SendLookup, SendPost, At
            <6>3. ~LostDelete(w)
              BY <2>0, <3>1, <6>1, Constants DEF LostDelete, Done, NoPacket, Packet, ThreadTypes
            <6> QED  BY <2>0, <6>2, <6>3, Constants DEF LostErase, Goto, ThreadTypes
          <5> QED  BY <2>4, <3>3, <5>1, <5>2, <5>3
        <4> QED  BY <2>3, <4>3, <4>4
      <3> QED  BY <3>4, <3>5
    <2> QED  BY <2>5, <2>6
  <1> QED  BY <1>2, <1>3

\* Workers that accept the same connection are the same worker.
LEMMA SameAccept ==
  ASSUME ThreadTypes, OneAccept, NEW v \in Workers, NEW w \in Workers,
         cur[v].kind = "accept", cur[w].kind = "accept", Client(v) = Client(w)
  PROVE  v = w
  <1>1. cur[v] \in [kind : CurKinds, who : Owners] /\ cur[w] \in [kind : CurKinds, who : Owners]
    BY Constants DEF ThreadTypes
  <1>2. cur[v] = cur[w]
    BY <1>1 DEF Client
  <1> QED  BY <1>2 DEF OneAccept

\* What the handlers do to the map, and what they tell.
LEMMA HandlerTells ==
  ASSUME Types, NEW w \in Workers, LocationsOf(w), Worker(w), ~Dequeue(w)
  PROVE  /\ \/ UNCHANGED map
            \/ pc[w] = "accept.insert" /\ map' = [map EXCEPT ![Client(w)] = "ctx"]
            \/ pc[w] = "lost.erase" /\ map' = [map EXCEPT ![Client(w)] = "absent"]
            \/ map[Client(w)] # "ctx" /\ map' = [map EXCEPT ![Client(w)] = "null"]
         /\ \/ UNCHANGED told
            \/ pc[w] = "accept.callback" /\ pc'[w] \in {"accept.remove", "send.lookup"} /\ Tell(Client(w), "accepted")
            \/ cur[w].kind = "close" /\ Tell(Client(w), "lost")
            \/ cur[w].kind = "unsent" /\ Tell(Client(w), "dropped")
  <1>1. \/ UNCHANGED map
        \/ pc[w] = "accept.insert" /\ map' = [map EXCEPT ![Client(w)] = "ctx"]
        \/ pc[w] = "lost.erase" /\ map' = [map EXCEPT ![Client(w)] = "absent"]
        \/ map[Client(w)] # "ctx" /\ map' = [map EXCEPT ![Client(w)] = "null"]
    BY DEF Worker, Dispatch, SentRemove, AcceptBind, AcceptRecv, AcceptInsert,
           AcceptCallback, AcceptRemove, AcceptPost, RecvCallback, RecvRemove, RecvPost, LostErase,
           LostDelete, Send, SendLookup, SendPost, Insert, At
  <1>2. CASE AcceptCallback(w)
    BY <1>1, <1>2, Constants DEF AcceptCallback, At, Goto, Types, ThreadTypes
  <1>3. CASE ~AcceptCallback(w)
    <2>1. \/ UNCHANGED told
          \/ cur[w].kind = "close" /\ Tell(Client(w), "lost")
          \/ cur[w].kind = "unsent" /\ Tell(Client(w), "dropped")
      BY <1>3 DEF Worker, Dispatch, SentRemove, AcceptBind, AcceptRecv, AcceptInsert,
           AcceptRemove, AcceptPost, RecvCallback, RecvRemove, RecvPost, LostErase,
           LostDelete, Send, SendLookup, SendPost, ghostVars
    <2> QED  BY <1>1, <2>1
  <1> QED  BY <1>2, <1>3

LEMMA AnnouncedStep ==
  ASSUME Types, Locations, Unbound, OneAccept, Lost, Announced,
         Application \/ Kernel \/ \E w \in Workers : Worker(w)
  PROVE  Announced'
  <1> DEFINE early == opening \cup {"accept.insert", "accept.callback"}
             Heard(c) == told[c] \cap {"lost", "dropped", "removed"} # {}
             Good(v) == cur[v].kind = "accept" =>
                          /\ pc[v] \in early => "accepted" \notin told[Client(v)]
                          /\ pc[v] = "accept.callback" => Heard(Client(v)) \/ map[Client(v)] = "ctx"
  <1>1. \A v \in Workers : Good(v)
    BY DEF Announced, Ended
  <1> SUFFICES ASSUME NEW v \in Workers PROVE Good(v)'
    BY DEF Announced, Ended
  <1>2. CASE Application \/ Kernel
    <2>1. /\ cur'[v] = cur[v] /\ Client(v)' = Client(v)
          /\ \/ pc'[v] = pc[v]
             \/ cur[v].kind = "none" /\ pc'[v] \in {"none", "dequeue"}
      BY <1>2, OthersStay DEF Client
    <2> SUFFICES ASSUME cur[v].kind = "accept", pc'[v] = pc[v] PROVE Good(v)'
      BY <2>1
    <2>2. Client(v) \in Clients
      BY DEF Locations, LocationsOf, Client
    <2>3. /\ "accepted" \in told'[Client(v)] => "accepted" \in told[Client(v)]
          /\ Heard(Client(v)) => told'[Client(v)] \cap {"lost", "dropped", "removed"} # {}
      <3>1. CASE Application
        <4>1. told'[Client(v)] \subseteq told[Client(v)] \cup {"removed"}
          BY <2>2, <3>1, AppTells
        <4>2. told[Client(v)] \subseteq told'[Client(v)]
          BY <2>2, <3>1, AppChanges, ToldGrows DEF Types
        <4> QED  BY <4>1, <4>2
      <3>2. CASE Kernel
        BY <3>2, KernelMoves DEF ghostVars
      <3> QED  BY <1>2, <3>1, <3>2
    <2>4. map[Client(v)] = "ctx" => \/ map'[Client(v)] = "ctx"
                                    \/ told'[Client(v)] \cap {"lost", "dropped", "removed"} # {}
      <3>1. CASE Kernel
        BY <3>1, KernelMoves
      <3>2. CASE Application
        <4>1. UNCHANGED map \/ \E c, x : map' = [map EXCEPT ![c] = x] /\ Tell(c, "removed")
          BY <3>2 DEF Application, StartThreads, StartAccept, RemoveTake, ShutdownCall, Finish, RemoveDelete,
             ShutdownNext, ShutdownDelete, ShutdownNull, ShutdownExits
        <4> QED  BY <2>2, <4>1 DEF Types, ContextTypes, Tell
      <3> QED  BY <1>2, <3>1, <3>2
    <2> QED  BY <1>1, <2>1, <2>3, <2>4
  <1>3. ASSUME NEW w \in Workers, Worker(w) PROVE Good(v)'
    <2>0. LocationsOf(w) /\ LocationsOf(v) /\ ThreadTypes /\ PortTypes /\ ContextTypes
      BY DEF Locations, Types
    <2>1. \A u \in Workers \ {w} : pc'[u] = pc[u] /\ cur'[u] = cur[u]
      BY <1>3, <2>0, WorkerMoves, Constants
    <2>2. \A c \in Clients : told[c] \subseteq told'[c]
      BY <1>3, <2>0, WorkerChanges, ToldGrows
    <2>3. CASE Dequeue(w)
      <3>1. UNCHANGED <<told, map>>
        BY <2>0, <2>3, DequeueMoves
      <3>2. CASE v # w
        BY <1>1, <2>1, <3>1, <3>2 DEF Client
      <3>3. CASE v = w
        <4> SUFFICES ASSUME cur'[w].kind = "accept" PROVE "accepted" \notin told[Client(w)'] /\ pc'[w] = "completed"
          BY <3>1, <3>3
        <4>1. /\ port # <<>> /\ Head(port).kind = "accept" /\ cur'[w] = Head(port) /\ pc'[w] = "completed"
              /\ Head(port).who \in Clients
          BY <2>0, <2>3, DequeueMoves
        <4>2. Queued({"accept"}, Head(port).who) # 0
          BY <4>1, HeadQueued
        <4>3. told[Head(port).who] = {}
          BY <4>1, <4>2 DEF Unbound
        <4> QED  BY <4>1, <4>3 DEF Client
      <3> QED  BY <3>2, <3>3
    <2>4. CASE ~Dequeue(w) /\ v # w
      <3>1. cur'[v] = cur[v] /\ pc'[v] = pc[v] /\ Client(v)' = Client(v)
        BY <2>1, <2>4 DEF Client
      <3> SUFFICES ASSUME cur[v].kind = "accept" PROVE Good(v)'
        BY <3>1
      <3>2. Client(v) \in Clients
        BY <2>0 DEF LocationsOf, Client
      <3>3. CASE Client(w) # Client(v)
        BY <1>1, <1>3, <2>4, <3>1, <3>2, <3>3, HandlerFrame
      <3>4. CASE Client(w) = Client(v)
        <4>1. cur[w].kind # "accept"
          BY <2>0, <2>4, <3>4, SameAccept
        <4>2. pc[w] \notin {"accept.insert", "accept.callback"}
          BY <2>0, <4>1 DEF LocationsOf, sending
        <4>3. UNCHANGED told \/ Tell(Client(w), "lost") \/ Tell(Client(w), "dropped")
          BY <1>3, <2>0, <2>4, <4>2, HandlerTells
        <4>4. "accepted" \in told'[Client(v)] => "accepted" \in told[Client(v)]
          BY <2>0, <3>2, <4>3 DEF ContextTypes, Tell
        <4>5. \/ UNCHANGED map
              \/ pc[w] = "lost.erase"
              \/ map[Client(w)] # "ctx"
          BY <1>3, <2>0, <2>4, <4>2, HandlerTells
        <4>6. pc[w] = "lost.erase" => Heard(Client(v))
          BY <3>4 DEF Lost, Loss
        <4>7. Heard(Client(v)) => told'[Client(v)] \cap {"lost", "dropped", "removed"} # {}
          BY <2>2, <3>2
        <4> QED  BY <1>1, <3>1, <3>4, <4>4, <4>5, <4>6, <4>7
      <3> QED  BY <3>3, <3>4
    <2>5. CASE ~Dequeue(w) /\ v = w
      <3> SUFFICES ASSUME cur'[w].kind = "accept" PROVE Good(w)'
        BY <2>5
      <3>1. cur'[w] = cur[w] /\ Client(w) \in Clients /\ Client(w)' = Client(w)
        BY <1>3, <2>0, <2>5, HandlerMoves DEF NoPacket, Packet, Client
      <3>2. cur[w].kind = "accept" /\ w \in Threads
        BY <3>1, Constants
      <3>3. CASE pc[w] \in early /\ pc'[w] \in early
        <4>1. UNCHANGED told
          BY <1>3, <2>0, <2>5, <3>2, <3>3, HandlerTells DEF opening, binding
        <4>2. pc'[w] = "accept.callback" => map'[Client(w)] = "ctx"
          <5> SUFFICES ASSUME pc'[w] = "accept.callback" PROVE AcceptInsert(w)
            BY <2>0, <3>1 DEF AcceptInsert, Insert, ContextTypes
          <5> QED  BY <1>3, <2>0, <2>5, <3>2, <3>3 DEF Worker, Dispatch, Handler, SentRemove, AcceptBind, AcceptRecv,
               AcceptCallback, AcceptRemove, AcceptPost, RecvCallback, RecvRemove, RecvPost, LostErase,
               LostDelete, Send, SendLookup, SendPost, Goto, Done, ThreadTypes, At, opening, binding
        <4> QED  BY <1>1, <3>1, <3>2, <3>3, <4>1, <4>2
      <3>4. CASE pc'[w] \notin early
        BY <3>4
      <3>5. CASE pc[w] \notin early
        <4>1. \/ pc[w] \in {"accept.remove", "accept.post"}
              \/ pc[w] \in sending /\ back[w] = "accept.remove"
          BY <2>0, <3>2, <3>5 DEF LocationsOf
        <4>2. AcceptRemove(w) \/ AcceptPost(w) \/ SendLookup(w) \/ SendPost(w)
          BY <1>3, <2>5, <4>1 DEF Worker, Dispatch, SentRemove, AcceptBind, AcceptRecv, AcceptInsert,
               AcceptCallback, RecvCallback, RecvRemove, RecvPost, LostErase,
               LostDelete, Send, At, sending
        <4>3. pc'[w] \in {"accept.post", "dequeue", "send.post", "accept.remove"}
          BY <2>0, <3>2, <4>1, <4>2 DEF AcceptRemove, AcceptPost, SendLookup, SendPost, Goto, Done, ThreadTypes, At, sending
        <4> QED  BY <4>3 DEF opening, binding
      <3> QED  BY <3>3, <3>4, <3>5
    <2> QED  BY <2>3, <2>4, <2>5
  <1> QED  BY <1>2, <1>3

LEMMA RegisteredStep ==
  ASSUME Types, Locations, Lost, Announced, Registered,
         Application \/ Kernel \/ \E w \in Workers : Worker(w)
  PROVE  Registered'
  <1> DEFINE Heard(c) == told[c] \cap {"lost", "dropped", "removed"} # {}
  <1> SUFFICES ASSUME NEW c \in Clients, "accepted" \in told'[c], told'[c] \cap {"lost", "dropped", "removed"} = {}
               PROVE  map'[c] = "ctx"
    BY DEF Registered, Ended
  <1>0. ContextTypes
    BY DEF Types
  <1>1. "accepted" \in told[c] /\ ~Heard(c) => map[c] = "ctx"
    BY DEF Registered, Ended
  <1>2. CASE Kernel
    BY <1>1, <1>2, KernelMoves DEF ghostVars
  <1>3. CASE Application
    <2>1. told[c] \subseteq told'[c] /\ told'[c] \subseteq told[c] \cup {"removed"}
      BY <1>0, <1>3, AppTells, AppChanges, ToldGrows
    <2>2. UNCHANGED map \/ \E d, x : map' = [map EXCEPT ![d] = x] /\ Tell(d, "removed")
      BY <1>3 DEF Application, StartThreads, StartAccept, RemoveTake, ShutdownCall, Finish, RemoveDelete,
         ShutdownNext, ShutdownDelete, ShutdownNull, ShutdownExits
    <2>3. map'[c] = map[c]
      BY <1>0, <2>2 DEF ContextTypes, Tell
    <2> QED  BY <1>1, <2>1, <2>3
  <1>4. ASSUME NEW w \in Workers, Worker(w) PROVE map'[c] = "ctx"
    <2>0. LocationsOf(w) /\ ThreadTypes /\ PortTypes
      BY DEF Locations, Types
    <2>1. told[c] \subseteq told'[c]
      BY <1>0, <1>4, WorkerChanges, ToldGrows
    <2>2. CASE Dequeue(w)
      BY <1>1, <2>0, <2>2, DequeueMoves
    <2>3. CASE ~Dequeue(w) /\ Client(w) # c
      BY <1>1, <1>4, <2>3, HandlerFrame
    <2>4. CASE ~Dequeue(w) /\ Client(w) = c
      <3>1. \/ UNCHANGED map
            \/ map'[c] = "ctx"
            \/ pc[w] = "lost.erase"
            \/ map[c] # "ctx"
        BY <1>0, <1>4, <2>0, <2>4, HandlerTells DEF ContextTypes
      <3>2. pc[w] # "lost.erase"
        BY <2>1, <2>4 DEF Lost, Loss
      <3>3. map[c] = "ctx"
        <4>1. \/ UNCHANGED told
              \/ pc[w] = "accept.callback"
              \/ Tell(c, "lost") \/ Tell(c, "dropped")
          BY <1>4, <2>0, <2>4, HandlerTells
        <4>2. ~Tell(c, "lost") /\ ~Tell(c, "dropped")
          BY <1>0 DEF Tell, ContextTypes
        <4>3. pc[w] = "accept.callback" => cur[w].kind = "accept"
          BY <2>0 DEF LocationsOf, sending
        <4>4. ~Heard(c)
          BY <2>1
        <4> QED  BY <1>1, <2>4, <4>1, <4>2, <4>3, <4>4 DEF Announced, Ended
      <3> QED  BY <3>1, <3>2, <3>3
    <2> QED  BY <2>2, <2>3, <2>4
  <1> QED  BY <1>2, <1>3, <1>4

LEMMA FreedUnreachedStep ==
  ASSUME Types, Locations, OneReceive, Lost, FreedUnreached,
         Application \/ Kernel \/ \E w \in Workers : Worker(w)
  PROVE  FreedUnreached'
  <1> DEFINE kinds == {"data", "close"}
             Unreached(c) == Queued(kinds, c) = 0 /\ Handling(kinds, c) = {}
  <1>0. port \in Seq(Packets) /\ ContextTypes
    BY DEF Types, PortTypes
  <1>1. /\ \A c \in Clients : ctx[c] = "freed" => Removed(c) \/ Unreached(c)
        /\ pc[App] = "remove.delete" => "removed" \in told[Client(App)]
    BY DEF FreedUnreached
  <1>2. CASE Application
    <2>1. \A c \in Clients : told[c] \subseteq told'[c]
      BY <1>0, <1>2, AppChanges, ToldGrows
    <2>2. \A w \in Workers : cur'[w] = cur[w] /\ (pc'[w] = pc[w] \/ cur[w].kind = "none")
      BY <1>2, OthersStay
    <2>3. UNCHANGED port \/ port' = port \o ExitPackets
      BY <1>2 DEF Application, StartThreads, StartAccept, RemoveTake, ShutdownCall, Finish, RemoveDelete,
             ShutdownNext, ShutdownDelete, ShutdownNull, ShutdownExits
    <2>4. \A c : Queued(kinds, c)' = Queued(kinds, c) /\ Handling(kinds, c)' = Handling(kinds, c)
      BY <1>0, <2>2, <2>3, QueueStays, WorkersStay
    <2>5. \A c \in Clients : Removed(c) => Removed(c)'
      <3> SUFFICES ASSUME NEW c \in Clients, pc[App] = "shutdown.null", Client(App) = c PROVE "removed" \in told'[c]
        BY <2>1 DEF Removed
      <3>1. ShutdownNull
        BY <1>2 DEF Application, StartThreads, StartAccept, RemoveTake, ShutdownCall, Finish, RemoveDelete,
             ShutdownNext, ShutdownDelete, ShutdownExits, At
      <3> QED  BY <1>0, <3>1 DEF ShutdownNull, Tell, ContextTypes
    <2>6. ASSUME NEW c \in Clients, ctx'[c] = "freed", ctx[c] # "freed" PROVE Removed(c)'
      <3>1. CASE RemoveDelete \/ ShutdownDelete
        <4>1. Client(App) = c /\ UNCHANGED cur
          BY <1>0, <2>6, <3>1 DEF RemoveDelete, ShutdownDelete, Delete, ContextTypes
        <4>2. CASE RemoveDelete
          BY <1>1, <2>1, <4>1, <4>2 DEF RemoveDelete, At, Removed
        <4>3. CASE ShutdownDelete
          BY <4>1, <4>3, Constants DEF ShutdownDelete, Goto, Removed, Client, Types, ThreadTypes
        <4> QED  BY <3>1, <4>2, <4>3
      <3>2. CASE ~RemoveDelete /\ ~ShutdownDelete
        BY <1>2, <2>6, <3>2 DEF Application, StartThreads, StartAccept, RemoveTake, ShutdownCall, Finish,
             ShutdownNext, ShutdownNull, ShutdownExits
      <3> QED  BY <3>1, <3>2
    <2>7. pc'[App] = "remove.delete" => "removed" \in told'[Client(App)']
      <3>1. ASSUME NEW c \in Clients, RemoveTake(c) PROVE "removed" \in told'[Client(App)']
        <4>1. Client(App)' = c
          BY <3>1, Constants DEF RemoveTake, Packet, Client, Types, ThreadTypes
        <4> QED  BY <1>0, <3>1, <4>1 DEF RemoveTake, Tell, ContextTypes
      <3>2. CASE ~\E c \in Clients : RemoveTake(c)
        <4>1. pc'[App] # "remove.delete"
          <5>1. CASE StartThreads
            BY <5>1, StartMoves DEF Types
          <5>2. CASE StartAccept
            BY <5>2, Constants DEF StartAccept, At, Goto, Types, ThreadTypes
          <5>3. CASE ShutdownExits
            BY <5>3, Constants DEF ShutdownExits, At, Goto, Types, ThreadTypes, Locations, AppLocations
          <5>4. CASE ShutdownCall \/ RemoveDelete \/ ShutdownNext \/ ShutdownDelete \/ ShutdownNull
            BY <5>4, Constants DEF ShutdownCall, RemoveDelete, ShutdownNext, ShutdownDelete, ShutdownNull,
                                   Goto, Types, ThreadTypes
          <5> QED  BY <1>2, <3>2, <5>1, <5>2, <5>3, <5>4 DEF Application, Finish
        <4> QED  BY <4>1
      <3> QED  BY <3>1, <3>2
    <2>8. \A c \in Clients : ctx'[c] = "freed" => Removed(c)' \/ Unreached(c)'
      BY <1>1, <2>4, <2>5, <2>6
    <2> QED  BY <2>7, <2>8 DEF FreedUnreached
  <1>3. CASE Kernel
    <2>1. PICK p \in Packets : port' = Append(port, p) /\ Took(p)
      BY <1>3, KernelMoves
    <2>2. UNCHANGED <<ctx, pc, cur, told>>
      BY <1>3, KernelMoves DEF threadVars, ghostVars
    <2>3. \A c \in Clients : (Removed(c)' <=> Removed(c)) /\ Handling(kinds, c)' = Handling(kinds, c)
      BY <2>2 DEF Removed, Client, Handling
    <2>4. ASSUME NEW c \in Clients, ctx[c] = "freed", Queued(kinds, c) = 0 PROVE Queued(kinds, c)' = 0
      <3>1. ~(p.kind \in kinds /\ p.who = c)
        BY <2>1, <2>4 DEF Took, Packet
      <3> QED  BY <1>0, <2>1, <2>4, <3>1, QueueGrows DEF Bit
    <2>5. \A c \in Clients : ctx'[c] = "freed" => Removed(c)' \/ Unreached(c)'
      BY <1>1, <2>2, <2>3, <2>4
    <2> QED  BY <1>1, <2>2, <2>5 DEF FreedUnreached, Client
  <1>4. ASSUME NEW w \in Workers, Worker(w) PROVE FreedUnreached'
    <2>0. LocationsOf(w) /\ ThreadTypes /\ PortTypes
      BY DEF Locations, Types
    <2>1. /\ \A v \in Workers \ {w} : cur'[v] = cur[v]
          /\ pc'[App] = pc[App] /\ cur'[App] = cur[App]
      BY <1>4, <2>0, WorkerMoves, Constants
    <2>2. \A c \in Clients : told[c] \subseteq told'[c]
      BY <1>0, <1>4, WorkerChanges, ToldGrows
    <2>3. \A c \in Clients : Removed(c) => Removed(c)'
      BY <2>1, <2>2 DEF Removed, Client
    <2>4. pc'[App] = "remove.delete" => "removed" \in told'[Client(App)']
      <3>1. pc[App] = "remove.delete" => Client(App) \in Clients
        BY DEF Locations, AppLocations
      <3> QED  BY <1>1, <2>1, <2>2, <3>1 DEF Client
    <2>5. \A c \in Clients : ctx'[c] = "freed" => Removed(c)' \/ Unreached(c)'
      <3>1. CASE Dequeue(w)
        <4>1. /\ UNCHANGED ctx /\ port # <<>> /\ port' = Tail(port)
              /\ cur'[w] = cur[w] \/ cur'[w] = Head(port)
          BY <2>0, <3>1, DequeueMoves
        <4>2. ASSUME NEW c \in Clients, Unreached(c) PROVE Unreached(c)'
          <5>1. ~(Head(port).kind \in kinds /\ Head(port).who = c)
            BY <4>1, <4>2, HeadQueued
          <5>2. Queued(kinds, c)' = 0
            BY <1>0, <4>1, <4>2, <5>1, QueueShrinks DEF Bit
          <5>3. \A v \in Workers : ~(cur'[v].kind \in kinds /\ cur'[v].who = c)
            BY <2>1, <4>1, <4>2, <5>1 DEF Handling
          <5> QED  BY <5>2, <5>3 DEF Handling
        <4> QED  BY <1>1, <2>3, <4>1, <4>2
      <3>2. CASE ~Dequeue(w)
        <4>1. /\ UNCHANGED port
              /\ cur'[w] = cur[w] \/ cur'[w] = NoPacket
          BY <1>4, <2>0, <3>2, HandlerMoves
        <4>2. \A c \in Clients : Handling(kinds, c)' \subseteq Handling(kinds, c)
          BY <2>1, <4>1, Constants DEF Handling, NoPacket, Packet
        <4>3. \A c : Queued(kinds, c)' = Queued(kinds, c)
          BY <1>0, <4>1, QueueStays
        <4>4. ASSUME NEW c \in Clients, ctx'[c] = "freed", ctx[c] # "freed" PROVE Removed(c)' \/ Unreached(c)'
          <5>1. Client(w) = c
            BY <1>4, <3>2, <4>4, HandlerFrame
          <5>2. (AcceptBind(w) \/ LostDelete(w)) /\ Done(w)
            BY <1>0, <1>4, <3>2, <4>4, <5>1
            DEF Worker, Dispatch, SentRemove, AcceptBind, AcceptRecv, AcceptInsert,
                AcceptCallback, AcceptRemove, AcceptPost, RecvCallback, RecvRemove, RecvPost, LostErase,
                LostDelete, Send, SendLookup, SendPost, ContextTypes
          <5>3. pc[w] \in {"accept.bind", "lost.delete"} /\ cur'[w] = NoPacket
            BY <2>0, <5>2, Constants DEF AcceptBind, LostDelete, At, Done, ThreadTypes
          <5>4. CASE cur[w].kind = "unsent"
            <6>1. pc[w] = "lost.delete"
              BY <2>0, <5>3, <5>4 DEF LocationsOf
            <6>2. "dropped" \in told[c]
              BY <5>1, <5>4, <6>1 DEF Lost, Loss
            <6> QED  BY <2>3, <6>2 DEF Removed
          <5>5. CASE cur[w].kind # "unsent"
            <6>1. w \in Receiving(c)
              BY <2>0, <5>1, <5>3, <5>5 DEF LocationsOf, Receiving, opening, binding, sending, Client
            <6>2. Receiving(c) = {w} /\ Queued(kinds, c) = 0
              BY <6>1, OnlyReceiver
            <6>3. Handling(kinds, c) \subseteq {w}
              BY <6>2 DEF Handling, Receiving
            <6>4. Handling(kinds, c)' = {}
              BY <4>2, <5>3, <6>3 DEF Handling, NoPacket, Packet
            <6> QED  BY <4>3, <6>2, <6>4
          <5> QED  BY <5>4, <5>5
        <4> QED  BY <1>1, <2>3, <4>2, <4>3, <4>4
      <3> QED  BY <3>1, <3>2
    <2> QED  BY <2>4, <2>5 DEF FreedUnreached
  <1> QED  BY <1>2, <1>3, <1>4

\* Failures are counted, and never forgotten.
LEMMA FailuresGrow ==
  ASSUME Types, Locations, Application \/ Kernel \/ \E w \in Workers : Worker(w)
  PROVE  UNCHANGED failures \/ failures' > 0
  <1>0. failures \in Nat
    BY Bounds DEF Types, KernelTypes
  <1>1. CASE Application
    BY <1>0, <1>1 DEF Application, StartThreads, StartAccept, PostAccept, RemoveTake, ShutdownCall, Finish,
             RemoveDelete, ShutdownNext, ShutdownDelete, ShutdownNull, ShutdownExits, Fail, Succeed
  <1>2. CASE Kernel
    BY <1>0, <1>2 DEF Kernel, AcceptFail, AcceptDone, RecvDone, SendDone, OperationFails, Post, Fail, Succeed
  <1>3. ASSUME NEW w \in Workers, Worker(w) PROVE UNCHANGED failures \/ Fail
    <2>1. CASE SendPost(w)
      <3>1. Client(w) \in Clients
        BY <2>1, Handles DEF SendPost, At, Locations
      <3>2. sends[Client(w)] \in 0..MaxSends
        BY <3>1 DEF Types, KernelTypes
      <3>3. sends[Client(w)] < MaxSends \/ sends[Client(w)] = MaxSends
        BY <3>2, Bounds
      <3> QED  BY <2>1, <3>3 DEF SendPost, Succeed
    <2>2. CASE ~SendPost(w)
      BY <1>3, <2>2 DEF Worker, Dequeue, Dispatch, SentRemove, AcceptBind, AcceptRecv, AcceptInsert,
           AcceptCallback, AcceptRemove, AcceptPost, RecvCallback, RecvRemove, RecvPost, LostErase,
           LostDelete, Send, SendLookup, PostAccept, Succeed
    <2> QED  BY <2>1, <2>2
  <1> QED  BY <1>0, <1>1, <1>2, <1>3 DEF Fail

LEMMA FailuresCountedStep ==
  ASSUME Types, Locations, FailuresCounted,
         Application \/ Kernel \/ \E w \in Workers : Worker(w)
  PROVE  FailuresCounted'
  <1>0. port \in Seq(Packets)
    BY DEF Types, PortTypes
  <1> SUFFICES ASSUME failures' = 0 PROVE Queued({"fail"}, Listen)' = 0
    BY DEF FailuresCounted
  <1>1. failures = 0 /\ Queued({"fail"}, Listen) = 0
    BY FailuresGrow DEF FailuresCounted
  <1>2. CASE Application
    <2>1. UNCHANGED port \/ port' = port \o ExitPackets
      BY <1>2 DEF Application, StartThreads, StartAccept, RemoveTake, ShutdownCall, Finish, RemoveDelete,
             ShutdownNext, ShutdownDelete, ShutdownNull, ShutdownExits
    <2> QED  BY <1>0, <1>1, <2>1, QueueStays
  <1>3. CASE Kernel
    <2>1. PICK p \in Packets : port' = Append(port, p) /\ Took(p)
      BY <1>3, KernelMoves
    <2>2. ~Fail
      BY <1>1 DEF Fail
    <2>3. Listen \notin recvs /\ Listen \notin Clients
      BY Constants DEF Types, KernelTypes
    <2>4. ~(p.kind \in {"fail"} /\ p.who = Listen)
      BY <2>1, <2>2, <2>3 DEF Took
    <2>5. Queued({"fail"}, Listen)' = Queued({"fail"}, Listen) + Bit(p.kind \in {"fail"} /\ p.who = Listen)
      BY <1>0, <2>1, QueueGrows
    <2> QED  BY <1>1, <2>4, <2>5 DEF Bit
  <1>4. ASSUME NEW w \in Workers, Worker(w) PROVE Queued({"fail"}, Listen)' = 0
    <2>0. LocationsOf(w) /\ ThreadTypes /\ PortTypes
      BY DEF Locations, Types
    <2>1. CASE Dequeue(w)
      <3>1. port # <<>> /\ port' = Tail(port)
        BY <2>0, <2>1, DequeueMoves
      <3>2. /\ Queued({"fail"}, Listen)' \in Nat
            /\ Queued({"fail"}, Listen) = Queued({"fail"}, Listen)' + Bit(Head(port).kind \in {"fail"} /\ Head(port).who = Listen)
        BY <1>0, <3>1, QueueShrinks
      <3> QED  BY <1>1, <3>2 DEF Bit
    <2>2. CASE ~Dequeue(w)
      BY <1>0, <1>1, <1>4, <2>0, <2>2, HandlerMoves, QueueStays
    <2> QED  BY <2>1, <2>2
  <1> QED  BY <1>2, <1>3, <1>4
-----------------------------------------------------------------------------
\* The slots of the accepts, part by part.
LEMMA Slots ==
  /\ AcceptSlots = accepts + Queued({"fail"}, Listen) + AcceptsQueued + Cardinality(Accepting)
  /\ AcceptSlots' = accepts' + Queued({"fail"}, Listen)' + AcceptsQueued' + Cardinality(Accepting)'
  BY DEF AcceptSlots, AcceptsQueued, Accepting

\* A handler keeps its slot, turns it into a new accept, or loses it to a failure.
LEMMA HandlerAccepts ==
  ASSUME Types, NEW w \in Workers, LocationsOf(w), Worker(w), ~Dequeue(w)
  PROVE  /\ accepts' \in Nat
         /\ accepts' + Bit(w \in Accepting') <= accepts + Bit(w \in Accepting)
         /\ failures' = failures => accepts' + Bit(w \in Accepting') = accepts + Bit(w \in Accepting)
  <1> USE Constants
  <1>0. /\ accepts \in Nat /\ ThreadTypes
        /\ failures \in 0..MaxFailures
    BY DEF Types, KernelTypes
  <1>1. /\ cur[w].kind \in {"accept", "data", "close", "sent", "unsent"}
        /\ \/ cur'[w] = cur[w]
           \/ cur'[w] = NoPacket /\ pc'[w] = "dequeue"
    BY <1>0, HandlerMoves
  <1>2. w \in Accepting <=> cur[w].kind = "accept"
    BY DEF Accepting
  <1>3. w \in Accepting' <=> cur'[w].kind = "accept"
    BY DEF Accepting
  <1>4. NoPacket.kind = "none"
    BY DEF NoPacket, Packet
  <1>5. Fail => failures' # failures
    BY <1>0, Bounds DEF Fail
  <1>6. CASE AcceptPost(w)
    <2>1. cur[w].kind = "accept" /\ cur'[w] = NoPacket
      BY <1>0, <1>6 DEF AcceptPost, At, Done, LocationsOf, sending, ThreadTypes
    <2>2. accepts' = accepts + 1 \/ (accepts' = accepts /\ Fail)
      BY <1>6 DEF AcceptPost, PostAccept
    <2> QED  BY <1>0, <1>2, <1>3, <1>4, <1>5, <2>1, <2>2 DEF Bit
  <1>7. CASE ~AcceptPost(w)
    <2>1. UNCHANGED accepts
      BY <1>7 DEF Worker, Dispatch, SentRemove, AcceptBind, AcceptRecv, AcceptInsert,
           AcceptCallback, AcceptRemove, RecvCallback, RecvRemove, RecvPost, LostErase,
           LostDelete, Send, SendLookup, SendPost, kernelVars
    <2>2. UNCHANGED cur \/ Fail \/ cur[w].kind # "accept"
      <3>1. CASE SentRemove(w) \/ RecvPost(w) \/ LostDelete(w)
        BY <3>1 DEF SentRemove, RecvPost, LostDelete, At, LocationsOf, opening, binding, sending
      <3>2. CASE ~SentRemove(w) /\ ~RecvPost(w) /\ ~LostDelete(w)
        BY <1>7, <3>2 DEF Worker, Dispatch, AcceptBind, AcceptRecv, AcceptInsert,
           AcceptCallback, AcceptRemove, RecvCallback, RecvRemove, LostErase,
           Send, SendLookup, SendPost
      <3> QED  BY <3>1, <3>2
    <2>3. w \in Accepting' => w \in Accepting
      BY <1>1, <1>2, <1>3, <1>4
    <2>4. failures' = failures => (w \in Accepting' <=> w \in Accepting)
      BY <1>2, <1>3, <1>5, <2>2, <2>3
    <2> QED  BY <1>0, <2>1, <2>3, <2>4 DEF Bit
  <1> QED  BY <1>6, <1>7

LEMMA AcceptsKeptStep ==
  ASSUME Types, Locations, FailuresCounted, AcceptsKept,
         Application \/ Kernel \/ \E w \in Workers : Worker(w)
  PROVE  AcceptsKept'
  <1> DEFINE F == Queued({"fail"}, Listen)
             Q == AcceptsQueued
             A == Cardinality(Accepting)
  <1>0. port \in Seq(Packets)
    BY DEF Types, PortTypes
  <1>1. /\ accepts \in Nat /\ F \in Nat /\ Q \in Nat /\ A \in Nat /\ slot \in Nat
        /\ accepts + F + Q + A <= slot
        /\ failures = 0 => accepts + F + Q + A = slot /\ F = 0
    BY <1>0, QueuedIs, AcceptsQueuedIs, WorkerSets, Slots, Bounds DEF Types, KernelTypes, AcceptsKept, FailuresCounted
  <1>2. failures' = 0 => failures = 0 /\ failures' = failures
    BY FailuresGrow
  <1> SUFFICES /\ accepts' + F' + Q' + A' <= slot'
               /\ failures' = 0 => accepts' + F' + Q' + A' = slot'
    BY Slots DEF AcceptsKept
  <1>3. CASE Application
    <2>1. UNCHANGED port \/ port' = port \o ExitPackets
      BY <1>3 DEF Application, StartThreads, StartAccept, RemoveTake, ShutdownCall, Finish, RemoveDelete,
             ShutdownNext, ShutdownDelete, ShutdownNull, ShutdownExits
    <2>2. F' = F /\ Q' = Q
      BY <1>0, <2>1, QueueStays
    <2>3. \A w \in Workers : cur'[w] = cur[w] /\ (pc'[w] = pc[w] \/ cur[w].kind = "none")
      BY <1>3, OthersStay
    <2>4. A' = A
      BY <2>3, WorkersStay
    <2>5. \/ UNCHANGED <<accepts, slot>>
          \/ slot' = slot + 1 /\ (accepts' = accepts + 1 \/ (UNCHANGED accepts /\ Fail))
      BY <1>3 DEF Application, StartThreads, StartAccept, PostAccept, RemoveTake, ShutdownCall, Finish, RemoveDelete,
             ShutdownNext, ShutdownDelete, ShutdownNull, ShutdownExits, kernelVars
    <2>6. Fail => failures' # 0
      BY Bounds DEF Fail, Types, KernelTypes
    <2> QED  BY <1>1, <1>2, <2>2, <2>4, <2>5, <2>6
  <1>4. CASE Kernel
    <2>1. PICK p \in Packets : port' = Append(port, p) /\ Took(p)
      BY <1>4, KernelMoves
    <2>2. /\ F' = F + Bit(p.kind \in {"fail"} /\ p.who = Listen)
          /\ Q' = Q + Bit(p.kind = "accept")
      BY <1>0, <2>1, QueueGrows
    <2>3. \A w \in Workers : cur'[w] = cur[w] /\ pc'[w] = pc[w]
      BY <1>4, KernelMoves DEF threadVars
    <2>4. A' = A
      BY <2>3, WorkersStay
    <2>5. UNCHANGED slot
      BY <1>4, KernelMoves
    <2>6. Listen \notin recvs /\ Listen \notin Clients
      BY Constants DEF Types, KernelTypes
    <2>7. \/ accepts' = accepts - 1 /\ Bit(p.kind \in {"fail"} /\ p.who = Listen) + Bit(p.kind = "accept") = 1
          \/ accepts' = accepts /\ Bit(p.kind \in {"fail"} /\ p.who = Listen) = 0 /\ Bit(p.kind = "accept") = 0
      BY <2>1, <2>6 DEF Took, Packet, Bit
    <2>8. Bit(p.kind \in {"fail"} /\ p.who = Listen) \in Nat /\ Bit(p.kind = "accept") \in Nat
      BY DEF Bit
    <2>9. accepts' + F' + Q' + A' = accepts + F + Q + A
      BY <1>1, <2>2, <2>4, <2>7, <2>8
    <2> QED  BY <1>1, <1>2, <2>5, <2>9
  <1>5. ASSUME NEW w \in Workers, Worker(w)
        PROVE  /\ accepts' + F' + Q' + A' <= slot'
               /\ failures' = 0 => accepts' + F' + Q' + A' = slot'
    <2>0. LocationsOf(w) /\ ThreadTypes /\ PortTypes
      BY DEF Locations, Types
    <2>1. (\A v \in Workers \ {w} : pc'[v] = pc[v] /\ cur'[v] = cur[v]) /\ UNCHANGED slot
      BY <1>5, <2>0, WorkerMoves, Constants
    <2>2. A' \in Nat /\ A' + Bit(w \in Accepting) = A + Bit(w \in Accepting')
      BY <2>1, WorkerCounts
    <2>3. CASE Dequeue(w)
      <3>1. /\ port # <<>> /\ port' = Tail(port) /\ UNCHANGED accepts /\ cur[w].kind = "none"
            /\ cur'[w] = cur[w] \/ cur'[w] = Head(port)
            /\ Head(port).kind = "accept" => cur'[w] = Head(port)
        BY <2>0, <2>3, DequeueMoves DEF kernelVars
      <3>2. /\ F' \in Nat /\ Q' \in Nat
            /\ F = F' + Bit(Head(port).kind \in {"fail"} /\ Head(port).who = Listen)
            /\ Q = Q' + Bit(Head(port).kind = "accept")
        BY <1>0, <3>1, QueueShrinks
      <3>3. w \notin Accepting /\ (w \in Accepting' <=> Head(port).kind = "accept")
        BY <3>1 DEF Accepting
      <3>4. A' = A + Bit(Head(port).kind = "accept")
        BY <1>1, <2>2, <3>3 DEF Bit
      <3>5. F' <= F /\ (F = 0 => F' = 0)
        BY <1>1, <3>2 DEF Bit
      <3>6. Bit(Head(port).kind = "accept") \in Nat
        BY DEF Bit
      <3> HIDE DEF F, Q, A
      <3>8. accepts' = accepts /\ accepts \in Nat /\ Q' + A' = Q + A /\ A' \in Nat
        <4>1. accepts' = accepts
          BY <3>1
        <4>2. PICK b \in Nat : Q = Q' + b /\ A' = A + b
          BY <3>2, <3>4, <3>6
        <4>3. Q' \in Nat
          BY <3>2
        <4> QED  BY <1>1, <4>1, <4>2, <4>3
      <3>7. accepts' + F' + Q' + A' = accepts + F' + Q + A
        BY <1>1, <3>2, <3>8
      <3> QED  BY <1>1, <1>2, <2>1, <3>2, <3>5, <3>7
    <2>4. CASE ~Dequeue(w)
      <3>1. F' = F /\ Q' = Q
        BY <1>0, <1>5, <2>0, <2>4, HandlerMoves, QueueStays
      <3>2. /\ accepts' \in Nat
            /\ accepts' + Bit(w \in Accepting') <= accepts + Bit(w \in Accepting)
            /\ failures' = failures => accepts' + Bit(w \in Accepting') = accepts + Bit(w \in Accepting)
        BY <1>5, <2>0, <2>4, HandlerAccepts
      <3>3. Bit(w \in Accepting) \in Nat /\ Bit(w \in Accepting') \in Nat
        BY DEF Bit
      <3>4. /\ accepts' + A' <= accepts + A
            /\ failures' = failures => accepts' + A' = accepts + A
        BY <1>1, <2>2, <3>2, <3>3
      <3> QED  BY <1>1, <1>2, <2>1, <2>2, <3>1, <3>2, <3>4
    <2> QED  BY <2>3, <2>4
  <1> QED  BY <1>3, <1>4, <1>5
-----------------------------------------------------------------------------
\* The kinds of handlers by what they handle.
LEMMA HandlerKinds ==
  ASSUME ThreadTypes, NEW w \in Workers, LocationsOf(w), Worker(w), ~Dequeue(w)
  PROVE  \/ /\ cur[w].kind = "accept"
            /\ \/ Dispatch(w) \/ AcceptBind(w) \/ AcceptRecv(w) \/ AcceptInsert(w) \/ AcceptCallback(w)
               \/ AcceptRemove(w) \/ AcceptPost(w) \/ SendLookup(w) \/ SendPost(w)
         \/ /\ cur[w].kind = "data"
            /\ \/ Dispatch(w) \/ RecvCallback(w) \/ RecvRemove(w) \/ RecvPost(w) \/ SendLookup(w) \/ SendPost(w)
         \/ cur[w].kind \in {"close", "unsent"} /\ (Dispatch(w) \/ LostErase(w) \/ LostDelete(w))
         \/ cur[w].kind = "sent" /\ (Dispatch(w) \/ SentRemove(w))
  <1>1. cur[w].kind \in {"accept", "data", "close", "sent", "unsent"}
    BY HandlerMoves
  <1>2. /\ AcceptBind(w) \/ AcceptRecv(w) \/ AcceptInsert(w) \/ AcceptCallback(w) \/ AcceptRemove(w) \/ AcceptPost(w)
             => cur[w].kind = "accept"
        /\ RecvCallback(w) \/ RecvRemove(w) \/ RecvPost(w) => cur[w].kind = "data"
    BY <1>1 DEF AcceptBind, AcceptRecv, AcceptInsert, AcceptCallback, AcceptRemove, AcceptPost,
                RecvCallback, RecvRemove, RecvPost, At, LocationsOf, opening, binding, sending
  <1>3. /\ LostErase(w) \/ LostDelete(w) => cur[w].kind \in {"close", "unsent"}
        /\ SentRemove(w) => cur[w].kind = "sent"
        /\ SendLookup(w) \/ SendPost(w) => cur[w].kind \in {"accept", "data"}
    BY <1>1 DEF LostErase, LostDelete, SentRemove, SendLookup, SendPost, At, LocationsOf, opening, binding, sending
  <1> QED  BY <1>1, <1>2, <1>3 DEF Worker, Send

\* Where a Send returns to.
LEMMA SendMoves ==
  ASSUME ThreadTypes, NEW w \in Workers, LocationsOf(w), SendLookup(w) \/ SendPost(w)
  PROVE  /\ UNCHANGED cur /\ pc[w] \in {"send.lookup", "send.post"}
         /\ pc'[w] \in {"send.post", "accept.remove", "recv.remove"}
  <1>1. UNCHANGED cur /\ pc[w] \in sending /\ pc'[w] \in {"send.post", back[w]}
    BY Constants DEF SendLookup, SendPost, At, Goto, sending, ThreadTypes
  <1> QED  BY <1>1 DEF LocationsOf, sending, opening, binding

\* The I/O contexts of accepts.
LEMMA HandlerListen ==
  ASSUME Types, NEW w \in Workers, LocationsOf(w), Worker(w), ~Dequeue(w)
  PROVE  ios'[Listen] + accepts + Bit(w \in Holding(Listen))
            = ios[Listen] + accepts' + Bit(w \in Holding(Listen)')
  <1> DEFINE Goal == ios'[Listen] + accepts + Bit(w \in Holding(Listen))
                        = ios[Listen] + accepts' + Bit(w \in Holding(Listen)')
  <1>0. /\ ThreadTypes /\ accepts \in Nat /\ w \in Threads
        /\ ios \in [Owners -> Int] /\ ios[Listen] \in Int /\ Listen \in Owners /\ Listen \notin Clients
    BY Constants DEF Types, KernelTypes, ContextTypes
  <1>1. /\ cur[w].kind \in {"accept", "data", "close", "sent", "unsent"} /\ Client(w) \in Clients
        /\ \/ cur'[w] = cur[w]
           \/ cur'[w] = NoPacket /\ pc'[w] = "dequeue"
    BY <1>0, HandlerMoves
  <1>2. w \in Holding(Listen) <=> cur[w].kind = "accept" /\ pc[w] # "accept.post"
    BY <1>0, <1>1 DEF Holding, Client
  <1>3. w \in Holding(Listen)' <=> cur'[w].kind = "accept" /\ pc'[w] # "accept.post"
    BY <1>0, <1>1 DEF Holding, Client, NoPacket, Packet
  <1>4. NoPacket.kind = "none"
    BY DEF NoPacket, Packet
  <1>5. ASSUME UNCHANGED accepts, ios'[Listen] = ios[Listen], UNCHANGED cur,
               pc[w] # "accept.post", pc'[w] # "accept.post"
        PROVE  Goal
    BY <1>0, <1>2, <1>3, <1>5 DEF Bit
  <1>6. ASSUME UNCHANGED accepts, ios'[Listen] = ios[Listen] - 1, cur[w].kind = "accept", pc[w] # "accept.post",
               cur'[w] = NoPacket \/ pc'[w] = "accept.post"
        PROVE  Goal
    BY <1>0, <1>2, <1>3, <1>4, <1>6 DEF Bit
  <1>7. ASSUME UNCHANGED accepts, ios'[Listen] = ios[Listen], cur[w].kind # "accept"
        PROVE  Goal
    BY <1>0, <1>1, <1>2, <1>3, <1>4, <1>7 DEF Bit
  <1>8. CASE Dispatch(w)
    <2>1. pc[w] = "completed" /\ pc'[w] # "accept.post" /\ UNCHANGED <<accepts, ios, cur>>
      BY <1>0, <1>1, <1>8 DEF Dispatch, At, Goto, Handler, kernelVars, ThreadTypes
    <2> QED  BY <1>5, <2>1
  <1>9. CASE AcceptBind(w) \/ AcceptRecv(w)
    <2>1. UNCHANGED accepts /\ pc[w] \in {"accept.bind", "accept.recv"} /\ cur[w].kind = "accept"
      BY <1>0, <1>1, <1>9 DEF AcceptBind, AcceptRecv, At, kernelVars, LocationsOf, sending
    <2>2. CASE UNCHANGED cur
      <3>1. pc'[w] \in {"accept.recv", "accept.insert"}
        BY <1>0, <1>1, <1>4, <1>9, <2>1, <2>2 DEF AcceptBind, AcceptRecv, Goto, Done, ThreadTypes
      <3>2. pc'[w] # "dequeue"
        BY <3>1
      <3>3. UNCHANGED ios \/ NewIOContext(Client(w))
        BY <1>0, <1>9, <3>2 DEF AcceptBind, AcceptRecv, Done, ThreadTypes
      <3>4. ios'[Listen] = ios[Listen]
        BY <1>0, <1>1, <3>3 DEF NewIOContext
      <3> QED  BY <1>5, <2>1, <2>2, <3>1, <3>4
    <2>3. CASE ~UNCHANGED cur
      <3>1. Done(w) /\ RemoveContext(Listen)
        BY <1>9, <2>3 DEF AcceptBind, AcceptRecv
      <3>2. cur'[w] = NoPacket /\ ios'[Listen] = ios[Listen] - 1
        BY <1>0, <3>1 DEF Done, RemoveContext, ThreadTypes
      <3> QED  BY <1>6, <2>1, <3>2
    <2> QED  BY <2>2, <2>3
  <1>10. CASE AcceptInsert(w) \/ AcceptCallback(w)
    <2>1. /\ pc[w] # "accept.post" /\ pc'[w] # "accept.post" /\ UNCHANGED <<accepts, ios, cur>>
      BY <1>0, <1>10 DEF AcceptInsert, AcceptCallback, At, Goto, kernelVars, ThreadTypes
    <2> QED  BY <1>5, <2>1
  <1>11. CASE AcceptRemove(w)
    <2>1. /\ pc[w] = "accept.remove" /\ pc'[w] = "accept.post" /\ UNCHANGED accepts /\ RemoveContext(Listen)
      BY <1>0, <1>11 DEF AcceptRemove, At, Goto, kernelVars, ThreadTypes
    <2>2. cur[w].kind = "accept" /\ ios'[Listen] = ios[Listen] - 1
      BY <1>0, <1>1, <2>1 DEF RemoveContext, LocationsOf, sending
    <2> QED  BY <1>6, <2>1, <2>2
  <1>12. CASE AcceptPost(w)
    <2>1. /\ pc[w] = "accept.post" /\ cur'[w] = NoPacket /\ PostAccept
      BY <1>0, <1>12 DEF AcceptPost, At, Done, ThreadTypes
    <2>2. \/ accepts' = accepts + 1 /\ ios'[Listen] = ios[Listen] + 1
          \/ accepts' = accepts /\ ios'[Listen] = ios[Listen]
      BY <1>0, <2>1 DEF PostAccept, NewIOContext
    <2>3. w \notin Holding(Listen) /\ w \notin Holding(Listen)'
      BY <1>2, <1>3, <1>4, <2>1
    <2> QED  BY <1>0, <2>2, <2>3 DEF Bit
  <1>13. CASE SendLookup(w) \/ SendPost(w)
    <2>1. UNCHANGED accepts /\ (UNCHANGED ios \/ NewIOContext(Client(w)))
      BY <1>13 DEF SendLookup, SendPost, kernelVars
    <2>2. ios'[Listen] = ios[Listen]
      BY <1>0, <1>1, <2>1 DEF NewIOContext
    <2> QED  BY <1>0, <1>5, <1>13, <2>1, <2>2, SendMoves
  <1>14. CASE cur[w].kind # "accept" /\ ~Dispatch(w) /\ ~SendLookup(w) /\ ~SendPost(w)
    <2>1. RecvCallback(w) \/ RecvRemove(w) \/ RecvPost(w) \/ LostErase(w) \/ LostDelete(w) \/ SentRemove(w)
      BY <1>0, <1>14, HandlerKinds
    <2>2. /\ UNCHANGED accepts
          /\ \/ UNCHANGED ios
             \/ \E x : ios' = [ios EXCEPT ![Client(w)] = x]
      BY <2>1 DEF RecvCallback, RecvRemove, RecvPost, LostErase, LostDelete, SentRemove, kernelVars,
                  NewIOContext, RemoveContext, Delete
    <2>3. ios'[Listen] = ios[Listen]
      BY <1>0, <1>1, <2>2
    <2> QED  BY <1>7, <1>14, <2>2, <2>3
  <1>15. cur[w].kind = "accept" => \/ Dispatch(w) \/ AcceptBind(w) \/ AcceptRecv(w) \/ AcceptInsert(w) \/ AcceptCallback(w)
                                  \/ AcceptRemove(w) \/ AcceptPost(w) \/ SendLookup(w) \/ SendPost(w)
    BY <1>0, HandlerKinds
  <1> QED  BY <1>8, <1>9, <1>10, <1>11, <1>12, <1>13, <1>14, <1>15

\* The I/O contexts of the connection that is handled, while its context lives.
LEMMA HandlerClient ==
  ASSUME Types, Unbound, OneReceive, NEW w \in Workers, LocationsOf(w), Worker(w), ~Dequeue(w),
         NEW c \in Clients, Client(w) = c, ctx[c] = "live", ctx'[c] = "live"
  PROVE  ios'[c] + sends[c] + Bit(c \in recvs) + Bit(w \in Holding(c))
            = ios[c] + sends'[c] + Bit(c \in recvs') + Bit(w \in Holding(c)')
  <1> DEFINE Goal == ios'[c] + sends[c] + Bit(c \in recvs) + Bit(w \in Holding(c))
                        = ios[c] + sends'[c] + Bit(c \in recvs') + Bit(w \in Holding(c)')
             Held == cur[w].kind \in {"data", "close", "sent", "unsent"} /\ (cur[w].kind = "data" => pc[w] # "recv.post")
  <1>0. /\ ThreadTypes /\ sends \in [Clients -> 0..MaxSends] /\ sends[c] \in Nat /\ w \in Threads
        /\ ios \in [Owners -> Int] /\ ios[c] \in Int /\ c \in Owners /\ Listen \in Owners /\ Listen \notin Clients
    <2>1. sends[c] \in 0..MaxSends
      BY DEF Types, KernelTypes
    <2> QED  BY <2>1, Constants DEF Types, KernelTypes, ContextTypes
  <1>1. /\ cur[w].kind \in {"accept", "data", "close", "sent", "unsent"} /\ cur[w].who = c
        /\ \/ cur'[w] = cur[w]
           \/ cur'[w] = NoPacket /\ pc'[w] = "dequeue"
    BY <1>0, HandlerMoves DEF Client
  <1>2. (w \in Holding(c) <=> Held) /\ (w \in Holding(c)' <=> Held')
    BY <1>0, <1>1 DEF Holding, NoPacket, Packet
  <1>3. ~Held' \/ cur'[w] = cur[w]
    BY <1>1 DEF NoPacket, Packet
  <1>4. ASSUME UNCHANGED <<sends, recvs>>, ios'[c] = ios[c], Held' <=> Held PROVE Goal
    BY <1>0, <1>2, <1>4 DEF Bit
  <1>5. ASSUME UNCHANGED <<sends, recvs>>, ios' = [ios EXCEPT ![c] = @ - 1], Held, ~Held' PROVE Goal
    BY <1>0, <1>2, <1>5 DEF Bit
  <1>6. CASE Dispatch(w)
    <2>1. UNCHANGED <<sends, recvs, ios, cur>> /\ pc[w] = "completed" /\ pc'[w] # "recv.post"
      BY <1>0, <1>1, <1>6 DEF Dispatch, At, Goto, Handler, kernelVars, ThreadTypes
    <2> QED  BY <1>4, <2>1
  <1>7. CASE SendLookup(w) \/ SendPost(w)
    <2>1. UNCHANGED cur /\ pc[w] \in {"send.lookup", "send.post"} /\ pc'[w] \in {"send.post", "accept.remove", "recv.remove"}
      BY <1>0, <1>7, SendMoves
    <2>2. Held' <=> Held
      BY <2>1
    <2>3. \/ UNCHANGED <<sends, recvs, ios>>
          \/ sends' = [sends EXCEPT ![c] = @ + 1] /\ ios' = [ios EXCEPT ![c] = @ + 1] /\ UNCHANGED recvs
      BY <1>7 DEF SendLookup, SendPost, NewIOContext, kernelVars
    <2>4. CASE UNCHANGED <<sends, recvs, ios>>
      BY <1>4, <2>2, <2>4
    <2>5. CASE sends' = [sends EXCEPT ![c] = @ + 1] /\ ios' = [ios EXCEPT ![c] = @ + 1] /\ UNCHANGED recvs
      <3>1. sends'[c] = sends[c] + 1 /\ ios'[c] = ios[c] + 1
        BY <1>0, <2>5
      <3>2. Bit(w \in Holding(c)) = Bit(w \in Holding(c)') /\ Bit(w \in Holding(c)) \in Int
        BY <1>2, <2>2 DEF Bit
      <3>3. Bit(c \in recvs') = Bit(c \in recvs) /\ Bit(c \in recvs) \in Int
        BY <2>5 DEF Bit
      <3> QED  BY <1>0, <3>1, <3>2, <3>3
    <2> QED  BY <2>3, <2>4, <2>5
  <1>8. ASSUME w \in Receiving(c), recvs' = recvs \cup {c}, ios' = [ios EXCEPT ![c] = @ + 1], UNCHANGED sends,
               ~Held, ~Held'
        PROVE  Goal
    <2>1. c \notin recvs /\ c \in recvs'
      BY <1>8, OnlyReceiver
    <2> QED  BY <1>0, <1>2, <1>8, <2>1 DEF Bit
  <1>9. CASE cur[w].kind = "accept"
    <2>1. ~Held /\ ~Held'
      BY <1>3, <1>9
    <2>2. ~Binds(w, c) /\ cur[w] = Packet("accept", c)
      BY <1>0, <1>1, <1>9 DEF Unbound, Packet, ThreadTypes
    <2>3. CASE AcceptBind(w)
      BY <2>2, <2>3 DEF AcceptBind, At, Binds, binding
    <2>4. CASE AcceptRecv(w)
      <3>1. w \in Receiving(c)
        BY <1>1, <1>9, <2>4 DEF AcceptRecv, At, Receiving, opening
      <3>2. /\ UNCHANGED sends
            /\ \/ recvs' = recvs \cup {c} /\ ios' = [ios EXCEPT ![c] = @ + 1]
               \/ UNCHANGED recvs /\ ios' = [ios EXCEPT ![Listen] = @ - 1]
        BY <2>4 DEF AcceptRecv, NewIOContext, RemoveContext
      <3>3. CASE UNCHANGED recvs /\ ios' = [ios EXCEPT ![Listen] = @ - 1]
        BY <1>0, <1>4, <2>1, <3>2, <3>3
      <3> QED  BY <1>8, <2>1, <3>1, <3>2, <3>3
    <2>5. CASE AcceptInsert(w) \/ AcceptCallback(w) \/ AcceptRemove(w) \/ AcceptPost(w)
      <3>1. UNCHANGED <<sends, recvs>> /\ (UNCHANGED ios \/ \E x : ios' = [ios EXCEPT ![Listen] = x])
        BY <2>5 DEF AcceptInsert, AcceptCallback, AcceptRemove, AcceptPost, PostAccept, NewIOContext, RemoveContext, kernelVars
      <3>2. ios'[c] = ios[c]
        BY <1>0, <3>1
      <3> QED  BY <1>4, <2>1, <3>1, <3>2
    <2> QED  BY <1>0, <1>6, <1>7, <1>9, <2>3, <2>4, <2>5, HandlerKinds
  <1>10. CASE cur[w].kind = "data"
    <2>1. CASE RecvCallback(w)
      <3>1. UNCHANGED <<sends, recvs, ios, cur>> /\ pc[w] = "recv.callback" /\ pc'[w] # "recv.post"
        BY <1>0, <2>1 DEF RecvCallback, At, Goto, kernelVars, ThreadTypes
      <3> QED  BY <1>4, <3>1
    <2>2. CASE RecvRemove(w)
      <3>1. /\ UNCHANGED <<sends, recvs, cur>> /\ ios' = [ios EXCEPT ![c] = @ - 1]
            /\ pc[w] = "recv.remove" /\ pc'[w] = "recv.post"
        BY <1>0, <2>2 DEF RecvRemove, RemoveContext, At, Goto, kernelVars, ThreadTypes
      <3> QED  BY <1>5, <1>10, <3>1
    <2>3. CASE RecvPost(w)
      <3>1. /\ UNCHANGED sends /\ pc[w] = "recv.post" /\ cur'[w] = NoPacket
            /\ \/ recvs' = recvs \cup {c} /\ ios' = [ios EXCEPT ![c] = @ + 1]
               \/ UNCHANGED <<recvs, ios>>
        BY <1>0, <2>3 DEF RecvPost, NewIOContext, At, Done, ThreadTypes
      <3>2. w \in Receiving(c) /\ ~Held /\ ~Held'
        BY <1>1, <1>10, <3>1 DEF Receiving, NoPacket, Packet
      <3> QED  BY <1>4, <1>8, <3>1, <3>2
    <2> QED  BY <1>0, <1>6, <1>7, <1>10, <2>1, <2>2, <2>3, HandlerKinds
  <1>11. CASE cur[w].kind \in {"close", "unsent"}
    <2>1. CASE LostErase(w)
      <3>1. UNCHANGED <<sends, recvs, ios, cur>>
        BY <2>1 DEF LostErase, kernelVars
      <3> QED  BY <1>4, <1>11, <3>1
    <2>2. ~LostDelete(w)
      BY DEF LostDelete, Delete, Types, ContextTypes
    <2> QED  BY <1>0, <1>6, <1>11, <2>1, <2>2, HandlerKinds
  <1>12. CASE cur[w].kind = "sent"
    <2>1. CASE SentRemove(w)
      <3>1. UNCHANGED <<sends, recvs>> /\ ios' = [ios EXCEPT ![c] = @ - 1] /\ cur'[w] = NoPacket
        BY <1>0, <2>1 DEF SentRemove, RemoveContext, Done, kernelVars, ThreadTypes
      <3> QED  BY <1>5, <1>12, <3>1 DEF NoPacket, Packet
    <2> QED  BY <1>0, <1>6, <1>12, <2>1, HandlerKinds
  <1> QED  BY <1>1, <1>9, <1>10, <1>11, <1>12

\* The application's steps and the I/O contexts.
LEMMA AppAccounts ==
  ASSUME Types, Locations, Application
  PROVE  /\ \A c \in Clients : \/ ctx'[c] = ctx[c] /\ ios'[c] = ios[c]
                               \/ ctx[c] = "live" /\ ctx'[c] = "freed" /\ ios'[c] = 0
         /\ ios'[Listen] + accepts = ios[Listen] + accepts'
  <1>0. /\ ios \in [Owners -> Int] /\ ios[Listen] \in Int /\ Listen \in Owners /\ Listen \notin Clients
        /\ Clients \subseteq Owners /\ accepts \in Nat /\ ctx \in [Clients -> {"none", "live", "freed"}]
    BY Constants DEF Types, KernelTypes, ContextTypes
  <1>1. CASE StartAccept
    <2>1. /\ UNCHANGED ctx
          /\ \/ UNCHANGED <<ios, accepts>>
             \/ accepts' = accepts + 1 /\ ios' = [ios EXCEPT ![Listen] = @ + 1]
      BY <1>1 DEF StartAccept, PostAccept, NewIOContext
    <2> QED  BY <1>0, <2>1
  <1>2. CASE RemoveDelete \/ ShutdownDelete
    <2>1. UNCHANGED accepts
      BY <1>2 DEF RemoveDelete, ShutdownDelete, kernelVars
    <2>2. Client(App) \in Clients
      BY <1>2 DEF RemoveDelete, ShutdownDelete, At, Locations, AppLocations
    <2>3. UNCHANGED <<ctx, ios>> \/ Delete(Client(App))
      BY <1>2 DEF RemoveDelete, ShutdownDelete
    <2>4. CASE Delete(Client(App))
      BY <1>0, <2>1, <2>2, <2>4 DEF Delete
    <2> QED  BY <1>0, <2>1, <2>3, <2>4
  <1>3. CASE ~StartAccept /\ ~RemoveDelete /\ ~ShutdownDelete
    <2>1. UNCHANGED <<ctx, ios, accepts>>
      BY <1>3 DEF Application, StartThreads, RemoveTake, ShutdownCall, Finish, ShutdownNext, ShutdownNull,
                  ShutdownExits, kernelVars
    <2> QED  BY <1>0, <2>1
  <1> QED  BY <1>1, <1>2, <1>3

LEMMA NoContextsStep ==
  ASSUME Types, Locations, Unbound, NoContexts,
         Application \/ Kernel \/ \E w \in Workers : Worker(w)
  PROVE  NoContexts'
  <1> SUFFICES ASSUME NEW c \in Clients
               PROVE  /\ ctx'[c] = "none" => ios'[c] = 0
                      /\ ctx'[c] = "freed" => ios'[c] >= 0
    BY DEF NoContexts
  <1>0. /\ ctx[c] = "none" => ios[c] = 0
        /\ ctx[c] = "freed" => ios[c] >= 0
        /\ ios \in [Owners -> Int] /\ ios[c] \in Int /\ c \in Owners /\ Listen \in Owners /\ Listen # c
        /\ ctx \in [Clients -> {"none", "live", "freed"}]
    <2>1. c \in Owners /\ Listen \in Owners /\ Listen # c
      BY Constants
    <2>2. ios \in [Owners -> Int] /\ ctx \in [Clients -> {"none", "live", "freed"}]
      BY DEF Types, ContextTypes
    <2>3. ios[c] \in Int
      BY <2>1, <2>2
    <2> QED  BY <2>1, <2>2, <2>3 DEF NoContexts
  <1>1. CASE Application
    <2>1. \/ ctx'[c] = ctx[c] /\ ios'[c] = ios[c]
          \/ ctx'[c] = "freed" /\ ios'[c] = 0
      BY <1>1, AppAccounts
    <2> QED  BY <1>0, <2>1
  <1>2. CASE Kernel
    <2>1. UNCHANGED <<ctx, ios>>
      BY <1>2, KernelMoves
    <2> QED  BY <1>0, <2>1
  <1>3. ASSUME NEW w \in Workers, Worker(w)
        PROVE  /\ ctx'[c] = "none" => ios'[c] = 0
               /\ ctx'[c] = "freed" => ios'[c] >= 0
    <2>0. LocationsOf(w) /\ ThreadTypes /\ PortTypes
      BY DEF Locations, Types
    <2>1. CASE Dequeue(w)
      BY <1>0, <2>0, <2>1, DequeueMoves
    <2>2. CASE ~Dequeue(w) /\ Client(w) # c
      BY <1>0, <1>3, <2>2, HandlerFrame
    <2>3. CASE ~Dequeue(w) /\ Client(w) = c
      <3>1. ctx[c] = "none" => cur[w] = Packet("accept", c) /\ pc[w] \in {"completed", "accept.bind"}
        BY <2>3 DEF Unbound, Binds, binding, Client
      <3>2. CASE AcceptBind(w)
        <4>1. UNCHANGED ios \/ ios' = [ios EXCEPT ![Listen] = @ - 1]
          BY <3>2 DEF AcceptBind, RemoveContext
        <4>2. ctx[c] = "none"
          <5>1. pc[w] = "accept.bind" /\ cur[w].kind = "accept" /\ cur[w].who = c
            BY <2>0, <2>3, <3>2 DEF AcceptBind, At, LocationsOf, sending, Client
          <5>2. Binds(w, c)
            BY <2>0, <5>1, Constants DEF Binds, binding, Packet, ThreadTypes
          <5> QED  BY <5>2 DEF Unbound
        <4> QED  BY <1>0, <4>1, <4>2
      <3>3. CASE ~AcceptBind(w)
        <4>1. \/ UNCHANGED <<ctx, ios>>
              \/ UNCHANGED ctx /\ pc[w] \notin {"completed", "accept.bind"} /\ NewIOContext(c)
              \/ UNCHANGED ctx /\ \E x : ios' = [ios EXCEPT ![Listen] = x]
              \/ UNCHANGED ctx /\ ctx[c] = "live"
              \/ ctx' = [ctx EXCEPT ![c] = "freed"] /\ ios' = [ios EXCEPT ![c] = 0]
          BY <1>3, <2>3, <3>3
          DEF Worker, Dispatch, SentRemove, AcceptRecv, AcceptInsert,
              AcceptCallback, AcceptRemove, AcceptPost, RecvCallback, RecvRemove, RecvPost, LostErase,
              LostDelete, Send, SendLookup, SendPost, Delete, PostAccept, NewIOContext, RemoveContext, At
        <4> QED  BY <1>0, <3>1, <4>1 DEF NewIOContext
      <3> QED  BY <3>2, <3>3
    <2> QED  BY <2>1, <2>2, <2>3
  <1> QED  BY <1>1, <1>2, <1>3

LEMMA Parts ==
  ASSUME NEW c \in Clients
  PROVE  /\ InFlight(Listen) = accepts /\ InFlight(Listen)' = accepts'
         /\ InPort(Listen) = AcceptsQueued + Queued({"fail"}, Listen)
         /\ InPort(Listen)' = AcceptsQueued' + Queued({"fail"}, Listen)'
         /\ InFlight(c) = sends[c] + Bit(c \in recvs) /\ InFlight(c)' = sends'[c] + Bit(c \in recvs')
         /\ InPort(c) = Queued({"data", "close", "sent", "unsent", "fail"}, c)
         /\ InPort(c)' = Queued({"data", "close", "sent", "unsent", "fail"}, c)'
  BY Constants DEF InFlight, InPort, AcceptsQueued, Bit

LEMMA Integers0 ==
  ASSUME Types, NEW o \in Owners
  PROVE  /\ ios[o] \in Int /\ failed[o] \in Nat
         /\ InFlight(o) \in Nat /\ InPort(o) \in Nat /\ Cardinality(Holding(o)) \in Nat
  <1>1. port \in Seq(Packets) /\ accepts \in Nat
    BY DEF Types, PortTypes, KernelTypes
  <1>2. ios[o] \in Int /\ failed[o] \in Nat /\ Cardinality(Holding(o)) \in Nat
    BY WorkerSets DEF Types, ContextTypes
  <1>3. CASE o = Listen
    <2>1. AcceptsQueued \in Nat /\ Queued({"fail"}, Listen) \in Nat
      BY <1>1, QueuedIs, AcceptsQueuedIs
    <2> QED  BY <1>1, <1>2, <1>3, <2>1 DEF InFlight, InPort, AcceptsQueued
  <1>4. CASE o \in Clients
    <2>1. InPort(o) \in Nat
      BY <1>1, <1>4, Parts, QueuedIs
    <2>2. sends[o] \in 0..MaxSends
      BY <1>4 DEF Types, KernelTypes
    <2>3. sends[o] \in Nat
      BY <2>2, Bounds
    <2>4. InFlight(o) \in Nat
      BY <1>4, <2>3, Parts DEF Bit
    <2> QED  BY <1>2, <2>1, <2>4
  <1> QED  BY <1>3, <1>4, Constants

LEMMA BalancedKernel ==
  ASSUME Types, Locations, Unbound, Balanced, Kernel
  PROVE  Balanced'
  <1>1. PICK p \in Packets : port' = Append(port, p) /\ Took(p)
    BY KernelMoves
  <1>2. UNCHANGED <<ctx, ios, failed, pc, cur>>
    BY KernelMoves DEF threadVars, ghostVars
  <1>3. port \in Seq(Packets) /\ accepts \in Nat /\ Listen \notin recvs /\ Listen \notin Clients /\ recvs \subseteq Clients
    BY Constants DEF Types, PortTypes, KernelTypes
  <1>4. \A w \in Workers : cur'[w] = cur[w] /\ pc'[w] = pc[w]
    BY <1>2
  <1>5. \A o : Holding(o)' = Holding(o)
    BY <1>4, WorkersStay
  <1>6. /\ \A kinds, who : /\ Queued(kinds, who) \in Nat
                           /\ Queued(kinds, who)' = Queued(kinds, who) + Bit(p.kind \in kinds /\ p.who = who)
        /\ AcceptsQueued \in Nat /\ AcceptsQueued' = AcceptsQueued + Bit(p.kind = "accept")
    BY <1>1, <1>3, QueueGrows
  <1>7. InFlight(Listen)' + InPort(Listen)' = InFlight(Listen) + InPort(Listen)
    <2>1. \/ /\ accepts' = accepts - 1
             /\ Bit(p.kind = "accept") + Bit(p.kind \in {"fail"} /\ p.who = Listen) = 1
          \/ accepts' = accepts /\ Bit(p.kind = "accept") = 0 /\ Bit(p.kind \in {"fail"} /\ p.who = Listen) = 0
      BY <1>1, <1>3 DEF Took, Packet, Bit
    <2>2. Bit(p.kind = "accept") \in Nat /\ Bit(p.kind \in {"fail"} /\ p.who = Listen) \in Nat
      BY DEF Bit
    <2>3. /\ Queued({"fail"}, Listen) \in Nat
          /\ Queued({"fail"}, Listen)' = Queued({"fail"}, Listen) + Bit(p.kind \in {"fail"} /\ p.who = Listen)
      BY <1>6
    <2>4. /\ InFlight(Listen) = accepts /\ InFlight(Listen)' = accepts'
          /\ InPort(Listen) = AcceptsQueued + Queued({"fail"}, Listen)
          /\ InPort(Listen)' = AcceptsQueued' + Queued({"fail"}, Listen)'
      BY DEF InFlight, InPort, AcceptsQueued
    <2> QED  BY <1>3, <1>6, <2>1, <2>2, <2>3, <2>4, SMTT(60)
  <1>8. ASSUME NEW c \in Clients, ctx[c] = "live"
        PROVE  InFlight(c)' + InPort(c)' = InFlight(c) + InPort(c)
    <2> DEFINE kinds == {"data", "close", "sent", "unsent", "fail"}
               b == Bit(p.kind \in kinds /\ p.who = c)
    <2>0. sends[c] \in Int /\ sends \in [Clients -> 0..MaxSends] /\ Queued(kinds, c) \in Nat /\ Queued(kinds, c)' = Queued(kinds, c) + b
      <3>1. sends[c] \in 0..MaxSends
        BY DEF Types, KernelTypes
      <3> QED  BY <1>6, <3>1, Bounds DEF Types, KernelTypes
    <2>1. CASE p.who = c /\ p.kind \in kinds
      <3>1. \/ c \in recvs /\ recvs' = recvs \ {c} /\ UNCHANGED sends
            \/ sends' = [sends EXCEPT ![c] = @ - 1] /\ UNCHANGED recvs
        BY <1>1, <1>3, <2>1 DEF Took, Packet
      <3>2. Bit(c \in recvs') + sends'[c] + 1 = Bit(c \in recvs) + sends[c]
        <4>1. CASE c \in recvs /\ recvs' = recvs \ {c} /\ UNCHANGED sends
          BY <2>0, <4>1 DEF Bit
        <4>2. CASE sends' = [sends EXCEPT ![c] = @ - 1] /\ UNCHANGED recvs
          <5>1. sends'[c] = sends[c] - 1 /\ Bit(c \in recvs') = Bit(c \in recvs) /\ Bit(c \in recvs) \in Int
            BY <2>0, <4>2 DEF Bit
          <5> QED  BY <2>0, <5>1
        <4> QED  BY <3>1, <4>1, <4>2
      <3>3. b = 1
        BY <2>1 DEF Bit
      <3>4. Bit(c \in recvs') \in Int /\ Bit(c \in recvs) \in Int
        BY DEF Bit
      <3>5. sends'[c] \in Int
        BY <2>0, <3>1
      <3> HIDE DEF kinds, b
      <3> QED  BY <2>0, <3>2, <3>3, <3>4, <3>5, Parts DEF kinds
    <2>2. CASE ~(p.who = c /\ p.kind \in kinds)
      <3>1. (c \in recvs' <=> c \in recvs) /\ sends'[c] = sends[c]
        BY <1>1, <1>3, <2>0, <2>2 DEF Took, Packet
      <3>2. b = 0
        BY <2>2 DEF Bit
      <3>3. Bit(c \in recvs') = Bit(c \in recvs)
        BY <3>1 DEF Bit
      <3>4. Queued(kinds, c)' = Queued(kinds, c)
        BY <2>0, <3>2
      <3> QED  BY <3>1, <3>3, <3>4, Parts
    <2> QED  BY <2>1, <2>2
  <1> SUFFICES ASSUME NEW o \in Owners, o = Listen \/ ctx[o] = "live"
               PROVE  ios[o] = InFlight(o)' + InPort(o)' + Cardinality(Holding(o)) + failed[o]
    BY <1>2, <1>5 DEF Balanced
  <1>9. InFlight(o)' + InPort(o)' = InFlight(o) + InPort(o)
    BY <1>7, <1>8, Constants
  <1> QED  BY <1>9 DEF Balanced

LEMMA BalancedApp ==
  ASSUME Types, Locations, Balanced, Application, KernelTypes', ContextTypes'
  PROVE  Balanced'
  <1>1. /\ \A c \in Clients : \/ ctx'[c] = ctx[c] /\ ios'[c] = ios[c]
                              \/ ctx[c] = "live" /\ ctx'[c] = "freed" /\ ios'[c] = 0
        /\ ios'[Listen] + accepts = ios[Listen] + accepts'
    BY AppAccounts
  <1>2. UNCHANGED <<recvs, sends, failed>> /\ (UNCHANGED port \/ port' = port \o ExitPackets)
    BY DEF Application, StartThreads, StartAccept, RemoveTake, ShutdownCall, Finish, RemoveDelete,
           ShutdownNext, ShutdownDelete, ShutdownNull, ShutdownExits, kernelVars, ghostVars
  <1>3. \A w \in Workers : cur'[w] = cur[w] /\ (pc'[w] = pc[w] \/ cur[w].kind = "none")
    BY OthersStay
  <1>4. \A o : Holding(o)' = Holding(o)
    BY <1>3, WorkersStay
  <1>5. port \in Seq(Packets)
    BY DEF Types, PortTypes
  <1>6. \A o : InPort(o)' = InPort(o)
    <2>1. /\ \A kinds, who : "exit" \notin kinds => Queued(kinds, who)' = Queued(kinds, who)
          /\ AcceptsQueued' = AcceptsQueued
      BY <1>2, <1>5, QueueStays
    <2> QED  BY <2>1 DEF InPort, AcceptsQueued
  <1> SUFFICES ASSUME NEW o \in Owners, o = Listen \/ ctx'[o] = "live"
               PROVE  ios'[o] = InFlight(o)' + InPort(o) + Cardinality(Holding(o)) + failed[o]
    BY <1>2, <1>4, <1>6 DEF Balanced
  <1>7. CASE o = Listen
    <2>1. InFlight(o) = accepts /\ InFlight(o)' = accepts'
      BY <1>7 DEF InFlight
    <2>2. ios[o] = accepts + InPort(o) + Cardinality(Holding(o)) + failed[o]
      BY <1>7, <2>1 DEF Balanced
    <2>3. /\ ios[o] \in Int /\ failed[o] \in Nat /\ InPort(o) \in Nat /\ Cardinality(Holding(o)) \in Nat
          /\ accepts \in Nat
      BY <2>1, Integers0
    <2>4. ios'[o] \in Int /\ accepts' \in Int
      BY <1>7 DEF KernelTypes, ContextTypes
    <2> QED  BY <1>1, <1>7, <2>1, <2>2, <2>3, <2>4
  <1>8. CASE o # Listen
    <2>1. o \in Clients
      BY <1>8, Constants
    <2>2. ctx[o] = "live" /\ ios'[o] = ios[o]
      BY <1>1, <1>8, <2>1
    <2>3. InFlight(o)' = InFlight(o)
      BY <1>2, <1>8 DEF InFlight
    <2> QED  BY <2>2, <2>3 DEF Balanced
  <1> QED  BY <1>7, <1>8

LEMMA BalancedWorker ==
  ASSUME Types, Locations, Unbound, OneReceive, NoContexts, Balanced, NEW w \in Workers, Worker(w), ContextTypes', KernelTypes'
  PROVE  Balanced'
  <1>0. LocationsOf(w) /\ ThreadTypes /\ PortTypes /\ port \in Seq(Packets)
    BY DEF Locations, Types, PortTypes
  <1>1. \A v \in Workers \ {w} : pc'[v] = pc[v] /\ cur'[v] = cur[v]
    BY <1>0, WorkerMoves, Constants
  <1>2. \A o : /\ Cardinality(Holding(o))' \in Nat
               /\ Cardinality(Holding(o))' + Bit(w \in Holding(o)) = Cardinality(Holding(o)) + Bit(w \in Holding(o)')
    BY <1>1, WorkerCounts
  <1> SUFFICES ASSUME NEW o \in Owners, o = Listen \/ ctx'[o] = "live"
               PROVE  ios'[o] = InFlight(o)' + InPort(o)' + Cardinality(Holding(o))' + failed'[o]
    BY DEF Balanced
  <1>3. /\ ios[o] \in Int /\ failed[o] \in Nat
        /\ InFlight(o) \in Nat /\ InPort(o) \in Nat /\ Cardinality(Holding(o)) \in Nat
    BY Integers0
  <1>4. o = Listen \/ ctx[o] = "live" => ios[o] = InFlight(o) + InPort(o) + Cardinality(Holding(o)) + failed[o]
    BY DEF Balanced
  <1>5. CASE Dequeue(w)
    <2>1. /\ port # <<>> /\ port' = Tail(port) /\ Head(port) \in Packets
          /\ cur[w].kind = "none"
          /\ Head(port).kind \notin {"exit", "fail"} => Head(port).who \in Clients
          /\ \/ Head(port).kind = "exit" /\ UNCHANGED <<cur, failed>>
             \/ /\ Head(port).kind = "fail" /\ UNCHANGED <<cur, pc>>
                /\ failed' = [failed EXCEPT ![Head(port).who] = @ + 1]
             \/ /\ Head(port).kind \in {"accept", "data", "close", "sent", "unsent"}
                /\ pc'[w] = "completed" /\ cur'[w] = Head(port) /\ UNCHANGED failed
          /\ UNCHANGED <<ctx, ios, kernelVars>>
      BY <1>0, <1>5, DequeueMoves
    <2>2. /\ \A kinds, who : /\ Queued(kinds, who)' \in Nat
                             /\ Queued(kinds, who) = Queued(kinds, who)' + Bit(Head(port).kind \in kinds /\ Head(port).who = who)
          /\ AcceptsQueued' \in Nat
          /\ AcceptsQueued = AcceptsQueued' + Bit(Head(port).kind = "accept")
      BY <1>0, <2>1, QueueShrinks
    <2> DEFINE ours == IF o = Listen THEN Head(port).kind = "accept" \/ (Head(port).kind = "fail" /\ Head(port).who = Listen)
                       ELSE Head(port).kind \in {"data", "close", "sent", "unsent", "fail"} /\ Head(port).who = o
    <2>3. InPort(o) = InPort(o)' + Bit(ours) /\ InPort(o)' \in Nat
      <3>1. CASE o = Listen
        <4>1. /\ Queued({"fail"}, Listen)' \in Nat
              /\ Queued({"fail"}, Listen) = Queued({"fail"}, Listen)' + Bit(Head(port).kind \in {"fail"} /\ Head(port).who = Listen)
          BY <2>2
        <4>2. InPort(o) = AcceptsQueued + Queued({"fail"}, Listen) /\ InPort(o)' = AcceptsQueued' + Queued({"fail"}, Listen)'
          BY <3>1 DEF InPort, AcceptsQueued
        <4>3. Bit(ours) = Bit(Head(port).kind = "accept") + Bit(Head(port).kind \in {"fail"} /\ Head(port).who = Listen)
          BY <3>1 DEF Bit
        <4>4. Bit(Head(port).kind = "accept") \in Nat /\ Bit(Head(port).kind \in {"fail"} /\ Head(port).who = Listen) \in Nat
          BY DEF Bit
        <4> HIDE DEF ours
        <4> QED  BY <2>2, <4>1, <4>2, <4>3, <4>4
      <3>2. CASE o # Listen
        <4>1. o \in Clients
          BY <3>2, Constants
        <4> QED  BY <2>2, <3>2, <4>1, Parts
      <3> QED  BY <3>1, <3>2
    <2>4. w \notin Holding(o)
      BY <2>1 DEF Holding
    <2>5. Cardinality(Holding(o))' + failed'[o] = Cardinality(Holding(o)) + failed[o] + Bit(ours)
      <3>1. CASE Head(port).kind = "exit"
        <4>1. w \notin Holding(o)' /\ failed'[o] = failed[o] /\ ~ours
          BY <2>1, <3>1 DEF Holding
        <4> QED  BY <1>2, <1>3, <2>4, <4>1 DEF Bit
      <3>2. CASE Head(port).kind = "fail"
        <4>1. w \notin Holding(o)'
          BY <2>1, <3>2 DEF Holding
        <4>2. failed'[o] = failed[o] + Bit(ours)
          <5>1. ours <=> Head(port).who = o
            BY <3>2
          <5> HIDE DEF ours
          <5> QED  BY <1>3, <2>1, <3>2, <5>1 DEF Bit, Types, ContextTypes
        <4>3. Cardinality(Holding(o))' = Cardinality(Holding(o))
          BY <1>2, <1>3, <2>4, <4>1 DEF Bit
        <4>4. Bit(ours) \in Nat
          BY DEF Bit
        <4> HIDE DEF ours
        <4> QED  BY <1>3, <4>2, <4>3, <4>4
      <3>3. CASE Head(port).kind \in {"accept", "data", "close", "sent", "unsent"}
        <4>1. w \in Holding(o)' <=> ours
          BY <2>1, <3>3, Constants DEF Holding
        <4>2. UNCHANGED failed
          BY <2>1, <3>3
        <4> HIDE DEF ours
        <4> QED  BY <1>2, <1>3, <2>4, <4>1, <4>2 DEF Bit
      <3>4. Head(port).kind \in {"exit", "fail", "accept", "data", "close", "sent", "unsent"}
        BY <2>1
      <3> QED  BY <3>1, <3>2, <3>3, <3>4
    <2>6. InFlight(o)' = InFlight(o) /\ ios'[o] = ios[o] /\ (o = Listen \/ ctx[o] = "live")
      BY <2>1 DEF InFlight, kernelVars
    <2>7. Bit(ours) \in Nat /\ failed'[o] \in Nat
      BY DEF Bit, ContextTypes
    <2> HIDE DEF ours
    <2> QED  BY <1>2, <1>3, <1>4, <2>3, <2>5, <2>6, <2>7
  <1>6. CASE ~Dequeue(w)
    <2>1. UNCHANGED <<port, failed>> /\ Client(w) \in Clients /\ (cur'[w] = cur[w] \/ cur'[w] = NoPacket)
      BY <1>0, <1>6, HandlerMoves
    <2>2. InPort(o)' = InPort(o) /\ failed'[o] = failed[o]
      <3>1. /\ \A kinds, who : "exit" \notin kinds => Queued(kinds, who)' = Queued(kinds, who)
            /\ AcceptsQueued' = AcceptsQueued
        BY <1>0, <2>1, QueueStays
      <3> QED  BY <2>1, <3>1 DEF InPort, AcceptsQueued
    <2>3. Bit(w \in Holding(o)) \in Int /\ Bit(w \in Holding(o)') \in Int /\ ios'[o] \in Int
      BY DEF Bit, ContextTypes
    <2>4. CASE o = Listen
      <3>1. ios'[o] + accepts + Bit(w \in Holding(o)) = ios[o] + accepts' + Bit(w \in Holding(o)')
        BY <1>0, <1>6, <2>4, HandlerListen
      <3>2. InFlight(o) = accepts /\ InFlight(o)' = accepts' /\ accepts' \in Nat /\ accepts \in Nat
        BY <2>4 DEF InFlight, KernelTypes, Types
      <3>3. ios[o] = accepts + InPort(o) + Cardinality(Holding(o)) + failed[o]
        BY <1>4, <2>4, <3>2
      <3>4. /\ Cardinality(Holding(o))' \in Nat
            /\ Cardinality(Holding(o))' + Bit(w \in Holding(o)) = Cardinality(Holding(o)) + Bit(w \in Holding(o)')
        BY <1>2
      <3>5. ios'[o] = accepts' + InPort(o) + Cardinality(Holding(o))' + failed[o]
        <4>1. PICK h \in Nat : h = Cardinality(Holding(o))'
          BY <3>4
        <4>2. PICK x \in Int, y \in Int : x = Bit(w \in Holding(o)) /\ y = Bit(w \in Holding(o)')
          BY <2>3
        <4>3. h + x = Cardinality(Holding(o)) + y
          BY <3>4, <4>1, <4>2
        <4>4. ios'[o] + accepts + x = ios[o] + accepts' + y
          BY <3>1, <4>2
        <4> QED  BY <1>3, <2>3, <3>2, <3>3, <4>1, <4>2, <4>3, <4>4
      <3> QED  BY <2>2, <3>2, <3>5
    <2>5. CASE o \in Clients /\ o # Client(w)
      <3>1. ctx'[o] = ctx[o] /\ sends'[o] = sends[o] /\ ios'[o] = ios[o]
        BY <1>6, <2>5, HandlerFrame
      <3>2. o \in recvs' <=> o \in recvs
        BY <1>0, <1>6, <2>5, HandlerReceives
      <3>3. InFlight(o)' = InFlight(o)
        BY <2>5, <3>1, <3>2, Constants DEF InFlight
      <3>4. w \notin Holding(o) /\ w \notin Holding(o)'
        BY <2>1, <2>5, Constants DEF Holding, Client, NoPacket, Packet
      <3>5. Cardinality(Holding(o))' = Cardinality(Holding(o))
        BY <1>2, <1>3, <3>4 DEF Bit
      <3>6. ctx[o] = "live"
        BY <2>5, <3>1, Constants
      <3> QED  BY <1>4, <2>2, <3>1, <3>3, <3>5, <3>6
    <2>6. CASE o \in Clients /\ o = Client(w)
      <3>0. ctx'[o] = "live"
        BY <2>6, Constants
      <3>1. CASE ctx[o] = "live"
        <4>1. ios'[o] + sends[o] + Bit(o \in recvs) + Bit(w \in Holding(o))
                 = ios[o] + sends'[o] + Bit(o \in recvs') + Bit(w \in Holding(o)')
          BY <1>0, <1>6, <2>6, <3>0, <3>1, HandlerClient
        <4>2. InFlight(o) = sends[o] + Bit(o \in recvs) /\ InFlight(o)' = sends'[o] + Bit(o \in recvs')
          BY <2>6, Parts
        <4>3. sends[o] \in Int /\ sends'[o] \in Int /\ Bit(o \in recvs) \in Int /\ Bit(o \in recvs') \in Int
          <5>1. sends[o] \in 0..MaxSends /\ sends'[o] \in 0..MaxSends
            BY <2>6 DEF Types, KernelTypes
          <5> QED  BY <5>1, Bounds DEF Bit
        <4>4. ios'[o] + InFlight(o) + Bit(w \in Holding(o)) = ios[o] + InFlight(o)' + Bit(w \in Holding(o)') /\ InFlight(o)' \in Int
          BY <1>3, <2>3, <4>1, <4>2, <4>3
        <4>5. ios[o] = InFlight(o) + InPort(o) + Cardinality(Holding(o)) + failed[o]
          BY <1>4, <3>1
        <4> QED  BY <1>2, <1>3, <2>2, <2>3, <4>4, <4>5
      <3>2. CASE ctx[o] # "live"
        <4>1. AcceptBind(w) /\ UNCHANGED <<recvs, sends, cur>> /\ ctx'[o] = "live" /\ UNCHANGED ios
          <5>1. AcceptBind(w)
            <6>1. \/ AcceptBind(w) \/ ctx' = ctx \/ ctx' = [ctx EXCEPT ![Client(w)] = "freed"]
              BY <1>6 DEF Worker, Dispatch, SentRemove, AcceptRecv, AcceptInsert,
                AcceptCallback, AcceptRemove, AcceptPost, RecvCallback, RecvRemove, RecvPost, LostErase,
                LostDelete, Send, SendLookup, SendPost, Delete
            <6>2. ctx \in [Clients -> {"none", "live", "freed"}]
              BY DEF Types, ContextTypes
            <6> QED  BY <2>6, <3>0, <3>2, <6>1, <6>2
          <5>2. \/ UNCHANGED <<recvs, sends, cur, ios>>
                \/ ctx' = [ctx EXCEPT ![o] = "freed"]
            BY <2>6, <5>1 DEF AcceptBind, kernelVars
          <5> QED  BY <2>6, <3>0, <5>1, <5>2 DEF Types, ContextTypes
        <4>2. ctx[o] = "none"
          <5>1. pc[w] = "accept.bind" /\ cur[w].kind = "accept" /\ cur[w].who = o
            BY <1>0, <2>6, <4>1 DEF AcceptBind, At, LocationsOf, sending, Client
          <5>2. Binds(w, o)
            BY <1>0, <5>1, Constants DEF Binds, binding, Packet, ThreadTypes
          <5> QED  BY <2>6, <5>2 DEF Unbound
        <4>3. /\ o \notin recvs /\ sends[o] = 0 /\ failed[o] = 0 /\ ios[o] = 0
              /\ InPort(o) = 0 /\ \A v \in Workers : cur[v].who = o => Binds(v, o)
          <5>1. /\ o \notin recvs /\ sends[o] = 0 /\ failed[o] = 0
                /\ Queued({"data", "close", "sent", "unsent", "fail"}, o) = 0
                /\ \A v \in Workers : cur[v].who = o => Binds(v, o)
            BY <2>6, <4>2 DEF Unbound
          <5>2. ios[o] = 0
            BY <2>6, <4>2 DEF NoContexts
          <5>3. InPort(o) = Queued({"data", "close", "sent", "unsent", "fail"}, o)
            BY <2>6, Parts
          <5> QED  BY <5>1, <5>2, <5>3
        <4>4. \A v \in Workers : v \notin Holding(o)'
          BY <2>6, <4>1, <4>3, Constants DEF Holding, Binds, Packet
        <4>5. Holding(o)' = {}
          BY <4>4 DEF Holding
        <4>6. Cardinality(Holding(o))' = 0
          BY <4>5, FS_EmptySet
        <4>7. InFlight(o)' = 0
          BY <2>6, <4>1, <4>3, Parts DEF Bit
        <4> QED  BY <2>2, <4>1, <4>3, <4>6, <4>7
      <3> QED  BY <3>1, <3>2
    <2> QED  BY <2>4, <2>5, <2>6, Constants
  <1> QED  BY <1>5, <1>6

LEMMA Accounted ==
  ASSUME Types, AcceptsKept, NoContexts, Balanced
  PROVE  IOAccounting
  <1>1. accepts \in 0..m_nCountOfThreads
    <2>1. accepts \in Nat /\ slot \in 0..m_nCountOfThreads /\ port \in Seq(Packets)
      BY DEF Types, KernelTypes, PortTypes
    <2>2. Queued({"fail"}, Listen) \in Nat /\ AcceptsQueued \in Nat /\ Cardinality(Accepting) \in Nat
      BY <2>1, QueuedIs, AcceptsQueuedIs, WorkerSets
    <2>3. accepts + Queued({"fail"}, Listen) + AcceptsQueued + Cardinality(Accepting) <= slot
      BY Slots DEF AcceptsKept
    <2>4. slot \in Nat /\ slot <= m_nCountOfThreads
      BY <2>1, Bounds
    <2> QED  BY <2>1, <2>2, <2>3, <2>4, Bounds
  <1>2. ASSUME NEW o \in Owners
        PROVE  ios[o] \in Nat
    <2>1. /\ ios[o] \in Int /\ failed[o] \in Nat
          /\ InFlight(o) \in Nat /\ InPort(o) \in Nat /\ Cardinality(Holding(o)) \in Nat
      BY Integers0
    <2>2. CASE o = Listen \/ ctx[o] = "live"
      <3>1. ios[o] = InFlight(o) + InPort(o) + Cardinality(Holding(o)) + failed[o]
        BY <2>2 DEF Balanced
      <3> QED  BY <2>1, <3>1
    <2>3. CASE o # Listen /\ ctx[o] # "live"
      <3>1. o \in Clients
        BY <2>3, Constants
      <3>2. ctx \in [Clients -> {"none", "live", "freed"}]
        BY DEF Types, ContextTypes
      <3>3. ctx[o] \in {"none", "freed"}
        BY <2>3, <3>1, <3>2
      <3>4. ios[o] = 0 \/ ios[o] >= 0
        BY <3>1, <3>3 DEF NoContexts
      <3> QED  BY <2>1, <3>4
    <2> QED  BY <2>2, <2>3
  <1>3. ios \in [Owners -> Int]
    BY DEF Types, ContextTypes
  <1>4. ios \in [Owners -> Nat]
    BY <1>2, <1>3
  <1>5. \A i \in 1..Len(port) : port[i] \in Packets
    <2>1. port \in Seq(Packets)
      BY DEF Types, PortTypes
    <2> QED  BY <2>1, ElementOfSeq
  <1>6. TypeOK
    BY <1>1, <1>4, <1>5 DEF TypeOK, Types, ThreadTypes, KernelTypes, ContextTypes, Packets
  <1> QED  BY <1>6 DEF IOAccounting, Balanced

LEMMA InitTypes ==
  ASSUME Init
  PROVE  Types /\ Locations
  <1>1. ThreadTypes
    <2>1. NoPacket \in [kind : CurKinds, who : Owners]
      BY Constants DEF NoPacket, Packet, CurKinds
    <2> QED  BY <2>1 DEF Init, ThreadTypes, startLocations, workerLocations
  <1>2. PortTypes
    BY DEF Init, PortTypes
  <1>3. KernelTypes
    <2>1. 0 \in 0..MaxSends /\ 0 \in 0..MaxFailures /\ 0 \in 0..m_nCountOfThreads
      BY Bounds
    <2> QED  BY <2>1 DEF Init, KernelTypes
  <1>4. ContextTypes
    BY DEF Init, ContextTypes
  <1>5. Locations
    <2>1. pc[App] = "start" /\ \A w \in Workers : pc[w] = "none" /\ cur[w] = NoPacket
      BY Constants DEF Init
    <2> QED  BY <2>1 DEF Locations, AppLocations, LocationsOf, startLocations, NoPacket, Packet
  <1> QED  BY <1>1, <1>2, <1>3, <1>4, <1>5 DEF Types

LEMMA InitInvariant ==
  ASSUME Init
  PROVE  IInv
  <1>1. Types /\ Locations
    BY InitTypes
  <1>2. port = <<>> /\ port \in Seq(Packets) /\ \A kinds, who : Queued(kinds, who) = 0
    <2>1. port = <<>> /\ port \in Seq(Packets) /\ Len(port) = 0
      BY <1>1 DEF Init, Types, PortTypes
    <2>2. \A i \in 1..Len(port) : FALSE
      BY <2>1
    <2> QED  BY <2>1, <2>2, QueuedIs
  <1>3. AcceptsQueued = 0
    <2>1. {i \in 1..Len(port) : port[i].kind = "accept"} = {}
      BY <1>2
    <2> QED  BY <2>1, FS_EmptySet DEF AcceptsQueued
  <1>4. \A w \in Workers : cur[w] = NoPacket /\ pc[w] = "none"
    BY Constants DEF Init
  <1>5. /\ Accepting = {} /\ \A c \in Clients : Receiving(c) = {}
        /\ \A kinds, c : c # Listen => Handling(kinds, c) = {}
    BY <1>4, Constants DEF Accepting, Receiving, Handling, NoPacket, Packet
  <1>6. \A o : Holding(o) = {}
    BY <1>4 DEF Holding, NoPacket, Packet
  <1>7. Unbound
    BY <1>2, <1>4, Constants DEF Init, Unbound, NoPacket, Packet
  <1>8. OneReceive
    <2>1. \A c \in Clients : Cardinality(Receiving(c)) = 0
      BY <1>5, FS_EmptySet
    <2>2. \A c : Bit(c \in recvs) = 0
      BY DEF Init, Bit
    <2> QED  BY <1>2, <2>1, <2>2 DEF OneReceive
  <1>9. OneAccept
    BY <1>4 DEF OneAccept, NoPacket, Packet
  <1>10. Lost
    BY <1>4 DEF Init, Lost
  <1>11. Announced
    BY <1>4 DEF Announced, NoPacket, Packet
  <1>12. Registered
    BY DEF Init, Registered
  <1>13. FreedUnreached
    <2>1. pc[App] = "start"
      BY Constants DEF Init
    <2> QED  BY <2>1 DEF Init, FreedUnreached
  <1>14. FailuresCounted
    BY <1>2 DEF FailuresCounted
  <1>15. AcceptsKept
    <2>1. Cardinality(Accepting) = 0
      BY <1>5, FS_EmptySet
    <2>2. AcceptSlots = 0 /\ slot = 0
      BY <1>2, <1>3, <2>1, Slots DEF Init
    <2> QED  BY <2>2 DEF AcceptsKept
  <1>16. NoContexts
    BY Constants DEF Init, NoContexts
  <1>17. Balanced
    <2> SUFFICES ASSUME NEW o \in Owners, o = Listen \/ ctx[o] = "live"
                 PROVE  ios[o] = InFlight(o) + InPort(o) + Cardinality(Holding(o)) + failed[o]
      BY DEF Balanced
    <2>1. o = Listen
      BY Constants DEF Init
    <2>2. Cardinality(Holding(o)) = 0
      BY <1>6, FS_EmptySet
    <2>3. InPort(o) = 0
      BY <1>2, <1>3, <2>1 DEF InPort, AcceptsQueued
    <2>4. InFlight(o) = 0 /\ ios[o] = 0 /\ failed[o] = 0
      BY <2>1 DEF Init, InFlight
    <2> QED  BY <2>2, <2>3, <2>4
  <1> QED  BY <1>1, <1>7, <1>8, <1>9, <1>10, <1>11, <1>12, <1>13, <1>14, <1>15, <1>16, <1>17 DEF IInv

\* A thread that stops, or touches what is freed, leaves everything else alone.
StandsStill == UNCHANGED <<server, ctx, map, ios, kernelVars, port, threadVars, slot, failures, ghostVars>>

LEMMA StandsStillKeeps ==
  ASSUME IInv, StandsStill, wild' \in BOOLEAN
  PROVE  IInv'
  <1>0. UNCHANGED <<server, ctx, map, ios, accepts, recvs, sends, port, pc, cur, back, slot, failures, failed, told>>
    BY DEF StandsStill, kernelVars, threadVars, ghostVars
  <1>1. ThreadTypes' /\ PortTypes' /\ KernelTypes' /\ ContextTypes'
    BY <1>0 DEF IInv, Types, ThreadTypes, PortTypes, KernelTypes, ContextTypes
  <1>2. Types' /\ Locations'
    BY <1>0, <1>1 DEF IInv, Types, Locations, AppLocations, LocationsOf, Client
  <1>3. /\ \A kinds, who : Queued(kinds, who)' = Queued(kinds, who)
        /\ AcceptsQueued' = AcceptsQueued
    BY <1>0 DEF Queued, AcceptsQueued
  <1>4. /\ Accepting' = Accepting
        /\ \A c : Receiving(c)' = Receiving(c)
        /\ \A o : Holding(o)' = Holding(o)
        /\ \A kinds, c : Handling(kinds, c)' = Handling(kinds, c)
    BY <1>0, WorkersStay
  <1>5. Unbound'
    BY <1>0, <1>3 DEF IInv, Unbound, Binds
  <1>6. OneReceive'
    BY <1>0, <1>3, <1>4 DEF IInv, OneReceive
  <1>7. OneAccept'
    BY <1>0 DEF IInv, OneAccept
  <1>8. Lost'
    BY <1>0, <1>3, <1>4 DEF IInv, Lost, Loss, Client
  <1>9. Announced' /\ Registered'
    BY <1>0 DEF IInv, Announced, Registered, Ended, Client
  <1>10. FreedUnreached'
    BY <1>0, <1>3, <1>4 DEF IInv, FreedUnreached, Removed, Client
  <1>11. FailuresCounted'
    BY <1>0, <1>3 DEF IInv, FailuresCounted
  <1>12. AcceptsKept'
    <2>1. AcceptSlots' = AcceptSlots
      BY <1>0, <1>3, <1>4, Slots
    <2> QED  BY <1>0, <2>1 DEF IInv, AcceptsKept
  <1>13. NoContexts'
    BY <1>0 DEF IInv, NoContexts
  <1>14. Balanced'
    <2>1. \A o : InFlight(o)' = InFlight(o) /\ InPort(o)' = InPort(o)
      BY <1>0, <1>3 DEF InFlight, InPort, AcceptsQueued
    <2> QED  BY <1>0, <1>4, <2>1 DEF IInv, Balanced
  <1> QED  BY <1>2, <1>5, <1>6, <1>7, <1>8, <1>9, <1>10, <1>11, <1>12, <1>13, <1>14 DEF IInv

LEMMA StepInvariant ==
  ASSUME IInv, [Next]_vars
  PROVE  IInv'
  <1>1. CASE UNCHANGED vars
    <2>1. StandsStill /\ wild' = wild
      BY <1>1 DEF vars, StandsStill, kernelVars, threadVars, ghostVars
    <2>2. wild \in BOOLEAN
      BY DEF IInv, Types, KernelTypes
    <2> QED  BY <2>1, <2>2, StandsStillKeeps
  <1>2. ASSUME NEW t \in Threads, UseAfterFree(t), UNCHANGED server
        PROVE  IInv'
    <2>1. StandsStill /\ wild' = TRUE
      BY <1>2 DEF UseAfterFree, StandsStill
    <2> QED  BY <2>1, StandsStillKeeps
  <1>3. ASSUME Application \/ Kernel \/ \E w \in Workers : Worker(w), UNCHANGED server
        PROVE  IInv'
    <2>1. Types' /\ Locations'
      <3>1. CASE Application
        <4>1. ThreadTypes' /\ Locations'
          BY <3>1, AppThreads DEF IInv
        <4>2. PortTypes' /\ KernelTypes' /\ ContextTypes'
          BY <1>3, <3>1, AppTypes DEF IInv
        <4> QED  BY <4>1, <4>2 DEF Types
      <3>2. CASE Kernel
        BY <1>3, <3>2, KernelStepTypes DEF IInv
      <3>3. ASSUME NEW w \in Workers, Worker(w)
            PROVE  Types' /\ Locations'
        <4>1. ThreadTypes' /\ Locations'
          BY <3>3, WorkerThreads DEF IInv, Types
        <4>2. PortTypes' /\ KernelTypes' /\ ContextTypes'
          BY <1>3, <3>3, WorkerTypes DEF IInv
        <4> QED  BY <4>1, <4>2 DEF Types
      <3> QED  BY <1>3, <3>1, <3>2, <3>3
    <2>2. Unbound' /\ OneReceive' /\ OneAccept'
      BY <1>3, UnboundStep, OneReceiveStep, OneAcceptStep DEF IInv
    <2>3. Lost' /\ Announced' /\ Registered'
      BY <1>3, LostStep, AnnouncedStep, RegisteredStep DEF IInv
    <2>4. FreedUnreached' /\ FailuresCounted' /\ AcceptsKept' /\ NoContexts'
      BY <1>3, FreedUnreachedStep, FailuresCountedStep, AcceptsKeptStep, NoContextsStep DEF IInv
    <2>5. Balanced'
      <3>1. KernelTypes' /\ ContextTypes'
        BY <2>1 DEF Types
      <3>2. CASE Application
        BY <3>1, <3>2, BalancedApp DEF IInv
      <3>3. CASE Kernel
        BY <3>3, BalancedKernel DEF IInv
      <3>4. ASSUME NEW w \in Workers, Worker(w)
            PROVE  Balanced'
        BY <3>1, <3>4, BalancedWorker DEF IInv
      <3> QED  BY <1>3, <3>2, <3>3, <3>4
    <2> QED  BY <2>1, <2>2, <2>3, <2>4, <2>5 DEF IInv
  <1> QED  BY <1>1, <1>2, <1>3 DEF Next
-----------------------------------------------------------------------------
\* The conjunction of the parts above is an inductive invariant of the server,
\* for any number of workers, connections, sends in flight and failures.
THEOREM InductiveInvariant == SafetySpec => []IInv
  <1>1. Init => IInv
    BY InitInvariant
  <1>2. IInv /\ [Next]_vars => IInv'
    BY StepInvariant
  <1> QED  BY <1>1, <1>2, PTL DEF SafetySpec

\* The server never has more accepts pending, done or in a handler than Start
\* posted, and while nothing has failed it has exactly these: each accept that is
\* handled is posted again (IOCP.cpp 273).
THEOREM AcceptsAreKept == SafetySpec => []AcceptsKept
  <1>1. IInv => AcceptsKept
    BY DEF IInv
  <1> QED  BY <1>1, InductiveInvariant, PTL

\* The state is well-typed, and the list of I/O contexts of the listening socket and
\* of every live connection holds one context for each operation that is pending,
\* queued, in a handler before its release, or was dequeued as failed (126-130).
THEOREM ContextsAreAccounted == SafetySpec => []IOAccounting
  <1>1. IInv => IOAccounting
    BY Accounted DEF IInv
  <1> QED  BY <1>1, InductiveInvariant, PTL

LEMMA HandlingReceives ==
  ASSUME NEW c
  PROVE  Handling({"data", "close"}, c) \subseteq Receiving(c)
  BY DEF Handling, Receiving

LEMMA QueuedFewer ==
  ASSUME port \in Seq(Packets), NEW c
  PROVE  /\ Queued({"data", "close"}, c) \in Nat /\ Queued({"accept", "data", "close"}, c) \in Nat
         /\ Queued({"data", "close"}, c) <= Queued({"accept", "data", "close"}, c)
  <1> DEFINE some == With({"data", "close"}, c)
             more == With({"accept", "data", "close"}, c)
  <1>1. PlacesOf(port, some) \subseteq PlacesOf(port, more)
    BY DEF PlacesOf, With
  <1>2. /\ IsFiniteSet(PlacesOf(port, some)) /\ IsFiniteSet(PlacesOf(port, more))
        /\ Cardinality(PlacesOf(port, some)) \in Nat /\ Cardinality(PlacesOf(port, more)) \in Nat
    BY PlacesFinite
  <1>3. Cardinality(PlacesOf(port, some)) <= Cardinality(PlacesOf(port, more))
    BY <1>1, <1>2, FS_Subset
  <1>4. /\ Queued({"data", "close"}, c) = Cardinality(PlacesOf(port, some))
        /\ Queued({"accept", "data", "close"}, c) = Cardinality(PlacesOf(port, more))
    BY QueuedIs
  <1> QED  BY <1>2, <1>3, <1>4

\* However many workers serve the port, at most one receive of a connection is pending,
\* queued or in a handler, so OnRecved is never called for one connection by two
\* threads at once nor out of order (_DoRecv 322-326).
THEOREM OneReceiveAtATime == SafetySpec => []SingleReceive
  <1>1. IInv => SingleReceive
    <2> SUFFICES ASSUME IInv, NEW c \in Clients
                 PROVE  (IF c \in recvs THEN 1 ELSE 0) + Queued({"data", "close"}, c)
                           + Cardinality(Handling({"data", "close"}, c)) <= 1
      BY DEF SingleReceive, Receives
    <2>1. port \in Seq(Packets)
      BY DEF IInv, Types, PortTypes
    <2>2. /\ IsFiniteSet(Receiving(c)) /\ Cardinality(Receiving(c)) \in Nat
          /\ Cardinality(Handling({"data", "close"}, c)) \in Nat
          /\ Cardinality(Handling({"data", "close"}, c)) <= Cardinality(Receiving(c))
      <3>1. IsFiniteSet(Receiving(c)) /\ Cardinality(Receiving(c)) \in Nat
        BY WorkerSets
      <3>2. /\ IsFiniteSet(Handling({"data", "close"}, c))
            /\ Cardinality(Handling({"data", "close"}, c)) <= Cardinality(Receiving(c))
        BY <3>1, HandlingReceives, FS_Subset
      <3> QED  BY <3>1, <3>2, FS_CardinalityType
    <2>3. Bit(c \in recvs) + Queued({"accept", "data", "close"}, c) + Cardinality(Receiving(c)) <= 1
      BY DEF IInv, OneReceive
    <2>4. Bit(c \in recvs) = (IF c \in recvs THEN 1 ELSE 0) /\ Bit(c \in recvs) \in Nat
      BY DEF Bit
    <2> QED  BY <2>1, <2>2, <2>3, <2>4, QueuedFewer
  <1> QED  BY <1>1, InductiveInvariant, PTL

\* After the OnClientLost of a receive of no bytes, which is called once, nothing of the
\* connection is received any more; and a connection the application was told of, and
\* that is neither lost, by a receive or by a send, nor removed, is found by Send
\* (136-144, 262-271).
THEOREM ToldTruly == SafetySpec => []ConnectionsAsTold
  <1>1. IInv => ConnectionsAsTold
    <2> SUFFICES ASSUME IInv
                 PROVE  LostIsLast
      BY DEF ConnectionsAsTold, IInv
    <2> SUFFICES ASSUME NEW c \in Clients, "lost" \in told[c]
                 PROVE  /\ c \notin recvs
                        /\ Queued({"data", "close"}, c) = 0
                        /\ \A w \in Handling({"data", "close"}, c) : pc[w] \in {"lost.erase", "lost.delete"}
      BY DEF LostIsLast
    <2>1. port \in Seq(Packets)
      BY DEF IInv, Types, PortTypes
    <2>2. /\ c \notin recvs
          /\ Queued({"accept", "data", "close"}, c) = 0
          /\ \A w \in Receiving(c) : pc[w] \in {"lost.erase", "lost.delete"}
      BY DEF IInv, Lost
    <2>3. Queued({"data", "close"}, c) = 0
      BY <2>1, <2>2, QueuedFewer
    <2> QED  BY <2>2, <2>3, HandlingReceives
  <1> QED  BY <1>1, InductiveInvariant, PTL

\* A worker touches a freed socket context only in a send, or when Remove, Shutdown or
\* the handler of a send of no bytes has deleted it or is about to: the handlers of receives and of the loss of a connection work on a
\* live context, however the completions are spread over the workers (136-144,
\* 322-341, 375-389).
THEOREM NoReceiveDangles == SafetySpec => []ReceivesNeverDangle
  <1>1. IInv => ReceivesNeverDangle
    <2> SUFFICES ASSUME IInv, NEW w \in Workers, Touches(w), ctx[Client(w)] = "freed",
                        ~OfASend(w)
                 PROVE  Removed(Client(w))
      BY DEF ReceivesNeverDangle
    <2>1. LocationsOf(w)
      BY DEF IInv, Locations
    <2>2. cur[w].kind \in {"data", "close"} /\ Client(w) \in Clients
      BY <2>1 DEF LocationsOf, Touches, touching, OfASend, opening, binding, sending, Client
    <2>3. w \in Handling({"data", "close"}, Client(w))
      BY <2>2 DEF Handling, Client
    <2> QED  BY <2>2, <2>3 DEF IInv, FreedUnreached
  <1> QED  BY <1>1, InductiveInvariant, PTL
=============================================================================
