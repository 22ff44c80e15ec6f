-------------------------------- MODULE IOCP --------------------------------
(***************************************************************************)
(* The completion-port server of Windows/IOCP (IOCP.cpp, Types.h): worker  *)
(* threads that take completions off one port and run the accept, receive  *)
(* and send handlers, the map from connections to socket contexts, and the *)
(* application thread that starts the server, sends, removes connections   *)
(* and shuts it down.                                                      *)
(*                                                                         *)
(* A client stands for a connection together with its socket context and   *)
(* its accepted socket.  One action is the code between two points where   *)
(* another thread can see a difference; a step under the server's critical *)
(* section is one action.  The list of I/O contexts of a socket context is *)
(* its length.  The kernel completes pending operations in any order and   *)
(* may fail them (the bound MaxFailures).  It is external code: its writes *)
(* into an OVERLAPPED that was freed before the operation ended are not    *)
(* modelled.                                                               *)
(*                                                                         *)
(* A step that touches a freed socket context has no defined effect: the   *)
(* model sets wild and stops, and claims nothing about what follows.       *)
(***************************************************************************)
EXTENDS Integers, Sequences, FiniteSets, FiniteSetsExt

CONSTANTS Workers,        \* the threads Start creates: m_nCountOfThreads of them
          App,            \* the application's thread
          Clients,        \* the connections that may come in, by address
          Listen,         \* stands for the listening socket's context
          Servers,        \* the servers that are considered, see ServerKind
          MaxSends,       \* bound: sends of a connection in flight
          MaxFailures     \* bound: operations and system calls that fail

\* The server and its application: which connections come in, whether OnAccepted
\* answers with a Send (m_isAcceptWithData), whether OnRecved does (as in
\* main.cpp), whether the application calls Remove on its connections, and whether
\* it destroys the server (Shutdown, ~IOCP).
ServerKind == [clients : SUBSET Clients,
               acceptWithData : BOOLEAN, answers : BOOLEAN,
               removes : BOOLEAN, shutsDown : BOOLEAN]

ASSUME IOCPAssumption ==
         /\ IsFiniteSet(Workers) /\ IsFiniteSet(Clients) /\ Clients \subseteq Nat
         /\ App \notin Workers /\ Listen \notin Clients
         /\ Servers \subseteq ServerKind
         /\ MaxSends \in Nat /\ MaxFailures \in Nat

Threads == Workers \cup {App}
Owners == Clients \cup {Listen}
m_nCountOfThreads == Cardinality(Workers)

VARIABLES server,         \* the member of Servers at work
          ctx,            \* client |-> its socket context: "none", "live", "freed"
          map,            \* m_clientSocketContexts: client |-> "absent", "null", "ctx"
          ios,            \* owner |-> length of its list of I/O contexts
          accepts,        \* AcceptEx operations pending in the kernel
          recvs,          \* clients with a WSARecv pending
          sends,          \* client |-> WSASend operations pending
          port,           \* the queue of the completion port
          pc, cur,        \* where each thread stands; the completion it handles
          back,           \* where the Send in progress returns to
          slot,           \* Start: accepts posted so far
          failures,       \* failures so far
          wild,           \* a freed context was touched
          failed,         \* ghost: owner |-> failed completions dequeued
          told            \* ghost: client |-> the callbacks made for it

kernelVars == <<accepts, recvs, sends>>
threadVars == <<pc, cur, back>>
ghostVars == <<failed, told>>
vars == <<server, ctx, map, ios, accepts, recvs, sends, port, pc, cur, back, slot,
          failures, wild, failed, told>>

Packet(kind, who) == [kind |-> kind, who |-> who]
NoPacket == Packet("none", Listen)

Init == /\ server \in Servers
        /\ ctx = [c \in Clients |-> "none"]
        /\ map = [c \in Clients |-> "absent"]
        /\ ios = [o \in Owners |-> 0]
        /\ accepts = 0
        /\ recvs = {}
        /\ sends = [c \in Clients |-> 0]
        /\ port = <<>>
        /\ pc = [t \in Threads |-> IF t = App THEN "start" ELSE "none"]
        /\ cur = [t \in Threads |-> NoPacket]
        /\ back = [t \in Threads |-> "none"]
        /\ slot = 0
        /\ failures = 0
        /\ wild = FALSE
        /\ failed = [o \in Owners |-> 0]
        /\ told = [c \in Clients |-> {}]
-----------------------------------------------------------------------------
Goto(t, there) == pc' = [pc EXCEPT ![t] = there]
\* The server exists, and nothing undefined has happened.
Alive == ~wild /\ pc[App] # "gone"
At(t, here) == Alive /\ pc[t] = here
Client(t) == cur[t].who

\* The worker has handled its completion and asks for the next one.
Done(w) == /\ pc' = [pc EXCEPT ![w] = "dequeue"]
           /\ cur' = [cur EXCEPT ![w] = NoPacket]

Fail == failures < MaxFailures /\ failures' = failures + 1
Succeed == UNCHANGED failures

NewIOContext(o) == ios' = [ios EXCEPT ![o] = @ + 1]
RemoveContext(o) == ios' = [ios EXCEPT ![o] = @ - 1]
Tell(c, what) == told' = [told EXCEPT ![c] = @ \cup {what}]

\* ~PER_SOCKET_CONTEXT: close the socket, free the I/O contexts of the list.
Delete(c) == /\ ctx[c] = "live"
             /\ ctx' = [ctx EXCEPT ![c] = "freed"]
             /\ ios' = [ios EXCEPT ![c] = 0]

\* _PostAccept: a new socket, a new I/O context and AcceptEx, or nothing.
PostAccept == \/ Succeed /\ accepts' = accepts + 1 /\ NewIOContext(Listen)
              \/ Fail /\ UNCHANGED <<accepts, ios>>
-----------------------------------------------------------------------------
\* Start: bind and listen, create the threads (some may not be created), then
\* post one accept per thread.
StartThreads ==
    /\ At(App, "start")
    /\ \/ Fail /\ Goto(App, "running")
       \/ \E lost \in SUBSET Workers :
             /\ IF lost = {} THEN Succeed ELSE Cardinality(lost) = 1 /\ Fail
             /\ pc' = [t \in Threads |-> IF t = App THEN "start.accept"
                                         ELSE IF t \in lost THEN "none" ELSE "dequeue"]
    /\ UNCHANGED <<ctx, map, ios, kernelVars, port, cur, back, slot, wild, ghostVars>>

AcceptsAsked == m_nCountOfThreads

StartAccept ==
    /\ At(App, "start.accept")
    /\ IF slot < AcceptsAsked
       THEN PostAccept /\ slot' = slot + 1 /\ UNCHANGED pc
       ELSE Goto(App, "running") /\ UNCHANGED <<slot, accepts, ios, failures>>
    /\ UNCHANGED <<ctx, map, recvs, sends, port, cur, back, wild, ghostVars>>
-----------------------------------------------------------------------------
\* _WorkerThread: GetQueuedCompletionStatus takes the oldest packet.  The exit
\* key ends the thread; a failed operation is reported and left as it is.
Dequeue(w) ==
    /\ At(w, "dequeue")
    /\ port # <<>>
    /\ port' = Tail(port)
    /\ LET packet == Head(port)
       IN  CASE packet.kind = "exit" ->
                  Goto(w, "exited") /\ UNCHANGED <<cur, failed>>
             [] packet.kind = "fail" ->
                  failed' = [failed EXCEPT ![packet.who] = @ + 1] /\ UNCHANGED <<cur, pc>>
             [] OTHER ->
                  Goto(w, "completed") /\ cur' = [cur EXCEPT ![w] = packet] /\ UNCHANGED failed
    /\ UNCHANGED <<ctx, map, ios, kernelVars, back, slot, failures, wild, told>>

\* Mutant: a receive of no bytes is reported and then handled like any other.
HandlerFallsThrough(kind) == CASE kind = "accept" -> "accept.bind"
                               [] kind \in {"data", "close"} -> "recv.callback"
                               [] kind = "unsent" -> "lost.erase"
                               [] kind = "sent"   -> "sent.remove"

\* The handler of a completion.  One of no bytes is a lost client, that of a send no
\* less than that of a receive.  (Send always passes the whole buffer; whether its
\* completion ever reports no bytes is up to the system, and left open.)
Handler(kind) == CASE kind = "accept" -> "accept.bind"
                   [] kind = "data"   -> "recv.callback"
                   [] kind \in {"close", "unsent"} -> "lost.erase"
                   [] kind = "sent"   -> "sent.remove"

\* Look at the socket context and the operation, and pick the handler.  Both kinds
\* of loss are told by OnClientLost; told keeps them apart, for the properties.
Dispatch(w) ==
    /\ At(w, "completed")
    /\ LET kind == cur[w].kind
       IN  /\ kind = "accept" \/ ctx[Client(w)] = "live"
           /\ Goto(w, Handler(kind))
           /\ CASE kind = "close"  -> Tell(Client(w), "lost")
                [] kind = "unsent" -> Tell(Client(w), "dropped")
                [] OTHER           -> UNCHANGED told
    /\ UNCHANGED <<ctx, map, ios, kernelVars, port, cur, back, slot, failures, wild, failed>>

\* Mutant: the I/O context of a send is not freed.
SentKeep(w) ==
    /\ At(w, "sent.remove")
    /\ ctx[Client(w)] = "live"
    /\ Done(w)
    /\ UNCHANGED <<ctx, map, ios, kernelVars, port, back, slot, failures, wild, ghostVars>>

\* case Send: OnSent, then free the I/O context.
SentRemove(w) ==
    /\ At(w, "sent.remove")
    /\ ctx[Client(w)] = "live"
    /\ RemoveContext(Client(w))
    /\ Done(w)
    /\ UNCHANGED <<ctx, map, kernelVars, port, back, slot, failures, wild, ghostVars>>
-----------------------------------------------------------------------------
\* _DoAccept: the new socket context, its connection and its binding to the
\* port.  If the binding fails no new accept is posted.
AcceptBind(w) ==
    /\ At(w, "accept.bind")
    /\ \/ /\ Succeed
          /\ ctx' = [ctx EXCEPT ![Client(w)] = "live"]
          /\ Goto(w, "accept.recv") /\ UNCHANGED cur
          /\ UNCHANGED ios
       \/ /\ Fail
          /\ ctx' = [ctx EXCEPT ![Client(w)] = "freed"]
          /\ RemoveContext(Listen)
          /\ Done(w)
    /\ UNCHANGED <<map, kernelVars, port, back, slot, wild, ghostVars>>

\* The first receive.  If it cannot be posted no new accept is posted either.
AcceptRecv(w) ==
    /\ At(w, "accept.recv")
    /\ \/ /\ Succeed
          /\ recvs' = recvs \cup {Client(w)}
          /\ NewIOContext(Client(w))
          /\ Goto(w, "accept.insert") /\ UNCHANGED cur
       \/ /\ Fail
          /\ RemoveContext(Listen)
          /\ Done(w)
          /\ UNCHANGED recvs
    /\ UNCHANGED <<ctx, map, accepts, sends, port, back, slot, wild, ghostVars>>

\* m_clientSocketContexts[pConnection] = pAcceptSocketContext
Insert(c) == map' = [map EXCEPT ![c] = "ctx"]

\* Under the server's lock.
AcceptInsert(w) ==
    /\ At(w, "accept.insert")
    /\ Insert(Client(w))
    /\ Goto(w, "accept.callback")
    /\ UNCHANGED <<ctx, ios, kernelVars, port, cur, back, slot, failures, wild, ghostVars>>

\* OnAccepted, which answers if data came with the connection.
AcceptCallback(w) ==
    /\ At(w, "accept.callback")
    /\ Tell(Client(w), "accepted")
    /\ \/ Goto(w, "accept.remove") /\ UNCHANGED back
       \/ /\ server.acceptWithData
          /\ Goto(w, "send.lookup")
          /\ back' = [back EXCEPT ![w] = "accept.remove"]
    /\ UNCHANGED <<ctx, map, ios, kernelVars, port, cur, slot, failures, wild, failed>>

\* Mutant: no accept is posted for the one that was handled.
AcceptRemoveOnly(w) ==
    /\ At(w, "accept.remove")
    /\ RemoveContext(Listen)
    /\ Done(w)
    /\ UNCHANGED <<ctx, map, kernelVars, port, back, slot, failures, wild, ghostVars>>

AcceptRemove(w) ==
    /\ At(w, "accept.remove")
    /\ RemoveContext(Listen)
    /\ Goto(w, "accept.post")
    /\ UNCHANGED <<ctx, map, kernelVars, port, cur, back, slot, failures, wild, ghostVars>>

AcceptPost(w) ==
    /\ At(w, "accept.post")
    /\ PostAccept
    /\ Done(w)
    /\ UNCHANGED <<ctx, map, recvs, sends, port, back, slot, wild, ghostVars>>
-----------------------------------------------------------------------------
\* _DoRecv: OnRecved, which may answer; free the I/O context; receive again.
RecvCallback(w) ==
    /\ At(w, "recv.callback")
    /\ ctx[Client(w)] = "live"
    /\ IF server.answers
       THEN Goto(w, "send.lookup") /\ back' = [back EXCEPT ![w] = "recv.remove"]
       ELSE Goto(w, "recv.remove") /\ UNCHANGED back
    /\ UNCHANGED <<ctx, map, ios, kernelVars, port, cur, slot, failures, wild, ghostVars>>

\* Mutant: the next receive is posted before the old I/O context is freed.
RecvPostsFirst(w) ==
    /\ At(w, "recv.remove")
    /\ ctx[Client(w)] = "live"
    /\ recvs' = recvs \cup {Client(w)}
    /\ NewIOContext(Client(w))
    /\ Goto(w, "sent.remove")
    /\ UNCHANGED <<ctx, map, accepts, sends, port, cur, back, slot, failures, wild, ghostVars>>

RecvRemove(w) ==
    /\ At(w, "recv.remove")
    /\ ctx[Client(w)] = "live"
    /\ RemoveContext(Client(w))
    /\ Goto(w, "recv.post")
    /\ UNCHANGED <<ctx, map, kernelVars, port, cur, back, slot, failures, wild, ghostVars>>

\* If the receive cannot be posted the client is never heard of again.
RecvPost(w) ==
    /\ At(w, "recv.post")
    /\ ctx[Client(w)] = "live"
    /\ \/ Succeed /\ recvs' = recvs \cup {Client(w)} /\ NewIOContext(Client(w))
       \/ Fail /\ UNCHANGED <<recvs, ios>>
    /\ Done(w)
    /\ UNCHANGED <<ctx, map, accepts, sends, port, back, slot, wild, ghostVars>>

\* _RemoveClientSocketContext: erase the entry under the lock, then delete.
LostErase(w) ==
    /\ At(w, "lost.erase")
    /\ ctx[Client(w)] = "live"
    /\ map' = [map EXCEPT ![Client(w)] = "absent"]
    /\ Goto(w, "lost.delete")
    /\ UNCHANGED <<ctx, ios, kernelVars, port, cur, back, slot, failures, wild, ghostVars>>

LostDelete(w) ==
    /\ At(w, "lost.delete")
    /\ Delete(Client(w))
    /\ Done(w)
    /\ UNCHANGED <<map, kernelVars, port, back, slot, failures, wild, ghostVars>>
-----------------------------------------------------------------------------
\* Send, inside a callback or from the application: the lookup by operator[]
\* leaves a null entry for a connection that has none, and the send fails.
SendLookup(t) ==
    /\ At(t, "send.lookup")
    /\ LET c == Client(t)
       IN  IF map[c] = "ctx"
           THEN Goto(t, "send.post") /\ UNCHANGED map
           ELSE Goto(t, back[t]) /\ map' = [map EXCEPT ![c] = "null"]
    /\ UNCHANGED <<ctx, ios, kernelVars, port, cur, back, slot, failures, wild, ghostVars>>

\* A new I/O context and WSASend; refused, the context is freed again.
SendPost(t) ==
    /\ At(t, "send.post")
    /\ LET c == Client(t)
       IN  /\ ctx[c] = "live"
           /\ \/ /\ sends[c] < MaxSends
                 /\ Succeed
                 /\ sends' = [sends EXCEPT ![c] = @ + 1]
                 /\ NewIOContext(c)
              \/ /\ sends[c] < MaxSends => Fail
                 /\ sends[c] = MaxSends => Succeed
                 /\ UNCHANGED <<sends, ios>>
    /\ Goto(t, back[t])
    /\ UNCHANGED <<ctx, map, accepts, recvs, port, cur, back, slot, wild, ghostVars>>
-----------------------------------------------------------------------------
\* What ends a connection for the application: OnClientLost, by a receive or by a
\* send of no bytes, its own Remove, and OnRemoved.
Ended(c) == told[c] \cap {"lost", "dropped", "removed"} # {}

\* The application removes a connection it was told of and was not told it lost.
RemoveTake(c) ==
    /\ server.removes
    /\ At(App, "running")
    /\ "accepted" \in told[c] /\ ~Ended(c)
    /\ cur' = [cur EXCEPT ![App] = Packet(map[c], c)]
    /\ map' = [map EXCEPT ![c] = "absent"]
    /\ Tell(c, "removed")
    /\ Goto(App, "remove.delete")
    /\ UNCHANGED <<ctx, ios, kernelVars, port, back, slot, failures, wild, failed>>

RemoveDelete ==
    /\ At(App, "remove.delete")
    /\ IF cur[App].kind = "ctx" THEN Delete(Client(App)) ELSE UNCHANGED <<ctx, ios>>
    /\ Goto(App, "running")
    /\ UNCHANGED <<map, kernelVars, port, cur, back, slot, failures, wild, ghostVars>>

\* Shutdown, alone or from the destructor.
ShutdownCall ==
    /\ server.shutsDown
    /\ \/ At(App, "running") /\ \E then \in {"stopped", "gone"} : back' = [back EXCEPT ![App] = then]
       \/ At(App, "stopped") /\ back' = [back EXCEPT ![App] = "gone"]
    /\ Goto(App, "shutdown.next")
    /\ cur' = [cur EXCEPT ![App] = NoPacket]
    /\ UNCHANGED <<ctx, map, ios, kernelVars, port, slot, failures, wild, ghostVars>>

\* The loop over the map takes no lock.  The entries are visited in the order
\* of the connections' addresses; a null context is deleted to no effect.
ShutdownNext ==
    /\ At(App, "shutdown.next")
    /\ LET later == {c \in Clients : map[c] # "absent" /\ (Client(App) = Listen \/ c > Client(App))}
       IN  IF later = {}
           THEN Goto(App, "shutdown.exits") /\ UNCHANGED cur
           ELSE /\ Goto(App, "shutdown.delete")
                /\ cur' = [cur EXCEPT ![App] = Packet(map[Min(later)], Min(later))]
    /\ UNCHANGED <<ctx, map, ios, kernelVars, port, back, slot, failures, wild, ghostVars>>

ShutdownDelete ==
    /\ At(App, "shutdown.delete")
    /\ IF cur[App].kind = "ctx" THEN Delete(Client(App)) ELSE UNCHANGED <<ctx, ios>>
    /\ Goto(App, "shutdown.null")
    /\ UNCHANGED <<map, kernelVars, port, cur, back, slot, failures, wild, ghostVars>>

\* iter->second = NULL, and OnRemoved, for an entry that stays in the map.
ShutdownNull ==
    /\ At(App, "shutdown.null")
    /\ map[Client(App)] # "absent"
    /\ map' = [map EXCEPT ![Client(App)] = "null"]
    /\ Tell(Client(App), "removed")
    /\ Goto(App, "shutdown.next")
    /\ UNCHANGED <<ctx, ios, kernelVars, port, cur, back, slot, failures, wild, failed>>

\* Mutant: one exit packet is not posted.
ExitPacketsShort == [i \in 1..(m_nCountOfThreads - 1) |-> Packet("exit", Listen)]

\* One exit packet per thread; ~IOCP goes on to close the port and free the server.
ExitPackets == [i \in 1..m_nCountOfThreads |-> Packet("exit", Listen)]

ShutdownExits ==
    /\ At(App, "shutdown.exits")
    /\ port' = port \o ExitPackets
    /\ Goto(App, back[App])
    /\ cur' = [cur EXCEPT ![App] = NoPacket]
    /\ UNCHANGED <<ctx, map, ios, kernelVars, back, slot, failures, wild, ghostVars>>

\* The iterator of the loop points at an entry a worker has erased.
IteratorLost == /\ pc[App] \in {"shutdown.next", "shutdown.null"}
                /\ Client(App) # Listen
                /\ map[Client(App)] = "absent"

\* The locations whose code reads or frees the socket context of the client.
touching == {"sent.remove", "recv.callback", "recv.remove", "recv.post",
             "send.post", "lost.erase", "lost.delete"}
Touches(t) == \/ pc[t] \in touching
              \/ pc[t] = "completed" /\ cur[t].kind # "accept"
              \/ pc[t] \in {"remove.delete", "shutdown.delete"} /\ cur[t].kind = "ctx"

\* A thread touches what is freed: a socket context, an entry of the map, or
\* the server itself after the destructor, which does not wait for the threads.
UseAfterFree(t) ==
    /\ ~wild
    /\ \/ Touches(t) /\ ctx[Client(t)] = "freed"
       \/ t = App /\ IteratorLost
       \/ pc[App] = "gone" /\ pc[t] \notin {"none", "exited", "gone"}
    /\ wild' = TRUE
    /\ UNCHANGED <<ctx, map, ios, kernelVars, port, threadVars, slot, failures, ghostVars>>
-----------------------------------------------------------------------------
\* The kernel.  A client that has not come in yet:
Fresh(c) == /\ c \in server.clients
            /\ ctx[c] = "none"
            /\ \A i \in 1..Len(port) : port[i].who # c
            /\ \A t \in Threads : Client(t) # c

Post(packet) == /\ Alive
                /\ port' = Append(port, packet)
                /\ UNCHANGED <<ctx, map, ios, threadVars, slot, wild, ghostVars>>

AcceptDone(c) == /\ accepts > 0 /\ Fresh(c)
                 /\ accepts' = accepts - 1
                 /\ Post(Packet("accept", c))
                 /\ UNCHANGED <<recvs, sends, failures>>

AcceptFail == /\ accepts > 0 /\ Fail
              /\ accepts' = accepts - 1
              /\ Post(Packet("fail", Listen))
              /\ UNCHANGED <<recvs, sends>>

RecvDone(c) == /\ c \in recvs /\ ctx[c] = "live"
               /\ recvs' = recvs \ {c}
               /\ \E kind \in {"data", "close"} : Post(Packet(kind, c))
               /\ UNCHANGED <<accepts, sends, failures>>

SendDone(c) == /\ sends[c] > 0 /\ ctx[c] = "live"
               /\ sends' = [sends EXCEPT ![c] = @ - 1]
               /\ \E kind \in {"sent", "unsent"} : Post(Packet(kind, c))
               /\ UNCHANGED <<accepts, recvs, failures>>

\* Operations on a closed socket are cancelled; those on an open one may fail.
OperationFails(c) == /\ IF ctx[c] = "freed" THEN Succeed ELSE Fail
                     /\ Post(Packet("fail", c))
                     /\ \/ /\ c \in recvs
                           /\ recvs' = recvs \ {c}
                           /\ UNCHANGED <<accepts, sends>>
                        \/ /\ sends[c] > 0
                           /\ sends' = [sends EXCEPT ![c] = @ - 1]
                           /\ UNCHANGED <<accepts, recvs>>

-----------------------------------------------------------------------------
Send(t) == SendLookup(t) \/ SendPost(t)

Worker(w) == \/ Dequeue(w) \/ Dispatch(w) \/ SentRemove(w)
             \/ AcceptBind(w) \/ AcceptRecv(w) \/ AcceptInsert(w) \/ AcceptCallback(w)
             \/ AcceptRemove(w) \/ AcceptPost(w)
             \/ RecvCallback(w) \/ RecvRemove(w) \/ RecvPost(w)
             \/ LostErase(w) \/ LostDelete(w)
             \/ Send(w)

\* What the application's thread does once it has begun.
Finish == \/ RemoveDelete
          \/ ShutdownNext \/ ShutdownDelete \/ ShutdownNull \/ ShutdownExits

Application == \/ StartThreads \/ StartAccept
               \/ \E c \in Clients : RemoveTake(c)
               \/ ShutdownCall
               \/ Finish

Kernel == \/ AcceptFail
          \/ \E c \in Clients : AcceptDone(c) \/ RecvDone(c) \/ SendDone(c) \/ OperationFails(c)

Next == /\ UNCHANGED server
        /\ \/ Application
           \/ Kernel
           \/ \E w \in Workers : Worker(w)
           \/ \E t \in Threads : UseAfterFree(t)

\* The threads keep running.  Clients and the application owe nothing.
Fairness == /\ WF_vars(Finish /\ UNCHANGED server)
            /\ \A w \in Workers : WF_vars(Worker(w) /\ UNCHANGED server)
            /\ \A t \in Threads : WF_vars(UseAfterFree(t) /\ UNCHANGED server)

SafetySpec == Init /\ [][Next]_vars
Spec == SafetySpec /\ Fairness
-----------------------------------------------------------------------------
startLocations == {"start", "start.accept", "running", "stopped", "gone", "remove.delete",
                   "shutdown.next", "shutdown.delete", "shutdown.null", "shutdown.exits"}
workerLocations == {"none", "dequeue", "exited", "completed", "sent.remove",
                    "accept.bind", "accept.recv", "accept.insert", "accept.callback",
                    "accept.remove", "accept.post", "recv.callback", "recv.remove",
                    "recv.post", "lost.erase", "lost.delete", "send.lookup", "send.post"}
packetKinds == {"accept", "data", "close", "sent", "unsent", "fail", "exit"}

TypeOK == /\ server \in Servers
          /\ ctx \in [Clients -> {"none", "live", "freed"}]
          /\ map \in [Clients -> {"absent", "null", "ctx"}]
          /\ ios \in [Owners -> Nat]
          /\ accepts \in 0..m_nCountOfThreads
          /\ recvs \subseteq Clients
          /\ sends \in [Clients -> 0..MaxSends]
          /\ \A i \in 1..Len(port) : port[i] \in [kind : packetKinds, who : Owners]
          /\ pc \in [Threads -> startLocations \cup workerLocations]
          /\ slot \in 0..m_nCountOfThreads
          /\ failures \in 0..MaxFailures
          /\ wild \in BOOLEAN
          /\ told \in [Clients -> SUBSET {"accepted", "lost", "dropped", "removed"}]

\* Packets of some kinds in the port, workers that handle one, for an owner.
Queued(kinds, who) == Cardinality({i \in 1..Len(port) : port[i].kind \in kinds /\ port[i].who = who})
Handling(kinds, c) == {w \in Workers : cur[w].kind \in kinds /\ cur[w].who = c}

Receives(c) == /\ (IF c \in recvs THEN 1 ELSE 0) + Queued({"data", "close"}, c)
                    + Cardinality(Handling({"data", "close"}, c)) <= 1

\* However many workers serve the port, a connection has at most one receive:
\* pending in the kernel, queued, or in a handler.  So OnRecved is never called
\* for one connection by two threads at once, nor out of order (_DoRecv 322-326).
SingleReceive == \A c \in Clients : Receives(c)

\* Nothing is received for a connection after the OnClientLost of a receive of no
\* bytes, which is called once.  Of a send of no bytes this cannot be said: a receive
\* may be with another worker then, or be the next loss.
LostIsLast ==
    \A c \in Clients :
        "lost" \in told[c] =>
            /\ c \notin recvs
            /\ Queued({"data", "close"}, c) = 0
            /\ \A w \in Handling({"data", "close"}, c) : pc[w] \in {"lost.erase", "lost.delete"}

\* A connection the application was told of, and that is neither lost nor
\* removed, is found by Send: the null entry an early Send leaves (431) does not
\* outlive the registration (264).
Registered ==
    \A c \in Clients :
        /\ "accepted" \in told[c]
        /\ ~Ended(c)
        => map[c] = "ctx"

\* What the application is told of a connection can be relied on: once it is told of
\* it, and until it is told of a loss or removes it, it can send to it, and after
\* the loss that a receive told of nothing comes from it any more (136-144, 262-271).
ConnectionsAsTold == LostIsLast /\ Registered

\* The accepts posted, done or failed but not handled, or in a handler.
AcceptSlots == accepts + Queued({"fail"}, Listen)
                 + Cardinality({i \in 1..Len(port) : port[i].kind = "accept"})
                 + Cardinality({w \in Workers : cur[w].kind = "accept"})

\* The server never waits for more connections at once than Start asked for, and
\* while nothing has failed it waits for no fewer: every accept that is handled
\* is posted again (273), whatever happens to its connection meanwhile.
AcceptsKept == /\ AcceptSlots <= slot
               /\ failures = 0 => AcceptSlots = slot

\* The I/O contexts of an owner that workers are handling.
Holding(o) == {w \in Workers : /\ cur[w].who = o \/ (o = Listen /\ cur[w].kind = "accept")
                               /\ cur[w].kind = "accept" => o = Listen /\ pc[w] # "accept.post"
                               /\ cur[w].kind = "data" => pc[w] # "recv.post"
                               /\ cur[w].kind # "none"}
InFlight(o) == IF o = Listen THEN accepts ELSE sends[o] + (IF o \in recvs THEN 1 ELSE 0)
InPort(o) == IF o = Listen
             THEN Cardinality({i \in 1..Len(port) : port[i].kind = "accept"}) + Queued({"fail"}, o)
             ELSE Queued({"data", "close", "sent", "unsent", "fail"}, o)

\* The state is well-typed, and the I/O contexts of an owner are those of the
\* operations not yet handled, and those of failed operations, which are never freed
\* (126-130).
IOAccounting ==
    /\ TypeOK
    /\ \A o \in Owners : (o = Listen \/ ctx[o] = "live") =>
          ios[o] = InFlight(o) + InPort(o) + Cardinality(Holding(o)) + failed[o]

\* The application or Shutdown has deleted the context of the connection, or the
\* handler of a send of no bytes does, whatever becomes of the receive.
Removed(c) == \/ told[c] \cap {"dropped", "removed"} # {}
              \/ pc[App] = "shutdown.null" /\ Client(App) = c

\* What the worker does is part of a send: its completion (136-149), or the Send of
\* OnAccepted, which comes when the first receive is posted already.
OfASend(w) == \/ cur[w].kind \in {"sent", "unsent"}
              \/ cur[w].kind = "accept" /\ pc[w] = "send.post"

\* A worker touches a freed context in a send, or after Remove, Shutdown or a send of
\* no bytes, and in no other way: however completions are spread over the workers,
\* the handlers of its receives and of its loss work on a live context (136-144,
\* 322-341, 375-389), also the Send that OnRecved makes.
ReceivesNeverDangle ==
    \A w \in Workers : Touches(w) /\ ctx[Client(w)] = "freed" =>
        Removed(Client(w)) \/ OfASend(w)

\* Shutdown ends every worker thread: one exit packet each, behind whatever the
\* port still holds (120-124, 502-505).
ShutdownStopsWorkers ==
    pc[App] = "stopped" ~> \/ \A w \in Workers : pc[w] \in {"none", "exited"}
                           \/ wild \/ pc[App] = "gone"

\* What the comment at IOCP.cpp 490 says of the loop below it: that it releases
\* all socket contexts.
ShutdownReleasesAll == pc[App] = "shutdown.exits" => \A c \in Clients : ctx[c] # "live"
=============================================================================
