-------------------------------- MODULE Server ---------------------------------
(***************************************************************************)
(* The TCP server and main: the listener's goroutine, one handler per      *)
(* connection, the shutdown that a request starts, and main, which waits   *)
(* for all of them and then closes the buffer pool.                        *)
(*                                                                         *)
(* A client sends op codes, each followed by a body unless it is one of    *)
(* noBodyOpCodes; the body may arrive later.  "G" stands for GET and       *)
(* DELETE, which leave the root alone.  The tree is reduced to root, which *)
(* counts how often the root page has changed.                             *)
(***************************************************************************)
EXTENDS Naturals, Sequences, FiniteSets

CONSTANTS Clients,
          MaxRequests,  \* bound on the requests of a client
          MaxRoots      \* bound on changes of the root

ASSUME ClientsAssumption == IsFiniteSet(Clients)
ASSUME MaxRequestsAssumption == MaxRequests \in Nat
ASSUME MaxRootsAssumption == MaxRoots \in Nat

NoBodyOpCodes == {"P", "S", "C"}
OpCodes == NoBodyOpCodes \cup {"I", "G"}
Body == "body"

VARIABLES
    connection,      \* connection[c]: "none", "open", "gone" (client left), "closed"
    stream,          \* stream[c]: what the client sent and the handler has not read
    owesBody,        \* owesBody[c]: the client has a body left to send
    sent,            \* sent[c]: requests so far
    handler,         \* handler[c]: where the goroutine of the connection is
    request,         \* request[c]: the op code it has read
    clientWaitGroup,
    listener,        \* "accepting", "closed" (Accept will fail), "exited"
    once,            \* shutdownOnce: "unused", "tree", "listener", "done"
    shutdown,        \* whether the channel is closed
    main,            \* "run", "clients", "flush", "done"
    root, savedRoot, \* of the tree, and in the metadata since bPlusTree.Close
    diskRoot         \* in the metadata page, once the buffer pool is closed

clientVars == <<connection, stream, owesBody, sent>>
handlerVars == <<handler, request, clientWaitGroup>>
shutdownVars == <<listener, once, shutdown>>
mainVars == <<main, diskRoot>>
treeVars == <<root, savedRoot>>
vars == <<clientVars, handlerVars, shutdownVars, mainVars, treeVars>>

NoRequest == "no request"

TypeOK ==
    /\ connection \in [Clients -> {"none", "open", "gone", "closed"}]
    /\ stream \in [Clients -> Seq(OpCodes \cup {Body})]
    /\ owesBody \in [Clients -> BOOLEAN]
    /\ sent \in [Clients -> 0..MaxRequests]
    /\ handler \in [Clients -> {"none", "select", "read", "body", "serve", "shutdown", "exited"}]
    /\ request \in [Clients -> OpCodes \cup {NoRequest, Body}]
    /\ clientWaitGroup \in 0..Cardinality(Clients)
    /\ listener \in {"accepting", "closed", "exited"}
    /\ once \in {"unused", "tree", "listener", "done"}
    /\ shutdown \in BOOLEAN
    /\ main \in {"run", "clients", "flush", "done"}
    /\ root \in 0..MaxRoots /\ savedRoot \in 0..MaxRoots /\ diskRoot \in 0..MaxRoots

\* NewServer, and Run up to the listener's goroutine.
Init ==
    /\ connection = [c \in Clients |-> "none"]
    /\ stream = [c \in Clients |-> <<>>]
    /\ owesBody = [c \in Clients |-> FALSE]
    /\ sent = [c \in Clients |-> 0]
    /\ handler = [c \in Clients |-> "none"]
    /\ request = [c \in Clients |-> NoRequest]
    /\ clientWaitGroup = 0
    /\ listener = "accepting"
    /\ once = "unused"
    /\ shutdown = FALSE
    /\ main = "run"
    /\ root = 0 /\ savedRoot = 0 /\ diskRoot = 0

--------------------------------------------------------------------------------
(* The clients' side of the connections                                    *)

Send(c, op) ==
    /\ connection[c] = "open"
    /\ ~owesBody[c]
    /\ sent[c] < MaxRequests
    /\ stream' = [stream EXCEPT ![c] = Append(@, op)]
    /\ owesBody' = [owesBody EXCEPT ![c] = op \notin NoBodyOpCodes]
    /\ sent' = [sent EXCEPT ![c] = @ + 1]
    /\ UNCHANGED <<connection, handlerVars, shutdownVars, mainVars, treeVars>>

SendBody(c) ==
    /\ connection[c] = "open"
    /\ owesBody[c]
    /\ stream' = [stream EXCEPT ![c] = Append(@, Body)]
    /\ owesBody' = [owesBody EXCEPT ![c] = FALSE]
    /\ UNCHANGED <<connection, sent, handlerVars, shutdownVars, mainVars, treeVars>>

Disconnect(c) ==
    /\ connection[c] = "open"
    /\ connection' = [connection EXCEPT ![c] = "gone"]
    /\ UNCHANGED <<stream, owesBody, sent, handlerVars, shutdownVars, mainVars, treeVars>>

--------------------------------------------------------------------------------
(* listen and handleClient                                                 *)

Goto(c, pc) == handler' = [handler EXCEPT ![c] = pc]

\* Mutant of Accept: the handler is counted by nobody.
AcceptUncounted(c) ==
    /\ listener = "accepting"
    /\ connection[c] = "none"
    /\ connection' = [connection EXCEPT ![c] = "open"]
    /\ Goto(c, "select")
    /\ UNCHANGED <<stream, owesBody, sent, request, clientWaitGroup, shutdownVars, mainVars, treeVars>>

\* listen accepts a connection, counts its handler and starts it.
Accept(c) ==
    /\ listener = "accepting"
    /\ connection[c] = "none"
    /\ connection' = [connection EXCEPT ![c] = "open"]
    /\ clientWaitGroup' = clientWaitGroup + 1
    /\ Goto(c, "select")
    /\ UNCHANGED <<stream, owesBody, sent, request, shutdownVars, mainVars, treeVars>>

\* Accept returns net.ErrClosed.
ListenerExits ==
    /\ listener = "closed"
    /\ listener' = "exited"
    /\ UNCHANGED <<clientVars, handlerVars, once, shutdown, mainVars, treeVars>>

\* The handler closes the connection, with what is left in it, and returns.
Exit(c) ==
    /\ connection' = [connection EXCEPT ![c] = "closed"]
    /\ stream' = [stream EXCEPT ![c] = <<>>]
    /\ owesBody' = [owesBody EXCEPT ![c] = FALSE]
    /\ clientWaitGroup' = clientWaitGroup - 1
    /\ Goto(c, "exited")
    /\ UNCHANGED <<sent, request, shutdownVars, mainVars, treeVars>>

\* Mutant of SelectShutdown: the channel is not looked at.
SelectShutdownNever(c) == FALSE /\ UNCHANGED vars

\* handleClient sees the closed channel: handleShutdown, and return.
SelectShutdown(c) ==
    /\ handler[c] = "select"
    /\ shutdown
    /\ Exit(c)

\* Otherwise it sets the read deadline and calls handleRequest.
SelectDefault(c) ==
    /\ handler[c] = "select"
    /\ ~shutdown
    /\ Goto(c, "read")
    /\ UNCHANGED <<request, clientWaitGroup, clientVars, shutdownVars, mainVars, treeVars>>

--------------------------------------------------------------------------------
(* readRequest                                                             *)

\* The op code arrives before the deadline, which is then cleared.
ReadOpCode(c) ==
    /\ handler[c] = "read"
    /\ stream[c] # <<>>
    /\ request' = [request EXCEPT ![c] = Head(stream[c])]
    /\ stream' = [stream EXCEPT ![c] = Tail(@)]
    /\ Goto(c, IF Head(stream[c]) \in NoBodyOpCodes THEN "serve" ELSE "body")
    /\ UNCHANGED <<clientWaitGroup, connection, owesBody, sent, shutdownVars, mainVars, treeVars>>

\* Mutant of Timeout: the deadline also holds for the body.
TimeoutAnywhere(c) ==
    /\ handler[c] \in {"read", "body"}
    /\ Goto(c, "select")
    /\ UNCHANGED <<request, clientWaitGroup, clientVars, shutdownVars, mainVars, treeVars>>

\* The deadline passes first (or has passed: then Read fails whatever has
\* arrived, and takes none of it); handleClient goes round its loop.
Timeout(c) ==
    /\ handler[c] = "read"
    /\ Goto(c, "select")
    /\ UNCHANGED <<request, clientWaitGroup, clientVars, shutdownVars, mainVars, treeVars>>

ReadBody(c) ==
    /\ handler[c] = "body"
    /\ stream[c] # <<>>
    /\ stream' = [stream EXCEPT ![c] = Tail(@)]
    /\ Goto(c, "serve")
    /\ UNCHANGED <<request, clientWaitGroup, connection, owesBody, sent, shutdownVars, mainVars, treeVars>>

\* The client has left: a read fails and the handler returns.
ReadFails(c) ==
    /\ handler[c] \in {"read", "body"}
    /\ stream[c] = <<>>
    /\ connection[c] = "gone"
    /\ Exit(c)

--------------------------------------------------------------------------------
(* handleRequest                                                           *)

\* PING, GET and DELETE, and the default branch: a reply.
Reply(c) ==
    /\ handler[c] = "serve"
    /\ request[c] \notin {"I", "C", "S"}
    /\ Goto(c, "select")
    /\ UNCHANGED <<request, clientWaitGroup, clientVars, shutdownVars, mainVars, treeVars>>

\* INSERT, under the tree's lock: the first insertion and the split of a root
\* install a new root.
Insert(c) ==
    /\ handler[c] = "serve"
    /\ request[c] = "I"
    /\ root' \in {root, root + 1} \cap 0..MaxRoots
    /\ Goto(c, "select")
    /\ UNCHANGED <<request, clientWaitGroup, clientVars, shutdownVars, mainVars, savedRoot>>

\* CLOSE: handleRequest returns errClientClosed.
CloseClient(c) ==
    /\ handler[c] = "serve"
    /\ request[c] = "C"
    /\ Exit(c)

\* SHUTDOWN, the first caller of shutdownOnce.Do: the function's three calls.
ShutdownCloseTree(c) ==
    /\ handler[c] = "serve"
    /\ request[c] = "S"
    /\ once = "unused"
    /\ once' = "tree"
    /\ savedRoot' = root
    /\ Goto(c, "shutdown")
    /\ UNCHANGED <<request, clientWaitGroup, clientVars, listener, shutdown, mainVars, root>>

ShutdownCloseListener(c) ==
    /\ handler[c] = "shutdown"
    /\ once = "tree"
    /\ once' = "listener"
    /\ listener' = "closed"
    /\ UNCHANGED <<handlerVars, clientVars, shutdown, mainVars, treeVars>>

ShutdownCloseChannel(c) ==
    /\ handler[c] = "shutdown"
    /\ once = "listener"
    /\ once' = "done"
    /\ shutdown' = TRUE
    /\ Goto(c, "select")
    /\ UNCHANGED <<request, clientWaitGroup, clientVars, listener, mainVars, treeVars>>

\* Mutant of ShutdownReturns: a flag in the place of the Once.
ShutdownReturnsAtOnce(c) ==
    /\ handler[c] = "serve"
    /\ request[c] = "S"
    /\ once # "unused"
    /\ Goto(c, "select")
    /\ UNCHANGED <<request, clientWaitGroup, clientVars, shutdownVars, mainVars, treeVars>>

\* SHUTDOWN, any other caller: Do returns when the first call has finished.
ShutdownReturns(c) ==
    /\ handler[c] = "serve"
    /\ request[c] = "S"
    /\ once = "done"
    /\ Goto(c, "select")
    /\ UNCHANGED <<request, clientWaitGroup, clientVars, shutdownVars, mainVars, treeVars>>

--------------------------------------------------------------------------------
(* Run and main                                                            *)

\* Mutant of RunWaits: the two Wait calls in the other order.
RunWaitsForClientsFirst ==
    /\ \/ main = "run" /\ clientWaitGroup = 0 /\ main' = "clients"
       \/ main = "clients" /\ listener = "exited" /\ main' = "flush"
    /\ UNCHANGED <<diskRoot, clientVars, handlerVars, shutdownVars, treeVars>>

\* listenerWaitGroup.Wait, then clientWaitGroup.Wait.
RunWaits ==
    /\ \/ main = "run" /\ listener = "exited" /\ main' = "clients"
       \/ main = "clients" /\ clientWaitGroup = 0 /\ main' = "flush"
    /\ UNCHANGED <<diskRoot, clientVars, handlerVars, shutdownVars, treeVars>>

\* bufferPoolManager.Close writes the metadata page; wal.Close; main returns.
MainCloses ==
    /\ main = "flush"
    /\ main' = "done"
    /\ diskRoot' = savedRoot
    /\ UNCHANGED <<clientVars, handlerVars, shutdownVars, treeVars>>

--------------------------------------------------------------------------------
ClientStep(c) ==
    \/ \E op \in OpCodes : Send(c, op)
    \/ SendBody(c)
    \/ Disconnect(c)

HandlerStep(c) ==
    \/ SelectShutdown(c) \/ SelectDefault(c)
    \/ ReadOpCode(c) \/ Timeout(c) \/ ReadBody(c) \/ ReadFails(c)
    \/ Reply(c) \/ Insert(c) \/ CloseClient(c)
    \/ ShutdownCloseTree(c) \/ ShutdownCloseListener(c) \/ ShutdownCloseChannel(c)
    \/ ShutdownReturns(c)

Next ==
    \/ \E c \in Clients : Accept(c) \/ ClientStep(c) \/ HandlerStep(c)
    \/ ListenerExits
    \/ RunWaits
    \/ MainCloses

Spec == Init /\ [][Next]_vars

\* Goroutines run, and a client that has sent an op code sends the body.
FairSpec ==
    /\ Spec
    /\ \A c \in Clients : WF_vars(HandlerStep(c)) /\ WF_vars(SendBody(c))
    /\ WF_vars(ListenerExits)
    /\ WF_vars(RunWaits)
    /\ WF_vars(MainCloses)

--------------------------------------------------------------------------------
\* Main closes the buffer pool only when no handler is left that could be
\* using the tree: every handler was counted before the listener's goroutine
\* ended, and Run waits for the listener first.
PoolClosedAfterHandlers ==
    main \in {"flush", "done"} => \A c \in Clients : handler[c] \in {"none", "exited"}

\* However the bytes of a request are spread over time, a handler never takes a
\* body for an op code: the deadline that polls for the shutdown cannot expire
\* in the middle of a request.
RequestsInSync == \A c \in Clients : request[c] # Body

\* When a call of Shutdown has returned to any handler, the tree's root has been
\* saved, the listener is closed and the channel is closed, even if another
\* handler's call did the work.
ShutdownReturnsWhenDone ==
    \A c \in Clients : request[c] = "S" /\ handler[c] \in {"select", "read"} =>
        shutdown /\ listener # "accepting" /\ once = "done"

Active == {c \in Clients : handler[c] \notin {"none", "exited"}}

BodyOpCodes == OpCodes \ NoBodyOpCodes

\* The wait group counts the handlers, and a connection lives as long as its own.
HandlersCounted ==
    /\ clientWaitGroup = Cardinality(Active)
    /\ \A c \in Clients : connection[c] \in {"open", "gone"} <=> c \in Active
    /\ \A c \in Clients : connection[c] = "none" => handler[c] = "none"

\* Run has waited for the listener before it waits for the handlers; one handler
\* at most is in the function of shutdownOnce, which closes the listener and then
\* the channel.
Phases ==
    /\ main # "run" => listener = "exited"
    /\ main \in {"flush", "done"} => Active = {}
    /\ listener = "accepting" <=> once \in {"unused", "tree"}
    /\ shutdown <=> once = "done"
    /\ \A c \in Clients : handler[c] = "shutdown" => once \in {"tree", "listener"}
    /\ \A c, d \in Clients : handler[c] = "shutdown" /\ handler[d] = "shutdown" => c = d
    /\ \A c \in Clients : request[c] = "S" => handler[c] \in {"serve", "shutdown"} \/ once = "done"

\* A body follows each op code that has one, in what was read and what was not.
InSync(c) ==
    /\ \A i \in 1..Len(stream[c]) :
          stream[c][i] = Body <=> IF i = 1 THEN handler[c] = "body" ELSE stream[c][i - 1] \in BodyOpCodes
    /\ owesBody[c] <=> IF stream[c] = <<>> THEN handler[c] = "body"
                       ELSE stream[c][Len(stream[c])] \in BodyOpCodes
    /\ request[c] # Body

\* The inductive invariant behind the three properties above: how many handlers
\* there are, how far the shutdown is, and what each stream holds.
ServerInv == TypeOK /\ HandlersCounted /\ Phases /\ \A c \in Clients : InSync(c)

\* Once a shutdown has begun, every handler ends and main returns.
ShutdownCompletes == once # "unused" ~> main = "done"

\* Main's comment on its last step: what was inserted survives the restart.
\* It does if the metadata page names the tree's root when main returns.
InsertedSurvives == main = "done" => diskRoot = root
================================================================================
