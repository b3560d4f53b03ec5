------------------------------ MODULE ServerProofs -----------------------------
(***************************************************************************)
(* ServerInv is an invariant of the server, for any number of clients and  *)
(* of requests: the order of the two Waits, the Once and the framing of    *)
(* requests are right however the goroutines interleave.                   *)
(***************************************************************************)
EXTENDS Server, FiniteSetTheorems, TLAPS

\* The handlers are finitely many, so the wait group is a natural number.
LEMMA CountFacts ==
    ASSUME NEW S \in SUBSET Clients
    PROVE  /\ IsFiniteSet(S)
           /\ Cardinality(S) \in 0..Cardinality(Clients)
           /\ Cardinality(S) = 0 <=> S = {}
<1>1. IsFiniteSet(S) /\ Cardinality(S) <= Cardinality(Clients)
  BY ClientsAssumption, FS_Subset
<1>2. Cardinality(S) \in Nat /\ Cardinality(Clients) \in Nat
  BY <1>1, ClientsAssumption, FS_CardinalityType
<1> QED
  BY <1>1, <1>2, FS_EmptySet

\* The steps of a handler that only move it from one point to another.
Moves(c) ==
    \/ SelectDefault(c) \/ Timeout(c) \/ Reply(c) \/ Insert(c)
    \/ ShutdownCloseTree(c) \/ ShutdownCloseChannel(c) \/ ShutdownReturns(c)

Exits(c) == SelectShutdown(c) \/ ReadFails(c) \/ CloseClient(c)

\* Main, the listener, and the handler that closes it.
RunSteps == ListenerExits \/ RunWaits \/ MainCloses

\* What a step can be, grouped by what the proofs below need to know of it.
LEMMA NextCases ==
    ASSUME Next
    PROVE  \/ RunSteps
           \/ \E c \in Clients :
                 \/ Accept(c) \/ SendBody(c) \/ Disconnect(c) \/ Moves(c) \/ Exits(c)
                 \/ ReadOpCode(c) \/ ReadBody(c) \/ ShutdownCloseListener(c)
                 \/ \E op \in OpCodes : Send(c, op)
BY Zenon DEF Next, RunSteps, ClientStep, HandlerStep, Moves, Exits

\* NewServer, before the listener accepts.
LEMMA InvInit == Init => ServerInv
<1> SUFFICES ASSUME Init PROVE ServerInv
  OBVIOUS
<1>1. Active = {}
  BY DEF Init, Active
<1>2. Cardinality(Active) = 0 /\ 0 \in 0..Cardinality(Clients)
  BY <1>1, CountFacts
<1>3. TypeOK
  <2>1. <<>> \in Seq(OpCodes \cup {Body})
    OBVIOUS
  <2>2. stream \in [Clients -> Seq(OpCodes \cup {Body})]
    BY <2>1 DEF Init
  <2>3. owesBody \in [Clients -> BOOLEAN] /\ shutdown \in BOOLEAN
    BY Zenon DEF Init
  <2>4. /\ sent \in [Clients -> 0..MaxRequests]
        /\ root \in 0..MaxRoots /\ savedRoot \in 0..MaxRoots /\ diskRoot \in 0..MaxRoots
        /\ clientWaitGroup \in 0..Cardinality(Clients)
    BY <1>2, MaxRequestsAssumption, MaxRootsAssumption DEF Init
  <2>5. /\ connection \in [Clients -> {"none", "open", "gone", "closed"}]
        /\ handler \in [Clients -> {"none", "select", "read", "body", "serve", "shutdown", "exited"}]
        /\ request \in [Clients -> OpCodes \cup {NoRequest, Body}]
        /\ listener \in {"accepting", "closed", "exited"}
        /\ once \in {"unused", "tree", "listener", "done"}
        /\ main \in {"run", "clients", "flush", "done"}
    BY DEF Init
  <2> QED
    BY <2>2, <2>3, <2>4, <2>5, Zenon DEF TypeOK
<1>4. HandlersCounted
  BY <1>1, <1>2 DEF Init, HandlersCounted
<1>5. Phases
  BY <1>1 DEF Init, Phases, NoRequest
<1>6. \A c \in Clients : InSync(c)
  <2> TAKE c \in Clients
  <2>1. stream[c] = <<>> /\ handler[c] # "body" /\ request[c] # Body
    BY DEF Init, NoRequest, Body
  <2>2. \A i \in 1..Len(stream[c]) : FALSE
    BY <2>1
  <2>3. ~owesBody[c]
    BY Zenon DEF Init
  <2> QED
    BY <2>1, <2>2, <2>3, Zenon DEF InSync
<1> QED
  BY <1>3, <1>4, <1>5, <1>6 DEF ServerInv

--------------------------------------------------------------------------------
(* The wait group                                                          *)

\* A handler that moves from one point of its loop to another stays counted.
LEMMA MoveKeepsActive ==
    ASSUME TypeOK, NEW c \in Clients, c \in Active,
           NEW p \in {"select", "read", "body", "serve", "shutdown"}, Goto(c, p)
    PROVE  Active' = Active
BY DEF TypeOK, Active, Goto

\* The connection and the count of a handler that returns go together.
LEMMA ExitFacts ==
    ASSUME TypeOK, NEW c \in Clients, Exits(c)
    PROVE  c \in Active /\ Exit(c) /\ Active' = Active \ {c}
<1>1. c \in Active /\ Exit(c)
  BY DEF Exits, SelectShutdown, ReadFails, CloseClient, Active
<1>2. handler' = [handler EXCEPT ![c] = "exited"]
  BY <1>1 DEF Exit, Goto
<1> QED
  BY <1>1, <1>2 DEF TypeOK, Active

\* Moving and reading leave the count and the connection alone.
LEMMA MoveFacts ==
    ASSUME TypeOK, NEW c \in Clients, Moves(c) \/ ReadOpCode(c) \/ ReadBody(c)
    PROVE  /\ \E p \in {"select", "read", "body", "serve", "shutdown"} : Goto(c, p)
           /\ c \in Active
           /\ Active' = Active
           /\ UNCHANGED <<clientWaitGroup, connection>>
<1>1. \E p \in {"select", "read", "body", "serve", "shutdown"} : Goto(c, p)
  BY DEF Moves, SelectDefault, Timeout, Reply, Insert, ShutdownCloseTree,
         ShutdownCloseChannel, ShutdownReturns, ReadOpCode, ReadBody
<1>2. c \in Active
  BY DEF Moves, SelectDefault, Timeout, Reply, Insert, ShutdownCloseTree,
         ShutdownCloseChannel, ShutdownReturns, ReadOpCode, ReadBody, Active
<1>3. UNCHANGED <<clientWaitGroup, connection>>
  BY DEF Moves, SelectDefault, Timeout, Reply, Insert, ShutdownCloseTree,
         ShutdownCloseChannel, ShutdownReturns, ReadOpCode, ReadBody, clientVars
<1> QED
  BY <1>1, <1>2, <1>3, MoveKeepsActive

\* clientWaitGroup counts the handlers after every step.
LEMMA CountedStep ==
    ASSUME ServerInv, [Next]_vars
    PROVE  HandlersCounted'
<1> USE DEF HandlersCounted
<1>1. TypeOK /\ HandlersCounted
  BY DEF ServerInv
<1>2. CASE UNCHANGED <<handler, connection, clientWaitGroup>>
  <2>1. Active' = Active
    BY <1>2 DEF Active
  <2> QED
    BY <1>1, <1>2, <2>1
<1>3. ASSUME NEW c \in Clients, Accept(c)
      PROVE  HandlersCounted'
  <2>1. /\ connection[c] = "none"
        /\ connection' = [connection EXCEPT ![c] = "open"]
        /\ handler' = [handler EXCEPT ![c] = "select"]
        /\ clientWaitGroup' = clientWaitGroup + 1
    BY <1>3 DEF Accept, Goto
  <2>2. c \notin Active /\ Active' = Active \cup {c}
    BY <1>1, <2>1 DEF TypeOK, Active
  <2>3. IsFiniteSet(Active)
    BY CountFacts DEF Active
  <2>4. Cardinality(Active') = Cardinality(Active) + 1
    BY <2>2, <2>3, FS_AddElement
  <2> QED
    BY <1>1, <2>1, <2>2, <2>4 DEF TypeOK
<1>4. ASSUME NEW c \in Clients, Disconnect(c)
      PROVE  HandlersCounted'
  <2>1. Active' = Active /\ UNCHANGED <<handler, clientWaitGroup>>
    BY <1>4 DEF Disconnect, handlerVars, Active
  <2> QED
    BY <1>1, <1>4, <2>1 DEF Disconnect, TypeOK
<1>5. ASSUME NEW c \in Clients, Moves(c) \/ ReadOpCode(c) \/ ReadBody(c)
      PROVE  HandlersCounted'
  <2>1. /\ c \in Active /\ Active' = Active
        /\ UNCHANGED <<clientWaitGroup, connection>>
        /\ \A d \in Clients : d # c => handler'[d] = handler[d]
    BY <1>1, <1>5, MoveFacts DEF Goto, TypeOK
  <2> QED
    BY <1>1, <2>1
<1>6. ASSUME NEW c \in Clients, Exits(c)
      PROVE  HandlersCounted'
  <2>1. /\ c \in Active /\ Active' = Active \ {c}
        /\ connection' = [connection EXCEPT ![c] = "closed"]
        /\ handler' = [handler EXCEPT ![c] = "exited"]
        /\ clientWaitGroup' = clientWaitGroup - 1
    BY <1>1, <1>6, ExitFacts DEF Exit, Goto
  <2>2. IsFiniteSet(Active)
    BY CountFacts DEF Active
  <2>3. Cardinality(Active') = Cardinality(Active) - 1
    BY <2>1, <2>2, FS_RemoveElement
  <2> QED
    BY <1>1, <2>1, <2>3 DEF TypeOK
<1>7. CASE UNCHANGED vars
  BY <1>2, <1>7 DEF vars, clientVars, handlerVars
<1>8. CASE RunSteps
  BY <1>2, <1>8 DEF RunSteps, ListenerExits, RunWaits, MainCloses, clientVars, handlerVars
<1>9. ASSUME NEW c \in Clients,
             SendBody(c) \/ ShutdownCloseListener(c) \/ \E op \in OpCodes : Send(c, op)
      PROVE  HandlersCounted'
  BY <1>2, <1>9 DEF SendBody, ShutdownCloseListener, Send, clientVars, handlerVars
<1> QED
  BY <1>3, <1>4, <1>5, <1>6, <1>7, <1>8, <1>9, NextCases, Zenon

--------------------------------------------------------------------------------
(* Types and phases                                                        *)

\* Sending, reading and closing keep the streams well typed.
LEMMA StreamStep ==
    ASSUME TypeOK, [Next]_vars
    PROVE  stream' \in [Clients -> Seq(OpCodes \cup {Body})]
<1>1. stream \in [Clients -> Seq(OpCodes \cup {Body})]
  BY DEF TypeOK
<1>2. CASE UNCHANGED stream
  BY <1>1, <1>2
<1>3. ASSUME NEW c \in Clients, NEW x \in OpCodes \cup {Body},
             stream' = [stream EXCEPT ![c] = Append(@, x)]
      PROVE  stream' \in [Clients -> Seq(OpCodes \cup {Body})]
  BY <1>1, <1>3
<1>4. ASSUME NEW c \in Clients, ReadOpCode(c) \/ ReadBody(c)
      PROVE  stream' \in [Clients -> Seq(OpCodes \cup {Body})]
  <2>1. stream[c] # <<>> /\ stream' = [stream EXCEPT ![c] = Tail(@)]
    BY <1>4 DEF ReadOpCode, ReadBody
  <2> QED
    BY <1>1, <2>1
<1>5. ASSUME NEW c \in Clients, Exits(c)
      PROVE  stream' \in [Clients -> Seq(OpCodes \cup {Body})]
  <2>1. stream' = [stream EXCEPT ![c] = <<>>]
    BY <1>5, ExitFacts DEF Exit
  <2> QED
    BY <1>1, <2>1
<1>6. ASSUME NEW c \in Clients, SendBody(c) \/ \E op \in OpCodes : Send(c, op)
      PROVE  stream' \in [Clients -> Seq(OpCodes \cup {Body})]
  BY <1>3, <1>6 DEF SendBody, Send
<1>7. ASSUME NEW c \in Clients,
             Accept(c) \/ Disconnect(c) \/ Moves(c) \/ ShutdownCloseListener(c)
      PROVE  UNCHANGED stream
  BY <1>7 DEF Accept, Disconnect, Moves, SelectDefault, Timeout, Reply, Insert, ShutdownCloseTree,
         ShutdownCloseChannel, ShutdownReturns, ShutdownCloseListener, clientVars
<1>8. CASE UNCHANGED vars \/ RunSteps
  BY <1>2, <1>8 DEF vars, RunSteps, ListenerExits, RunWaits, MainCloses, clientVars
<1> QED
  BY <1>2, <1>4, <1>5, <1>6, <1>7, <1>8, NextCases, Zenon

\* The flags stay Boolean.
LEMMA FlagStep ==
    ASSUME TypeOK, [Next]_vars
    PROVE  owesBody' \in [Clients -> BOOLEAN] /\ shutdown' \in BOOLEAN
<1>1. owesBody \in [Clients -> BOOLEAN] /\ shutdown \in BOOLEAN
  BY Zenon DEF TypeOK
<1>2. \/ UNCHANGED owesBody
      \/ \E c \in Clients, b \in BOOLEAN : owesBody' = [owesBody EXCEPT ![c] = b]
  <2>1. ASSUME NEW c \in Clients, Exits(c)
        PROVE  owesBody' = [owesBody EXCEPT ![c] = FALSE]
    BY <2>1, ExitFacts, Zenon DEF Exit
  <2>2. ASSUME NEW c \in Clients, NEW op \in OpCodes, Send(c, op)
        PROVE  owesBody' = [owesBody EXCEPT ![c] = op \notin NoBodyOpCodes]
    BY <2>2, Zenon DEF Send
  <2>3. ASSUME NEW c \in Clients, SendBody(c)
        PROVE  owesBody' = [owesBody EXCEPT ![c] = FALSE]
    BY <2>3, Zenon DEF SendBody
  <2>4. ASSUME NEW c \in Clients,
               \/ Accept(c) \/ Disconnect(c) \/ Moves(c) \/ ShutdownCloseListener(c)
               \/ ReadOpCode(c) \/ ReadBody(c)
        PROVE  UNCHANGED owesBody
    BY <2>4 DEF Accept, Disconnect, Moves, SelectDefault, Timeout, Reply, Insert,
           ShutdownCloseTree, ShutdownCloseChannel, ShutdownReturns, ShutdownCloseListener,
           ReadOpCode, ReadBody, clientVars
  <2>5. CASE UNCHANGED vars \/ RunSteps
    BY <2>5 DEF vars, RunSteps, ListenerExits, RunWaits, MainCloses, clientVars
  <2>6. FALSE \in BOOLEAN /\ \A op \in OpCodes : (op \notin NoBodyOpCodes) \in BOOLEAN
    BY Zenon
  <2> QED
    BY <2>1, <2>2, <2>3, <2>4, <2>5, <2>6, NextCases, Zenon
<1>3. UNCHANGED shutdown \/ shutdown' = TRUE
  <2>1. ASSUME NEW c \in Clients, Exits(c)
        PROVE  UNCHANGED shutdown
    BY <2>1, ExitFacts DEF Exit, shutdownVars
  <2> QED
    BY <2>1, NextCases
    DEF vars, RunSteps, ListenerExits, RunWaits, MainCloses, Accept, Disconnect, Moves,
        SelectDefault, Timeout, Reply, Insert, ShutdownCloseTree, ShutdownCloseChannel,
        ShutdownReturns, ShutdownCloseListener, ReadOpCode, ReadBody, Send, SendBody, shutdownVars
<1> QED
  BY <1>1, <1>2, <1>3, Zenon

\* Every step is well typed; the bound of the wait group is the number of clients.
LEMMA TypeStep ==
    ASSUME ServerInv, [Next]_vars
    PROVE  TypeOK'
<1>1. TypeOK /\ HandlersCounted'
  BY CountedStep DEF ServerInv
<1>2. clientWaitGroup' \in 0..Cardinality(Clients)
  <2>1. Active' \in SUBSET Clients
    BY DEF Active
  <2> QED
    BY <1>1, <2>1, CountFacts DEF HandlersCounted
<1>3. sent' \in [Clients -> 0..MaxRequests]
  <2>1. ASSUME NEW c \in Clients, NEW op \in OpCodes, Send(c, op)
        PROVE  sent' \in [Clients -> 0..MaxRequests]
    BY <1>1, <2>1, MaxRequestsAssumption DEF Send, TypeOK
  <2>2. UNCHANGED sent \/ \E c \in Clients, op \in OpCodes : Send(c, op)
    BY <1>1, NextCases, ExitFacts
    DEF vars, RunSteps, ListenerExits, RunWaits, MainCloses, Accept, Disconnect, Moves,
        SelectDefault, Timeout, Reply, Insert, ShutdownCloseTree, ShutdownCloseChannel,
        ShutdownReturns, ShutdownCloseListener, ReadOpCode, ReadBody, SendBody, Exit, clientVars
  <2> QED
    BY <1>1, <2>1, <2>2 DEF TypeOK
<1>4. /\ connection' \in [Clients -> {"none", "open", "gone", "closed"}]
      /\ handler' \in [Clients -> {"none", "select", "read", "body", "serve", "shutdown", "exited"}]
  BY <1>1, NextCases, ExitFacts, MoveFacts
  DEF vars, RunSteps, ListenerExits, RunWaits, MainCloses, Accept, Disconnect,
      ShutdownCloseListener, Send, SendBody, Exit, Goto, clientVars, handlerVars, TypeOK
<1>5. request' \in [Clients -> OpCodes \cup {NoRequest, Body}]
  <2>1. ASSUME NEW c \in Clients, ReadOpCode(c)
        PROVE  request' \in [Clients -> OpCodes \cup {NoRequest, Body}]
    <3>1. Head(stream[c]) \in OpCodes \cup {Body}
      BY <1>1, <2>1 DEF ReadOpCode, TypeOK
    <3> QED
      BY <1>1, <2>1, <3>1 DEF ReadOpCode, TypeOK
  <2> QED
    BY <1>1, <2>1, NextCases, ExitFacts
    DEF vars, RunSteps, ListenerExits, RunWaits, MainCloses, Accept, Disconnect, Moves,
        SelectDefault, Timeout, Reply, Insert, ShutdownCloseTree, ShutdownCloseChannel,
        ShutdownReturns, ShutdownCloseListener, ReadBody, Send, SendBody, Exit,
        handlerVars, TypeOK
<1>6. /\ listener' \in {"accepting", "closed", "exited"}
      /\ once' \in {"unused", "tree", "listener", "done"}
      /\ main' \in {"run", "clients", "flush", "done"}
  <2>1. listener' \in {listener, "closed", "exited"}
    BY <1>1, NextCases, ExitFacts
    DEF vars, RunSteps, ListenerExits, RunWaits, MainCloses, Accept, Disconnect, Moves,
        SelectDefault, Timeout, Reply, Insert, ShutdownCloseTree, ShutdownCloseChannel,
        ShutdownReturns, ShutdownCloseListener, ReadOpCode, ReadBody, Send, SendBody, Exit,
        shutdownVars
  <2>2. once' \in {once, "tree", "listener", "done"}
    BY <1>1, NextCases, ExitFacts
    DEF vars, RunSteps, ListenerExits, RunWaits, MainCloses, Accept, Disconnect, Moves,
        SelectDefault, Timeout, Reply, Insert, ShutdownCloseTree, ShutdownCloseChannel,
        ShutdownReturns, ShutdownCloseListener, ReadOpCode, ReadBody, Send, SendBody, Exit,
        shutdownVars
  <2>3. main' \in {main, "clients", "flush", "done"}
    BY <1>1, NextCases, ExitFacts
    DEF vars, RunSteps, ListenerExits, RunWaits, MainCloses, Accept, Disconnect, Moves,
        SelectDefault, Timeout, Reply, Insert, ShutdownCloseTree, ShutdownCloseChannel,
        ShutdownReturns, ShutdownCloseListener, ReadOpCode, ReadBody, Send, SendBody, Exit,
        mainVars
  <2> QED
    BY <1>1, <2>1, <2>2, <2>3 DEF TypeOK
<1>7. root' \in 0..MaxRoots /\ savedRoot' \in 0..MaxRoots /\ diskRoot' \in 0..MaxRoots
  <2>1. /\ root' \in {root} \cup 0..MaxRoots
        /\ savedRoot' \in {savedRoot, root}
        /\ diskRoot' \in {diskRoot, savedRoot}
    BY <1>1, NextCases, ExitFacts
    DEF vars, RunSteps, ListenerExits, RunWaits, MainCloses, Accept, Disconnect, Moves,
        SelectDefault, Timeout, Reply, Insert, ShutdownCloseTree, ShutdownCloseChannel,
        ShutdownReturns, ShutdownCloseListener, ReadOpCode, ReadBody, Send, SendBody, Exit,
        mainVars, treeVars
  <2> QED
    BY <1>1, <2>1 DEF TypeOK
<1> QED
  BY <1>1, <1>2, <1>3, <1>4, <1>5, <1>6, <1>7, StreamStep, FlagStep, Zenon DEF TypeOK

\* The shutdown, the listener and Run advance in step with the handlers.
LEMMA PhasesStep ==
    ASSUME ServerInv, [Next]_vars
    PROVE  Phases'
<1> USE DEF Phases
<1>1. TypeOK /\ HandlersCounted /\ Phases
  BY DEF ServerInv
<1>2. CASE UNCHANGED vars
  BY <1>1, <1>2 DEF vars, handlerVars, shutdownVars, mainVars, Active
<1>3. CASE ListenerExits
  BY <1>1, <1>3 DEF ListenerExits, handlerVars, mainVars, Active
<1>4. CASE RunWaits
  <2>1. clientWaitGroup = 0 => Active = {}
    <3>1. Active \in SUBSET Clients
      BY DEF Active
    <3> QED
      BY <1>1, <3>1, CountFacts DEF HandlersCounted
  <2>2. Active' = Active /\ UNCHANGED <<handler, request, listener, once, shutdown>>
    BY <1>4 DEF RunWaits, handlerVars, shutdownVars, Active
  <2> QED
    BY <1>1, <1>4, <2>1, <2>2 DEF RunWaits
<1>5. CASE MainCloses
  BY <1>1, <1>5 DEF MainCloses, handlerVars, shutdownVars, Active
<1>6. ASSUME NEW c \in Clients, Accept(c)
      PROVE  Phases'
  BY <1>1, <1>6 DEF Accept, Goto, shutdownVars, mainVars, TypeOK, HandlersCounted
<1>7. ASSUME NEW c \in Clients,
             SendBody(c) \/ Disconnect(c) \/ \E op \in OpCodes : Send(c, op)
      PROVE  Phases'
  BY <1>1, <1>7 DEF SendBody, Disconnect, Send, handlerVars, shutdownVars, mainVars, Active
<1>8. ASSUME NEW c \in Clients, Exits(c)
      PROVE  Phases'
  <2>1. /\ c \in Active /\ Active' = Active \ {c}
        /\ handler' = [handler EXCEPT ![c] = "exited"]
        /\ UNCHANGED <<request, listener, once, shutdown, main>>
    BY <1>1, <1>8, ExitFacts DEF Exit, Goto, shutdownVars, mainVars
  <2>2. request[c] = "S" => once = "done"
    BY <1>1, <1>8 DEF Exits, SelectShutdown, ReadFails, CloseClient
  <2> QED
    BY <1>1, <2>1, <2>2 DEF TypeOK
<1>9. ASSUME NEW c \in Clients, ReadOpCode(c) \/ ReadBody(c)
      PROVE  Phases'
  <2>1. Active' = Active /\ UNCHANGED <<listener, once, shutdown, main>>
    BY <1>1, <1>9, MoveFacts DEF ReadOpCode, ReadBody, shutdownVars, mainVars
  <2>2. /\ handler'[c] \in {"serve", "body"}
        /\ request'[c] = "S" => handler'[c] = "serve"
        /\ \A d \in Clients : d # c => handler'[d] = handler[d] /\ request'[d] = request[d]
    <3>1. CASE ReadOpCode(c)
      BY <1>1, <3>1 DEF ReadOpCode, Goto, NoBodyOpCodes, TypeOK
    <3>2. CASE ReadBody(c)
      BY <1>1, <3>2 DEF ReadBody, Goto, TypeOK
    <3> QED
      BY <1>9, <3>1, <3>2
  <2> QED
    BY <1>1, <2>1, <2>2
<1>10. ASSUME NEW c \in Clients, ShutdownCloseListener(c)
       PROVE  Phases'
  BY <1>1, <1>10 DEF ShutdownCloseListener, handlerVars, mainVars, Active
<1>11. ASSUME NEW c \in Clients, Moves(c)
       PROVE  Phases'
  <2>1. c \in Active /\ Active' = Active
    BY <1>1, <1>11, MoveFacts
  <2>2. CASE SelectDefault(c) \/ Timeout(c) \/ Reply(c) \/ Insert(c) \/ ShutdownReturns(c)
    <3>1. /\ request[c] = "S" => once = "done"
          /\ handler'[c] \in {"select", "read"}
          /\ \A d \in Clients : d # c => handler'[d] = handler[d]
      BY <1>1, <2>2 DEF SelectDefault, Timeout, Reply, Insert, ShutdownReturns, Goto, TypeOK
    <3>2. UNCHANGED <<request, listener, once, shutdown, main>>
      BY <2>2 DEF SelectDefault, Timeout, Reply, Insert, ShutdownReturns, shutdownVars, mainVars
    <3> QED
      BY <1>1, <2>1, <3>1, <3>2
  <2>3. CASE ShutdownCloseTree(c)
    BY <1>1, <2>1, <2>3 DEF ShutdownCloseTree, Goto, mainVars, TypeOK
  <2>4. CASE ShutdownCloseChannel(c)
    BY <1>1, <2>1, <2>4 DEF ShutdownCloseChannel, Goto, mainVars, TypeOK
  <2> QED
    BY <1>11, <2>2, <2>3, <2>4, Zenon DEF Moves
<1> QED
  BY <1>2, <1>3, <1>4, <1>5, <1>6, <1>7, <1>8, <1>9, <1>10, <1>11, NextCases, Zenon DEF RunSteps

--------------------------------------------------------------------------------
(* The framing of requests                                                 *)

\* The stream after one more item: the client's next item is the right one.
LEMMA SendInSync ==
    ASSUME TypeOK, NEW c \in Clients, InSync(c),
           SendBody(c) \/ \E op \in OpCodes : Send(c, op)
    PROVE  InSync(c)'
<1> DEFINE s == stream[c]
<1>1. s \in Seq(OpCodes \cup {Body})
  BY DEF TypeOK
<1>2. UNCHANGED <<handler, request>>
  BY DEF SendBody, Send, handlerVars
<1>3. PICK x \in OpCodes \cup {Body} :
         /\ stream'[c] = Append(s, x)
         /\ x = Body <=> owesBody[c]
         /\ owesBody'[c] <=> x \in BodyOpCodes
  <2>1. CASE SendBody(c)
    <3>1. stream'[c] = Append(s, Body) /\ owesBody[c] /\ ~owesBody'[c]
      BY <2>1, Zenon DEF SendBody, TypeOK
    <3>2. Body \notin BodyOpCodes
      BY DEF Body, BodyOpCodes, OpCodes, NoBodyOpCodes
    <3> QED
      BY <3>1, <3>2, Zenon
  <2>2. ASSUME NEW op \in OpCodes, Send(c, op)
        PROVE  /\ stream'[c] = Append(s, op)
               /\ op # Body
               /\ ~owesBody[c]
               /\ owesBody'[c] <=> op \in BodyOpCodes
    <3>1. stream'[c] = Append(s, op) /\ ~owesBody[c]
      BY <2>2, Zenon DEF Send, TypeOK
    <3>2. op # Body
      BY DEF Body, OpCodes, NoBodyOpCodes
    <3>3. owesBody'[c] <=> op \in BodyOpCodes
      BY <2>2, Zenon DEF Send, TypeOK, BodyOpCodes
    <3> QED
      BY <3>1, <3>2, <3>3, Zenon
  <2> QED
    BY <2>1, <2>2, Zenon
<1>4. x = Body <=> IF s = <<>> THEN handler[c] = "body" ELSE s[Len(s)] \in BodyOpCodes
  BY <1>3, Zenon DEF InSync
<1>5. /\ stream'[c] # <<>> /\ Len(stream'[c]) = Len(s) + 1
      /\ stream'[c][Len(s) + 1] = x
      /\ \A i \in 1..Len(s) : stream'[c][i] = s[i]
      /\ Len(s) \in Nat /\ (s = <<>> <=> Len(s) = 0)
  BY <1>1, <1>3
<1>6. \A i \in 1..Len(s) :
         s[i] = Body <=> IF i = 1 THEN handler[c] = "body" ELSE s[i - 1] \in BodyOpCodes
  BY Zenon DEF InSync
<1>7. ASSUME NEW i \in 1..Len(stream'[c])
      PROVE  stream'[c][i] = Body <=>
                IF i = 1 THEN handler[c] = "body" ELSE stream'[c][i - 1] \in BodyOpCodes
  <2>1. CASE i = Len(s) + 1
    BY <1>4, <1>5, <2>1
  <2>2. CASE i # Len(s) + 1
    <3>1. i \in 1..Len(s) /\ (i = 1 \/ i - 1 \in 1..Len(s))
      BY <1>5, <2>2
    <3>2. stream'[c][i] = s[i] /\ (i = 1 \/ stream'[c][i - 1] = s[i - 1])
      BY <1>5, <3>1, Zenon
    <3>3. s[i] = Body <=> IF i = 1 THEN handler[c] = "body" ELSE s[i - 1] \in BodyOpCodes
      BY <1>6, <3>1, Zenon
    <3> QED
      BY <3>2, <3>3
  <2> QED
    BY <2>1, <2>2
<1>8. owesBody'[c] <=> stream'[c][Len(stream'[c])] \in BodyOpCodes
  BY <1>3, <1>5, Zenon
<1> QED
  BY <1>2, <1>5, <1>7, <1>8, Zenon DEF InSync

\* What is left of a sequence without its first element.
LEMMA TailFacts ==
    ASSUME NEW S, NEW s \in Seq(S), s # <<>>
    PROVE  /\ Len(s) \in Nat /\ Len(s) >= 1
           /\ s[1] \in S /\ Head(s) = s[1]
           /\ Tail(s) \in Seq(S) /\ Len(Tail(s)) = Len(s) - 1
           /\ \A i \in 1..Len(Tail(s)) : Tail(s)[i] = s[i + 1]
           /\ Tail(s) = <<>> <=> Len(s) = 1
<1>1. Len(s) \in Nat /\ Len(s) >= 1
  OBVIOUS
<1>2. s[1] \in S /\ Head(s) = s[1]
  BY <1>1
<1>3. Tail(s) \in Seq(S) /\ Len(Tail(s)) = Len(s) - 1
  OBVIOUS
<1>4. \A i \in 1..Len(Tail(s)) : Tail(s)[i] = s[i + 1]
  BY <1>1, <1>3
<1>5. Tail(s) = <<>> <=> Len(Tail(s)) = 0
  <2>1. \A t \in Seq(S) : t = <<>> <=> Len(t) = 0
    OBVIOUS
  <2> QED
    BY <1>3, <2>1, Zenon
<1> QED
  BY <1>1, <1>2, <1>3, <1>4, <1>5

\* The stream after its first item is read: readRequest reads a body exactly
\* when a body is next.
LEMMA ReadInSync ==
    ASSUME TypeOK, NEW c \in Clients, InSync(c), ReadOpCode(c) \/ ReadBody(c)
    PROVE  InSync(c)'
<1> DEFINE s == stream[c]
<1>1. s \in Seq(OpCodes \cup {Body}) /\ s # <<>>
  BY DEF TypeOK, ReadOpCode, ReadBody
<1>2. /\ Len(s) \in Nat /\ Len(s) >= 1
      /\ s[1] \in OpCodes \cup {Body} /\ Head(s) = s[1]
      /\ Tail(s) \in Seq(OpCodes \cup {Body}) /\ Len(Tail(s)) = Len(s) - 1
      /\ \A i \in 1..Len(Tail(s)) : Tail(s)[i] = s[i + 1]
      /\ Tail(s) = <<>> <=> Len(s) = 1
  BY <1>1, TailFacts
<1>3. stream'[c] = Tail(s) /\ owesBody' = owesBody
  BY DEF ReadOpCode, ReadBody, TypeOK
<1>4. \A i \in 1..Len(s) :
         s[i] = Body <=> IF i = 1 THEN handler[c] = "body" ELSE s[i - 1] \in BodyOpCodes
  BY Zenon DEF InSync
<1>5. s[1] = Body <=> handler[c] = "body"
  BY <1>2, <1>4
<1>6. handler'[c] = "body" <=> s[1] \in BodyOpCodes
  <2>1. CASE ReadOpCode(c)
    <3>1. handler'[c] = IF s[1] \in NoBodyOpCodes THEN "serve" ELSE "body"
      BY <1>2, <2>1 DEF ReadOpCode, Goto, TypeOK
    <3>2. s[1] \in OpCodes
      BY <1>2, <1>5, <2>1 DEF ReadOpCode
    <3> QED
      BY <3>1, <3>2 DEF BodyOpCodes
  <2>2. CASE ReadBody(c)
    <3>1. handler'[c] = "serve" /\ s[1] = Body
      BY <1>5, <2>2 DEF ReadBody, Goto, TypeOK
    <3> QED
      BY <3>1 DEF Body, BodyOpCodes, OpCodes, NoBodyOpCodes
  <2> QED
    BY <2>1, <2>2
<1>7. request'[c] # Body
  <2>1. CASE ReadOpCode(c)
    BY <1>2, <1>5, <2>1 DEF ReadOpCode, TypeOK
  <2>2. CASE ReadBody(c)
    BY <2>2 DEF ReadBody, InSync
  <2> QED
    BY <2>1, <2>2
<1>8. ASSUME NEW i \in 1..Len(Tail(s))
      PROVE  Tail(s)[i] = Body <=>
                IF i = 1 THEN handler'[c] = "body" ELSE Tail(s)[i - 1] \in BodyOpCodes
  <2>1. i + 1 \in 1..Len(s) /\ i + 1 # 1 /\ (i + 1) - 1 = i
    BY <1>2
  <2>2. Tail(s)[i] = Body <=> s[i] \in BodyOpCodes
    BY <1>2, <1>4, <2>1
  <2>3. CASE i = 1
    BY <1>6, <2>2, <2>3
  <2>4. CASE i # 1
    <3>1. i - 1 \in 1..Len(Tail(s)) /\ (i - 1) + 1 = i
      BY <1>2, <2>4
    <3>2. Tail(s)[i - 1] = s[i]
      BY <1>2, <3>1
    <3> QED
      BY <2>2, <2>4, <3>2
  <2> QED
    BY <2>3, <2>4
<1>9. owesBody[c] <=> IF Tail(s) = <<>> THEN handler'[c] = "body"
                      ELSE Tail(s)[Len(Tail(s))] \in BodyOpCodes
  <2>1. owesBody[c] <=> s[Len(s)] \in BodyOpCodes
    BY <1>1, Zenon DEF InSync
  <2>2. CASE Tail(s) = <<>>
    <3>1. Len(s) = 1
      BY <1>2, <2>2
    <3>2. handler'[c] = "body" <=> s[Len(s)] \in BodyOpCodes
      BY <1>6, <3>1
    <3> QED
      BY <2>1, <2>2, <3>2, Zenon
  <2>3. CASE Tail(s) # <<>>
    <3>1. Tail(s)[Len(Tail(s))] = s[Len(s)]
      BY <1>2, <2>3
    <3> QED
      BY <2>1, <2>3, <3>1, Zenon
  <2> QED
    BY <2>2, <2>3, Zenon
<1> QED
  BY <1>3, <1>7, <1>8, <1>9, Zenon DEF InSync

\* Every step keeps every stream in sync.
LEMMA SyncStep ==
    ASSUME ServerInv, [Next]_vars, NEW c \in Clients
    PROVE  InSync(c)'
<1>1. TypeOK /\ InSync(c) /\ HandlersCounted
  BY Zenon DEF ServerInv
<1>2. ASSUME UNCHANGED <<stream[c], owesBody[c], request[c]>>,
             handler'[c] = "body" <=> handler[c] = "body"
      PROVE  InSync(c)'
  BY <1>1, <1>2, Zenon DEF InSync
<1>3. ASSUME NEW d \in Clients, SendBody(d) \/ \E op \in OpCodes : Send(d, op)
      PROVE  InSync(c)'
  <2>1. CASE d = c
    BY <1>1, <1>3, <2>1, SendInSync, Zenon
  <2>2. CASE d # c
    <3>1. UNCHANGED <<stream[c], owesBody[c], handler, request>>
      BY <1>1, <1>3, <2>2 DEF SendBody, Send, handlerVars, TypeOK
    <3> QED
      BY <1>2, <3>1, Zenon
  <2> QED
    BY <2>1, <2>2
<1>4. ASSUME NEW d \in Clients, ReadOpCode(d) \/ ReadBody(d)
      PROVE  InSync(c)'
  <2>1. CASE d = c
    BY <1>1, <1>4, <2>1, ReadInSync, Zenon
  <2>2. CASE d # c
    <3>1. UNCHANGED <<stream[c], owesBody, handler[c], request[c]>>
      BY <1>1, <1>4, <2>2 DEF ReadOpCode, ReadBody, Goto, TypeOK
    <3> QED
      BY <1>2, <3>1, Zenon
  <2> QED
    BY <2>1, <2>2
<1>5. ASSUME NEW d \in Clients, Exits(d)
      PROVE  InSync(c)'
  <2>1. Exit(d)
    BY <1>1, <1>5, ExitFacts
  <2>2. CASE d = c
    <3>1. stream'[c] = <<>> /\ handler'[c] # "body" /\ request'[c] # Body
      BY <1>1, <2>1, <2>2 DEF Exit, Goto, TypeOK, InSync
    <3>2. ~owesBody'[c]
      BY <1>1, <2>1, <2>2, Zenon DEF Exit, TypeOK
    <3>3. \A i \in 1..Len(stream'[c]) : FALSE
      BY <3>1
    <3> QED
      BY <3>1, <3>2, <3>3, Zenon DEF InSync
  <2>3. CASE d # c
    <3>1. UNCHANGED <<stream[c], owesBody[c], handler[c], request>>
      BY <1>1, <2>1, <2>3 DEF Exit, Goto, TypeOK
    <3> QED
      BY <1>2, <3>1, Zenon
  <2> QED
    BY <2>2, <2>3
<1>6. ASSUME NEW d \in Clients, Accept(d)
      PROVE  InSync(c)'
  <2>1. UNCHANGED <<stream, owesBody, request>>
    BY <1>6 DEF Accept
  <2>2. handler'[c] = "body" <=> handler[c] = "body"
    BY <1>1, <1>6 DEF Accept, Goto, TypeOK, HandlersCounted
  <2> QED
    BY <1>2, <2>1, <2>2, Zenon
<1>7. ASSUME NEW d \in Clients, Moves(d)
      PROVE  InSync(c)'
  <2>1. UNCHANGED <<stream, owesBody, request>>
    BY <1>7 DEF Moves, SelectDefault, Timeout, Reply, Insert, ShutdownCloseTree,
           ShutdownCloseChannel, ShutdownReturns, clientVars
  <2>2. handler'[c] = "body" <=> handler[c] = "body"
    BY <1>1, <1>7 DEF Moves, SelectDefault, Timeout, Reply, Insert, ShutdownCloseTree,
           ShutdownCloseChannel, ShutdownReturns, Goto, TypeOK
  <2> QED
    BY <1>2, <2>1, <2>2, Zenon
<1>8. ASSUME \/ UNCHANGED vars \/ RunSteps
             \/ \E d \in Clients : Disconnect(d) \/ ShutdownCloseListener(d)
      PROVE  InSync(c)'
  <2>1. UNCHANGED <<stream, owesBody, request, handler>>
    BY <1>8 DEF vars, RunSteps, ListenerExits, RunWaits, MainCloses, Disconnect,
           ShutdownCloseListener, clientVars, handlerVars
  <2> QED
    BY <1>2, <2>1, Zenon
<1> QED
  BY <1>3, <1>4, <1>5, <1>6, <1>7, <1>8, NextCases, Zenon

--------------------------------------------------------------------------------
\* The bookkeeping of handlers, shutdown and streams, in every execution of
\* Run, listen, handleClient and Shutdown.
THEOREM ServerCorrect == Spec => []ServerInv
<1>1. Init => ServerInv
  BY InvInit
<1>2. ServerInv /\ [Next]_vars => ServerInv'
  <2> SUFFICES ASSUME ServerInv, [Next]_vars PROVE ServerInv'
    OBVIOUS
  <2>1. TypeOK' /\ HandlersCounted' /\ Phases'
    BY TypeStep, CountedStep, PhasesStep
  <2>2. \A c \in Clients : InSync(c)'
    BY SyncStep
  <2> QED
    BY <2>1, <2>2, Zenon DEF ServerInv
<1> QED
  BY <1>1, <1>2, PTL DEF Spec

\* main closes the buffer pool after the last handler has returned.
THEOREM PoolClosedAfterHandlersHolds == Spec => []PoolClosedAfterHandlers
<1>1. ServerInv => PoolClosedAfterHandlers
  BY DEF ServerInv, Phases, Active, PoolClosedAfterHandlers
<1> QED
  BY <1>1, ServerCorrect, PTL

\* readRequest never takes a body for an op code, whatever the deadline does.
THEOREM RequestsInSyncHolds == Spec => []RequestsInSync
<1>1. ServerInv => RequestsInSync
  BY Zenon DEF ServerInv, InSync, RequestsInSync
<1> QED
  BY <1>1, ServerCorrect, PTL

\* shutdownOnce.Do returns to no caller before the shutdown is complete.
THEOREM ShutdownReturnsWhenDoneHolds == Spec => []ShutdownReturnsWhenDone
<1>1. ServerInv => ShutdownReturnsWhenDone
  BY DEF ServerInv, Phases, TypeOK, ShutdownReturnsWhenDone
<1> QED
  BY <1>1, ServerCorrect, PTL
================================================================================
