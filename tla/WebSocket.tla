----------------------------- MODULE WebSocket -----------------------------
(***************************************************************************)
(* Delivery over WebSockets: the connections and their registry            *)
(* (internal/handlers/websocket_handler.go) together with the requests     *)
(* that say where an event goes (module Routing) and the executors the     *)
(* dispatcher's workers call (internal/actions).                           *)
(*                                                                         *)
(* The mutex of the handler is held while a worker writes to a connection, *)
(* and no deadline ends a write to a peer that does not read.  A           *)
(* connection is a new *websocket.Conn: its id is used once.  The answers  *)
(* of the read loop, which need no mutex, are written at once.  Of a row   *)
(* there are the columns that say where the event goes; whether a dispatch *)
(* ends its event, which depends on the others, is left open.              *)
(***************************************************************************)
EXTENDS Routing

CONSTANTS
    Conns,        \* bound: the connections that are opened
    Handshakes,   \* first messages of clients: type, token, name, tags
    Events,       \* event ids
    Tokens,       \* what strings are made of, the prefix "q:" among them
    Creates,      \* what POST may ask for: action and webhook
    Updates,      \* what PUT may ask for
    Requests,     \* bound: PUT requests
    Workers,      \* workers of the dispatcher
    MaxDispatches \* bound: dispatches

\* mu's value while nobody holds the mutex.
Free == "free"

\* Connections are finitely many, and a request's action and webhook are strings
\* that may be missing.
ASSUME WebSocketAssumption ==
    /\ IsFiniteSet(Conns)
    /\ Free \notin Workers
    /\ MaxDispatches \in Nat
    /\ "q:" \in Tokens
    /\ \A req \in Creates \cup Updates :
          /\ req.action \in Seq([type : STRING, target : Seq(Tokens)])
          /\ req.webhook \in Seq(Seq(Tokens))
          /\ Len(req.action) <= 1 /\ Len(req.webhook) <= 1

VARIABLES
    conn,       \* the handler goroutine of each connection
    alive,      \* connections whose peer is there
    stalled,    \* those whose peer is there and does not read
    hooks,      \* clientHookConns and tagListenerConns: pairs key, connection;
    listeners,  \* a key without connections is no key
    rrState,    \* round-robin index of each client that had one
    mu,         \* who holds the mutex
    table,      \* table events: the columns action and webhook
    request,    \* PUT requests in progress
    worker,     \* dispatches in progress
    dispatches, \* how many there were
    asked       \* history: what the last writer of the row asked for, or had read

wsVars == <<conn, alive, stalled, hooks, listeners, rrState, mu, table, request,
            worker, dispatches, asked>>

peerVars == <<alive, stalled>>
connVars == <<conn, peerVars, hooks, listeners>>
eventVars == <<table, request, asked>>
workVars == <<worker, dispatches, rrState>>

Idle == [pc |-> "idle"]

-----------------------------------------------------------------------------
(* WebSocketHandler.Handle *)

At(c, pc) == conn[c].pc = pc
GoTo(c, pc) == conn' = [conn EXCEPT ![c].pc = pc]

Connect(c) ==
    /\ At(c, "new")
    /\ GoTo(c, "handshake")
    /\ alive' = alive \cup {c}
    /\ UNCHANGED <<stalled, hooks, listeners, mu, eventVars, workVars>>

Acceptable(m) ==
    /\ m.token # ""
    /\ \/ m.type = "client-hook" /\ m.name # <<>>
       \/ m.type = "tag-listener" /\ m.tags # {}

\* The first message: an error is answered and the connection closed.
Handshake(c, m) ==
    /\ At(c, "handshake")
    /\ c \in alive
    /\ conn' = [conn EXCEPT ![c] =
         IF Acceptable(m) THEN [pc |-> "register", init |-> m] ELSE [pc |-> "closed"]]
    /\ UNCHANGED <<peerVars, hooks, listeners, mu, eventVars, workVars>>

HookOf(c, m) == IF m.type = "client-hook" THEN {<<m.name, c>>} ELSE {}
ListenerOf(c, m) == IF m.type = "tag-listener" THEN m.tags \X {c} ELSE {}

\* Under the mutex; then the answer and the read loop.
Register(c) ==
    /\ At(c, "register")
    /\ mu = Free
    /\ hooks' = hooks \cup HookOf(c, conn[c].init)
    /\ listeners' = listeners \cup ListenerOf(c, conn[c].init)
    /\ GoTo(c, "serve")
    /\ UNCHANGED <<peerVars, mu, eventVars, workVars>>

\* Mutant: the read loop returns instead of breaking off.
ReadFailsReturn(c) ==
    /\ c \notin alive
    /\ \/ At(c, "handshake") /\ GoTo(c, "closed")
       \/ At(c, "serve") /\ GoTo(c, "closed")
    /\ UNCHANGED <<peerVars, hooks, listeners, mu, eventVars, workVars>>

ReadFails(c) ==
    /\ c \notin alive
    /\ \/ At(c, "handshake") /\ GoTo(c, "closed")
       \/ At(c, "serve") /\ GoTo(c, "cleanup")
    /\ UNCHANGED <<peerVars, hooks, listeners, mu, eventVars, workVars>>

\* Mutant: the connection goes with the last one of its key only.
CleanupLastOnly(c) ==
    /\ At(c, "cleanup")
    /\ mu = Free
    /\ hooks' = IF Cardinality(hooks) = 1 THEN hooks \ HookOf(c, conn[c].init) ELSE hooks
    /\ listeners' = listeners \ ListenerOf(c, conn[c].init)
    /\ GoTo(c, "closed")
    /\ UNCHANGED <<peerVars, mu, eventVars, workVars>>

\* Under the mutex.  The round-robin state stays.
Cleanup(c) ==
    /\ At(c, "cleanup")
    /\ mu = Free
    /\ hooks' = hooks \ HookOf(c, conn[c].init)
    /\ listeners' = listeners \ ListenerOf(c, conn[c].init)
    /\ GoTo(c, "closed")
    /\ UNCHANGED <<peerVars, mu, eventVars, workVars>>

\* The peer goes away; the handler learns of it when it reads.
PeerDies(c) ==
    /\ c \in alive
    /\ alive' = alive \ {c}
    /\ stalled' = stalled \ {c}
    /\ UNCHANGED <<conn, hooks, listeners, mu, eventVars, workVars>>

\* The peer stops reading, and reads again.
PeerStalls(c) ==
    /\ At(c, "serve")
    /\ c \in alive \ stalled
    /\ stalled' = stalled \cup {c}
    /\ UNCHANGED <<conn, alive, hooks, listeners, mu, eventVars, workVars>>

PeerReads(c) ==
    /\ c \in stalled
    /\ stalled' = stalled \ {c}
    /\ UNCHANGED <<conn, alive, hooks, listeners, mu, eventVars, workVars>>

HandlerStep(c) == Register(c) \/ ReadFails(c) \/ Cleanup(c)

-----------------------------------------------------------------------------
(* Where an event goes *)

NoRow == Row(Action("none", <<>>), <<>>)

CreateEvent(e, req) ==
    /\ table[e] = NoRow
    /\ \E row \in {deriveActionFromRequest(req.webhook, req.action)} :
          /\ row # <<>>
          /\ table' = [table EXCEPT ![e] = deriveAndSetAction(row[1])]
    /\ asked' = [asked EXCEPT ![e] = Asks(req)]
    /\ UNCHANGED <<connVars, mu, request, workVars>>

\* GetByID.
Fetched(e) == populateWebhookFromAction(table[e])

\* PUT reads a row, replaces what the request says ...
ReadForUpdate(r, e, req) ==
    /\ request[r].pc = "new"
    /\ table[e] # NoRow
    /\ \E row \in {Apply(Fetched(e), req)} :
          request' = [request EXCEPT ![r] =
            IF row = <<>> THEN [pc |-> "done"]
            ELSE [pc |-> "write", event |-> e, row |-> row[1],
                  asks |-> Asks(req), found |-> asked[e]]]
    /\ UNCHANGED <<connVars, mu, table, asked, workVars>>

\* ... and writes it back.
WriteUpdate(r) ==
    /\ request[r].pc = "write"
    /\ table' = [table EXCEPT ![request[r].event] = deriveAndSetAction(request[r].row)]
    /\ asked' = [asked EXCEPT ![request[r].event] =
                   IF request[r].asks # {} THEN request[r].asks ELSE request[r].found]
    /\ request' = [request EXCEPT ![r] = [pc |-> "done"]]
    /\ UNCHANGED <<connVars, mu, workVars>>

-----------------------------------------------------------------------------
(* The executors *)

Go(w, state) == worker' = [worker EXCEPT ![w] = state]

\* A worker has read the event of a due occurrence.
Dispatch(w, e) ==
    /\ worker[w] = Idle
    /\ dispatches < MaxDispatches
    /\ dispatches' = dispatches + 1
    /\ table[e] # NoRow
    /\ Go(w, [pc |-> "execute", event |-> e, row |-> Fetched(e), asked |-> asked[e]])
    /\ UNCHANGED <<connVars, rrState, mu, eventVars>>

\* After a success the event may be over, and is to be inactivated.
Finish(w) ==
    \/ Go(w, Idle)
    \/ Go(w, [pc |-> "update", event |-> worker[w].event, row |-> worker[w].row,
              asked |-> worker[w].asked])

\* ActionsManager.Execute with the webhook executor: an HTTP call, whose
\* outcome module Dispatcher looks at.
ExecuteWebhook(w) ==
    /\ worker[w].pc = "execute"
    /\ worker[w].row.action.type = "webhook"
    /\ Finish(w)
    /\ UNCHANGED <<connVars, dispatches, rrState, mu, eventVars>>

ConnsOf(client) == {c \in Conns : <<client, c>> \in hooks}

\* Mutant: the index is used as it was left.
PickStale(n, index) == index

\* The position in the list of n connections, counted from 0.
Pick(n, index) == index % n

\* Mutant: the index is not brought back.
AdvanceForever(n, index) == index + 1

Advance(n, index) == (index + 1) % n

\* Mutant: the early return keeps the mutex.
NoClientLocked(w, client) ==
    /\ ConnsOf(client) = {}
    /\ Go(w, Idle)
    /\ mu' = w
    /\ UNCHANGED rrState

\* DispatchToClient without a connection to write to.
NoClient(w, client) ==
    /\ ConnsOf(client) = {}
    /\ Go(w, Idle)
    /\ UNCHANGED <<mu, rrState>>

\* Mutant: the mutex is released before the connection is used.
WriteToUnlocked(w, client) ==
    /\ \E c \in ConnsOf(client) :
          Go(w, [pc |-> "write", event |-> worker[w].event, row |-> worker[w].row,
                 asked |-> worker[w].asked, to |-> c])
    /\ UNCHANGED <<mu, rrState>>

\* The connections are listed in any order: a map is iterated.  Outside of the
\* list there is no connection.
WriteTo(w, client) ==
    LET n == Cardinality(ConnsOf(client))
        index == IF client \in DOMAIN rrState THEN rrState[client] ELSE 0
    IN /\ n > 0
       /\ IF Pick(n, index) < n
          THEN \E c \in ConnsOf(client) :
                  Go(w, [pc |-> "write", event |-> worker[w].event, row |-> worker[w].row,
                         asked |-> worker[w].asked, to |-> c])
          ELSE Go(w, [pc |-> "panic"])
       /\ rrState' = [k \in DOMAIN rrState \cup {client} |->
                        IF k = client THEN Advance(n, index) ELSE rrState[k]]
       /\ mu' = w

\* The websocket executor.
DispatchToClient(w) ==
    /\ worker[w].pc = "execute"
    /\ worker[w].row.action.type = "websocket"
    /\ mu = Free
    /\ \/ NoClient(w, worker[w].row.action.target)
       \/ WriteTo(w, worker[w].row.action.target)
    /\ UNCHANGED <<connVars, dispatches, eventVars>>

\* WriteMessage returns, with or without an error, and the mutex is free again.
\* It may return although the peer does not read: the kernel has a buffer.
Written(w) ==
    /\ worker[w].pc = "write"
    /\ Finish(w)
    /\ mu' = Free
    /\ UNCHANGED <<connVars, dispatches, rrState, eventVars>>

\* dispatchWebhook inactivates the event: the row the worker read is written
\* back, the columns action and webhook with it.
Inactivate(w) ==
    /\ worker[w].pc = "update"
    /\ table' = [table EXCEPT ![worker[w].event] = deriveAndSetAction(worker[w].row)]
    /\ asked' = [asked EXCEPT ![worker[w].event] = worker[w].asked]
    /\ Go(w, Idle)
    /\ UNCHANGED <<connVars, dispatches, rrState, mu, request>>

WorkerStep(w) == ExecuteWebhook(w) \/ DispatchToClient(w) \/ Written(w) \/ Inactivate(w)

-----------------------------------------------------------------------------

Init ==
    /\ conn = [c \in Conns |-> [pc |-> "new"]]
    /\ alive = {} /\ stalled = {}
    /\ hooks = {} /\ listeners = {}
    /\ rrState = <<>>
    /\ mu = Free
    /\ table = [e \in Events |-> NoRow]
    /\ request = [r \in Requests |-> [pc |-> "new"]]
    /\ worker = [w \in Workers |-> Idle]
    /\ dispatches = 0
    /\ asked = [e \in Events |-> {}]

Next ==
    \/ \E c \in Conns :
          \/ Connect(c) \/ HandlerStep(c)
          \/ PeerDies(c) \/ PeerStalls(c) \/ PeerReads(c)
          \/ \E m \in Handshakes : Handshake(c, m)
    \/ \E e \in Events :
          \/ \E req \in Creates : CreateEvent(e, req)
          \/ \E r \in Requests, req \in Updates : ReadForUpdate(r, e, req)
          \/ \E w \in Workers : Dispatch(w, e)
    \/ \E r \in Requests : WriteUpdate(r)
    \/ \E w \in Workers : WorkerStep(w)

Spec == Init /\ [][Next]_wsVars

\* A write to a peer that reads, or is gone: then the kernel gives up.
Unhindered(w) == Written(w) /\ worker[w].to \notin stalled

\* Goroutines run, and a Go mutex starves nobody: a handler or a worker that can
\* go on again and again does.  A write returns if its peer reads again and again,
\* or is gone; to a peer that stays and does not read it need not return.
FairSpec ==
    /\ Spec
    /\ \A c \in Conns : SF_wsVars(HandlerStep(c))
    /\ \A w \in Workers :
          SF_wsVars(ExecuteWebhook(w) \/ DispatchToClient(w) \/ Unhindered(w) \/ Inactivate(w))

-----------------------------------------------------------------------------
(* Properties *)

\* Types.
WTypeOK ==
    /\ \A c \in Conns :
          conn[c].pc \in {"new", "handshake", "register", "serve", "cleanup", "closed"}
    /\ stalled \subseteq alive /\ alive \subseteq Conns
    /\ \A k \in DOMAIN rrState : rrState[k] \in 0..(Cardinality(Conns) - 1)
    /\ mu \in Workers \cup {Free}
    /\ \A w \in Workers : worker[w].pc \in {"idle", "execute", "write", "update", "panic"}

\* The registry holds exactly the connections whose handlers are in their read
\* loop or on their way to the cleanup, each under the keys of its own
\* handshake, whoever registers and leaves at the same time (lines 107-185).
RegistryExact ==
    LET Serving == {c \in Conns : conn[c].pc \in {"serve", "cleanup"}} IN
    /\ hooks = UNION {HookOf(c, conn[c].init) : c \in Serving}
    /\ listeners = UNION {ListenerOf(c, conn[c].init) : c \in Serving}

\* A message is written only to a connection that is registered for the client
\* the event named when the worker read it, never to a tag-listener, never to a
\* connection whose handler has cleaned up meanwhile and never by two workers at
\* once, although others register, leave and change the event during the write.
OnlyItsClient ==
    \A w \in Workers : worker[w].pc = "write" =>
        /\ <<worker[w].row.action.target, worker[w].to>> \in hooks
        /\ worker[w].row.action.type = "websocket"
        /\ worker[w].row.action \in worker[w].asked
        /\ \A v \in Workers : worker[v].pc = "write" => v = w

\* The index survives the connections it was counted for: with fewer of them
\* left, it still picks one of the list.
PickInRange == \A w \in Workers : worker[w].pc # "panic"

\* The two columns of a row name the same target, and it is the one its last
\* writer asked for, or found when it read the row if it asked for none, as an
\* inactivation does: through POST, PUT, the dispatcher's write-back and the
\* derivation of each column from the other in both directions.  The action wins
\* in the handler, the webhook in the repository.
RoutedAsAsked ==
    \A e \in Events : table[e] # NoRow =>
        /\ table[e].action \in asked[e]
        /\ table[e].webhook = WebhookOfAction(table[e].action)

\* "The server handles disconnects and cleans up registries" (design.md:338): a
\* connection whose peer has gone leaves the registry.
CleanedUp ==
    \A c \in Conns :
        (conn[c].pc = "serve" /\ c \notin alive)
            ~> (\A k \in hooks \cup listeners : k[2] # c)

\* No peer that is there stops reading for good.
PeersRead == \A c \in Conns : []<>(c \notin stalled)

\* As long as all peers that are there go on reading, though with pauses, a
\* connection whose peer has gone leaves the registry, although workers keep
\* taking the mutex and hold it while they write.
DeadLeave == PeersRead => CleanedUp

\* As long as all peers that are there go on reading, every dispatch comes to an
\* end and every handshake to its registration: nobody keeps the mutex.
NobodyBlocks ==
    PeersRead =>
        /\ \A w \in Workers : worker[w] # Idle ~> worker[w] = Idle
        /\ \A c \in Conns : At(c, "register") ~> At(c, "serve")
=============================================================================
