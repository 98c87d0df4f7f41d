-------------------------- MODULE WebSocketProofs --------------------------
(***************************************************************************)
(* Proofs about modules Routing and WebSocket, for every number of         *)
(* connections, clients, workers, events and requests.                     *)
(***************************************************************************)
EXTENDS WebSocket, FiniteSetTheorems, SequenceTheorems, TLAPS

Text == Seq(Tokens)

\* The actions a row can have.
Actions == [type : {"webhook", "websocket"}, target : Text]

-----------------------------------------------------------------------------
(* The two columns of a row *)

\* What is put in front of a text can be taken off again.
LEMMA PrefixedText ==
    ASSUME NEW s \in Text
    PROVE  /\ <<"q:">> \o s \in Text
           /\ Len(<<"q:">> \o s) = Len(s) + 1
           /\ (<<"q:">> \o s)[1] = "q:"
           /\ Tail(<<"q:">> \o s) = s
<1> DEFINE p == <<"q:">>
           t == p \o s
<1>1. p \in Text /\ Len(p) = 1 /\ p[1] = "q:" /\ Len(s) \in Nat
  BY WebSocketAssumption DEF Text
<1>2. t \in Text /\ Len(t) = 1 + Len(s)
  BY <1>1 DEF Text
<1>3. t[1] = "q:" /\ \A i \in 1..Len(s) : t[i + 1] = s[i]
  <2>1. \A i \in 1..(Len(p) + Len(s)) : t[i] = IF i <= Len(p) THEN p[i] ELSE s[i - Len(p)]
    BY <1>1, ConcatProperties, Zenon DEF Text
  <2> HIDE DEF t, p
  <2> QED
    BY <1>1, <2>1
<1> HIDE DEF t
<1>4. t # <<>>
  BY <1>1, <1>2, EmptySeq DEF Text
<1>5. /\ Tail(t) \in Text
      /\ Len(Tail(t)) = Len(t) - 1
      /\ \A i \in 1..Len(Tail(t)) : Tail(t)[i] = t[i + 1]
  BY <1>2, <1>4, HeadTailProperties DEF Text
<1>6. Len(Tail(t)) = Len(s)
  BY <1>1, <1>2, <1>5
<1>7. Tail(t) = s
  BY <1>3, <1>5, <1>6, SeqEqual DEF Text
<1> QED
  BY <1>1, <1>2, <1>3, <1>7 DEF t

\* The action of a webhook string, and back: nothing is lost.
LEMMA WebhookRoundTrip ==
    ASSUME NEW s \in Text
    PROVE  ActionOfWebhook(s) \in Actions /\ WebhookOfAction(ActionOfWebhook(s)) = s
<1>1. CASE Len(s) > 1 /\ s[1] = "q:"
  <2>1. s # <<>> /\ Tail(s) \in Text
    BY <1>1, EmptySeq, HeadTailProperties DEF Text
  <2>2. <<Head(s)>> \o Tail(s) = s
    BY <2>1 DEF Text
  <2>3. Head(s) = "q:"
    BY <1>1, <2>1 DEF Text
  <2> QED
    BY <1>1, <2>1, <2>2, <2>3 DEF ActionOfWebhook, WebhookOfAction, Action, Actions
<1>2. CASE ~(Len(s) > 1 /\ s[1] = "q:")
  BY <1>2 DEF ActionOfWebhook, WebhookOfAction, Action, Actions
<1> QED
  BY <1>1, <1>2

\* The url of a webhook is not the name of a client in disguise.
IsUrl(s) == ~(Len(s) > 1 /\ s[1] = "q:")

\* The webhook string of an action, and back: a client keeps its name, and a
\* url stays one unless it looks like a client.
LEMMA ActionRoundTrip ==
    ASSUME NEW a \in Actions, a.target # <<>>,
           a.type = "webhook" => IsUrl(a.target)
    PROVE  /\ WebhookOfAction(a) \in Text \ {<<>>}
           /\ ActionOfWebhook(WebhookOfAction(a)) = a
<1>1. a.target \in Text /\ a = [type |-> a.type, target |-> a.target]
  BY DEF Actions
<1>2. CASE a.type = "webhook"
  BY <1>1, <1>2 DEF WebhookOfAction, ActionOfWebhook, Action, IsUrl
<1>3. CASE a.type = "websocket"
  <2> DEFINE t == <<"q:">> \o a.target
  <2>1. t \in Text /\ Len(t) = Len(a.target) + 1 /\ t[1] = "q:" /\ Tail(t) = a.target
    BY <1>1, PrefixedText
  <2>2. Len(a.target) \in Nat /\ Len(a.target) # 0
    BY <1>1, EmptySeq, LenProperties DEF Text
  <2> HIDE DEF t
  <2>3. Len(t) > 1 /\ t # <<>>
    BY <2>1, <2>2, EmptySeq DEF Text
  <2>4. WebhookOfAction(a) = t
    BY <1>3 DEF WebhookOfAction, t
  <2> QED
    BY <1>1, <1>3, <2>1, <2>3, <2>4 DEF ActionOfWebhook, Action
<1> QED
  BY <1>2, <1>3 DEF Actions

LEMMA WebhookType ==
    ASSUME NEW a \in Actions, a.target # <<>>
    PROVE  WebhookOfAction(a) \in Text \ {<<>>}
<1>1. a.target \in Text
  BY DEF Actions
<1>2. <<"q:">> \o a.target \in Text /\ Len(<<"q:">> \o a.target) # 0
  BY <1>1, PrefixedText, LenProperties DEF Text
<1>3. <<"q:">> \o a.target # <<>>
  BY <1>2, EmptySeq DEF Text
<1> QED
  BY <1>1, <1>2, <1>3 DEF WebhookOfAction

Rows == [action : Actions, webhook : Text \ {<<>>}]

\* What a request that is accepted puts in the row.
LEMMA Derived ==
    ASSUME NEW req \in Creates \cup Updates, NEW webhook, NEW action,
           \/ webhook = req.webhook /\ action = req.action
           \/ webhook = <<>> /\ action = req.action /\ action # <<>>
           \/ webhook = req.webhook /\ action = <<>> /\ req.action = <<>>,
           NEW res, res = deriveActionFromRequest(webhook, action), res # <<>>
    PROVE  /\ res[1] \in Rows
           /\ Asks(req) \subseteq Actions
           /\ \/ /\ Asks(req) = {req.action[1]}
                 /\ Len(req.action) = 1
                 /\ req.action[1] \in Actions
                 /\ req.action[1].target # <<>>
                 /\ res[1].webhook = WebhookOfAction(req.action[1])
              \/ Asks(req) = {ActionOfWebhook(res[1].webhook)}
<1> DEFINE Any == [type : STRING, target : Seq(Tokens)]
<1>1. /\ req.action \in Seq(Any)
      /\ req.webhook \in Seq(Seq(Tokens))
      /\ Len(req.action) <= 1 /\ Len(req.webhook) <= 1
  BY WebSocketAssumption
<1>2. CASE action # <<>>
  <2> HIDE DEF Any
  <2>1. action = req.action /\ Len(req.action) = 1
    <3>1. action = req.action
      BY <1>2
    <3>2. Len(req.action) \in Nat /\ Len(req.action) # 0
      BY <1>1, <1>2, <3>1, EmptySeq, LenProperties
    <3>3. \A n \in Nat : n # 0 /\ n <= 1 => n = 1
      OBVIOUS
    <3> QED
      BY <1>1, <3>1, <3>2, <3>3, Zenon
  <2>2. req.action[1] \in Any
    BY <1>1, <2>1, ElementOfSeq
  <2>3. /\ req.action[1].type \in {"webhook", "websocket"}
        /\ req.action[1].target # <<>>
        /\ res = <<Row(req.action[1], WebhookOfAction(req.action[1]))>>
    BY <1>2, <2>1 DEF deriveActionFromRequest
  <2>4. req.action[1] \in Actions
    BY <2>2, <2>3 DEF Actions, Text, Any
  <2>5. res[1] = Row(req.action[1], WebhookOfAction(req.action[1]))
    BY <2>3
  <2>6. Asks(req) = {req.action[1]}
    BY <1>2, <2>1 DEF Asks
  <2>7. res[1] \in Rows /\ res[1].webhook = WebhookOfAction(req.action[1])
    BY <2>3, <2>4, <2>5, WebhookType DEF Rows, Row
  <2> QED
    BY <2>1, <2>3, <2>4, <2>6, <2>7
<1>3. CASE action = <<>>
  <2>1. req.action = <<>> /\ webhook = req.webhook
    BY <1>3
  <2>2. req.webhook # <<>> /\ req.webhook # <<<<>>>>
        /\ res = <<Row(ActionOfWebhook(req.webhook[1]), req.webhook[1])>>
    BY <1>3, <2>1 DEF deriveActionFromRequest
  <2>3. Len(req.webhook) = 1
    BY <1>1, <2>2, EmptySeq, LenProperties
  <2>4. req.webhook[1] \in Text
    BY <1>1, <2>3, ElementOfSeq DEF Text
  <2>5. req.webhook[1] # <<>>
    <3>1. <<<<>>>> \in Seq(Seq(Tokens)) /\ Len(<<<<>>>>) = 1 /\ <<<<>>>>[1] = <<>>
      OBVIOUS
    <3> QED
      BY <1>1, <2>2, <2>3, <3>1, SeqEqual
  <2>6. Asks(req) = {ActionOfWebhook(req.webhook[1])}
    BY <2>1, <2>3 DEF Asks
  <2>7. res[1] = Row(ActionOfWebhook(req.webhook[1]), req.webhook[1])
    BY <2>2
  <2>8. ActionOfWebhook(req.webhook[1]) \in Actions
    BY <2>4, WebhookRoundTrip
  <2> QED
    BY <2>4, <2>5, <2>6, <2>7, <2>8 DEF Rows, Row
<1> QED
  BY <1>2, <1>3

\* What the repository writes: the action of the row's webhook, next to it.
LEMMA Stored ==
    ASSUME NEW row \in Rows
    PROVE  /\ deriveAndSetAction(row) = Row(ActionOfWebhook(row.webhook), row.webhook)
           /\ deriveAndSetAction(row) \in Rows
           /\ deriveAndSetAction(row) # NoRow
<1>1. row.webhook \in Text /\ row.webhook # <<>>
  BY DEF Rows
<1>2. deriveAndSetAction(row) = Row(ActionOfWebhook(row.webhook), row.webhook)
  BY <1>1 DEF deriveAndSetAction, Rows, Row
<1>3. ActionOfWebhook(row.webhook) \in Actions
  BY <1>1, WebhookRoundTrip
<1> QED
  BY <1>1, <1>2, <1>3 DEF Rows, Row, NoRow

-----------------------------------------------------------------------------
(* Types *)

ConnState ==
    [pc : {"new", "handshake", "closed"}]
    \cup [pc : {"register", "serve", "cleanup", "closed"}, init : Handshakes]

RequestState ==
    [pc : {"new", "done"}]
    \cup [pc : {"write"}, event : Events, row : Rows, asks : SUBSET Actions,
           found : SUBSET Actions]

\* Rows as the repository writes them: the action is that of the webhook.
StoredRows == {row \in Rows : row.action = ActionOfWebhook(row.webhook)}

\* No "panic": what Pick returns is a position of the list.
WorkState ==
    {Idle} \cup [pc : {"execute", "update"}, event : Events, row : StoredRows,
                 asked : SUBSET Actions]
           \cup [pc : {"write"}, event : Events, row : StoredRows, asked : SUBSET Actions,
                 to : Conns]

RRInRange == \A k \in DOMAIN rrState : rrState[k] \in 0..(Cardinality(Conns) - 1)

WType ==
    /\ conn \in [Conns -> ConnState]
    /\ alive \subseteq Conns
    /\ stalled \subseteq alive
    /\ RRInRange
    /\ mu \in Workers \cup {Free}
    /\ table \in [Events -> Rows \cup {NoRow}]
    /\ \A e \in Events : table[e] # NoRow => table[e].action = ActionOfWebhook(table[e].webhook)
    /\ request \in [Requests -> RequestState]
    /\ worker \in [Workers -> WorkState]
    /\ asked \in [Events -> SUBSET Actions]

LEMMA NotARow == NoRow \notin Rows
BY DEF NoRow, Row, Action, Rows

\* GetByID returns the row as it was written.
LEMMA FetchedRow ==
    ASSUME WType, NEW e \in Events, table[e] # NoRow
    PROVE  /\ Fetched(e) = table[e]
           /\ table[e] \in Rows
           /\ WebhookOfAction(table[e].action) = table[e].webhook
<1>1. table[e] \in Rows
  BY DEF WType
<1>2. WebhookOfAction(table[e].action) = table[e].webhook
  BY <1>1, WebhookRoundTrip DEF WType, Rows
<1> QED
  BY <1>1, <1>2 DEF Fetched, populateWebhookFromAction, Rows

\* What the peer of a connection does.
PeerStep(c) == PeerDies(c) \/ PeerStalls(c) \/ PeerReads(c)

LEMMA HandlerType ==
    ASSUME WType, NEW c \in Conns,
           \/ Connect(c) \/ PeerStep(c) \/ HandlerStep(c)
           \/ \E m \in Handshakes : Handshake(c, m)
    PROVE  WType'
<1>1. conn' \in [Conns -> ConnState] /\ alive' \subseteq Conns /\ stalled' \subseteq alive'
  <2>1. CASE Connect(c) \/ (ReadFails(c) /\ At(c, "handshake"))
    BY <2>1 DEF Connect, ReadFails, At, GoTo, WType, ConnState, peerVars
  <2>2. ASSUME NEW m \in Handshakes, Handshake(c, m)
        PROVE  conn' \in [Conns -> ConnState] /\ alive' \subseteq Conns
               /\ stalled' \subseteq alive'
    BY <2>2 DEF Handshake, WType, ConnState, peerVars
  <2>3. CASE Register(c) \/ Cleanup(c) \/ (ReadFails(c) /\ At(c, "serve"))
    <3>1. conn[c] \in [pc : {"register", "serve", "cleanup", "closed"}, init : Handshakes]
      <4>1. conn[c].pc \in {"register", "serve", "cleanup"}
        BY <2>3 DEF Register, Cleanup, At
      <4>2. conn[c] \in ConnState
        BY DEF WType
      <4> QED
        BY <4>1, <4>2 DEF ConnState
    <3>2. PICK label \in {"serve", "cleanup", "closed"} : GoTo(c, label)
      BY <2>3 DEF Register, Cleanup, ReadFails, At
    <3>3. conn' = [conn EXCEPT ![c] = [pc |-> label, init |-> conn[c].init]]
      <4>1. [conn[c] EXCEPT !.pc = label] = [pc |-> label, init |-> conn[c].init]
        BY <3>1
      <4> QED
        BY <3>2, <4>1 DEF GoTo
    <3>4. [pc |-> label, init |-> conn[c].init] \in ConnState
      BY <3>1 DEF ConnState
    <3>5. alive' = alive /\ stalled' = stalled
      BY <2>3 DEF Register, Cleanup, ReadFails, peerVars
    <3> QED
      BY <3>3, <3>4, <3>5 DEF WType
  <2>4. CASE PeerStep(c)
    BY <2>4 DEF PeerStep, PeerDies, PeerStalls, PeerReads, WType
  <2>5. ReadFails(c) => At(c, "handshake") \/ At(c, "serve")
    BY DEF ReadFails
  <2> QED
    BY <2>1, <2>2, <2>3, <2>4, <2>5 DEF HandlerStep
<1>2. UNCHANGED <<mu, table, request, asked, worker, rrState>>
  BY DEF Connect, PeerStep, PeerDies, PeerStalls, PeerReads, HandlerStep, Handshake, Register,
     ReadFails, Cleanup, eventVars, workVars
<1> QED
  BY <1>1, <1>2 DEF WType, RRInRange

LEMMA EventType ==
    ASSUME WType, UNCHANGED <<connVars, mu, workVars>>,
           table' \in [Events -> Rows \cup {NoRow}],
           \A e \in Events : table'[e] # NoRow =>
               table'[e].action = ActionOfWebhook(table'[e].webhook),
           request' \in [Requests -> RequestState],
           asked' \in [Events -> SUBSET Actions]
    PROVE  WType'
BY DEF connVars, peerVars, workVars, WType, RRInRange

LEMMA CreateType ==
    ASSUME WType, NEW e \in Events, NEW req \in Creates, CreateEvent(e, req)
    PROVE  WType'
<1> DEFINE res == deriveActionFromRequest(req.webhook, req.action)
           new == deriveAndSetAction(res[1])
<1>1. res # <<>> /\ table' = [table EXCEPT ![e] = new]
      /\ asked' = [asked EXCEPT ![e] = Asks(req)]
      /\ UNCHANGED <<connVars, mu, request, workVars>>
  BY DEF CreateEvent
<1>2. res[1] \in Rows /\ Asks(req) \subseteq Actions
  BY <1>1, Derived
<1> HIDE DEF res
<1>3. new \in Rows /\ new = Row(ActionOfWebhook(res[1].webhook), res[1].webhook)
  BY <1>2, Stored
<1>4. new.action = ActionOfWebhook(new.webhook)
  BY <1>3 DEF Row
<1> HIDE DEF new
<1>5. table' \in [Events -> Rows \cup {NoRow}]
  BY <1>1, <1>3 DEF WType
<1>6. \A x \in Events : table'[x] # NoRow => table'[x].action = ActionOfWebhook(table'[x].webhook)
  BY <1>1, <1>4 DEF WType
<1>7. asked' \in [Events -> SUBSET Actions] /\ request' \in [Requests -> RequestState]
  BY <1>1, <1>2 DEF WType
<1> QED
  BY <1>1, <1>5, <1>6, <1>7, EventType

\* What PUT has in its hands between its read and its write.
LEMMA Applied ==
    ASSUME WType, NEW e \in Events, table[e] # NoRow, NEW req \in Updates,
           NEW res, res = Apply(Fetched(e), req), res # <<>>
    PROVE  /\ res[1] \in Rows
           /\ Asks(req) \subseteq Actions
           /\ \/ /\ Asks(req) = {req.action[1]}
                 /\ Len(req.action) = 1
                 /\ req.action[1] \in Actions
                 /\ req.action[1].target # <<>>
                 /\ res[1].webhook = WebhookOfAction(req.action[1])
              \/ Asks(req) = {ActionOfWebhook(res[1].webhook)}
              \/ Asks(req) = {} /\ res[1] = table[e]
<1>1. CASE req.action # <<>>
  <2>1. res = deriveActionFromRequest(<<>>, req.action)
    BY <1>1 DEF Apply
  <2> QED
    BY <1>1, <2>1, Derived
<1>2. CASE req.action = <<>> /\ req.webhook # <<>>
  <2>1. res = deriveActionFromRequest(req.webhook, <<>>)
    BY <1>2 DEF Apply
  <2> QED
    BY <1>2, <2>1, Derived
<1>3. CASE req.action = <<>> /\ req.webhook = <<>>
  <2>1. res = <<table[e]>> /\ table[e] \in Rows
    BY <1>3, FetchedRow DEF Apply
  <2>2. res[1] = table[e]
    BY <2>1
  <2>3. Asks(req) = {}
    <3>1. Len(<<>>) = 0 /\ 1..0 = {}
      OBVIOUS
    <3> QED
      BY <1>3, <3>1 DEF Asks
  <2> QED
    BY <2>1, <2>2, <2>3
<1> QED
  BY <1>1, <1>2, <1>3

LEMMA ReadType ==
    ASSUME WType, NEW r \in Requests, NEW e \in Events, NEW req \in Updates,
           ReadForUpdate(r, e, req)
    PROVE  WType'
<1> DEFINE res == Apply(Fetched(e), req)
           asks == Asks(req)
<1>1. /\ table[e] # NoRow
      /\ request' = [request EXCEPT ![r] =
           IF res = <<>> THEN [pc |-> "done"]
           ELSE [pc |-> "write", event |-> e, row |-> res[1], asks |-> asks,
                 found |-> asked[e]]]
      /\ UNCHANGED <<connVars, mu, table, asked, workVars>>
  BY DEF ReadForUpdate
<1>2. res # <<>> => res[1] \in Rows /\ asks \subseteq Actions /\ asked[e] \in SUBSET Actions
  BY <1>1, Applied DEF WType
<1> HIDE DEF res, asks
<1>3. request' \in [Requests -> RequestState]
  <2>1. CASE res = <<>>
    BY <1>1, <2>1 DEF WType, RequestState
  <2>2. CASE res # <<>>
    BY <1>1, <1>2, <2>2 DEF WType, RequestState
  <2> QED
    BY <2>1, <2>2
<1> QED
  BY <1>1, <1>3, EventType DEF WType

LEMMA WriteType ==
    ASSUME WType, NEW r \in Requests, WriteUpdate(r)
    PROVE  WType'
<1> DEFINE e == request[r].event
           row == request[r].row
           new == deriveAndSetAction(row)
           want == IF request[r].asks # {} THEN request[r].asks ELSE request[r].found
<1>1. request[r] \in [pc : {"write"}, event : Events, row : Rows, asks : SUBSET Actions,
                      found : SUBSET Actions]
  BY DEF WriteUpdate, WType, RequestState
<1>2. e \in Events /\ row \in Rows /\ want \in SUBSET Actions
  BY <1>1
<1>3. /\ table' = [table EXCEPT ![e] = new]
      /\ asked' = [asked EXCEPT ![e] = want]
      /\ request' = [request EXCEPT ![r] = [pc |-> "done"]]
      /\ UNCHANGED <<connVars, mu, workVars>>
  BY DEF WriteUpdate
<1> HIDE DEF row, e, want
<1>4. new \in Rows /\ new = Row(ActionOfWebhook(row.webhook), row.webhook)
  BY <1>2, Stored
<1>5. new.action = ActionOfWebhook(new.webhook)
  BY <1>4 DEF Row
<1> HIDE DEF new
<1>6. table' \in [Events -> Rows \cup {NoRow}]
  BY <1>2, <1>3, <1>4 DEF WType
<1>7. \A x \in Events : table'[x] # NoRow => table'[x].action = ActionOfWebhook(table'[x].webhook)
  BY <1>2, <1>3, <1>5 DEF WType
<1>8. asked' \in [Events -> SUBSET Actions] /\ request' \in [Requests -> RequestState]
  BY <1>2, <1>3 DEF WType, RequestState
<1> QED
  BY <1>3, <1>6, <1>7, <1>8, EventType

\* The list of a client's connections, and the index kept for the client.
LEMMA ClientConns ==
    ASSUME NEW client
    PROVE  /\ IsFiniteSet(ConnsOf(client))
           /\ Cardinality(ConnsOf(client)) \in 0..Cardinality(Conns)
           /\ Cardinality(Conns) \in Nat
<1>1. ConnsOf(client) \subseteq Conns /\ IsFiniteSet(Conns)
  BY WebSocketAssumption DEF ConnsOf
<1>2. IsFiniteSet(ConnsOf(client)) /\ Cardinality(ConnsOf(client)) <= Cardinality(Conns)
  BY <1>1, FS_Subset
<1>3. Cardinality(ConnsOf(client)) \in Nat /\ Cardinality(Conns) \in Nat
  BY <1>1, <1>2, FS_CardinalityType
<1> QED
  BY <1>2, <1>3

\* The index picks one of the list and is brought back, whatever the number of
\* connections it was counted for.
LEMMA PickFits ==
    ASSUME NEW n \in Nat, n > 0, NEW index \in Nat
    PROVE  Pick(n, index) < n /\ Advance(n, index) \in 0..(n - 1)
BY DEF Pick, Advance

LEMMA DispatchToClientType ==
    ASSUME WType, NEW w \in Workers, DispatchToClient(w)
    PROVE  /\ RRInRange'
           /\ mu' \in Workers \cup {Free}
           /\ \/ worker' = [worker EXCEPT ![w] = Idle] /\ mu' = mu
              \/ \E to \in ConnsOf(worker[w].row.action.target) :
                    /\ worker' = [worker EXCEPT ![w] =
                                    [pc |-> "write", event |-> worker[w].event,
                                     row |-> worker[w].row, asked |-> worker[w].asked,
                                     to |-> to]]
                    /\ mu' = w
<1> DEFINE client == worker[w].row.action.target
           n == Cardinality(ConnsOf(client))
           index == IF client \in DOMAIN rrState THEN rrState[client] ELSE 0
<1>1. n \in 0..Cardinality(Conns) /\ Cardinality(Conns) \in Nat
  BY ClientConns
<1>2. index \in Nat
  BY <1>1 DEF WType, RRInRange
<1>3. CASE NoClient(w, client)
  BY <1>3 DEF NoClient, Go, WType, RRInRange
<1>4. CASE WriteTo(w, client)
  <2>1. /\ n > 0
        /\ IF Pick(n, index) < n
           THEN \E c \in ConnsOf(client) :
                   Go(w, [pc |-> "write", event |-> worker[w].event, row |-> worker[w].row,
                          asked |-> worker[w].asked, to |-> c])
           ELSE Go(w, [pc |-> "panic"])
        /\ rrState' = [k \in DOMAIN rrState \cup {client} |->
                         IF k = client THEN Advance(n, index) ELSE rrState[k]]
        /\ mu' = w
    BY <1>4 DEF WriteTo
  <2> HIDE DEF n, index, client
  <2>2. Pick(n, index) < n /\ Advance(n, index) \in 0..(n - 1)
    BY <1>1, <1>2, <2>1, PickFits
  <2>3. Advance(n, index) \in 0..(Cardinality(Conns) - 1)
    BY <1>1, <2>1, <2>2
  <2>4. RRInRange'
    BY <2>1, <2>3 DEF WType, RRInRange
  <2> QED
    BY <2>1, <2>2, <2>4 DEF Go, client
<1> QED
  BY <1>3, <1>4 DEF DispatchToClient

\* A worker that is not idle has the event it read in its hands.
LEMMA Working ==
    ASSUME WType, NEW w \in Workers, worker[w].pc \in {"execute", "write", "update"}
    PROVE  /\ worker[w].event \in Events
           /\ worker[w].row \in StoredRows
           /\ worker[w].asked \in SUBSET Actions
BY DEF WType, WorkState, Idle

LEMMA WorkerType ==
    ASSUME WType, NEW w \in Workers, WorkerStep(w) \/ \E e \in Events : Dispatch(w, e)
    PROVE  WType'
<1>1. ASSUME RRInRange', mu' \in Workers \cup {Free}, NEW new \in WorkState,
             worker' = [worker EXCEPT ![w] = new], UNCHANGED <<connVars, eventVars>>
      PROVE  WType'
  BY <1>1 DEF WType, connVars, peerVars, eventVars
<1>2. Idle \in WorkState
  BY DEF WorkState
<1>3. CASE ExecuteWebhook(w) \/ Written(w)
  <2>1. [pc |-> "update", event |-> worker[w].event, row |-> worker[w].row,
         asked |-> worker[w].asked] \in WorkState
    BY <1>3, Working DEF ExecuteWebhook, Written, WorkState
  <2>2. PICK new \in WorkState : worker' = [worker EXCEPT ![w] = new]
    BY <1>2, <1>3, <2>1 DEF ExecuteWebhook, Written, Finish, Go
  <2>3. /\ UNCHANGED <<connVars, eventVars, rrState>>
        /\ mu' \in Workers \cup {Free}
    BY <1>3 DEF ExecuteWebhook, Written, WType
  <2> QED
    BY <1>1, <2>2, <2>3 DEF WType, RRInRange
<1>4. ASSUME NEW e \in Events, Dispatch(w, e)
      PROVE  WType'
  <2>1. Fetched(e) \in StoredRows /\ asked[e] \in SUBSET Actions
    BY <1>4, FetchedRow DEF Dispatch, StoredRows, WType
  <2>2. [pc |-> "execute", event |-> e, row |-> Fetched(e), asked |-> asked[e]] \in WorkState
    BY <2>1 DEF WorkState
  <2> QED
    BY <1>1, <1>4, <2>2 DEF Dispatch, Go, WType, RRInRange
<1>5. CASE DispatchToClient(w)
  <2>1. ASSUME NEW to \in ConnsOf(worker[w].row.action.target)
        PROVE  [pc |-> "write", event |-> worker[w].event, row |-> worker[w].row,
                asked |-> worker[w].asked, to |-> to] \in WorkState
    BY <1>5, Working DEF DispatchToClient, WorkState, ConnsOf
  <2>2. UNCHANGED <<connVars, eventVars>>
    BY <1>5 DEF DispatchToClient
  <2> QED
    BY <1>1, <1>2, <1>5, <2>1, <2>2, DispatchToClientType
<1>6. CASE Inactivate(w)
  <2> DEFINE e == worker[w].event
             row == worker[w].row
             want == worker[w].asked
             new == deriveAndSetAction(row)
  <2>1. e \in Events /\ row \in Rows /\ want \in SUBSET Actions
    BY <1>6, Working DEF Inactivate, StoredRows
  <2>2. /\ table' = [table EXCEPT ![e] = new]
        /\ asked' = [asked EXCEPT ![e] = want]
        /\ worker' = [worker EXCEPT ![w] = Idle]
        /\ UNCHANGED <<connVars, rrState, mu, request>>
    BY <1>6 DEF Inactivate, Go
  <2> HIDE DEF row, e, want
  <2>3. new \in Rows /\ new = Row(ActionOfWebhook(row.webhook), row.webhook)
    BY <2>1, Stored
  <2>4. new.action = ActionOfWebhook(new.webhook)
    BY <2>3 DEF Row
  <2> HIDE DEF new
  <2>5. table' \in [Events -> Rows \cup {NoRow}] /\ asked' \in [Events -> SUBSET Actions]
    BY <2>1, <2>2, <2>3 DEF WType
  <2>6. \A x \in Events : table'[x] # NoRow =>
           table'[x].action = ActionOfWebhook(table'[x].webhook)
    BY <2>1, <2>2, <2>4 DEF WType
  <2>7. worker' \in [Workers -> WorkState]
    BY <1>2, <2>2 DEF WType
  <2> QED
    BY <2>2, <2>5, <2>6, <2>7 DEF WType, RRInRange, connVars, peerVars
<1> QED
  BY <1>3, <1>4, <1>5, <1>6 DEF WorkerStep

LEMMA NextWType ==
    ASSUME WType, [Next]_wsVars
    PROVE  WType'
<1>1. CASE UNCHANGED wsVars
  BY <1>1 DEF wsVars, WType, RRInRange
<1> QED
  BY <1>1, HandlerType, CreateType, ReadType, WriteType, WorkerType DEF Next, PeerStep

LEMMA InitWType == Init => WType
<1> SUFFICES ASSUME Init
             PROVE  WType
  OBVIOUS
<1>1. conn \in [Conns -> ConnState] /\ request \in [Requests -> RequestState]
      /\ worker \in [Workers -> WorkState]
  BY DEF Init, ConnState, RequestState, WorkState
<1>2. RRInRange
  <2>1. DOMAIN rrState = {}
    BY DEF Init
  <2> QED
    BY <2>1 DEF RRInRange
<1> QED
  BY <1>1, <1>2 DEF Init, WType

LEMMA WTypeAlways == Spec => []WType
<1>1. WType /\ [Next]_wsVars => WType'
  BY NextWType
<1> QED
  BY <1>1, InitWType, PTL DEF Spec

LEMMA WTypeImplies == WType => WTypeOK /\ PickInRange
<1>1. WType => \A c \in Conns : conn[c].pc \in
         {"new", "handshake", "register", "serve", "cleanup", "closed"}
  BY DEF WType, ConnState
<1>2. WType => \A w \in Workers : worker[w].pc \in {"idle", "execute", "write", "update"}
  BY DEF WType, WorkState, Idle
<1> QED
  BY <1>1, <1>2 DEF WType, WTypeOK, RRInRange, PickInRange

\* The handlers, the workers and the requests are type correct, and the
\* round-robin index of a client stays below the number of connections
\* (websocket_handler.go:57-225).
THEOREM WebSocketTypeCorrect == Spec => []WTypeOK
BY WTypeAlways, WTypeImplies, PTL

\* For any number of connections that come and go, the index DispatchToClient
\* kept from an earlier list picks a position of the present one
\* (websocket_handler.go:188-217): no worker panics.
THEOREM PickAlwaysInRange == Spec => []PickInRange
BY WTypeAlways, WTypeImplies, PTL

-----------------------------------------------------------------------------
(* The registry *)

ServingConns == {c \in Conns : conn[c].pc \in {"serve", "cleanup"}}

\* Two connections have no entry in common.
LEMMA EntriesApart ==
    ASSUME NEW c, NEW d, NEW m, NEW n, c # d
    PROVE  HookOf(c, m) \cap HookOf(d, n) = {} /\ ListenerOf(c, m) \cap ListenerOf(d, n) = {}
BY DEF HookOf, ListenerOf

\* The entries of the connections that serve, one connection more or less.
LEMMA EntriesMove ==
    ASSUME RegistryExact, NEW c \in Conns,
           \A d \in Conns : d # c => conn'[d] = conn[d],
           \/ /\ c \notin ServingConns
              /\ conn'[c].pc = "serve"
              /\ hooks' = hooks \cup HookOf(c, conn'[c].init)
              /\ listeners' = listeners \cup ListenerOf(c, conn'[c].init)
           \/ /\ c \in ServingConns
              /\ conn'[c].pc = "closed"
              /\ hooks' = hooks \ HookOf(c, conn[c].init)
              /\ listeners' = listeners \ ListenerOf(c, conn[c].init)
    PROVE  RegistryExact'
<1>1. hooks = UNION {HookOf(d, conn[d].init) : d \in ServingConns}
      /\ listeners = UNION {ListenerOf(d, conn[d].init) : d \in ServingConns}
  BY DEF RegistryExact, ServingConns
<1>2. CASE /\ c \notin ServingConns
           /\ conn'[c].pc = "serve"
           /\ hooks' = hooks \cup HookOf(c, conn'[c].init)
           /\ listeners' = listeners \cup ListenerOf(c, conn'[c].init)
  <2>1. ServingConns' = ServingConns \cup {c}
    BY <1>2 DEF ServingConns
  <2>2. \A d \in ServingConns : d # c /\ conn'[d] = conn[d]
    BY <1>2 DEF ServingConns
  <2>3. hooks' = UNION {HookOf(d, conn'[d].init) : d \in ServingConns'}
    BY <1>1, <1>2, <2>1, <2>2
  <2>4. listeners' = UNION {ListenerOf(d, conn'[d].init) : d \in ServingConns'}
    BY <1>1, <1>2, <2>1, <2>2
  <2> QED
    BY <2>3, <2>4 DEF RegistryExact, ServingConns
<1>3. CASE /\ c \in ServingConns
           /\ conn'[c].pc = "closed"
           /\ hooks' = hooks \ HookOf(c, conn[c].init)
           /\ listeners' = listeners \ ListenerOf(c, conn[c].init)
  <2>1. ServingConns' = ServingConns \ {c}
    BY <1>3 DEF ServingConns
  <2>2. \A d \in ServingConns' : d # c /\ conn'[d] = conn[d] /\ d \in ServingConns
    BY <2>1 DEF ServingConns
  <2>3. hooks' = UNION {HookOf(d, conn'[d].init) : d \in ServingConns'}
    BY <1>1, <1>3, <2>1, <2>2, EntriesApart
  <2>4. listeners' = UNION {ListenerOf(d, conn'[d].init) : d \in ServingConns'}
    BY <1>1, <1>3, <2>1, <2>2, EntriesApart
  <2> QED
    BY <2>3, <2>4 DEF RegistryExact, ServingConns
<1> QED
  BY <1>2, <1>3

\* A step after which the same connections serve, with the same handshakes.
LEMMA EntriesStay ==
    ASSUME RegistryExact, UNCHANGED <<hooks, listeners>>, ServingConns' = ServingConns,
           \A d \in ServingConns : conn'[d].init = conn[d].init
    PROVE  RegistryExact'
<1>1. {HookOf(d, conn'[d].init) : d \in ServingConns'}
        = {HookOf(d, conn[d].init) : d \in ServingConns}
  OBVIOUS
<1>2. {ListenerOf(d, conn'[d].init) : d \in ServingConns'}
        = {ListenerOf(d, conn[d].init) : d \in ServingConns}
  OBVIOUS
<1> QED
  BY <1>1, <1>2 DEF RegistryExact, ServingConns

LEMMA HandlerRegistry ==
    ASSUME WType, RegistryExact, NEW c \in Conns,
           \/ Connect(c) \/ PeerStep(c) \/ HandlerStep(c)
           \/ \E m \in Handshakes : Handshake(c, m)
    PROVE  RegistryExact'
<1>1. ASSUME NEW label, GoTo(c, label)
      PROVE  /\ conn'[c].pc = label
             /\ conn[c].pc \in {"register", "serve", "cleanup"} => conn'[c].init = conn[c].init
             /\ \A d \in Conns : d # c => conn'[d] = conn[d]
  <2>1. conn' = [conn EXCEPT ![c] = [conn[c] EXCEPT !.pc = label]]
    BY <1>1 DEF GoTo
  <2>2. conn'[c] = [conn[c] EXCEPT !.pc = label] /\ \A d \in Conns : d # c => conn'[d] = conn[d]
    BY <2>1 DEF WType
  <2>3. conn[c] \in ConnState
    BY DEF WType
  <2>4. CASE conn[c] \in [pc : {"new", "handshake", "closed"}]
    BY <2>2, <2>4
  <2>5. CASE conn[c] \in [pc : {"register", "serve", "cleanup", "closed"}, init : Handshakes]
    BY <2>2, <2>5
  <2> QED
    BY <2>3, <2>4, <2>5 DEF ConnState
<1>2. CASE Register(c) \/ Cleanup(c)
  <2>1. CASE Register(c)
    BY <1>1, <2>1, EntriesMove DEF Register, At, ServingConns
  <2>2. CASE Cleanup(c)
    BY <1>1, <2>2, EntriesMove DEF Cleanup, At, ServingConns
  <2> QED
    BY <1>2, <2>1, <2>2
<1>3. CASE Connect(c) \/ ReadFails(c)
  <2>1. UNCHANGED <<hooks, listeners>>
    BY <1>3 DEF Connect, ReadFails
  <2>2. /\ ServingConns' = ServingConns
        /\ \A d \in ServingConns : conn'[d].init = conn[d].init
    BY <1>1, <1>3 DEF Connect, ReadFails, At, ServingConns
  <2> QED
    BY <2>1, <2>2, EntriesStay
<1>4. ASSUME NEW m \in Handshakes, Handshake(c, m)
      PROVE  RegistryExact'
  <2>1. UNCHANGED <<hooks, listeners>> /\ conn[c].pc = "handshake"
    BY <1>4 DEF Handshake, At
  <2>2. /\ conn'[c].pc \in {"register", "closed"}
        /\ \A d \in Conns : d # c => conn'[d] = conn[d]
    BY <1>4 DEF Handshake, WType
  <2>3. /\ ServingConns' = ServingConns
        /\ \A d \in ServingConns : conn'[d].init = conn[d].init
    BY <2>1, <2>2 DEF ServingConns
  <2> QED
    BY <2>1, <2>3, EntriesStay
<1>5. CASE PeerStep(c)
  BY <1>5, EntriesStay DEF PeerStep, PeerDies, PeerStalls, PeerReads, ServingConns
<1> QED
  BY <1>2, <1>3, <1>4, <1>5 DEF HandlerStep

LEMMA NextRegistry ==
    ASSUME WType, RegistryExact, [Next]_wsVars
    PROVE  RegistryExact'
<1>1. CASE UNCHANGED connVars
  BY <1>1, EntriesStay DEF connVars, ServingConns
<1>2. ASSUME NEW c \in Conns,
             \/ Connect(c) \/ PeerStep(c) \/ HandlerStep(c)
             \/ \E m \in Handshakes : Handshake(c, m)
      PROVE  RegistryExact'
  BY <1>2, HandlerRegistry
<1>3. ASSUME NEW e \in Events,
             \/ \E req \in Creates : CreateEvent(e, req)
             \/ \E r \in Requests, req \in Updates : ReadForUpdate(r, e, req)
             \/ \E w \in Workers : Dispatch(w, e)
      PROVE  UNCHANGED connVars
  BY <1>3 DEF CreateEvent, ReadForUpdate, Dispatch
<1>4. (\E r \in Requests : WriteUpdate(r)) \/ (\E w \in Workers : WorkerStep(w))
        \/ UNCHANGED wsVars => UNCHANGED connVars
  BY DEF WriteUpdate, WorkerStep, ExecuteWebhook, DispatchToClient, Written, Inactivate, wsVars,
     connVars, peerVars
<1> QED
  BY <1>1, <1>2, <1>3, <1>4 DEF Next, PeerStep

LEMMA RegistryAlways == Spec => [](WType /\ RegistryExact)
<1>1. Init => RegistryExact
  <2> SUFFICES ASSUME Init
               PROVE  RegistryExact
    OBVIOUS
  <2>1. ServingConns = {} /\ hooks = {} /\ listeners = {}
    BY DEF Init, ServingConns
  <2> QED
    BY <2>1 DEF RegistryExact, ServingConns
<1>2. WType /\ RegistryExact /\ [Next]_wsVars => WType' /\ RegistryExact'
  BY NextWType, NextRegistry
<1> QED
  BY <1>1, <1>2, InitWType, PTL DEF Spec

\* The registry is exact for any number of handlers that register, read and
\* clean up at the same time (websocket_handler.go:107-185): it has the entries
\* of every connection that is served, under the keys of its own handshake, and
\* no other.
THEOREM RegistryIsExact == Spec => []RegistryExact
BY RegistryAlways, PTL

-----------------------------------------------------------------------------
(* What was asked for, and who holds the mutex *)

\* The urls that requests give to webhook actions are urls.  Neither the handler
\* nor the repository checks it: a url that begins with "q:" is taken for the
\* name of a client when the row is written.
UrlsAreUrls ==
    \A req \in Creates \cup Updates : \A i \in 1..Len(req.action) :
        req.action[i].type = "webhook" => IsUrl(req.action[i].target)

\* The inductive invariant: what is asked for goes along with a request between
\* its read and its write, and with a dispatch from its read to the row it writes
\* back.
Routed ==
    /\ \A e \in Events : table[e] # NoRow => table[e].action \in asked[e]
    /\ \A r \in Requests : request[r].pc = "write" =>
          ActionOfWebhook(request[r].row.webhook)
             \in IF request[r].asks # {} THEN request[r].asks ELSE request[r].found
    /\ \A w \in Workers :
          /\ worker[w].pc \in {"execute", "write", "update"} =>
                worker[w].row.action \in worker[w].asked
          /\ worker[w].pc = "write" => worker[w].row.action.type = "websocket"

\* A worker that writes has the mutex, and its connection is registered.
Writing ==
    \A w \in Workers : worker[w].pc = "write" =>
        mu = w /\ <<worker[w].row.action.target, worker[w].to>> \in hooks

LEMMA CreateRouted ==
    ASSUME UrlsAreUrls, WType, Routed, NEW e \in Events, NEW req \in Creates,
           CreateEvent(e, req)
    PROVE  Routed'
<1> DEFINE res == deriveActionFromRequest(req.webhook, req.action)
           new == deriveAndSetAction(res[1])
<1>1. res # <<>> /\ table' = [table EXCEPT ![e] = new]
      /\ asked' = [asked EXCEPT ![e] = Asks(req)]
      /\ UNCHANGED <<request, worker>>
  BY DEF CreateEvent, workVars
<1>2. /\ res[1] \in Rows
      /\ \/ /\ Asks(req) = {req.action[1]}
            /\ Len(req.action) = 1
            /\ req.action[1] \in Actions
            /\ req.action[1].target # <<>>
            /\ res[1].webhook = WebhookOfAction(req.action[1])
         \/ Asks(req) = {ActionOfWebhook(res[1].webhook)}
  BY <1>1, Derived
<1> HIDE DEF res
<1>3. ActionOfWebhook(res[1].webhook) \in Asks(req)
  BY <1>2, ActionRoundTrip DEF UrlsAreUrls
<1>4. new = Row(ActionOfWebhook(res[1].webhook), res[1].webhook)
  BY <1>2, Stored
<1>5. new.action \in Asks(req)
  BY <1>3, <1>4 DEF Row
<1> HIDE DEF new
<1>6. \A x \in Events : table'[x] # NoRow => table'[x].action \in asked'[x]
  BY <1>1, <1>5 DEF Routed, WType
<1> QED
  BY <1>1, <1>6 DEF Routed

LEMMA ReadRouted ==
    ASSUME UrlsAreUrls, WType, Routed, NEW r \in Requests, NEW e \in Events,
           NEW req \in Updates, ReadForUpdate(r, e, req)
    PROVE  Routed'
<1> DEFINE res == Apply(Fetched(e), req)
           asks == Asks(req)
<1>1. /\ table[e] # NoRow
      /\ request' = [request EXCEPT ![r] =
           IF res = <<>> THEN [pc |-> "done"]
           ELSE [pc |-> "write", event |-> e, row |-> res[1], asks |-> asks,
                 found |-> asked[e]]]
      /\ UNCHANGED <<table, asked, worker>>
  BY DEF ReadForUpdate, workVars
<1>2. res # <<>> =>
        \/ /\ Asks(req) = {req.action[1]}
           /\ Len(req.action) = 1
           /\ req.action[1] \in Actions
           /\ req.action[1].target # <<>>
           /\ res[1].webhook = WebhookOfAction(req.action[1])
        \/ Asks(req) = {ActionOfWebhook(res[1].webhook)}
        \/ Asks(req) = {} /\ res[1] = table[e]
  BY <1>1, Applied
<1> HIDE DEF res
<1>3. table[e].action = ActionOfWebhook(table[e].webhook) /\ table[e].action \in asked[e]
  BY <1>1 DEF WType, Routed
<1>4. res # <<>> => ActionOfWebhook(res[1].webhook) \in IF asks # {} THEN asks ELSE asked[e]
  <2>1. ASSUME Asks(req) = {req.action[1]}, Len(req.action) = 1, req.action[1] \in Actions,
               req.action[1].target # <<>>, res[1].webhook = WebhookOfAction(req.action[1])
        PROVE  ActionOfWebhook(res[1].webhook) \in asks
    BY <2>1, ActionRoundTrip DEF UrlsAreUrls
  <2> QED
    BY <1>2, <1>3, <2>1
<1> HIDE DEF asks
<1>5. ASSUME NEW x \in Requests, request'[x].pc = "write"
      PROVE  ActionOfWebhook(request'[x].row.webhook)
                \in IF request'[x].asks # {} THEN request'[x].asks ELSE request'[x].found
  <2>1. CASE x # r
    BY <1>1, <1>5, <2>1 DEF WType, Routed
  <2>2. CASE x = r
    <3>1. res # <<>>
      BY <1>1, <1>5, <2>2 DEF WType
    <3>2. request'[r] = [pc |-> "write", event |-> e, row |-> res[1], asks |-> asks,
                         found |-> asked[e]]
      BY <1>1, <3>1 DEF WType
    <3> QED
      BY <1>4, <2>2, <3>1, <3>2
  <2> QED
    BY <2>1, <2>2
<1> QED
  BY <1>1, <1>5 DEF Routed

LEMMA WriteRouted ==
    ASSUME WType, Routed, NEW r \in Requests, WriteUpdate(r)
    PROVE  Routed'
<1> DEFINE e == request[r].event
           row == request[r].row
           new == deriveAndSetAction(row)
           want == IF request[r].asks # {} THEN request[r].asks ELSE request[r].found
<1>1. request[r] \in [pc : {"write"}, event : Events, row : Rows, asks : SUBSET Actions,
                      found : SUBSET Actions]
  BY DEF WriteUpdate, WType, RequestState
<1>2. e \in Events /\ row \in Rows
  BY <1>1
<1>3. /\ table' = [table EXCEPT ![e] = new]
      /\ asked' = [asked EXCEPT ![e] = want]
      /\ request' = [request EXCEPT ![r] = [pc |-> "done"]]
      /\ worker' = worker
  BY DEF WriteUpdate, workVars
<1>4. ActionOfWebhook(row.webhook) \in want
  BY <1>1 DEF Routed
<1> HIDE DEF row, e, want
<1>5. new = Row(ActionOfWebhook(row.webhook), row.webhook)
  BY <1>2, Stored
<1>6. new.action \in want
  BY <1>4, <1>5 DEF Row
<1> HIDE DEF new
<1>7. \A x \in Events : table'[x] # NoRow => table'[x].action \in asked'[x]
  BY <1>2, <1>3, <1>6 DEF Routed, WType
<1>8. \A x \in Requests : request'[x].pc = "write" => x # r /\ request'[x] = request[x]
  BY <1>3 DEF WType
<1> QED
  BY <1>3, <1>7, <1>8 DEF Routed

LEMMA WorkerRouted ==
    ASSUME WType, Routed, NEW w \in Workers, WorkerStep(w) \/ \E e \in Events : Dispatch(w, e)
    PROVE  Routed'
<1>1. ASSUME NEW new, worker' = [worker EXCEPT ![w] = new], UNCHANGED eventVars,
             new.pc \in {"execute", "write", "update"} => new.row.action \in new.asked,
             new.pc = "write" => new.row.action.type = "websocket"
      PROVE  Routed'
  <2>1. worker'[w] = new /\ \A v \in Workers : v # w => worker'[v] = worker[v]
    BY <1>1 DEF WType
  <2> QED
    BY <1>1, <2>1 DEF eventVars, Routed
<1>2. CASE worker' = [worker EXCEPT ![w] = Idle] /\ UNCHANGED eventVars
  BY <1>1, <1>2 DEF Idle
<1>3. ASSUME NEW e \in Events, Dispatch(w, e)
      PROVE  Routed'
  <2> DEFINE new == [pc |-> "execute", event |-> e, row |-> Fetched(e), asked |-> asked[e]]
  <2>1. Fetched(e).action \in asked[e]
    BY <1>3, FetchedRow DEF Dispatch, Routed
  <2>2. worker' = [worker EXCEPT ![w] = new] /\ UNCHANGED eventVars
    BY <1>3 DEF Dispatch, Go
  <2>3. new.pc = "execute" /\ new.row.action \in new.asked
    BY <2>1
  <2> HIDE DEF new
  <2> QED
    BY <1>1, <2>2, <2>3
<1>4. CASE ExecuteWebhook(w) \/ Written(w)
  <2> DEFINE new == [pc |-> "update", event |-> worker[w].event, row |-> worker[w].row,
                     asked |-> worker[w].asked]
  <2>1. UNCHANGED eventVars /\ worker[w].row.action \in worker[w].asked
    BY <1>4 DEF ExecuteWebhook, Written, Routed
  <2>2. \/ worker' = [worker EXCEPT ![w] = Idle]
        \/ worker' = [worker EXCEPT ![w] = new]
    BY <1>4 DEF ExecuteWebhook, Written, Finish, Go
  <2>3. new.pc = "update" /\ new.row.action \in new.asked
    BY <2>1
  <2> HIDE DEF new
  <2> QED
    BY <1>1, <1>2, <2>1, <2>2, <2>3
<1>5. CASE DispatchToClient(w)
  <2>1. /\ worker[w].row.action.type = "websocket"
        /\ worker[w].row.action \in worker[w].asked
        /\ UNCHANGED eventVars
    BY <1>5 DEF DispatchToClient, Routed
  <2>2. ASSUME NEW to,
               worker' = [worker EXCEPT ![w] =
                            [pc |-> "write", event |-> worker[w].event, row |-> worker[w].row,
                             asked |-> worker[w].asked, to |-> to]]
        PROVE  Routed'
    <3> DEFINE new == [pc |-> "write", event |-> worker[w].event, row |-> worker[w].row,
                       asked |-> worker[w].asked, to |-> to]
    <3>1. /\ new.pc = "write" /\ new.row.action \in new.asked
          /\ new.row.action.type = "websocket"
      BY <2>1
    <3>2. worker' = [worker EXCEPT ![w] = new]
      BY <2>2
    <3> HIDE DEF new
    <3> QED
      BY <1>1, <2>1, <3>1, <3>2
  <2> QED
    BY <1>2, <1>5, <2>1, <2>2, DispatchToClientType
<1>6. CASE Inactivate(w)
  <2> DEFINE e == worker[w].event
             row == worker[w].row
             want == worker[w].asked
             new == deriveAndSetAction(row)
  <2>1. /\ e \in Events /\ row \in Rows /\ row.action = ActionOfWebhook(row.webhook)
        /\ row.action \in want
    BY <1>6, Working DEF Inactivate, StoredRows, Routed
  <2>2. /\ table' = [table EXCEPT ![e] = new]
        /\ asked' = [asked EXCEPT ![e] = want]
        /\ worker' = [worker EXCEPT ![w] = Idle]
        /\ request' = request
    BY <1>6 DEF Inactivate, Go
  <2> HIDE DEF row, e, want
  <2>3. new.action \in want
    BY <2>1, Stored DEF Row
  <2> HIDE DEF new
  <2>4. \A x \in Events : table'[x] # NoRow => table'[x].action \in asked'[x]
    BY <2>1, <2>2, <2>3 DEF Routed, WType
  <2>5. worker'[w].pc = "idle" /\ \A v \in Workers : v # w => worker'[v] = worker[v]
    BY <2>2 DEF WType, Idle
  <2> QED
    BY <2>2, <2>4, <2>5 DEF Routed
<1> QED
  BY <1>3, <1>4, <1>5, <1>6 DEF WorkerStep

LEMMA NextRouted ==
    ASSUME UrlsAreUrls, WType, Routed, [Next]_wsVars
    PROVE  Routed'
<1>1. CASE UNCHANGED <<eventVars, workVars>>
  BY <1>1 DEF eventVars, workVars, Routed
<1>2. ASSUME NEW c \in Conns,
             \/ Connect(c) \/ PeerStep(c) \/ HandlerStep(c)
             \/ \E m \in Handshakes : Handshake(c, m)
      PROVE  Routed'
  BY <1>1, <1>2 DEF Connect, PeerStep, PeerDies, PeerStalls, PeerReads, HandlerStep, Handshake,
     Register, ReadFails, Cleanup
<1>3. CASE UNCHANGED wsVars
  BY <1>1, <1>3 DEF wsVars, eventVars, workVars
<1> QED
  BY <1>2, <1>3, CreateRouted, ReadRouted, WriteRouted, WorkerRouted DEF Next, PeerStep

\* Nobody writes while the mutex is free, and then one worker at most.
LEMMA WriterAlone ==
    ASSUME Writing
    PROVE  /\ mu = Free => \A w \in Workers : worker[w].pc # "write"
           /\ \A v, w \in Workers : worker[v].pc = "write" /\ worker[w].pc = "write" => v = w
BY WebSocketAssumption DEF Writing

LEMMA NextWriting ==
    ASSUME WType, Writing, [Next]_wsVars
    PROVE  Writing'
<1>1. CASE UNCHANGED <<worker, mu>> /\ (hooks \subseteq hooks' \/ mu = Free)
  BY <1>1, WriterAlone DEF Writing
<1>2. ASSUME NEW c \in Conns,
             \/ Connect(c) \/ PeerStep(c) \/ HandlerStep(c)
             \/ \E m \in Handshakes : Handshake(c, m)
      PROVE  Writing'
  BY <1>1, <1>2 DEF Connect, PeerStep, PeerDies, PeerStalls, PeerReads, HandlerStep, Handshake,
     Register, ReadFails, Cleanup, workVars
<1>3. ASSUME NEW w \in Workers,
             ExecuteWebhook(w) \/ Inactivate(w) \/ \E e \in Events : Dispatch(w, e)
      PROVE  Writing'
  <2>1. UNCHANGED <<mu, hooks>>
    BY <1>3 DEF ExecuteWebhook, Inactivate, Dispatch, connVars
  <2>2. worker'[w].pc # "write" /\ \A v \in Workers : v # w => worker'[v] = worker[v]
    BY <1>3 DEF ExecuteWebhook, Inactivate, Finish, Dispatch, Go, WType, Idle
  <2> QED
    BY <2>1, <2>2 DEF Writing
<1>4. ASSUME NEW w \in Workers, DispatchToClient(w)
      PROVE  Writing'
  <2>1. mu = Free /\ hooks' = hooks
    BY <1>4 DEF DispatchToClient, connVars
  <2>2. \A v \in Workers : worker[v].pc # "write"
    BY <2>1, WriterAlone
  <2>3. CASE worker' = [worker EXCEPT ![w] = Idle]
    BY <2>2, <2>3 DEF Writing, WType, Idle
  <2>4. ASSUME NEW to \in ConnsOf(worker[w].row.action.target),
               worker' = [worker EXCEPT ![w] =
                            [pc |-> "write", event |-> worker[w].event, row |-> worker[w].row,
                             asked |-> worker[w].asked, to |-> to]],
               mu' = w
        PROVE  Writing'
    <3>1. /\ worker'[w].row = worker[w].row /\ worker'[w].to = to
          /\ \A v \in Workers : v # w => worker'[v].pc # "write"
      BY <2>2, <2>4 DEF WType
    <3>2. <<worker[w].row.action.target, to>> \in hooks'
      BY <2>1, <2>4 DEF ConnsOf
    <3> QED
      BY <2>4, <3>1, <3>2 DEF Writing
  <2> QED
    BY <1>4, <2>3, <2>4, DispatchToClientType
<1>5. ASSUME NEW w \in Workers, Written(w)
      PROVE  Writing'
  <2>1. worker'[w].pc # "write" /\ \A v \in Workers : v # w => worker'[v] = worker[v]
    BY <1>5 DEF Written, Finish, Go, WType, Idle
  <2>2. \A v \in Workers : worker[v].pc = "write" => v = w
    BY <1>5, WriterAlone DEF Written
  <2> QED
    BY <2>1, <2>2 DEF Writing
<1>6. ASSUME NEW e \in Events,
             \/ \E req \in Creates : CreateEvent(e, req)
             \/ \E r \in Requests, req \in Updates : ReadForUpdate(r, e, req)
      PROVE  Writing'
  BY <1>1, <1>6 DEF CreateEvent, ReadForUpdate, connVars, workVars
<1>7. CASE (\E r \in Requests : WriteUpdate(r)) \/ UNCHANGED wsVars
  BY <1>1, <1>7 DEF WriteUpdate, connVars, workVars, wsVars
<1> QED
  BY <1>2, <1>3, <1>4, <1>5, <1>6, <1>7 DEF Next, WorkerStep, PeerStep

\* With urls that are urls, a row sends its event where its last writer asked
\* for, or, when it asked for nothing, where the row it had read sent it
\* (event_handler.go:34-98, event_repository.go:35-91), and its two columns say
\* the same.  The writers are POST, PUT and the dispatcher, which writes the row
\* of an event that is over back as it read it (dispatcher.go:158-190), any
\* number of them in progress at once.  It does not say that a row keeps what a
\* PUT asked for: a writer that read the row before puts back what it had read.
THEOREM RowsRoutedAsAsked ==
    ASSUME UrlsAreUrls
    PROVE  Spec => []RoutedAsAsked
<1>1. Init => Routed
  BY DEF Init, Routed, Idle
<1>2. WType /\ Routed /\ [Next]_wsVars => Routed'
  BY NextRouted
<1>3. WType /\ Routed => RoutedAsAsked
  BY FetchedRow DEF Routed, RoutedAsAsked
<1> QED
  BY <1>1, <1>2, <1>3, WTypeAlways, PTL DEF Spec

\* With urls that are urls, a message is written only to a connection of the
\* client the event named when the worker read it, while that connection is
\* registered, and by one worker at a time (websocket_handler.go:188-217), for
\* any number of workers, connections and requests.
THEOREM WrittenToItsClientOnly ==
    ASSUME UrlsAreUrls
    PROVE  Spec => []OnlyItsClient
<1>1. Init => Routed /\ Writing
  BY DEF Init, Routed, Writing, Idle
<1>2. WType /\ Routed /\ Writing /\ [Next]_wsVars => Routed' /\ Writing'
  BY NextRouted, NextWriting
<1>3. Routed /\ Writing => OnlyItsClient
  BY WriterAlone DEF Routed, Writing, OnlyItsClient
<1> QED
  BY <1>1, <1>2, <1>3, WTypeAlways, PTL DEF Spec
=============================================================================
