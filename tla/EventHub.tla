------------------------------ MODULE EventHub ------------------------------
(***************************************************************************)
(* The server-sent-events hub (internal/api/sse): one goroutine serialises *)
(* registrations, departures and broadcasts; one handler per connection    *)
(* pumps a client's buffer to the browser; producers hand messages over    *)
(* without waiting.  A subscription is a stream and a session scope.       *)
(***************************************************************************)
EXTENDS Naturals, Sequences, FiniteSets

CONSTANTS
  Clients,        \* connections
  Producers,      \* packet observers and loggers
  Subscriptions,  \* records [stream, scope]
  BufferSize,     \* of the hub's queue and of every client
  ClientLimits,   \* values of Config.MaxClients, per stream
  MaxTokens,      \* of a stream's rate limiter
  MaxEvents       \* bound on events produced

Streams == {s.stream : s \in Subscriptions}
NoEvent == [id |-> 0, to |-> [stream |-> "", scope |-> ""]]
Event   == [id : 1 .. MaxEvents, to : Subscriptions]

VARIABLES
  maxClients,  \* Config.MaxClients; never changes
  loop,     \* the hub goroutine: "new", "running", "done"
  stopped,  \* stopChan is closed
  phase,    \* each handler: "new", "setup", "streaming", "leaving", "gone"
  client,   \* each connection's subscription
  clients,  \* registered connections
  closed,   \* connections whose send channel the hub closed
  send,     \* each connection's buffered events
  got,      \* the events written to each browser
  queue,    \* the hub's broadcast channel
  draft,    \* the event a producer has numbered and not yet handed over
  eventID,
  tokens    \* of each stream's rate limiter

vars == <<maxClients, loop, stopped, phase, client, clients, closed, send, got, queue, draft, eventID, tokens>>
connections == <<phase, client, clients, closed, send, got>>
producing   == <<maxClients, queue, draft, eventID, tokens>>

Init ==
  /\ maxClients \in ClientLimits
  /\ loop = "new"
  /\ stopped = FALSE
  /\ phase = [c \in Clients |-> "new"]
  /\ client \in [Clients -> Subscriptions]
  /\ clients = {}
  /\ closed = {}
  /\ send = [c \in Clients |-> <<>>]
  /\ got = [c \in Clients |-> <<>>]
  /\ queue = <<>>
  /\ draft = [p \in Producers |-> NoEvent]
  /\ eventID = 0
  /\ tokens = [s \in Streams |-> MaxTokens]

-----------------------------------------------------------------------------
(* The hub goroutine. *)

Run == loop = "new" /\ loop' = "running" /\ UNCHANGED <<stopped, connections, producing>>

Stop == ~stopped /\ stopped' = TRUE /\ UNCHANGED <<loop, connections, producing>>

(* registerClient takes the connection a waiting handler offers; a full      *)
(* stream closes it at once.                                                 *)
registerClient(c) ==
  /\ loop = "running"
  /\ phase[c] = "setup"
  /\ phase' = [phase EXCEPT ![c] = "streaming"]
  /\ IF Cardinality({d \in clients : client[d].stream = client[c].stream}) >= maxClients
       THEN closed' = closed \cup {c} /\ UNCHANGED clients
       ELSE clients' = clients \cup {c} /\ UNCHANGED closed
  /\ UNCHANGED <<loop, stopped, client, send, got, producing>>

unregisterClient(c) ==
  /\ loop = "running"
  /\ phase[c] = "leaving"
  /\ phase' = [phase EXCEPT ![c] = "gone"]
  /\ clients' = clients \ {c}
  /\ closed' = IF c \in clients THEN closed \cup {c} ELSE closed
  /\ UNCHANGED <<loop, stopped, client, send, got, producing>>

(* allow: the bucket of stream s after refill tokens have come in. *)
Refilled(s, refill) == IF tokens[s] + refill < MaxTokens THEN tokens[s] + refill ELSE MaxTokens

(* A mutant of subscribers that ignores the session scope. *)
EveryScope(e) == {c \in clients \ closed : client[c].stream = e.to.stream}

subscribers(e) == {c \in clients \ closed : client[c] = e.to}

(* broadcastMessage: the rate limiter may drop the event for all, and a full *)
(* buffer drops it for one client.                                           *)
broadcastMessage(refill) ==
  /\ loop = "running"
  /\ queue # <<>>
  /\ LET e == Head(queue)
         t == Refilled(e.to.stream, refill)
     IN  IF t = 0
           THEN UNCHANGED <<send, tokens>>
           ELSE /\ tokens' = [tokens EXCEPT ![e.to.stream] = t - 1]
                /\ send' = [c \in Clients |->
                              IF c \in subscribers(e) /\ Len(send[c]) < BufferSize
                                THEN Append(send[c], e) ELSE send[c]]
  /\ queue' = Tail(queue)
  /\ UNCHANGED <<loop, stopped, phase, client, clients, closed, got, draft, eventID, maxClients>>

closeAllClients ==
  /\ loop = "running"
  /\ stopped
  /\ loop' = "done"
  /\ closed' = closed \cup clients
  /\ clients' = {}
  /\ UNCHANGED <<stopped, phase, client, send, got, producing>>

-----------------------------------------------------------------------------
(* The connection handlers. *)

setupConnection(c) ==
  /\ phase[c] = "new"
  /\ phase' = [phase EXCEPT ![c] = "setup"]
  /\ UNCHANGED <<loop, stopped, client, clients, closed, send, got, producing>>

(* A handler still offering its client sees the stop or its request end. *)
abandon(c) ==
  /\ phase[c] = "setup"
  /\ phase' = [phase EXCEPT ![c] = "gone"]
  /\ UNCHANGED <<loop, stopped, client, clients, closed, send, got, producing>>

runMessageLoop(c) ==
  /\ phase[c] = "streaming"
  /\ send[c] # <<>>
  /\ send' = [send EXCEPT ![c] = Tail(@)]
  /\ got' = [got EXCEPT ![c] = Append(@, Head(send[c]))]
  /\ UNCHANGED <<loop, stopped, phase, client, clients, closed, producing>>

(* The send channel is drained and closed. *)
channelClosed(c) ==
  /\ phase[c] = "streaming"
  /\ c \in closed
  /\ send[c] = <<>>
  /\ phase' = [phase EXCEPT ![c] = "leaving"]
  /\ UNCHANGED <<loop, stopped, client, clients, closed, send, got, producing>>

(* The browser goes away, a write fails or the longest duration has passed. *)
disconnect(c) ==
  /\ phase[c] = "streaming"
  /\ phase' = [phase EXCEPT ![c] = "leaving"]
  /\ UNCHANGED <<loop, stopped, client, clients, closed, send, got, producing>>

(* A mutant of leaveStopped that only waits for the hub to take the client.  *)
WaitsForHub(c) == FALSE /\ phase[c] = "leaving" /\ UNCHANGED vars

(* The deferred departure does not wait for a hub that was stopped. *)
leaveStopped(c) ==
  /\ phase[c] = "leaving"
  /\ stopped
  /\ phase' = [phase EXCEPT ![c] = "gone"]
  /\ UNCHANGED <<loop, stopped, client, clients, closed, send, got, producing>>

-----------------------------------------------------------------------------
(* The producers: an event is numbered first and handed over afterwards, so  *)
(* two producers may enqueue out of number order; a full queue drops it.     *)

numberEvent(p, to) ==
  /\ loop = "running"
  /\ draft[p] = NoEvent
  /\ eventID < MaxEvents
  /\ eventID' = eventID + 1
  /\ draft' = [draft EXCEPT ![p] = [id |-> eventID + 1, to |-> to]]
  /\ UNCHANGED <<loop, stopped, connections, queue, tokens, maxClients>>

broadcastScoped(p) ==
  /\ draft[p] # NoEvent
  /\ queue' = IF Len(queue) < BufferSize THEN Append(queue, draft[p]) ELSE queue
  /\ draft' = [draft EXCEPT ![p] = NoEvent]
  /\ UNCHANGED <<loop, stopped, connections, eventID, tokens, maxClients>>

-----------------------------------------------------------------------------
Next ==
  \/ Run \/ Stop \/ closeAllClients
  \/ \E refill \in 0 .. 1 : broadcastMessage(refill)
  \/ \E c \in Clients :
       \/ registerClient(c) \/ unregisterClient(c)
       \/ setupConnection(c) \/ abandon(c)
       \/ runMessageLoop(c) \/ channelClosed(c) \/ disconnect(c) \/ leaveStopped(c)
  \/ \E p \in Producers :
       \/ \E to \in Subscriptions : numberEvent(p, to)
       \/ broadcastScoped(p)

(* Goroutines that can run do: the hub's, and each handler's towards its end *)
(* (a handler offering a client to a stopped hub sees the stop; a browser    *)
(* takes what is written to it).  Nothing is assumed of browsers leaving, of *)
(* producers or of Stop being called.                                        *)
Fairness ==
  /\ WF_vars(Run)
  /\ WF_vars(closeAllClients)
  /\ \A c \in Clients :
       /\ WF_vars(stopped /\ abandon(c))
       /\ WF_vars(runMessageLoop(c))
       /\ WF_vars(channelClosed(c))
       /\ WF_vars(leaveStopped(c))

Spec == Init /\ [][Next]_vars /\ Fairness

TypeOK ==
  /\ loop \in {"new", "running", "done"}
  /\ stopped \in BOOLEAN
  /\ phase \in [Clients -> {"new", "setup", "streaming", "leaving", "gone"}]
  /\ clients \subseteq Clients
  /\ closed \subseteq Clients
  /\ \A c \in Clients : send[c] \in Seq(Event) /\ Len(send[c]) <= BufferSize
  /\ queue \in Seq(Event) /\ Len(queue) <= BufferSize
  /\ draft \in [Producers -> Event \cup {NoEvent}]
  /\ tokens \in [Streams -> 0 .. MaxTokens]

(* A browser sees the events of its own stream and session and no others,    *)
(* each at most once, and two browsers on the same subscription see what     *)
(* both receive in the same order, whichever events each of them missed.     *)
EventsFanOut ==
  \A c, d \in Clients :
    /\ \A i \in DOMAIN got[c] : got[c][i].to = client[c]
    /\ \A i, j \in DOMAIN got[c], k, l \in DOMAIN got[d] :
         got[c][i] = got[d][k] /\ got[c][j] = got[d][l] /\ i < j => k < l

(* Once the hub is stopped every connection that was opened ends: a server   *)
(* shutting down is not held up by a handler waiting for a hub that is gone. *)
StreamsEnd == \A c \in Clients : stopped /\ phase[c] # "new" ~> phase[c] = "gone"
=============================================================================
