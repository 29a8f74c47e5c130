----------------------------- MODULE EventBroker -----------------------------
(***************************************************************************)
(* The event broker (internal/events/broker.go) with the handlers around   *)
(* it: those of the CPEs that publish, and EventsHandler, which streams to *)
(* a client (internal/controllers/events_controller.go).  One RWMutex      *)
(* guards the map of subscribers; each subscriber has a buffered channel.  *)
(***************************************************************************)
EXTENDS Integers, Sequences

CONSTANTS
    Clients,      \* slots for GET /events requests, each with its channel
    Publishers,   \* handlers of CPEs, each publishing one event after the other
    Devices,      \* device identifier strings
    DeviceOf,     \* the device a publisher's events are about
    NoClient, NoEvent, NoFilter,
    BufferSize,   \* capacity of a channel (32)
    MaxEvents     \* bound of the model: events per publisher

ASSUME BrokerAssumption ==
    /\ DeviceOf \in [Publishers -> Devices]
    /\ NoClient \notin Clients
    /\ NoFilter \notin Devices
    /\ BufferSize \in Nat \ {0}
    /\ MaxEvents \in Nat
    /\ NoEvent \notin [by : Publishers, no : 1 .. MaxEvents]

VARIABLES
    subscribers,  \* ids in the map, named by their client
    open,         \* channels that are not closed
    buffer,       \* what each channel holds
    filter,       \* the device a client asked for, or NoFilter
    client,       \* where the EventsHandler of each client stands
    connected,    \* clients whose connection is up: their Context is not Done
    event,        \* the event a publisher is publishing
    visited,      \* the subscribers its range loop is done with
    target,       \* the subscriber it is about to send to
    published,    \* events a publisher has published
    readers,      \* mu: publishers that hold the read lock
    blocked,      \* mu: publishers that wait for it
    writer,       \* mu: the client that holds or awaits the write lock
    seen          \* history: events the handler of a client took off its channel

clientVars == <<filter, client, connected, seen>>
publisherVars == <<event, visited, target, published>>
muVars == <<readers, blocked, writer>>
brokerVars == <<subscribers, open, buffer, clientVars, publisherVars, muVars>>

Events == [by : Publishers, no : 1 .. MaxEvents]

BrokerTypeOK ==
    /\ subscribers \subseteq Clients
    /\ open \subseteq Clients
    /\ buffer \in [Clients -> Seq(Events)]
    /\ \A c \in Clients : Len(buffer[c]) <= BufferSize
    /\ filter \in [Clients -> Devices \cup {NoFilter}]
    /\ client \in [Clients -> {"away", "subscribe", "select", "write", "unsubscribe"}]
    /\ connected \subseteq Clients
    /\ event \in [Publishers -> Events \cup {NoEvent}]
    /\ visited \in [Publishers -> SUBSET Clients]
    /\ target \in [Publishers -> Clients \cup {NoClient}]
    /\ published \in [Publishers -> 0 .. MaxEvents]
    /\ readers \subseteq Publishers
    /\ blocked \subseteq Publishers
    /\ writer \in Clients \cup {NoClient}
    /\ seen \in [Clients -> Seq(Events)]

BrokerInit ==
    /\ subscribers = {} /\ open = {} /\ connected = {}
    /\ buffer = [c \in Clients |-> <<>>]
    /\ seen = [c \in Clients |-> <<>>]
    /\ filter = [c \in Clients |-> NoFilter]
    /\ client = [c \in Clients |-> "away"]
    /\ event = [p \in Publishers |-> NoEvent]
    /\ visited = [p \in Publishers |-> {}]
    /\ target = [p \in Publishers |-> NoClient]
    /\ published = [p \in Publishers |-> 0]
    /\ readers = {} /\ blocked = {} /\ writer = NoClient

-----------------------------------------------------------------------------
(* sync.RWMutex: a writer that waits keeps new readers out, and its Unlock  *)
(* lets in the readers that came meanwhile before the next writer.          *)

RLock(p) ==
    /\ IF writer = NoClient
       THEN readers' = readers \cup {p} /\ UNCHANGED blocked
       ELSE blocked' = blocked \cup {p} /\ UNCHANGED readers
    /\ UNCHANGED writer

RUnlock(p) ==
    /\ readers' = readers \ {p}
    /\ UNCHANGED <<blocked, writer>>

HoldsLock(c) == writer = c /\ readers = {}

Unlock == readers' = blocked /\ blocked' = {} /\ writer' = NoClient

-----------------------------------------------------------------------------
(* Publish. *)

Wants(c, e) == filter[c] = NoFilter \/ filter[c] = DeviceOf[e.by]

Publish(p) ==
    /\ event[p] = NoEvent /\ published[p] < MaxEvents
    /\ published' = [published EXCEPT ![p] = @ + 1]
    /\ event' = [event EXCEPT ![p] = [by |-> p, no |-> published[p] + 1]]
    /\ RLock(p)
    /\ UNCHANGED <<subscribers, open, buffer, clientVars, visited, target>>

\* The range loop comes to a subscriber whose filter rejects the event ...
SkipSubscriber(p) ==
    /\ p \in readers /\ target[p] = NoClient
    /\ \E c \in subscribers \ visited[p] :
        /\ ~Wants(c, event[p])
        /\ visited' = [visited EXCEPT ![p] = @ \cup {c}]
    /\ UNCHANGED <<subscribers, open, buffer, clientVars, event, target, published, muVars>>

\* Mutant: an event the filter rejects is not skipped.
PickSubscriber_Unfiltered(p) ==
    /\ p \in readers /\ target[p] = NoClient
    /\ \E c \in subscribers \ visited[p] :
        /\ target' = [target EXCEPT ![p] = c]
        /\ visited' = [visited EXCEPT ![p] = @ \cup {c}]
    /\ UNCHANGED <<subscribers, open, buffer, clientVars, event, published, muVars>>

\* ... or to one that gets it.
PickSubscriber(p) ==
    /\ p \in readers /\ target[p] = NoClient
    /\ \E c \in subscribers \ visited[p] :
        /\ Wants(c, event[p])
        /\ target' = [target EXCEPT ![p] = c]
        /\ visited' = [visited EXCEPT ![p] = @ \cup {c}]
    /\ UNCHANGED <<subscribers, open, buffer, clientVars, event, published, muVars>>

\* Mutant: the channel takes one event less than its capacity.
SendEvent_Early(p) ==
    /\ target[p] # NoClient
    /\ IF Len(buffer[target[p]]) < BufferSize - 1
       THEN buffer' = [buffer EXCEPT ![target[p]] = Append(@, event[p])]
       ELSE UNCHANGED buffer
    /\ target' = [target EXCEPT ![p] = NoClient]
    /\ UNCHANGED <<subscribers, open, clientVars, event, visited, published, muVars>>

\* Mutant: the channel takes one event more.
SendEvent_Late(p) ==
    /\ target[p] # NoClient
    /\ IF Len(buffer[target[p]]) <= BufferSize
       THEN buffer' = [buffer EXCEPT ![target[p]] = Append(@, event[p])]
       ELSE UNCHANGED buffer
    /\ target' = [target EXCEPT ![p] = NoClient]
    /\ UNCHANGED <<subscribers, open, clientVars, event, visited, published, muVars>>

\* Mutant: the select has no default case.
SendEvent_Blocks(p) ==
    /\ target[p] # NoClient
    /\ Len(buffer[target[p]]) < BufferSize
    /\ buffer' = [buffer EXCEPT ![target[p]] = Append(@, event[p])]
    /\ target' = [target EXCEPT ![p] = NoClient]
    /\ UNCHANGED <<subscribers, open, clientVars, event, visited, published, muVars>>

\* The select with a default case: a full buffer drops the event.
SendEvent(p) ==
    /\ target[p] # NoClient
    /\ IF Len(buffer[target[p]]) < BufferSize
       THEN buffer' = [buffer EXCEPT ![target[p]] = Append(@, event[p])]
       ELSE UNCHANGED buffer
    /\ target' = [target EXCEPT ![p] = NoClient]
    /\ UNCHANGED <<subscribers, open, clientVars, event, visited, published, muVars>>

EndPublish(p) ==
    /\ p \in readers /\ target[p] = NoClient
    /\ subscribers \subseteq visited[p]
    /\ event' = [event EXCEPT ![p] = NoEvent]
    /\ visited' = [visited EXCEPT ![p] = {}]
    /\ RUnlock(p)
    /\ UNCHANGED <<subscribers, open, buffer, clientVars, target, published>>

-----------------------------------------------------------------------------
(* EventsHandler. *)

\* GET /events, with or without device_id; SubscribeWithFilter makes a channel.
Connect(c) ==
    /\ client[c] = "away"
    /\ client' = [client EXCEPT ![c] = "subscribe"]
    /\ \E f \in Devices \cup {NoFilter} : filter' = [filter EXCEPT ![c] = f]
    /\ connected' = connected \cup {c}
    /\ open' = open \cup {c}
    /\ UNCHANGED <<subscribers, buffer, seen, publisherVars, muVars>>

\* mu.Lock(): first among the writers, then until the last reader is out.
Lock(c) ==
    /\ client[c] \in {"subscribe", "unsubscribe"}
    /\ writer = NoClient
    /\ writer' = c
    /\ UNCHANGED <<subscribers, open, buffer, clientVars, publisherVars, readers, blocked>>

AddSubscriber(c) ==
    /\ client[c] = "subscribe" /\ HoldsLock(c)
    /\ subscribers' = subscribers \cup {c}
    /\ Unlock
    /\ client' = [client EXCEPT ![c] = "select"]
    /\ UNCHANGED <<open, buffer, filter, connected, seen, publisherVars>>

\* The select of the loop: an event is there, or the client is gone.  When
\* both hold it chooses at random.
TakeEvent(c) ==
    /\ client[c] = "select" /\ buffer[c] # <<>>
    /\ seen' = [seen EXCEPT ![c] = Append(@, Head(buffer[c]))]
    /\ buffer' = [buffer EXCEPT ![c] = Tail(@)]
    /\ client' = [client EXCEPT ![c] = "write"]
    /\ UNCHANGED <<subscribers, open, filter, connected, publisherVars, muVars>>

\* The write blocks for as long as a connected client does not read; on a dead
\* connection it fails at once, which the handler does not look at.  (An event
\* that json.Marshal refuses would be written as an error in its place.)
WriteEvent(c) ==
    /\ client[c] = "write"
    /\ client' = [client EXCEPT ![c] = "select"]
    /\ UNCHANGED <<subscribers, open, buffer, filter, connected, seen, publisherVars, muVars>>

Disconnect(c) ==
    /\ c \in connected
    /\ connected' = connected \ {c}
    /\ UNCHANGED <<subscribers, open, buffer, filter, client, seen, publisherVars, muVars>>

\* Mutant: Unsubscribe is not deferred.
Leave_Leaks(c) ==
    /\ client[c] = "select" /\ c \notin connected
    /\ client' = [client EXCEPT ![c] = "away"]
    /\ UNCHANGED <<subscribers, open, buffer, filter, connected, seen, publisherVars, muVars>>

Leave(c) ==
    /\ client[c] = "select" /\ c \notin connected
    /\ client' = [client EXCEPT ![c] = "unsubscribe"]
    /\ UNCHANGED <<subscribers, open, buffer, filter, connected, seen, publisherVars, muVars>>

\* Mutant: Unsubscribe does not wait for the publishers to be out.
RemoveSubscriber_NoWait(c) ==
    /\ client[c] = "unsubscribe" /\ writer = c
    /\ open' = open \ {c}
    /\ subscribers' = subscribers \ {c}
    /\ readers' = readers \cup blocked /\ blocked' = {} /\ writer' = NoClient
    /\ client' = [client EXCEPT ![c] = "away"]
    /\ buffer' = [buffer EXCEPT ![c] = <<>>]
    /\ filter' = [filter EXCEPT ![c] = NoFilter]
    /\ seen' = [seen EXCEPT ![c] = <<>>]
    /\ UNCHANGED <<connected, publisherVars>>

\* Unsubscribe; the slot is free for another request.
RemoveSubscriber(c) ==
    /\ client[c] = "unsubscribe" /\ HoldsLock(c)
    /\ open' = open \ {c}
    /\ subscribers' = subscribers \ {c}
    /\ Unlock
    /\ client' = [client EXCEPT ![c] = "away"]
    /\ buffer' = [buffer EXCEPT ![c] = <<>>]
    /\ filter' = [filter EXCEPT ![c] = NoFilter]
    /\ seen' = [seen EXCEPT ![c] = <<>>]
    /\ UNCHANGED <<connected, publisherVars>>

-----------------------------------------------------------------------------

PublisherStep(p) ==
    \/ SkipSubscriber(p)
    \/ PickSubscriber(p)
    \/ SendEvent(p)
    \/ EndPublish(p)

LockStep(c) == AddSubscriber(c) \/ RemoveSubscriber(c)

BrokerNext ==
    \/ \E p \in Publishers : Publish(p) \/ PublisherStep(p)
    \/ \E c \in Clients : \/ Connect(c) \/ Lock(c) \/ LockStep(c)
                          \/ TakeEvent(c) \/ WriteEvent(c)
                          \/ Disconnect(c) \/ Leave(c)

BrokerSpec == BrokerInit /\ [][BrokerNext]_brokerVars

\* Goroutines that can go on do.  A connected client need not read; one that
\* is gone lets the write fail.  sync.Mutex hands itself to a waiter it has
\* passed over for long, and select chooses at random among the ready cases.
BrokerFairness ==
    /\ \A p \in Publishers : WF_brokerVars(PublisherStep(p))
    /\ \A c \in Clients : /\ WF_brokerVars(LockStep(c))
                          /\ SF_brokerVars(Lock(c))
                          /\ SF_brokerVars(Leave(c))
                          /\ WF_brokerVars(c \notin connected /\ WriteEvent(c))

FairBrokerSpec == BrokerSpec /\ BrokerFairness

-----------------------------------------------------------------------------
(* Properties. *)

\* The events that came through the channel of c, in order.
Stream(c) == seen[c] \o buffer[c]

\* No publisher ever sends on a channel that Unsubscribe has closed, which
\* would panic the handler of a CPE, or to a subscriber no longer in the map.
SendsOnOpenChannel ==
    \A p \in Publishers :
        target[p] # NoClient => target[p] \in open /\ target[p] \in subscribers

\* A client only gets events its filter admits, none twice, and those of one
\* publisher in the order they were published.
StreamIsFaithful ==
    \A c \in Clients :
        /\ \A i \in DOMAIN Stream(c) : Wants(c, Stream(c)[i])
        /\ \A i, j \in DOMAIN Stream(c) :
              i < j /\ Stream(c)[i].by = Stream(c)[j].by
              => Stream(c)[i].no < Stream(c)[j].no

\* Every entry of the map belongs to a handler that is still to call
\* Unsubscribe: an EventsHandler that has returned left no subscriber behind.
SubscribersAreServed ==
    subscribers = {c \in Clients : client[c] \in {"select", "write", "unsubscribe"}}

\* "Slow subscribers that have a full buffer will have the event dropped": when
\* Publish returns, every subscriber that wants the event and has not yet got
\* a bufferful of events has it in its stream.
NothingDroppedEarly ==
    [][\A p \in Publishers, c \in subscribers :
          /\ event[p] # NoEvent /\ event'[p] = NoEvent
          /\ Wants(c, event[p]) /\ Len(Stream(c)) < BufferSize
          => \E i \in DOMAIN Stream(c) : Stream(c)[i] = event[p]]_brokerVars

\* "buffered so publishing never blocks the CWMP handler": Publish returns
\* although connected clients may never read and others come and go.
PublishReturns ==
    \A p \in Publishers : event[p] # NoEvent ~> event[p] = NoEvent

\* The handler of a client that is gone unsubscribes.
GoneClientsLeave ==
    \A c \in Clients :
        c \in subscribers /\ c \notin connected ~> c \notin subscribers
=============================================================================
