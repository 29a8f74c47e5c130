--------------------------- MODULE Lifecycle_proofs ---------------------------
(***************************************************************************)
(* Proofs about EventBroker, for any number of clients and publishers and  *)
(* any capacity of the channels, and about Lifecycle, in which the broker  *)
(* lives: no handler works on a closed database, and what is proved of the *)
(* broker holds in every life of the process.                              *)
(***************************************************************************)
EXTENDS Lifecycle, SequenceTheorems, TLAPS

\* A publisher that holds or awaits the read lock has an event to publish.
LockersPublish ==
    /\ \A p \in readers \cup blocked : event[p] # NoEvent
    /\ readers \cap blocked = {}

\* A publisher sends under the read lock only.
SendersRead ==
    \A p \in Publishers :
        target[p] # NoClient => p \in readers /\ target[p] \in subscribers

\* The channel of a client is open while its handler runs.
HandlersHaveChannel == \A c \in Clients : client[c] # "away" => c \in open

BrokerInv == /\ BrokerTypeOK
             /\ SubscribersAreServed
             /\ LockersPublish
             /\ SendersRead
             /\ HandlersHaveChannel

\* Sending to a buffer that is not full, and taking from one that is not empty.
LEMMA BufferValues ==
    ASSUME NEW s \in Seq(Events), NEW e \in Events
    PROVE  /\ Append(s, e) \in Seq(Events) /\ Len(Append(s, e)) = Len(s) + 1
           /\ s # <<>> => /\ Head(s) \in Events
                          /\ Tail(s) \in Seq(Events) /\ Len(Tail(s)) = Len(s) - 1
           /\ Len(s) \in Nat
OBVIOUS

LEMMA BrokerInvInit == BrokerInit => BrokerInv
<1> SUFFICES ASSUME BrokerInit PROVE BrokerInv
  OBVIOUS
<1>1. BrokerTypeOK
  BY BrokerAssumption DEF BrokerInit, BrokerTypeOK
<1> QED BY <1>1 DEF BrokerInit, BrokerInv, SubscribersAreServed, LockersPublish, SendersRead,
     HandlersHaveChannel

LEMMA PublisherKeepsInv ==
    ASSUME BrokerInv, NEW p \in Publishers, Publish(p) \/ PublisherStep(p)
    PROVE  BrokerInv'
<1> USE BrokerAssumption DEF BrokerInv, BrokerTypeOK, clientVars, muVars
<1>1. CASE Publish(p)
  <2>1. [by |-> p, no |-> published[p] + 1] \in Events /\ published[p] + 1 \in 0 .. MaxEvents
    BY <1>1 DEF Publish, Events
  <2>2. /\ event' \in [Publishers -> Events \cup {NoEvent}]
        /\ published' \in [Publishers -> 0 .. MaxEvents]
        /\ event'[p] # NoEvent /\ \A q \in Publishers : q # p => event'[q] = event[q]
    BY <1>1, <2>1 DEF Publish, Events
  <2>3. BrokerTypeOK'
    BY <1>1, <2>2 DEF Publish, RLock
  <2>4. LockersPublish'
    BY <1>1, <2>2 DEF Publish, RLock, LockersPublish
  <2> QED BY <1>1, <2>3, <2>4 DEF Publish, RLock, SubscribersAreServed, SendersRead,
       HandlersHaveChannel
<1>2. CASE SkipSubscriber(p)
  BY <1>2 DEF SkipSubscriber, SubscribersAreServed, LockersPublish, SendersRead,
     HandlersHaveChannel
<1>3. CASE PickSubscriber(p)
  BY <1>3 DEF PickSubscriber, SubscribersAreServed, LockersPublish, SendersRead,
     HandlersHaveChannel
<1>4. CASE SendEvent(p)
  <2>1. event[p] \in Events /\ target[p] \in Clients
    BY <1>4 DEF SendEvent, SendersRead, LockersPublish
  <2>2. buffer' \in [Clients -> Seq(Events)] /\ \A c \in Clients : Len(buffer'[c]) <= BufferSize
    <3>1. CASE Len(buffer[target[p]]) < BufferSize
      <4>1. /\ Append(buffer[target[p]], event[p]) \in Seq(Events)
            /\ Len(Append(buffer[target[p]], event[p])) <= BufferSize
        BY <2>1, <3>1, BufferValues
      <4>2. buffer' = [buffer EXCEPT ![target[p]] = Append(buffer[target[p]], event[p])]
        BY <1>4, <3>1 DEF SendEvent
      <4> QED BY <2>1, <4>1, <4>2
    <3>2. CASE ~(Len(buffer[target[p]]) < BufferSize)
      BY <1>4, <3>2 DEF SendEvent
    <3> QED BY <3>1, <3>2
  <2> QED BY <1>4, <2>2 DEF SendEvent, SubscribersAreServed, LockersPublish, SendersRead,
       HandlersHaveChannel
<1>5. CASE EndPublish(p)
  BY <1>5 DEF EndPublish, RUnlock, SubscribersAreServed, LockersPublish, SendersRead,
     HandlersHaveChannel
<1> QED BY <1>1, <1>2, <1>3, <1>4, <1>5 DEF PublisherStep

LEMMA ClientKeepsInv ==
    ASSUME BrokerInv, NEW c \in Clients,
           \/ Connect(c) \/ Lock(c) \/ LockStep(c) \/ TakeEvent(c) \/ WriteEvent(c)
           \/ Disconnect(c) \/ Leave(c)
    PROVE  BrokerInv'
<1> USE BrokerAssumption DEF BrokerInv, BrokerTypeOK, clientVars, publisherVars, muVars,
    SubscribersAreServed, LockersPublish, SendersRead, HandlersHaveChannel
<1>1. CASE Connect(c)
  <2>1. /\ filter' \in [Clients -> Devices \cup {NoFilter}]
        /\ client' = [client EXCEPT ![c] = "subscribe"] /\ client[c] = "away"
        /\ open' = open \cup {c} /\ connected' = connected \cup {c}
        /\ UNCHANGED <<subscribers, buffer, seen, publisherVars, muVars>>
    BY <1>1 DEF Connect
  <2> QED BY <2>1
<1>2. CASE Lock(c)
  BY <1>2 DEF Lock
<1>3. CASE AddSubscriber(c)
  BY <1>3 DEF AddSubscriber, HoldsLock, Unlock
<1>4. CASE RemoveSubscriber(c)
  <2>1. \A p \in Publishers : target[p] = NoClient
    BY <1>4 DEF RemoveSubscriber, HoldsLock
  <2>2. buffer' \in [Clients -> Seq(Events)] /\ seen' \in [Clients -> Seq(Events)]
        /\ \A d \in Clients : Len(buffer'[d]) <= BufferSize
    BY <1>4 DEF RemoveSubscriber
  <2> QED BY <1>4, <2>1, <2>2 DEF RemoveSubscriber, HoldsLock, Unlock
<1>5. CASE TakeEvent(c)
  <2>1. /\ Head(buffer[c]) \in Events
        /\ Tail(buffer[c]) \in Seq(Events) /\ Len(Tail(buffer[c])) <= BufferSize
    <3>1. buffer[c] \in Seq(Events) /\ buffer[c] # <<>> /\ Len(buffer[c]) <= BufferSize
      BY <1>5 DEF TakeEvent
    <3> QED BY <3>1, BufferValues
  <2>2. Append(seen[c], Head(buffer[c])) \in Seq(Events)
    BY <2>1, BufferValues
  <2>3. /\ buffer' \in [Clients -> Seq(Events)]
        /\ \A d \in Clients : Len(buffer'[d]) <= BufferSize
        /\ seen' \in [Clients -> Seq(Events)]
    BY <1>5, <2>1, <2>2 DEF TakeEvent
  <2>4. /\ client' \in [Clients -> {"away", "subscribe", "select", "write", "unsubscribe"}]
        /\ SubscribersAreServed' /\ HandlersHaveChannel'
    BY <1>5 DEF TakeEvent
  <2> QED BY <1>5, <2>3, <2>4 DEF TakeEvent
<1>6. CASE WriteEvent(c)
  BY <1>6 DEF WriteEvent
<1>7. CASE Disconnect(c)
  BY <1>7 DEF Disconnect
<1>8. CASE Leave(c)
  BY <1>8 DEF Leave
<1> QED BY <1>1, <1>2, <1>3, <1>4, <1>5, <1>6, <1>7, <1>8 DEF LockStep

LEMMA BrokerInvStep == BrokerInv /\ [BrokerNext]_brokerVars => BrokerInv'
<1> SUFFICES ASSUME BrokerInv, [BrokerNext]_brokerVars PROVE BrokerInv'
  OBVIOUS
<1>1. CASE UNCHANGED brokerVars
  BY <1>1 DEF brokerVars, clientVars, publisherVars, muVars, BrokerInv, BrokerTypeOK,
     SubscribersAreServed, LockersPublish, SendersRead, HandlersHaveChannel
<1>2. CASE BrokerNext
  BY <1>2, PublisherKeepsInv, ClientKeepsInv DEF BrokerNext
<1> QED BY <1>1, <1>2

LEMMA BrokerInvSends == BrokerInv => SendsOnOpenChannel
BY DEF BrokerInv, BrokerTypeOK, SubscribersAreServed, SendersRead, HandlersHaveChannel,
   SendsOnOpenChannel

\* The types of the broker's variables; a channel never holds more events than
\* its capacity.
THEOREM BrokerTypeCorrect == BrokerSpec => []BrokerTypeOK
<1>1. BrokerInv => BrokerTypeOK
  BY DEF BrokerInv
<1> QED BY <1>1, BrokerInvInit, BrokerInvStep, PTL DEF BrokerSpec

\* No publisher sends on a closed channel, however clients come and go: Unsubscribe
\* closes it under the write lock, and a publisher that has picked a subscriber
\* holds the read lock until it has sent.
THEOREM ChannelsOpen == BrokerSpec => []SendsOnOpenChannel
<1>1. BrokerInv => SendsOnOpenChannel
  BY BrokerInvSends
<1> QED BY <1>1, BrokerInvInit, BrokerInvStep, PTL DEF BrokerSpec

\* An EventsHandler that has returned left no subscriber behind.
THEOREM NoSubscriberLeaks == BrokerSpec => []SubscribersAreServed
<1>1. BrokerInv => SubscribersAreServed
  BY DEF BrokerInv
<1> QED BY <1>1, BrokerInvInit, BrokerInvStep, PTL DEF BrokerSpec

-----------------------------------------------------------------------------
(* Streams.  What a client gets is what was in its channel, so each part is *)
(* stated of the events taken and those still in the channel together.      *)

EventsNumbered ==
    \A p \in Publishers : event[p] # NoEvent => event[p] = [by |-> p, no |-> published[p]]

NoStreamBefore ==
    \A c \in Clients \ subscribers : buffer[c] = <<>> /\ seen[c] = <<>>

\* The range loop runs under the read lock, so its subscribers stay the same.
RangeIsLocked ==
    \A p \in Publishers :
        /\ visited[p] # {} => p \in readers
        /\ visited[p] \subseteq subscribers
        /\ target[p] # NoClient => target[p] \in visited[p] /\ Wants(target[p], event[p])

\* Until p has come by a subscriber, all of its events there are older ones.
OlderInStream ==
    \A p \in Publishers, c \in Clients : \A i \in DOMAIN Stream(c) :
        Stream(c)[i].by = p =>
            /\ Stream(c)[i].no <= published[p]
            /\ event[p] # NoEvent /\ (c \notin visited[p] \/ target[p] = c)
               => Stream(c)[i].no < published[p]

Has(c, e) == \E i \in DOMAIN Stream(c) : Stream(c)[i] = e

\* A subscriber p has come by has the event, did not want it or had enough.
VisitedHave ==
    \A p \in Publishers : \A c \in visited[p] :
        target[p] # c /\ Wants(c, event[p]) /\ Len(Stream(c)) < BufferSize
        => Has(c, event[p])

StreamInv == /\ BrokerInv
             /\ EventsNumbered
             /\ NoStreamBefore
             /\ RangeIsLocked
             /\ OlderInStream
             /\ StreamIsFaithful
             /\ VisitedHave

\* What a send and a take do to a stream.
LEMMA StreamValues ==
    ASSUME NEW s \in Seq(Events), NEW t \in Seq(Events), NEW e \in Events
    PROVE  /\ s \o t \in Seq(Events) /\ Len(s \o t) >= Len(t) /\ Len(s \o t) \in Nat
           /\ s \o Append(t, e) = Append(s \o t, e)
           /\ t # <<>> => Append(s, Head(t)) \o Tail(t) = s \o t
<1>1. s \o t \in Seq(Events) /\ Len(s \o t) = Len(s) + Len(t)
      /\ \A i \in 1 .. Len(s) + Len(t) :
            (s \o t)[i] = IF i <= Len(s) THEN s[i] ELSE t[i - Len(s)]
  BY ConcatProperties
<1>2. s \o Append(t, e) = Append(s \o t, e)
  <2>1. Append(t, e) = t \o <<e>> /\ Append(s \o t, e) = (s \o t) \o <<e>> /\ <<e>> \in Seq(Events)
    BY <1>1, AppendIsConcat
  <2> QED BY <2>1, ConcatAssociative
<1>3. ASSUME t # <<>>
      PROVE  Append(s, Head(t)) \o Tail(t) = s \o t
  <2>1. Head(t) \in Events /\ Tail(t) \in Seq(Events) /\ t = <<Head(t)>> \o Tail(t)
    <3>1. /\ Head(t) \in Events /\ Tail(t) \in Seq(Events) /\ Len(Tail(t)) = Len(t) - 1
          /\ \A i \in 1 .. Len(Tail(t)) : Tail(t)[i] = t[i + 1]
          /\ <<Head(t)>> \in Seq(Events) /\ Head(t) = t[1] /\ Len(t) \in Nat \ {0}
      BY <1>3, HeadTailProperties
    <3>2. /\ <<Head(t)>> \o Tail(t) \in Seq(Events)
          /\ Len(<<Head(t)>> \o Tail(t)) = Len(t)
          /\ \A i \in 1 .. Len(t) : (<<Head(t)>> \o Tail(t))[i] = t[i]
      <4> DEFINE h == <<Head(t)>>
      <4>1. Len(h) = 1 /\ h[1] = Head(t) /\ h \in Seq(Events)
        BY <3>1
      <4> HIDE DEF h
      <4>2. /\ h \o Tail(t) \in Seq(Events) /\ Len(h \o Tail(t)) = Len(h) + Len(Tail(t))
            /\ \A i \in 1 .. Len(h) + Len(Tail(t)) :
                   (h \o Tail(t))[i] = IF i <= Len(h) THEN h[i] ELSE Tail(t)[i - Len(h)]
        BY <3>1, <4>1, ConcatProperties
      <4>3. h \o Tail(t) \in Seq(Events) /\ Len(h \o Tail(t)) = Len(t)
            /\ \A i \in 1 .. Len(t) : (h \o Tail(t))[i] = t[i]
        BY <3>1, <4>1, <4>2
      <4> QED BY <4>3 DEF h
    <3> QED BY <3>1, <3>2, SeqEqual
  <2>2. Append(s, Head(t)) = s \o <<Head(t)>> /\ <<Head(t)>> \in Seq(Events)
    BY <2>1, AppendIsConcat
  <2> QED BY <2>1, <2>2, ConcatAssociative
<1>4. Len(s) + Len(t) >= Len(t) /\ Len(s) + Len(t) \in Nat
  OBVIOUS
<1> QED BY <1>1, <1>2, <1>3, <1>4

LEMMA StreamType ==
    ASSUME BrokerTypeOK, NEW c \in Clients
    PROVE  /\ buffer[c] \in Seq(Events) /\ seen[c] \in Seq(Events)
           /\ Stream(c) \in Seq(Events) /\ Len(Stream(c)) >= Len(buffer[c])
<1>1. buffer[c] \in Seq(Events) /\ seen[c] \in Seq(Events)
  BY DEF BrokerTypeOK
<1>2. CASE Events = {}
  <2>1. buffer[c] = <<>> /\ seen[c] = <<>>
    BY <1>1, <1>2
  <2> QED BY <1>1, <2>1 DEF Stream
<1>3. CASE Events # {}
  BY <1>1, <1>3, StreamValues DEF Stream
<1> QED BY <1>1, <1>2, <1>3

\* A send appends to one stream or finds its channel full.
LEMMA StreamSend ==
    ASSUME BrokerInv, NEW p \in Publishers, SendEvent(p), NEW c \in Clients
    PROVE  IF target[p] = c /\ Len(buffer[c]) < BufferSize
           THEN Stream(c)' = Append(Stream(c), event[p])
           ELSE Stream(c)' = Stream(c)
<1> USE DEF BrokerInv, BrokerTypeOK, clientVars
<1>1. event[p] \in Events /\ target[p] \in Clients /\ seen' = seen
  BY DEF SendEvent, SendersRead, LockersPublish
<1>2. buffer'[c] = IF target[p] = c /\ Len(buffer[c]) < BufferSize
                   THEN Append(buffer[c], event[p]) ELSE buffer[c]
  BY <1>1 DEF SendEvent
<1>3. seen[c] \o Append(buffer[c], event[p]) = Append(seen[c] \o buffer[c], event[p])
  BY <1>1, StreamType, StreamValues
<1> QED BY <1>1, <1>2, <1>3 DEF Stream

\* A step of a handler that serves a client leaves all streams alone, but
\* Unsubscribe empties the one of its slot.
LEMMA StreamOfClient ==
    ASSUME BrokerInv, NEW d \in Clients, NEW c \in Clients,
           \/ Connect(d) \/ Lock(d) \/ LockStep(d) \/ TakeEvent(d) \/ WriteEvent(d)
           \/ Disconnect(d) \/ Leave(d)
    PROVE  IF RemoveSubscriber(d) /\ d = c THEN Stream(c)' = <<>>
                                           ELSE Stream(c)' = Stream(c)
<1> USE DEF BrokerInv, BrokerTypeOK, clientVars, muVars, publisherVars
<1>1. CASE TakeEvent(d)
  <2>0. ~RemoveSubscriber(d)
    BY <1>1 DEF TakeEvent, RemoveSubscriber
  <2>1. CASE d # c
    BY <1>1, <2>0, <2>1 DEF TakeEvent, Stream
  <2>2. CASE d = c
    <3>1. /\ seen'[c] = Append(seen[c], Head(buffer[c])) /\ buffer'[c] = Tail(buffer[c])
          /\ buffer[c] # <<>>
      BY <1>1, <2>2 DEF TakeEvent
    <3>2. /\ Head(buffer[c]) \in Events
          /\ Append(seen[c], Head(buffer[c])) \o Tail(buffer[c]) = seen[c] \o buffer[c]
      <4>1. buffer[c] \in Seq(Events) /\ seen[c] \in Seq(Events)
        OBVIOUS
      <4>2. Head(buffer[c]) \in Events
        BY <3>1, <4>1
      <4> QED BY <3>1, <4>1, <4>2, StreamValues
    <3> QED BY <2>0, <3>1, <3>2 DEF Stream
  <2> QED BY <2>1, <2>2
<1>2. CASE RemoveSubscriber(d)
  <2>1. CASE d # c
    BY <1>2, <2>1 DEF RemoveSubscriber, Stream
  <2>2. CASE d = c
    <3>1. seen'[c] = <<>> /\ buffer'[c] = <<>>
      BY <1>2, <2>2 DEF RemoveSubscriber
    <3> QED BY <1>2, <2>2, <3>1 DEF Stream
  <2> QED BY <2>1, <2>2
<1>3. CASE \/ Connect(d) \/ Lock(d) \/ AddSubscriber(d) \/ WriteEvent(d)
           \/ Disconnect(d) \/ Leave(d)
  <2>1. UNCHANGED <<seen, buffer>> /\ ~RemoveSubscriber(d)
    BY <1>3 DEF Connect, Lock, AddSubscriber, WriteEvent, Disconnect, Leave, RemoveSubscriber
  <2> QED BY <2>1 DEF Stream
<1> QED BY <1>1, <1>2, <1>3 DEF LockStep

\* The members of a stream are events.
LEMMA StreamEvents ==
    ASSUME NEW s \in Seq(Events), NEW i \in DOMAIN s
    PROVE  i \in 1 .. Len(s) /\ s[i] \in Events /\ s[i].by \in Publishers /\ s[i].no \in Nat
<1>1. i \in 1 .. Len(s) /\ s[i] \in Events
  OBVIOUS
<1> QED BY <1>1 DEF Events

\* The steps of a publisher but the send itself leave the streams alone.
LEMMA PublisherFrame ==
    ASSUME StreamInv, NEW p \in Publishers,
           Publish(p) \/ SkipSubscriber(p) \/ PickSubscriber(p) \/ EndPublish(p)
    PROVE  /\ UNCHANGED <<filter, seen, buffer, subscribers>>
           /\ \A c \in Clients : Stream(c)' = Stream(c)
           /\ \A c \in Clients : \A i \in DOMAIN Stream(c) : Stream(c)[i].no \in Nat
           /\ \A q \in Publishers : published[q] \in Nat
           /\ \A q \in Publishers : q # p => /\ published'[q] = published[q]
                                             /\ event'[q] = event[q]
                                             /\ visited'[q] = visited[q]
                                             /\ target'[q] = target[q]
                                             /\ q \in readers => q \in readers'
<1> USE DEF StreamInv, BrokerInv, BrokerTypeOK, clientVars, muVars
<1>1. UNCHANGED <<filter, seen, buffer, subscribers>>
  BY DEF Publish, SkipSubscriber, PickSubscriber, EndPublish
<1>2. \A c \in Clients : Stream(c)' = Stream(c)
  BY <1>1 DEF Stream
<1>3. ASSUME NEW c \in Clients
      PROVE  \A i \in DOMAIN Stream(c) : Stream(c)[i].no \in Nat
  BY StreamType, StreamEvents
<1>4. \A q \in Publishers : published[q] \in Nat
  OBVIOUS
<1>5. \A q \in Publishers : q # p => /\ published'[q] = published[q]
                                     /\ event'[q] = event[q]
                                     /\ visited'[q] = visited[q]
                                     /\ target'[q] = target[q]
                                     /\ q \in readers => q \in readers'
  BY DEF Publish, RLock, SkipSubscriber, PickSubscriber, EndPublish, RUnlock
<1> QED BY <1>1, <1>2, <1>3, <1>4, <1>5

LEMMA PublisherKeepsStreams ==
    ASSUME StreamInv, BrokerInv', NEW p \in Publishers,
           Publish(p) \/ SkipSubscriber(p) \/ PickSubscriber(p) \/ EndPublish(p)
    PROVE  StreamInv'
<1> USE DEF StreamInv
<1> DEFINE Frame ==
        /\ UNCHANGED <<filter, seen, buffer, subscribers>>
        /\ \A c \in Clients : Stream(c)' = Stream(c)
        /\ \A c \in Clients : \A i \in DOMAIN Stream(c) : Stream(c)[i].no \in Nat
        /\ \A q \in Publishers : published[q] \in Nat
        /\ \A q \in Publishers : q # p => /\ published'[q] = published[q]
                                          /\ event'[q] = event[q]
                                          /\ visited'[q] = visited[q]
                                          /\ target'[q] = target[q]
                                          /\ q \in readers => q \in readers'
<1>1. Frame
  BY PublisherFrame
<1>2. StreamIsFaithful' /\ NoStreamBefore'
  BY <1>1 DEF StreamIsFaithful, NoStreamBefore, Wants
\* What remains is about p alone.
<1>3. ASSUME \/ published'[p] = published[p] /\ event'[p] \in {event[p], NoEvent}
             \/ event'[p] = [by |-> p, no |-> published'[p]]
      PROVE  EventsNumbered'
  BY <1>1, <1>3 DEF EventsNumbered
<1>4. ASSUME visited'[p] # {} => p \in readers', visited'[p] \subseteq subscribers,
             target'[p] # NoClient => /\ target'[p] \in visited'[p]
                                      /\ Wants(target'[p], event'[p])
      PROVE  RangeIsLocked'
  BY <1>1, <1>4 DEF RangeIsLocked, Wants
<1>5. ASSUME \A c \in Clients : \A i \in DOMAIN Stream(c) :
                 Stream(c)[i].by = p =>
                     /\ Stream(c)[i].no <= published'[p]
                     /\ event'[p] # NoEvent /\ (c \notin visited'[p] \/ target'[p] = c)
                        => Stream(c)[i].no < published'[p]
      PROVE  OlderInStream'
  BY <1>1, <1>5 DEF OlderInStream
<1>6. ASSUME \A c \in visited'[p] :
                 target'[p] # c /\ Wants(c, event'[p]) /\ Len(Stream(c)) < BufferSize
                 => Has(c, event'[p])
      PROVE  VisitedHave'
  <2>1. \A q \in Publishers : visited'[q] \subseteq Clients
    BY DEF BrokerInv, BrokerTypeOK
  <2> QED BY <1>1, <1>6, <2>1 DEF VisitedHave, Has, Wants
<1>7. CASE Publish(p)
  <2>1. /\ event[p] = NoEvent /\ published'[p] = published[p] + 1
        /\ event'[p] = [by |-> p, no |-> published'[p]]
        /\ visited'[p] = visited[p] /\ target'[p] = target[p]
    BY <1>7 DEF Publish, BrokerInv, BrokerTypeOK
  <2>2. visited'[p] = {} /\ target'[p] = NoClient
    BY <2>1 DEF RangeIsLocked, LockersPublish, BrokerInv
  <2>3. OlderInStream'
    <3>1. ASSUME NEW c \in Clients, NEW i \in DOMAIN Stream(c), Stream(c)[i].by = p
          PROVE  Stream(c)[i].no < published'[p]
      <4>1. Stream(c)[i].no <= published[p]
        BY <3>1 DEF OlderInStream
      <4> QED BY <1>1, <2>1, <4>1
    <3>2. ASSUME NEW c \in Clients, NEW i \in DOMAIN Stream(c), Stream(c)[i].by = p
          PROVE  Stream(c)[i].no <= published'[p]
      BY <1>1, <2>1, <3>1, <3>2
    <3> QED BY <1>5, <3>1, <3>2
  <2> QED BY <1>2, <1>3, <1>4, <1>6, <2>1, <2>2, <2>3
<1>8. CASE SkipSubscriber(p)
  <2>1. PICK d \in Clients :
          /\ d \in subscribers /\ visited[p] \subseteq subscribers
          /\ ~Wants(d, event[p]) /\ visited'[p] = visited[p] \cup {d} /\ p \in readers'
          /\ target[p] = NoClient /\ target'[p] = NoClient
          /\ event'[p] = event[p] /\ published'[p] = published[p]
    BY <1>8 DEF SkipSubscriber, RangeIsLocked, BrokerInv, BrokerTypeOK, muVars
  <2>2. OlderInStream'
    BY <1>5, <2>1 DEF OlderInStream
  <2>3. VisitedHave'
    BY <1>6, <2>1 DEF VisitedHave
  <2> QED BY <1>2, <1>3, <1>4, <2>1, <2>2, <2>3
<1>9. CASE PickSubscriber(p)
  <2>1. PICK d \in Clients :
          /\ d \in subscribers /\ visited[p] \subseteq subscribers
          /\ d \notin visited[p] /\ visited'[p] = visited[p] \cup {d} /\ p \in readers'
          /\ Wants(d, event[p]) /\ target[p] = NoClient /\ target'[p] = d
          /\ event'[p] = event[p] /\ published'[p] = published[p]
    BY <1>9 DEF PickSubscriber, RangeIsLocked, BrokerInv, BrokerTypeOK, muVars
  <2>2. OlderInStream'
    BY <1>5, <2>1 DEF OlderInStream
  <2>3. VisitedHave'
    BY <1>6, <2>1, BrokerAssumption, SMTT(30) DEF VisitedHave, BrokerInv, BrokerTypeOK
  <2> QED BY <1>2, <1>3, <1>4, <2>1, <2>2, <2>3
<1>10. CASE EndPublish(p)
  <2>1. /\ event'[p] = NoEvent /\ visited'[p] = {} /\ target'[p] = NoClient
        /\ published'[p] = published[p]
    BY <1>10 DEF EndPublish, BrokerInv, BrokerTypeOK
  <2>2. OlderInStream'
    BY <1>5, <2>1 DEF OlderInStream
  <2> QED BY <1>2, <1>3, <1>4, <1>6, <2>1, <2>2
<1> QED BY <1>7, <1>8, <1>9, <1>10

\* The send: what p adds is later than all it added before.
LEMMA SendKeepsStreams ==
    ASSUME StreamInv, BrokerInv', NEW p \in Publishers, SendEvent(p),
           NEW d, d = target[p], NEW e, e = event[p]
    PROVE  StreamInv'
<1> USE DEF StreamInv
<1>1. /\ d \in Clients /\ d \in visited[p] /\ d \in subscribers /\ p \in readers
      /\ e = [by |-> p, no |-> published[p]] /\ e \in Events /\ e # NoEvent /\ Wants(d, e)
  BY DEF SendEvent, BrokerInv, BrokerTypeOK, SendersRead, LockersPublish, EventsNumbered,
     RangeIsLocked
<1>2. /\ target' = [target EXCEPT ![p] = NoClient]
      /\ UNCHANGED <<subscribers, filter, seen, event, visited, published, readers>>
      /\ \A c \in Clients : c # d => buffer'[c] = buffer[c]
  BY DEF SendEvent, clientVars, muVars, BrokerInv, BrokerTypeOK
<1>3. /\ target'[p] = NoClient /\ NoClient \notin Clients
      /\ \A q \in Publishers : q # p => target'[q] = target[q]
  BY <1>2, BrokerAssumption DEF BrokerInv, BrokerTypeOK
<1>4. /\ \A c \in Clients : Stream(c) \in Seq(Events)
      /\ \A c \in Clients : c # d => Stream(c)' = Stream(c)
      /\ \/ Stream(d)' = Stream(d) /\ Len(Stream(d)) >= BufferSize
         \/ Stream(d)' = Append(Stream(d), e)
  <2>1. ~(Len(buffer[d]) < BufferSize) => Len(Stream(d)) >= BufferSize
    <3>1. /\ Len(Stream(d)) >= Len(buffer[d]) /\ Len(Stream(d)) \in Nat
          /\ Len(buffer[d]) \in Nat
      BY <1>1, StreamType DEF BrokerInv
    <3> QED BY <3>1, BrokerAssumption
  <2> QED BY <1>1, <2>1, StreamSend, StreamType DEF BrokerInv
<1>5. EventsNumbered' /\ NoStreamBefore' /\ RangeIsLocked'
  BY <1>1, <1>2, <1>3 DEF EventsNumbered, NoStreamBefore, RangeIsLocked, Wants
<1>6. CASE Stream(d)' = Stream(d) /\ Len(Stream(d)) >= BufferSize
  <2>1. \A c \in Clients : Stream(c)' = Stream(c)
    BY <1>4, <1>6
  <2>2. StreamIsFaithful'
    BY <1>2, <2>1 DEF StreamIsFaithful, Wants
  <2>3. OlderInStream'
    BY <1>1, <1>2, <1>3, <2>1 DEF OlderInStream
  <2>4. VisitedHave'
    <3>1. \A q \in Publishers : visited'[q] \subseteq Clients
      BY DEF BrokerInv, BrokerTypeOK
    <3>2. ~(Len(Stream(d)) < BufferSize)
      BY <1>1, <1>4, <1>6, BrokerAssumption
    <3> QED BY <1>2, <1>3, <1>6, <2>1, <3>1, <3>2 DEF VisitedHave, Has, Wants
  <2> QED BY <1>5, <2>2, <2>3, <2>4
<1>7. CASE Stream(d)' = Append(Stream(d), e)
  <2>0. PICK n : n = Len(Stream(d))
    OBVIOUS
  <2>1. /\ Len(Stream(d)') = n + 1 /\ n \in Nat /\ DOMAIN (Stream(d)') = 1 .. n + 1
        /\ \A i \in 1 .. n : Stream(d)'[i] = Stream(d)[i] /\ i \in DOMAIN Stream(d)
        /\ \A i \in 1 .. n + 1 : i \in 1 .. n \/ i = n + 1
        /\ Stream(d)'[n + 1] = e
    BY <1>1, <1>4, <1>7, <2>0
  <2>2. \A c \in Clients : \A i \in DOMAIN Stream(c) :
            Stream(c)[i].no \in Nat /\ Stream(c)[i].by \in Publishers
    BY <1>4, StreamEvents
  <2>3. \A i \in DOMAIN Stream(d) : Stream(d)[i].by = p => Stream(d)[i].no < published[p]
    BY <1>1 DEF OlderInStream
  <2>4. StreamIsFaithful'
    <3>1. ASSUME NEW i \in 1 .. n + 1
          PROVE  filter[d] = NoFilter \/ filter[d] = DeviceOf[Stream(d)'[i].by]
      <4>1. CASE i \in 1 .. n
        BY <1>1, <2>1, <4>1 DEF StreamIsFaithful, Wants
      <4>2. CASE i = n + 1
        BY <1>1, <2>1, <4>2 DEF Wants
      <4> QED BY <2>1, <4>1, <4>2
    <3>2. ASSUME NEW i \in 1 .. n + 1, NEW j \in 1 .. n + 1, i < j,
                 Stream(d)'[i].by = Stream(d)'[j].by
          PROVE  Stream(d)'[i].no < Stream(d)'[j].no
      <4>1. i \in 1 .. n
        BY <2>1, <3>2
      <4>2. CASE j \in 1 .. n
        BY <1>1, <2>1, <3>2, <4>1, <4>2 DEF StreamIsFaithful
      <4>3. CASE j = n + 1
        BY <1>1, <2>1, <2>3, <3>2, <4>1, <4>3
      <4> QED BY <2>1, <4>2, <4>3
    <3>3. ASSUME NEW c \in Clients
          PROVE  /\ \A i \in DOMAIN (Stream(c)') :
                       filter[c] = NoFilter \/ filter[c] = DeviceOf[Stream(c)'[i].by]
                 /\ \A i, j \in DOMAIN (Stream(c)') :
                       i < j /\ Stream(c)'[i].by = Stream(c)'[j].by
                       => Stream(c)'[i].no < Stream(c)'[j].no
      <4>1. CASE c = d
        BY <2>1, <3>1, <3>2, <4>1
      <4>2. CASE c # d
        BY <1>4, <4>2 DEF StreamIsFaithful, Wants
      <4> QED BY <4>1, <4>2
    <3> QED BY <1>2, <3>3 DEF StreamIsFaithful, Wants
  <2>5. OlderInStream'
    <3> SUFFICES ASSUME NEW q \in Publishers, NEW c \in Clients, NEW i \in DOMAIN (Stream(c)'),
                        Stream(c)'[i].by = q
                 PROVE  /\ Stream(c)'[i].no <= published[q]
                        /\ event[q] # NoEvent /\ (c \notin visited[q] \/ target'[q] = c)
                           => Stream(c)'[i].no < published[q]
      BY <1>2 DEF OlderInStream
    <3>1. CASE c # d
      BY <1>1, <1>3, <1>4, <3>1 DEF OlderInStream
    <3>2. CASE c = d /\ i \in 1 .. n
      BY <1>1, <1>3, <2>1, <3>2 DEF OlderInStream
    <3>3. CASE c = d /\ i = n + 1
      BY <1>1, <1>3, <2>1, <3>3, SMTT(30) DEF BrokerInv, BrokerTypeOK
    <3> QED BY <2>1, <3>1, <3>2, <3>3
  <2>6. VisitedHave'
    <3> SUFFICES ASSUME NEW q \in Publishers, NEW c \in visited[q], target'[q] # c,
                        Wants(c, event[q]), Len(Stream(c)') < BufferSize
                 PROVE  \E i \in DOMAIN (Stream(c)') : Stream(c)'[i] = event[q]
      BY <1>2 DEF VisitedHave, Has, Wants
    <3>1. c \in Clients
      BY DEF BrokerInv, BrokerTypeOK
    <3>2. CASE c # d
      BY <1>1, <1>3, <1>4, <3>1, <3>2 DEF VisitedHave, Has
    <3>3. CASE c = d /\ q = p
      BY <2>1, <3>3
    <3>4. CASE c = d /\ q # p
      <4>1. Has(d, event[q])
        <5>1. n < BufferSize
          BY <2>1, <3>4, BrokerAssumption
        <5> QED BY <1>3, <2>0, <3>4, <5>1 DEF VisitedHave
      <4> QED BY <1>4, <2>1, <3>4, <4>1 DEF Has
    <3> QED BY <3>2, <3>3, <3>4
  <2> QED BY <1>5, <2>4, <2>5, <2>6
<1> QED BY <1>4, <1>6, <1>7

\* The handlers that serve clients: one that comes or goes has no stream, and no
\* publisher is in its range loop when one is added or removed.
LEMMA ClientKeepsStreams ==
    ASSUME StreamInv, BrokerInv', NEW d \in Clients,
           \/ Connect(d) \/ Lock(d) \/ LockStep(d) \/ TakeEvent(d) \/ WriteEvent(d)
           \/ Disconnect(d) \/ Leave(d)
    PROVE  StreamInv'
<1> USE DEF StreamInv
<1>1. /\ UNCHANGED <<event, visited, target, published>>
      /\ readers' = readers \/ readers = {}
  BY DEF Connect, Lock, LockStep, AddSubscriber, RemoveSubscriber, HoldsLock, TakeEvent,
     WriteEvent, Disconnect, Leave, publisherVars, muVars
<1>2. \A c \in Clients : IF RemoveSubscriber(d) /\ d = c THEN Stream(c)' = <<>>
                                                        ELSE Stream(c)' = Stream(c)
  BY StreamOfClient
<1>3. /\ \A p \in Publishers : visited[p] \subseteq Clients
      /\ \A p \in Publishers : readers = {} => visited[p] = {} /\ target[p] = NoClient
  BY DEF RangeIsLocked, BrokerInv, BrokerTypeOK
<1>4. EventsNumbered'
  BY <1>1 DEF EventsNumbered
<1>5. CASE Connect(d)
  <2>1. /\ d \notin subscribers /\ UNCHANGED <<subscribers, readers, seen, buffer>>
        /\ \A c \in Clients : c # d => filter'[c] = filter[c]
    BY <1>5 DEF Connect, BrokerInv, BrokerTypeOK, SubscribersAreServed, muVars
  <2>2. /\ \A c \in Clients : Stream(c)' = Stream(c)
        /\ Stream(d) = <<>>
    BY <2>1 DEF Stream, NoStreamBefore
  <2>3. \A p \in Publishers : d \notin visited[p] /\ target[p] # d
    BY <2>1, BrokerAssumption DEF RangeIsLocked
  <2>4. NoStreamBefore'
    BY <2>1 DEF NoStreamBefore
  <2>5. RangeIsLocked'
    BY <1>1, <1>3, <2>1, <2>3 DEF RangeIsLocked, Wants
  <2>6. OlderInStream'
    BY <1>1, <2>2 DEF OlderInStream
  <2>7. StreamIsFaithful'
    BY <2>1, <2>2 DEF StreamIsFaithful, Wants
  <2>8. VisitedHave'
    BY <1>1, <1>3, <2>1, <2>2, <2>3 DEF VisitedHave, Has, Wants
  <2> QED BY <1>4, <2>4, <2>5, <2>6, <2>7, <2>8
<1>6. CASE RemoveSubscriber(d)
  <2>1. /\ readers = {} /\ subscribers' = subscribers \ {d}
        /\ \A c \in Clients : c # d => /\ filter'[c] = filter[c] /\ buffer'[c] = buffer[c]
                                       /\ seen'[c] = seen[c]
        /\ buffer'[d] = <<>> /\ seen'[d] = <<>>
    BY <1>6 DEF RemoveSubscriber, HoldsLock, BrokerInv, BrokerTypeOK
  <2>2. \A p \in Publishers : visited[p] = {} /\ target[p] = NoClient
    BY <1>3, <2>1
  <2>3. NoStreamBefore' /\ RangeIsLocked' /\ VisitedHave'
    BY <1>1, <2>1, <2>2 DEF NoStreamBefore, RangeIsLocked, VisitedHave
  <2>4. \A c \in Clients : IF c = d THEN Stream(c)' = <<>> ELSE Stream(c)' = Stream(c)
    BY <1>2, <1>6
  <2>5. OlderInStream'
    BY <1>1, <2>4 DEF OlderInStream
  <2>6. StreamIsFaithful'
    BY <2>1, <2>4 DEF StreamIsFaithful, Wants
  <2> QED BY <1>4, <2>3, <2>5, <2>6
<1>7. CASE \/ Lock(d) \/ AddSubscriber(d) \/ TakeEvent(d) \/ WriteEvent(d)
           \/ Disconnect(d) \/ Leave(d)
  <2>1. /\ filter' = filter /\ subscribers \subseteq subscribers' /\ ~RemoveSubscriber(d)
        /\ \A c \in Clients \ subscribers : buffer'[c] = buffer[c] /\ seen'[c] = seen[c]
    BY <1>7 DEF Lock, AddSubscriber, TakeEvent, WriteEvent, Disconnect, Leave, clientVars,
       RemoveSubscriber, BrokerInv, BrokerTypeOK, SubscribersAreServed
  <2>2. \A c \in Clients : Stream(c)' = Stream(c)
    BY <1>2, <2>1
  <2>3. NoStreamBefore'
    BY <2>1 DEF NoStreamBefore
  <2>4. RangeIsLocked'
    BY <1>1, <1>3, <2>1 DEF RangeIsLocked, Wants
  <2>5. OlderInStream'
    BY <1>1, <2>2 DEF OlderInStream
  <2>6. StreamIsFaithful'
    BY <2>1, <2>2 DEF StreamIsFaithful, Wants
  <2>7. VisitedHave'
    BY <1>1, <1>3, <2>1, <2>2 DEF VisitedHave, Has, Wants
  <2> QED BY <1>4, <2>3, <2>4, <2>5, <2>6, <2>7
<1> QED BY <1>5, <1>6, <1>7 DEF LockStep

LEMMA StreamInvInit == BrokerInit => StreamInv
<1> SUFFICES ASSUME BrokerInit PROVE StreamInv
  OBVIOUS
<1>1. ASSUME NEW c \in Clients
      PROVE  Stream(c) = <<>>
  <2>1. buffer[c] = <<>> /\ seen[c] = <<>>
    BY DEF BrokerInit
  <2> QED BY <2>1 DEF Stream
<1> QED BY <1>1, BrokerInvInit DEF StreamInv, BrokerInit, EventsNumbered, NoStreamBefore,
     RangeIsLocked, OlderInStream, StreamIsFaithful, VisitedHave

LEMMA StreamInvStep == StreamInv /\ [BrokerNext]_brokerVars => StreamInv'
<1> SUFFICES ASSUME StreamInv, [BrokerNext]_brokerVars PROVE StreamInv'
  OBVIOUS
<1>1. BrokerInv'
  BY BrokerInvStep DEF StreamInv
<1>2. CASE UNCHANGED brokerVars
  <2>1. /\ UNCHANGED <<subscribers, buffer, filter, seen, readers, published>>
        /\ UNCHANGED <<event, visited, target>>
    BY <1>2 DEF brokerVars, clientVars, publisherVars, muVars
  <2>2. \A c \in Clients : Stream(c)' = Stream(c)
    BY <2>1 DEF Stream
  <2>3. \A p \in Publishers : visited[p] \subseteq Clients
    BY DEF StreamInv, BrokerInv, BrokerTypeOK
  <2>4. EventsNumbered' /\ NoStreamBefore' /\ RangeIsLocked'
    BY <2>1 DEF StreamInv, EventsNumbered, NoStreamBefore, RangeIsLocked, Wants
  <2>5. OlderInStream' /\ StreamIsFaithful'
    BY <2>1, <2>2 DEF StreamInv, OlderInStream, StreamIsFaithful, Wants
  <2>6. VisitedHave'
    BY <2>1, <2>2, <2>3 DEF StreamInv, VisitedHave, Has, Wants
  <2> QED BY <1>1, <2>4, <2>5, <2>6 DEF StreamInv
<1>3. CASE BrokerNext
  BY <1>1, <1>3, PublisherKeepsStreams, SendKeepsStreams, ClientKeepsStreams
     DEF BrokerNext, PublisherStep
<1> QED BY <1>2, <1>3

\* A client gets only events its filter admits, none twice and those of one
\* publisher in order, however publishers, clients and the lock interleave:
\* all that a publisher puts into a stream is later than what it put there.
THEOREM StreamsFaithful == BrokerSpec => []StreamIsFaithful
<1>1. StreamInv => StreamIsFaithful
  BY DEF StreamInv
<1> QED BY <1>1, StreamInvInit, StreamInvStep, PTL DEF BrokerSpec

\* When Publish returns, every subscriber that wants the event has it, or has
\* had a bufferful: the map cannot change during the range loop, and an event
\* is dropped only where the channel is full.
THEOREM DroppedOnlyWhenFull == BrokerSpec => NothingDroppedEarly
<1>1. StreamInv /\ [BrokerNext]_brokerVars
      => [\A p \in Publishers, c \in subscribers :
            /\ event[p] # NoEvent /\ event'[p] = NoEvent
            /\ Wants(c, event[p]) /\ Len(Stream(c)) < BufferSize
            => \E i \in DOMAIN Stream(c) : Stream(c)[i] = event[p]]_brokerVars
  <2> SUFFICES ASSUME StreamInv, BrokerNext, NEW p \in Publishers, NEW c \in subscribers,
                      event[p] # NoEvent, event'[p] = NoEvent, Wants(c, event[p]),
                      Len(Stream(c)) < BufferSize
               PROVE  \E i \in DOMAIN Stream(c) : Stream(c)[i] = event[p]
    OBVIOUS
  <2>1. EndPublish(p)
    <3>1. PICK q \in Publishers : Publish(q) \/ EndPublish(q)
      BY DEF BrokerNext, PublisherStep, SkipSubscriber, PickSubscriber, SendEvent, Connect, Lock,
         LockStep, AddSubscriber, RemoveSubscriber, TakeEvent, WriteEvent, Disconnect, Leave,
         publisherVars
    <3>2. CASE Publish(q)
      <4>1. [by |-> q, no |-> published[q] + 1] # NoEvent
        BY <3>2, BrokerAssumption DEF Publish, StreamInv, BrokerInv, BrokerTypeOK
      <4> QED BY <3>2, <4>1 DEF Publish, StreamInv, BrokerInv, BrokerTypeOK
    <3>3. CASE EndPublish(q)
      BY <3>3 DEF EndPublish, StreamInv, BrokerInv, BrokerTypeOK
    <3> QED BY <3>1, <3>2, <3>3
  <2>2. c \in visited[p] /\ target[p] = NoClient /\ c \in Clients
    BY <2>1 DEF EndPublish, StreamInv, BrokerInv, BrokerTypeOK
  <2> QED BY <2>2, BrokerAssumption DEF StreamInv, VisitedHave, Has
<1> QED BY <1>1, StreamInvInit, StreamInvStep, PTL DEF BrokerSpec, NothingDroppedEarly

-----------------------------------------------------------------------------
(* The lock.  Nobody waits for it in vain: whoever waits, waits for readers  *)
(* in their range loop, which wait for no one, or for a writer that has it.  *)

\* A publisher with an event holds or awaits the read lock; it awaits only a
\* writer, and a writer is about to change the map.
LockInv ==
    /\ \A p \in Publishers : event[p] # NoEvent => p \in readers \cup blocked
    /\ blocked # {} => writer # NoClient
    /\ writer # NoClient => client[writer] \in {"subscribe", "unsubscribe"}

LEMMA LockInvInit == BrokerInit => LockInv
BY DEF BrokerInit, LockInv

LEMMA LockInvStep == BrokerInv /\ LockInv /\ [BrokerNext]_brokerVars => LockInv'
<1> SUFFICES ASSUME BrokerInv, LockInv, [BrokerNext]_brokerVars PROVE LockInv'
  OBVIOUS
<1> USE BrokerAssumption DEF LockInv, BrokerInv, BrokerTypeOK, clientVars, publisherVars, muVars
<1>1. CASE UNCHANGED brokerVars
  BY <1>1 DEF brokerVars
<1>2. ASSUME NEW p \in Publishers, Publish(p)
      PROVE  LockInv'
  <2>1. /\ \A q \in Publishers : q # p => event'[q] = event[q]
        /\ UNCHANGED <<client, writer>>
    BY <1>2 DEF Publish, RLock
  <2> QED BY <1>2, <2>1 DEF Publish, RLock
<1>3. ASSUME NEW p \in Publishers, SkipSubscriber(p) \/ PickSubscriber(p) \/ SendEvent(p)
      PROVE  LockInv'
  BY <1>3 DEF SkipSubscriber, PickSubscriber, SendEvent
<1>4. ASSUME NEW p \in Publishers, EndPublish(p)
      PROVE  LockInv'
  <2>1. /\ event'[p] = NoEvent /\ readers' = readers \ {p}
        /\ \A q \in Publishers : q # p => event'[q] = event[q]
        /\ UNCHANGED <<client, blocked, writer>>
    BY <1>4 DEF EndPublish, RUnlock
  <2> QED BY <2>1
<1>5. ASSUME NEW c \in Clients, Connect(c) \/ Leave(c)
      PROVE  LockInv'
  <2>1. /\ \A d \in Clients : d # c => client'[d] = client[d]
        /\ client[c] \notin {"subscribe", "unsubscribe"}
        /\ UNCHANGED <<event, readers, blocked, writer>>
    BY <1>5 DEF Connect, Leave
  <2> QED BY <2>1
<1>6. ASSUME NEW c \in Clients, Lock(c)
      PROVE  LockInv'
  BY <1>6 DEF Lock
<1>7. ASSUME NEW c \in Clients, LockStep(c)
      PROVE  LockInv'
  <2>1. /\ readers = {} /\ readers' = blocked /\ blocked' = {} /\ writer' = NoClient
        /\ event' = event
    BY <1>7 DEF LockStep, AddSubscriber, RemoveSubscriber, HoldsLock, Unlock
  <2> QED BY <2>1
<1>8. ASSUME NEW c \in Clients, TakeEvent(c) \/ WriteEvent(c) \/ Disconnect(c)
      PROVE  LockInv'
  <2>1. /\ \A d \in Clients : client[d] \in {"subscribe", "unsubscribe"}
                              => client'[d] = client[d]
        /\ UNCHANGED <<event, readers, blocked, writer>>
    BY <1>8 DEF TakeEvent, WriteEvent, Disconnect
  <2> QED BY <2>1
<1> QED BY <1>1, <1>2, <1>3, <1>4, <1>5, <1>6, <1>7, <1>8 DEF BrokerNext, PublisherStep

\* While a publisher has an event, one is in its range loop, where it always has
\* a step, or a handler that is to change the map has the lock to itself.
PublishersNotStuck ==
    (\E p \in Publishers : event[p] # NoEvent)
    => \/ \E p \in readers : event[p] # NoEvent
       \/ \E c \in Clients : HoldsLock(c) /\ client[c] \in {"subscribe", "unsubscribe"}

LEMMA LockNotStuck == BrokerInv /\ LockInv => PublishersNotStuck
<1> SUFFICES ASSUME BrokerInv, LockInv, NEW p \in Publishers, event[p] # NoEvent
             PROVE  \/ \E q \in readers : event[q] # NoEvent
                    \/ \E c \in Clients : /\ HoldsLock(c)
                                          /\ client[c] \in {"subscribe", "unsubscribe"}
  BY DEF PublishersNotStuck
<1>1. CASE readers = {}
  <2>1. writer # NoClient /\ writer \in Clients
    BY <1>1 DEF BrokerInv, BrokerTypeOK, LockInv
  <2> QED BY <1>1, <2>1 DEF HoldsLock, LockInv
<1>2. ASSUME NEW q \in readers
      PROVE  event[q] # NoEvent
  BY <1>2 DEF BrokerInv, LockersPublish
<1> QED BY <1>1, <1>2

\* Handlers of CPEs and of streams never deadlock over the lock, for any number
\* of both: the part of PublishReturns that no fairness can give.
THEOREM LockProgress == BrokerSpec => []PublishersNotStuck
<1>1. BrokerInv /\ LockInv => PublishersNotStuck
  BY LockNotStuck
<1> QED BY <1>1, BrokerInvInit, BrokerInvStep, LockInvInit, LockInvStep, PTL DEF BrokerSpec

-----------------------------------------------------------------------------
(* The process. *)

\* Handlers begin only while the process listens and are over before it closes
\* the database, which is open from InitDB to CloseDB.
PhaseInv ==
    /\ HandlersInProgress => phase \in {"listening", "draining"}
    /\ dbOpen <=> phase \notin {"off", "closed"}

LifecycleInv == LifecycleTypeOK /\ PhaseInv

\* A step that leaves the clients and the POSTs alone starts no handler.
LEMMA SameHandlers ==
    ASSUME UNCHANGED <<client, handler>>
    PROVE  HandlersInProgress' <=> HandlersInProgress
BY DEF HandlersInProgress

\* The end of the process, however it comes, leaves no handler.
LEMMA ForgetKeepsInv ==
    ASSUME ForgetProcess
    PROVE  LifecycleInv'
<1>1. /\ \A p \in Publishers : handler'[p] = "none"
      /\ \A c \in Clients : client'[c] = "away"
  BY DEF ForgetProcess, NoHandlers
<1>2. ~HandlersInProgress'
  BY <1>1 DEF HandlersInProgress
<1>3. LifecycleTypeOK'
  BY DEF LifecycleTypeOK, ForgetProcess, NoHandlers, Phases
<1>4. phase' = "off" /\ dbOpen' = FALSE
  BY DEF ForgetProcess
<1> QED
  BY <1>2, <1>3, <1>4 DEF LifecycleInv, PhaseInv

\* What handlers do is done by handlers: a client or publisher that takes a
\* step has one in progress, or leaves them all as they are.
LEMMA StepsOfHandlers ==
    ASSUME HandlerStep, HandlersInProgress'
    PROVE  HandlersInProgress
<1>1. handler' = handler
  BY DEF HandlerStep, processVars
<1>2. ASSUME NEW p \in Publishers, Publish(p) \/ PublisherStep(p)
      PROVE  client' = client
  BY <1>2 DEF Publish, PublisherStep, SkipSubscriber, PickSubscriber, SendEvent, EndPublish,
              clientVars
<1>3. ASSUME NEW c \in Clients, LockStep(c) \/ TakeEvent(c) \/ WriteEvent(c) \/ Leave(c)
      PROVE  client[c] # "away"
  BY <1>3 DEF LockStep, AddSubscriber, RemoveSubscriber, TakeEvent, WriteEvent, Leave
<1>4. ASSUME NEW c \in Clients, Lock(c) \/ Disconnect(c)
      PROVE  client' = client
  BY <1>4 DEF Lock, Disconnect, clientVars
<1>5. CASE client' = client
  BY <1>1, <1>5, SameHandlers
<1>6. CASE \E c \in Clients : client[c] # "away"
  BY <1>6 DEF HandlersInProgress
<1> QED
  BY <1>2, <1>3, <1>4, <1>5, <1>6 DEF HandlerStep

LEMMA LifecycleInitially == LifecycleInit => LifecycleInv
<1> SUFFICES ASSUME LifecycleInit PROVE LifecycleInv
  OBVIOUS
<1>1. ~HandlersInProgress
  BY DEF LifecycleInit, BrokerInit, HandlersInProgress, NoHandlers
<1>2. LifecycleTypeOK
  BY DEF LifecycleInit, LifecycleTypeOK, NoHandlers, Phases
<1> QED
  BY <1>1, <1>2 DEF LifecycleInit, LifecycleInv, PhaseInv

LEMMA LifecycleStep == LifecycleInv /\ [LifecycleNext]_lifecycleVars => LifecycleInv'
<1> SUFFICES ASSUME LifecycleInv, [LifecycleNext]_lifecycleVars PROVE LifecycleInv'
  OBVIOUS
<1> USE DEF LifecycleInv, PhaseInv
<1>1. CASE InitDB
  <2>1. HandlersInProgress' <=> HandlersInProgress
    BY <1>1, SameHandlers DEF InitDB, brokerVars, clientVars
  <2> QED
    BY <1>1, <2>1 DEF InitDB, Phase, LifecycleTypeOK, Phases
<1>2. CASE ListenAndServe
  <2>1. HandlersInProgress' <=> HandlersInProgress
    BY <1>2, SameHandlers DEF ListenAndServe, brokerVars, clientVars
  <2> QED
    BY <1>2, <2>1 DEF ListenAndServe, Phase, LifecycleTypeOK, Phases
<1>3. CASE Signal
  <2>1. HandlersInProgress' <=> HandlersInProgress
    BY <1>3, SameHandlers DEF Signal, brokerVars, clientVars
  <2> QED
    BY <1>3, <2>1 DEF Signal, Phase, LifecycleTypeOK, Phases
<1>4. CASE ShutdownDone
  <2>1. HandlersInProgress' <=> HandlersInProgress
    BY <1>4, SameHandlers DEF ShutdownDone, brokerVars, clientVars
  <2> QED
    BY <1>4, <2>1 DEF ShutdownDone, Phase, LifecycleTypeOK, Phases
<1>5. CASE CloseDB
  <2>1. HandlersInProgress' <=> HandlersInProgress
    BY <1>5, SameHandlers DEF CloseDB, brokerVars, clientVars
  <2> QED
    BY <1>5, <2>1 DEF CloseDB, Phase, LifecycleTypeOK, Phases
<1>6. CASE ShutdownTimeout \/ Exit \/ Kill
  BY <1>6, ForgetKeepsInv DEF ShutdownTimeout, Exit, Kill
<1>7. CASE Serve
  <2>1. phase = "listening" /\ UNCHANGED <<phase, dbOpen>>
    BY <1>7 DEF Serve, BeginPost, processVars
  <2>2. handler' \in [Publishers -> {"none", "CwmpHandler", "ApiHandler"}]
    BY <1>7 DEF Serve, BeginPost, processVars, LifecycleTypeOK
  <2> QED
    BY <2>1, <2>2 DEF LifecycleTypeOK
<1>8. ASSUME NEW p \in Publishers, EndPost(p)
      PROVE  LifecycleInv'
  <2>1. HandlersInProgress
    BY <1>8 DEF EndPost, HandlersInProgress
  <2>2. UNCHANGED <<phase, dbOpen>>
    BY <1>8 DEF EndPost
  <2>3. handler' \in [Publishers -> {"none", "CwmpHandler", "ApiHandler"}]
    BY <1>8 DEF EndPost, LifecycleTypeOK
  <2> QED
    BY <2>1, <2>2, <2>3 DEF LifecycleTypeOK
<1>9. CASE HandlerStep
  <2>1. UNCHANGED processVars
    BY <1>9 DEF HandlerStep
  <2>2. HandlersInProgress' => HandlersInProgress
    BY <1>9, StepsOfHandlers
  <2> QED
    BY <2>1, <2>2 DEF processVars, LifecycleTypeOK
<1>10. CASE UNCHANGED lifecycleVars
  <2>1. HandlersInProgress' <=> HandlersInProgress
    BY <1>10, SameHandlers DEF lifecycleVars, processVars, brokerVars, clientVars
  <2> QED
    BY <1>10, <2>1 DEF lifecycleVars, processVars, LifecycleTypeOK
<1> QED
  BY <1>1, <1>2, <1>3, <1>4, <1>5, <1>6, <1>7, <1>8, <1>9, <1>10 DEF LifecycleNext

LEMMA LifecycleInvariant == LifecycleSpec => []LifecycleInv
BY LifecycleInitially, LifecycleStep, PTL DEF LifecycleSpec

\* main and the POSTs it serves keep to their phases and handlers.
THEOREM LifecycleTypeCorrect == LifecycleSpec => []LifecycleTypeOK
<1>1. LifecycleInv => LifecycleTypeOK
  BY DEF LifecycleInv
<1> QED
  BY <1>1, LifecycleInvariant, PTL

\* However the process comes to its end - a clean Shutdown, one that gave up on
\* open streams, a crash - no handler is in progress once CloseDB was called.
THEOREM DatabaseOutlivesHandlers == LifecycleSpec => []HandlersHaveDatabase
<1>1. LifecycleInv => HandlersHaveDatabase
  BY DEF LifecycleInv, PhaseInv, HandlersHaveDatabase
<1> QED
  BY <1>1, LifecycleInvariant, PTL

-----------------------------------------------------------------------------
(* The broker inside the process: main and the routing of requests do        *)
(* nothing to it but start it anew.                                          *)

LEMMA BrokerInLifecycle ==
    ASSUME [LifecycleNext]_lifecycleVars
    PROVE  [BrokerNext]_brokerVars \/ BrokerInit'
<1>1. CASE ShutdownTimeout \/ Exit \/ Kill
  BY <1>1 DEF ShutdownTimeout, Exit, Kill, ForgetProcess, BrokerInit
<1>2. CASE InitDB \/ ListenAndServe \/ Signal \/ ShutdownDone \/ CloseDB
  BY <1>2 DEF InitDB, ListenAndServe, Signal, ShutdownDone, CloseDB
<1>3. CASE Serve
  BY <1>3 DEF Serve, BeginPost, BrokerNext
<1>4. CASE \E p \in Publishers : EndPost(p)
  BY <1>4 DEF EndPost
<1>5. CASE HandlerStep
  BY <1>5 DEF HandlerStep, BrokerNext
<1>6. CASE UNCHANGED lifecycleVars
  BY <1>6 DEF lifecycleVars
<1> QED BY <1>1, <1>2, <1>3, <1>4, <1>5, <1>6 DEF LifecycleNext

ServiceInv == StreamInv /\ LockInv

LEMMA ServiceStep ==
    ServiceInv /\ [BrokerNext]_brokerVars => ServiceInv'
BY StreamInvStep, LockInvStep DEF ServiceInv, StreamInv

LEMMA ServiceInvariant == LifecycleSpec => []ServiceInv
<1>1. BrokerInit => ServiceInv
  BY StreamInvInit, LockInvInit DEF ServiceInv
<1>2. LifecycleInit => BrokerInit
  BY DEF LifecycleInit
<1>3. [LifecycleNext]_lifecycleVars => [BrokerNext]_brokerVars \/ BrokerInit'
  BY BrokerInLifecycle
<1> QED BY <1>1, <1>2, <1>3, ServiceStep, PTL DEF LifecycleSpec

\* In every life of the process, until its last step, channels are open, the map
\* is served, streams are faithful and the lock is free or held by one who goes
\* on: also while main drains its handlers and after its listener has failed.
THEOREM BrokerServesEveryLife ==
    LifecycleSpec => [](/\ BrokerTypeOK /\ SendsOnOpenChannel /\ SubscribersAreServed
                        /\ StreamIsFaithful /\ PublishersNotStuck)
<1>1. ServiceInv => /\ BrokerTypeOK /\ SendsOnOpenChannel /\ SubscribersAreServed
                    /\ StreamIsFaithful /\ PublishersNotStuck
  BY LockNotStuck, BrokerInvSends DEF ServiceInv, StreamInv, BrokerInv
<1> QED BY <1>1, ServiceInvariant, PTL

\* Events are published by handlers of CPEs, which are not over before.
PublishersAreHandlers ==
    \A p \in Publishers : event[p] # NoEvent => handler[p] = "CwmpHandler"

LEMMA PublishersStep ==
    ASSUME LifecycleInv, ServiceInv, PublishersAreHandlers, [LifecycleNext]_lifecycleVars
    PROVE  PublishersAreHandlers'
<1> USE DEF LifecycleInv, LifecycleTypeOK, PublishersAreHandlers
<1>0. event \in [Publishers -> Events \cup {NoEvent}]
  BY DEF ServiceInv, StreamInv, BrokerInv, BrokerTypeOK
<1>1. CASE ShutdownTimeout \/ Exit \/ Kill
  BY <1>1 DEF ShutdownTimeout, Exit, Kill, ForgetProcess
<1>2. CASE UNCHANGED <<event, handler>>
  BY <1>2
<1>3. CASE Serve
  <2>1. event' = event /\ \A p \in Publishers : event[p] # NoEvent => handler'[p] = handler[p]
    <3>1. ASSUME NEW p \in Publishers, NEW name, BeginPost(p, name)
          PROVE  event' = event
                 /\ \A q \in Publishers : event[q] # NoEvent => handler'[q] = handler[q]
      <4>1. event[p] = NoEvent
        BY <3>1 DEF BeginPost
      <4> QED BY <3>1, <4>1 DEF BeginPost, brokerVars, publisherVars
    <3>2. ASSUME NEW c \in Clients, Connect(c), UNCHANGED processVars
          PROVE  UNCHANGED <<event, handler>>
      BY <3>2 DEF Connect, publisherVars, processVars
    <3> QED BY <1>3, <3>1, <3>2 DEF Serve
  <2> QED BY <2>1
<1>4. ASSUME NEW p \in Publishers, EndPost(p)
      PROVE  PublishersAreHandlers'
  <2>1. /\ event' = event /\ event[p] = NoEvent
        /\ \A q \in Publishers : q # p => handler'[q] = handler[q]
    BY <1>4 DEF EndPost, brokerVars, publisherVars
  <2> QED BY <2>1
<1>5. CASE HandlerStep
  <2>1. handler' = handler
    BY <1>5 DEF HandlerStep, processVars
  <2>2. ASSUME NEW p \in Publishers, handler[p] = "CwmpHandler", Publish(p)
        PROVE  PublishersAreHandlers'
    <3>1. \A q \in Publishers : q # p => event'[q] = event[q]
      BY <1>0, <2>2 DEF Publish
    <3> QED BY <2>1, <2>2, <3>1
  <2>3. ASSUME NEW p \in Publishers, PublisherStep(p)
        PROVE  PublishersAreHandlers'
    <3>1. \A q \in Publishers : event'[q] # NoEvent => event'[q] = event[q]
      BY <1>0, <2>3 DEF PublisherStep, SkipSubscriber, PickSubscriber, SendEvent, EndPublish
    <3> QED BY <2>1, <3>1
  <2>4. ASSUME NEW c \in Clients,
               \/ Lock(c) \/ LockStep(c) \/ TakeEvent(c) \/ WriteEvent(c)
               \/ Disconnect(c) \/ Leave(c)
        PROVE  event' = event
    BY <2>4 DEF Lock, LockStep, AddSubscriber, RemoveSubscriber, TakeEvent, WriteEvent,
       Disconnect, Leave, publisherVars
  <2> QED BY <1>5, <2>1, <2>2, <2>3, <2>4 DEF HandlerStep
<1>6. CASE InitDB \/ ListenAndServe \/ Signal \/ ShutdownDone \/ CloseDB
  BY <1>6 DEF InitDB, ListenAndServe, Signal, ShutdownDone, CloseDB, brokerVars, publisherVars
<1>7. CASE UNCHANGED lifecycleVars
  BY <1>7 DEF lifecycleVars, processVars, brokerVars, publisherVars
<1> QED BY <1>1, <1>3, <1>4, <1>5, <1>6, <1>7 DEF LifecycleNext

\* What a Shutdown that was waited for leaves: no event under way, no subscriber
\* and a free lock.
BrokerIsQuiet ==
    /\ \A p \in Publishers : event[p] = NoEvent
    /\ subscribers = {} /\ readers = {} /\ blocked = {} /\ writer = NoClient

\* When Shutdown has returned without an error, every Publish has returned and
\* every stream is unsubscribed: main closes the database after the last handler,
\* and the lock is with nobody.
THEOREM ShutdownLeavesQuiet ==
    LifecycleSpec => [](phase \in {"closing", "closed"} => BrokerIsQuiet)
<1>1. LifecycleInit => PublishersAreHandlers
  BY DEF LifecycleInit, BrokerInit, PublishersAreHandlers
<1>2. LifecycleInv /\ ServiceInv /\ PublishersAreHandlers /\ [LifecycleNext]_lifecycleVars
      => PublishersAreHandlers'
  BY PublishersStep
<1>3. LifecycleInv /\ ServiceInv /\ PublishersAreHandlers
      => (phase \in {"closing", "closed"} => BrokerIsQuiet)
  <2> SUFFICES ASSUME LifecycleInv, ServiceInv, PublishersAreHandlers,
                      phase \in {"closing", "closed"}
               PROVE  BrokerIsQuiet
    OBVIOUS
  <2>1. /\ \A p \in Publishers : handler[p] = "none"
        /\ \A c \in Clients : client[c] = "away"
    BY DEF LifecycleInv, PhaseInv, HandlersInProgress
  <2>2. \A p \in Publishers : event[p] = NoEvent
    BY <2>1 DEF PublishersAreHandlers
  <2>3. subscribers = {}
    BY <2>1 DEF ServiceInv, StreamInv, BrokerInv, SubscribersAreServed
  <2>4. readers = {} /\ blocked = {}
    BY <2>2 DEF ServiceInv, StreamInv, BrokerInv, BrokerTypeOK, LockersPublish
  <2>5. writer = NoClient
    BY <2>1 DEF ServiceInv, StreamInv, BrokerInv, BrokerTypeOK, LockInv
  <2> QED BY <2>2, <2>3, <2>4, <2>5 DEF BrokerIsQuiet
<1> QED BY <1>1, <1>2, <1>3, LifecycleInvariant, ServiceInvariant, PTL DEF LifecycleSpec
=============================================================================
