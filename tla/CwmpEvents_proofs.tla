-------------------------- MODULE CwmpEvents_proofs --------------------------
(***************************************************************************)
(* The events the sessions publish, for every instance in which each CPE   *)
(* awaits the answer to a POST before the next one.                        *)
(***************************************************************************)
EXTENDS CwmpEvents, CwmpDelivery_proofs

\* The sessions whose RPC in flight is m and was written to the CPE.
InFlight(m) == {s \in Sessions : sessions[s].ActiveRPC = m /\ ~HandlerAt(s, {"send"})}

\* A response event uses up an RPC in flight, and each took a transmission.
ResponsesCovered ==
    \A m \in Messages : /\ IsFiniteSet(InFlight(m))
                        /\ responses[m] + Cardinality(InFlight(m)) <= transmissions[m]

\* Past its Inform a session belongs to a device whose Inform event is out.
DevicesHeard ==
    /\ \A s \in Sessions :
          sessions[s].SessionState \notin {"NEW", "INITIATING"}
          => sessions[s].DeviceIdString \in informs
    /\ \A r \in Requests :
          /\ pc[r] \in SessionLabels \ InformLabels
                => sessions[sess[r]].DeviceIdString \in informs
          /\ pc[r] \in InformLabels => sessions[sess[r]].DeviceIdString = post[r].dev

ResponsesSettled ==
    \A m \in Messages : responses[m] > 0 => m \in answered /\ row[m].device_id \in informs

EventsInv == /\ SerialInv
             /\ HoldingInv
             /\ responses \in [Messages -> Nat] /\ informs \subseteq Devices
             /\ ResponsesCovered
             /\ DevicesHeard
             /\ ResponsesSettled

-----------------------------------------------------------------------------
(* Which handler publishes. *)

\* A response event is published by the handler that clears ActiveRPC.
LEMMA ResponsePublisher ==
    ASSUME SerialInv, Next, NEW r \in Requests, pc[r] = "clear", pc'[r] = "fetch"
    PROVE  ClearActiveRPC(r)
<1> USE DEF SerialInv, LossInv
<1>1. ~Crash
  BY DEF Crash, Restart, Idle
<1>2. PICK q \in Requests : Receive(q) \/ HandlerStep(q)
  BY <1>1 DEF Next, PostStep, Enqueue, handlerVars
<1>3. q = r
  BY <1>2, LocalFrame
<1>4. HandlerStep(r)
  BY <1>2, <1>3, ArrivalFrame
<1> QED BY <1>4 DEF HandlerStep, AddDevice, IsDeviceRegistered, UpdateDevice, InformFault,
     SendInformResponse, CheckEmptyPost, AcceptEmptyPost, ContinueEmptyPost,
     CheckSessionState, AnswerAtOnce, AcceptResponse, MatchResponse, CompareResponse,
     DeleteAnswered, DeleteAnsweredFails, ActiveRPCIsGone, FetchRow, FetchUnbuildable,
     FetchNothing, DropRow, DropRowFails, AssignActiveRPC, SendRpc, TerminateSession,
     UnmapSessionId, UnmapDevice, RecoverPanic, At, PanicLabels

\* Only a write puts an RPC in flight, and only the RPC it wrote.
LEMMA InFlightHandler ==
    ASSUME SerialInv, NEW r \in Requests, HandlerStep(r), NEW m \in Messages,
           NEW s \in InFlight(m)', s \notin InFlight(m)
    PROVE  SendRpc(r) /\ out[r] = m /\ s = sess[r]
<1> USE DEF SerialInv, LossInv
<1>1. s \in Sessions /\ sessions'[s].ActiveRPC = m /\ ~HandlerAt(s, {"send"})' /\ m # NoMessage
  BY SessionAssumption DEF InFlight
<1>2. sessions[s].ActiveRPC = m
  <2>1. CASE s = sess[r] /\ AssignActiveRPC(r) /\ sessions'[s].ActiveRPC = out[r]
    <3>1. pc'[r] = "send" /\ sess'[r] = s
      BY <1>1, <2>1 DEF AssignActiveRPC, Goto, TypeInv, TypeOK
    <3> QED BY <1>1, <3>1 DEF HandlerAt
  <2> QED BY <1>1, <2>1, SessionFrame
<1>3. PICK q \in Requests : sess[q] = s /\ pc[q] = "send"
  BY <1>1, <1>2 DEF InFlight, HandlerAt
<1>4. q = r
  BY <1>1, <1>3, LocalFrame DEF HandlerAt
<1>5. SendRpc(r)
  BY <1>3, <1>4 DEF HandlerStep, AddDevice, IsDeviceRegistered, UpdateDevice, InformFault,
     SendInformResponse, CheckEmptyPost, AcceptEmptyPost, ContinueEmptyPost,
     CheckSessionState, AnswerAtOnce, AcceptResponse, MatchResponse, CompareResponse,
     DeleteAnswered, DeleteAnsweredFails, ActiveRPCIsGone, ClearActiveRPC, FetchRow,
     FetchUnbuildable, FetchNothing, DropRow, DropRowFails, AssignActiveRPC,
     TerminateSession, UnmapSessionId, UnmapDevice, RecoverPanic, At, PanicLabels
<1> QED BY <1>2, <1>3, <1>4, <1>5 DEF HandlerFits

\* The answered RPC was in flight, and is no longer.
LEMMA InFlightClear ==
    ASSUME SerialInv, NEW r \in Requests, ClearActiveRPC(r), NEW m, m = post[r].id
    PROVE  /\ m \in Messages /\ m \in answered
           /\ sessions[sess[r]].ActiveRPC = m
           /\ sess[r] \in InFlight(m) /\ sess[r] \notin InFlight(m)'
<1> USE DEF SerialInv, LossInv
<1>1. pc[r] = "clear" /\ sess[r] \in Sessions
  BY DEF ClearActiveRPC, At, HandlersHaveSession, SessionLabels, Labels, PanicLabels
<1>2. m \in answered /\ m \in Messages /\ sessions[sess[r]].ActiveRPC = m
  BY <1>1 DEF DeletesAnswered, TypeInv, TypeOK
<1>3. ~HandlerAt(sess[r], {"send"})
  BY <1>1, SessionAssumption DEF HandlerAt, OneHandlerPerSession
<1>4. sessions'[sess[r]].ActiveRPC = NoMessage
  BY <1>1 DEF ClearActiveRPC, TypeInv, TypeOK
<1> QED BY <1>1, <1>2, <1>3, <1>4, SessionAssumption DEF InFlight

\* Steps that are no handler's put nothing in flight.
LEMMA InFlightElse ==
    ASSUME SerialInv, NEW m \in Messages,
           \/ \E r \in Requests : Receive(r)
           \/ Crash
           \/ UNCHANGED <<sessionVars, handlerVars>>
    PROVE  InFlight(m)' \subseteq InFlight(m)
<1> USE SessionAssumption DEF SerialInv, LossInv
<1>1. ASSUME NEW r \in Requests, Receive(r), NEW s \in InFlight(m)'
      PROVE  s \in InFlight(m)
  <2>1. sessions[s].ActiveRPC = m /\ s \in Sessions
    BY <1>1, ArrivalFrame DEF InFlight
  <2>2. HandlerAt(s, {"send"}) => HandlerAt(s, {"send"})'
    BY <1>1, ArrivalFrame, LocalFrame DEF HandlerAt
  <2> QED BY <1>1, <2>1, <2>2 DEF InFlight
<1>2. CASE Crash
  BY <1>2 DEF Crash, Restart, NewSessions, NewSession, InFlight
<1>3. CASE UNCHANGED <<sessionVars, handlerVars>>
  BY <1>3 DEF sessionVars, handlerVars, InFlight, HandlerAt
<1> QED BY <1>1, <1>2, <1>3

-----------------------------------------------------------------------------
(* Transmissions cover response events. *)

LEMMA CoveredStep ==
    ASSUME EventsInv, EventsNext
    PROVE  ResponsesCovered'
<1> USE DEF EventsInv
<1>0. /\ transmissions \in [Messages -> Nat] /\ TypeInv /\ LossInv
      /\ SerialInv /\ Next
  BY DEF SerialInv, LossInv, TypeInv, TypeOK, EventsNext
<1> SUFFICES ASSUME NEW m \in Messages
             PROVE  /\ IsFiniteSet(InFlight(m)')
                    /\ responses'[m] + Cardinality(InFlight(m)') <= transmissions'[m]
  BY DEF ResponsesCovered
<1>1. /\ IsFiniteSet(InFlight(m)) /\ Cardinality(InFlight(m)) \in Nat
      /\ responses[m] \in Nat /\ transmissions[m] \in Nat
      /\ responses[m] + Cardinality(InFlight(m)) <= transmissions[m]
  BY <1>0, FS_CardinalityType DEF ResponsesCovered
<1>2. CASE \E r \in Requests : PublishesResponse(r, m)
  <2>1. PICK r \in Requests : PublishesResponse(r, m)
    BY <1>2
  <2>2. ClearActiveRPC(r) /\ m = post[r].id
    BY <1>0, <2>1, ResponsePublisher DEF PublishesResponse
  <2>3. HandlerStep(r) /\ ~SendRpc(r) /\ transmissions' = transmissions
    BY <2>2 DEF HandlerStep, ClearActiveRPC, SendRpc, At, historyVars
  <2>4. sess[r] \in InFlight(m) /\ sess[r] \notin InFlight(m)'
    BY <2>2, InFlightClear
  <2>5. InFlight(m)' \subseteq InFlight(m) \ {sess[r]}
    BY <2>3, <2>4, InFlightHandler
  <2>6. /\ IsFiniteSet(InFlight(m) \ {sess[r]})
        /\ Cardinality(InFlight(m) \ {sess[r]}) = Cardinality(InFlight(m)) - 1
    BY <1>1, <2>4, FS_RemoveElement
  <2>7. /\ IsFiniteSet(InFlight(m)')
        /\ Cardinality(InFlight(m)') <= Cardinality(InFlight(m)) - 1
    BY <2>5, <2>6, FS_Subset
  <2>8. responses'[m] = responses[m] + 1
    BY <1>2 DEF EventsNext
  <2>9. Cardinality(InFlight(m)') \in Nat
    BY <2>7, FS_CardinalityType
  <2> QED BY <1>1, <2>3, <2>7, <2>8, <2>9
<1>3. CASE \E r \in Requests : SendRpc(r) /\ out[r] = m
  <2>1. PICK r \in Requests : SendRpc(r) /\ out[r] = m
    BY <1>3
  <2>2. HandlerStep(r)
    BY <2>1 DEF HandlerStep
  <2>3. InFlight(m)' \subseteq InFlight(m) \cup {sess[r]}
    BY <2>2, InFlightHandler
  <2>4. /\ IsFiniteSet(InFlight(m) \cup {sess[r]})
        /\ Cardinality(InFlight(m) \cup {sess[r]}) <= Cardinality(InFlight(m)) + 1
        /\ Cardinality(InFlight(m) \cup {sess[r]}) \in Nat
    <3>1. /\ IsFiniteSet(InFlight(m) \cup {sess[r]})
          /\ \/ Cardinality(InFlight(m) \cup {sess[r]}) = Cardinality(InFlight(m))
             \/ Cardinality(InFlight(m) \cup {sess[r]}) = Cardinality(InFlight(m)) + 1
      BY <1>1, FS_AddElement
    <3> QED BY <1>1, <3>1
  <2>5. /\ IsFiniteSet(InFlight(m)')
        /\ Cardinality(InFlight(m)') <= Cardinality(InFlight(m) \cup {sess[r]})
    BY <2>3, <2>4, FS_Subset
  <2>6. Cardinality(InFlight(m)') \in Nat
    BY <2>5, FS_CardinalityType
  <2>7. transmissions'[m] = transmissions[m] + 1
    BY <1>0, <2>1 DEF SendRpc
  <2>8. ~\E q \in Requests : PublishesResponse(q, m)
    <3>1. \A q \in Requests : pc[q] = "clear" => q # r
      BY <2>1 DEF SendRpc, At
    <3>2. \A q \in Requests : pc[q] = "clear" => pc'[q] = "clear"
      BY <1>0, <2>2, <3>1, LocalFrame
    <3> QED BY <3>2 DEF PublishesResponse
  <2>9. responses'[m] = responses[m]
    BY <2>8 DEF EventsNext
  <2> QED BY <1>1, <2>4, <2>5, <2>6, <2>7, <2>9
<1>4. CASE /\ ~\E r \in Requests : PublishesResponse(r, m)
           /\ ~\E r \in Requests : SendRpc(r) /\ out[r] = m
  <2>1. InFlight(m)' \subseteq InFlight(m)
    <3>1. ASSUME NEW r \in Requests, HandlerStep(r)
          PROVE  InFlight(m)' \subseteq InFlight(m)
      BY <1>0, <1>4, <3>1, InFlightHandler
    <3> QED BY <1>0, <3>1, InFlightElse DEF Next, PostStep, Enqueue
  <2>2. transmissions'[m] >= transmissions[m] /\ transmissions'[m] \in Nat
    <3>1. ASSUME NEW r \in Requests, SendRpc(r)
          PROVE  transmissions'[m] >= transmissions[m] /\ transmissions'[m] \in Nat
      BY <1>0, <1>4, <3>1 DEF SendRpc
    <3>2. ASSUME NEW r \in Requests, Receive(r) \/ HandlerStep(r), ~SendRpc(r)
          PROVE  transmissions' = transmissions
      BY <1>0, <3>2, SendingFrame DEF FetchRow, historyVars
    <3> QED BY <1>0, <1>1, <3>1, <3>2 DEF Next, PostStep, Enqueue, Crash, Restart,
         historyVars
  <2>3. responses'[m] = responses[m]
    BY <1>4 DEF EventsNext
  <2>4. /\ IsFiniteSet(InFlight(m)') /\ Cardinality(InFlight(m)') \in Nat
        /\ Cardinality(InFlight(m)') <= Cardinality(InFlight(m))
    BY <1>1, <2>1, FS_Subset, FS_CardinalityType
  <2> QED BY <1>1, <2>2, <2>3, <2>4
<1> QED BY <1>2, <1>3, <1>4

-----------------------------------------------------------------------------
(* Informs come first. *)

\* Where a handler that is past its Inform was one step before.
LEMMA InformFrame ==
    ASSUME TypeInv, NEW r \in Requests, HandlerStep(r)
    PROVE  /\ pc'[r] \in InformLabels => pc[r] \in InformLabels
           /\ pc'[r] \in SessionLabels /\ pc[r] \in InformLabels /\ pc'[r] \notin InformLabels
                 => pc[r] \in {"addDevice", "updateDevice"} /\ pc'[r] = "informReply"
<1> USE DEF TypeInv, TypeOK, Goto, At, InformLabels, SessionLabels, Labels, PanicLabels
<1>1. ASSUME NEW infos, Return(r, infos)
      PROVE  pc'[r] = "idle"
  BY <1>1 DEF Return
<1>2. CASE \/ InformFault(r) \/ SendInformResponse(r) \/ AnswerAtOnce(r)
           \/ SendRpc(r) \/ UnmapDevice(r) \/ RecoverPanic(r)
  BY <1>1, <1>2 DEF InformFault, SendInformResponse, AnswerAtOnce, SendRpc, UnmapDevice,
     RecoverPanic
<1>3. CASE \/ AddDevice(r) \/ IsDeviceRegistered(r) \/ UpdateDevice(r)
           \/ CheckEmptyPost(r) \/ AcceptEmptyPost(r) \/ ContinueEmptyPost(r)
           \/ CheckSessionState(r) \/ AcceptResponse(r) \/ MatchResponse(r)
           \/ CompareResponse(r) \/ DeleteAnswered(r)
  BY <1>3 DEF AddDevice, IsDeviceRegistered, UpdateDevice, CheckEmptyPost,
     AcceptEmptyPost, ContinueEmptyPost, CheckSessionState, AcceptResponse,
     MatchResponse, CompareResponse, DeleteAnswered
<1>4. CASE \/ DeleteAnsweredFails(r) \/ ActiveRPCIsGone(r) \/ ClearActiveRPC(r)
           \/ FetchRow(r) \/ FetchUnbuildable(r) \/ FetchNothing(r) \/ DropRow(r)
           \/ DropRowFails(r) \/ AssignActiveRPC(r) \/ TerminateSession(r)
           \/ UnmapSessionId(r)
  BY <1>4 DEF DeleteAnsweredFails, ActiveRPCIsGone, ClearActiveRPC, FetchRow,
     FetchUnbuildable, FetchNothing, DropRow, DropRowFails, AssignActiveRPC,
     TerminateSession, UnmapSessionId
<1> QED BY <1>2, <1>3, <1>4 DEF HandlerStep

LEMMA HeardHandler ==
    ASSUME EventsInv, EventsNext, NEW r \in Requests, HandlerStep(r)
    PROVE  DevicesHeard'
<1> USE DEF EventsInv, HoldingInv
<1>1. /\ pc'[r] \in InformLabels => pc[r] \in InformLabels
      /\ pc'[r] \in SessionLabels /\ pc[r] \in InformLabels /\ pc'[r] \notin InformLabels
            => pc[r] \in {"addDevice", "updateDevice"} /\ pc'[r] = "informReply"
  BY InformFrame
<1>2. \A s \in Sessions : sessions'[s].DeviceIdString = sessions[s].DeviceIdString
  BY SessionFrame
<1>3. \/ /\ sess'[r] = sess[r] /\ post'[r] = post[r]
         /\ pc'[r] \in SessionLabels => pc[r] \in SessionLabels
      \/ sess'[r] = NoSession /\ pc'[r] = "idle"
  BY OwnFrame
<1>4. \A q \in Requests : q # r => /\ pc'[q] = pc[q] /\ post'[q] = post[q]
                                   /\ sess'[q] = sess[q]
  BY LocalFrame
<1>5. informs \subseteq informs'
  BY DEF EventsNext
<1>6. \A q \in Requests : pc[q] \in SessionLabels => sess[q] \in Sessions
  BY DEF HandlersHaveSession
<1>7. /\ {"informReply", "emptyAccept", "terminate"} \subseteq SessionLabels \ InformLabels
      /\ InformLabels \subseteq SessionLabels
      /\ "idle" \notin SessionLabels
  BY DEF SessionLabels, InformLabels, Labels, PanicLabels
<1>8. ASSUME NEW s \in Sessions, sessions'[s].SessionState \notin {"NEW", "INITIATING"}
      PROVE  sessions'[s].DeviceIdString \in informs'
  <2>1. \/ sessions'[s].SessionState = sessions[s].SessionState
        \/ s = sess[r] /\ pc[r] \in {"informReply", "emptyAccept", "terminate"}
    BY OwnState
  <2> QED BY <1>2, <1>5, <1>7, <1>8, <2>1 DEF DevicesHeard
<1>9. ASSUME NEW q \in Requests, pc'[q] \in SessionLabels \ InformLabels
      PROVE  sessions'[sess'[q]].DeviceIdString \in informs'
  <2>1. sess'[q] = sess[q] /\ sess[q] \in Sessions
    BY <1>3, <1>4, <1>6, <1>7, <1>9
  <2>2. CASE pc[q] \in SessionLabels \ InformLabels
    BY <1>2, <1>5, <2>1, <2>2 DEF DevicesHeard
  <2>3. CASE pc[q] \in InformLabels
    <3>1. q = r /\ pc[r] \in {"addDevice", "updateDevice"} /\ pc'[r] = "informReply"
      BY <1>1, <1>4, <1>9, <2>3
    <3>2. post[r].dev \in Devices
      BY <3>1 DEF TypeInv, TypeOK, PostFitsLabel, InformLabels, Posts
    <3>3. post[r].dev \in informs'
      BY <3>1, <3>2 DEF EventsNext, PublishesInform
    <3> QED BY <1>2, <2>1, <2>3, <3>1, <3>3 DEF DevicesHeard
  <2> QED BY <1>3, <1>4, <1>7, <1>9, <2>2, <2>3
<1>10. ASSUME NEW q \in Requests, pc'[q] \in InformLabels
       PROVE  sessions'[sess'[q]].DeviceIdString = post'[q].dev
  <2>1. /\ pc[q] \in InformLabels /\ sess'[q] = sess[q] /\ post'[q] = post[q]
        /\ sess[q] \in Sessions
    BY <1>1, <1>3, <1>4, <1>6, <1>7, <1>10
  <2> QED BY <1>2, <2>1 DEF DevicesHeard
<1> QED BY <1>8, <1>9, <1>10 DEF DevicesHeard

LEMMA HeardReceive ==
    ASSUME EventsInv, OverlappingPosts = FALSE, NEW r \in Requests, Receive(r),
           informs \subseteq informs'
    PROVE  DevicesHeard'
<1> USE SessionAssumption DEF EventsInv, HoldingInv, TypeInv, TypeOK, Goto, At, SessionLabels,
        InformLabels, Labels, PanicLabels
<1>1. /\ pc[r] = "idle"
      /\ sess'[r] = sess[r] \/ \A q \in Requests : sess[q] # sess'[r]
      /\ \A s \in Sessions : s # sess'[r] => sessions'[s] = sessions[s]
  BY ReceiveFrame
<1>2. \A q \in Requests : q # r => /\ pc'[q] = pc[q] /\ post'[q] = post[q]
                                   /\ sess'[q] = sess[q]
  BY LocalFrame
<1>3. /\ \A s \in Sessions :
             s = sess'[r] /\ sessions'[s].SessionState \notin {"NEW", "INITIATING"}
             => sessions'[s].DeviceIdString \in informs
      /\ pc'[r] \in SessionLabels \ InformLabels => sessions'[sess'[r]].DeviceIdString \in informs
      /\ pc'[r] \in InformLabels => sessions'[sess'[r]].DeviceIdString = post'[r].dev
  <2>1. CASE ReceiveEmptyPost(r) \/ ReceiveMessage(r)
    BY <2>1 DEF ReceiveEmptyPost, ReceiveMessage, ReceiveInSession, MayPost, sessionVars,
       DevicesHeard
  <2>2. CASE ReceiveBroken(r)
    BY <2>2 DEF ReceiveBroken, sessionVars, DevicesHeard
  <2>3. CASE ReceiveInform(r)
    BY <2>3 DEF ReceiveInform
  <2> QED BY <2>1, <2>2, <2>3 DEF Receive
<1>4. ASSUME NEW s \in Sessions, sessions'[s].SessionState \notin {"NEW", "INITIATING"}
      PROVE  sessions'[s].DeviceIdString \in informs'
  BY <1>1, <1>3, <1>4 DEF DevicesHeard
<1>5. ASSUME NEW q \in Requests, q # r, pc[q] \in SessionLabels
      PROVE  sessions'[sess'[q]] = sessions[sess[q]]
  <2>1. sess[q] \in Sessions
    BY <1>5 DEF HandlersHaveSession
  <2>2. sess[q] # sess[r]
    BY <1>1, <1>5, <2>1 DEF SerialInv, LossInv, OneHandlerPerSession
  <2> QED BY <1>1, <1>2, <1>5, <2>1, <2>2
<1>6. ASSUME NEW q \in Requests
      PROVE  /\ pc'[q] \in SessionLabels \ InformLabels
                   => sessions'[sess'[q]].DeviceIdString \in informs'
             /\ pc'[q] \in InformLabels => sessions'[sess'[q]].DeviceIdString = post'[q].dev
  <2>1. CASE q = r
    BY <1>3, <2>1
  <2>2. CASE q # r
    BY <1>2, <1>5, <2>2 DEF DevicesHeard
  <2> QED BY <2>1, <2>2
<1> QED BY <1>4, <1>6 DEF DevicesHeard

\* What a response event says stays true.
LEMMA SettledStep ==
    ASSUME EventsInv, EventsNext
    PROVE  ResponsesSettled'
<1> USE DEF EventsInv, HoldingInv
<1> SUFFICES ASSUME NEW m \in Messages, responses'[m] > 0
             PROVE  m \in answered' /\ row'[m].device_id \in informs'
  BY DEF ResponsesSettled
<1>1. m \in answered /\ row[m].device_id \in informs
  <2>1. CASE responses'[m] = responses[m]
    BY <2>1 DEF ResponsesSettled
  <2>2. CASE responses'[m] # responses[m]
    <3>1. PICK r \in Requests : PublishesResponse(r, m)
      BY <2>2 DEF EventsNext
    <3>2. ClearActiveRPC(r) /\ m = post[r].id
      BY <3>1, ResponsePublisher DEF EventsNext, PublishesResponse
    <3>3. m \in answered /\ sessions[sess[r]].ActiveRPC = m /\ sess[r] \in Sessions
      BY <3>2, InFlightClear DEF InFlight
    <3>4. row[m].device_id = sessions[sess[r]].DeviceIdString
      BY <3>3, SessionAssumption DEF HeldIsForemost, Foremost, TypeInv, TypeOK
    <3>5. pc[r] \in SessionLabels \ InformLabels
      BY <3>2 DEF ClearActiveRPC, At, SessionLabels, InformLabels, Labels, PanicLabels
    <3> QED BY <3>3, <3>4, <3>5 DEF DevicesHeard
  <2> QED BY <2>1, <2>2
<1>2. informs \subseteq informs'
  BY DEF EventsNext
<1>3. ASSUME NEW r \in Requests, HandlerStep(r)
      PROVE  m \in answered' /\ row'[m].device_id = row[m].device_id
  BY <1>1, <1>3, LabelFrame, RowFrame
<1>4. ASSUME NEW r \in Requests, Receive(r)
      PROVE  m \in answered' /\ row'[m].device_id = row[m].device_id
  BY <1>1, <1>4, ArrivalFrame DEF dbVars, historyVars
<1>5. ASSUME NEW d \in Devices, NEW k \in Messages, Enqueue(d, k)
      PROVE  m \in answered' /\ row'[m].device_id = row[m].device_id
  <2>1. m # k
    BY <1>1, <1>5, DbAssumption DEF Enqueue
  <2> QED BY <1>1, <1>5, <2>1 DEF Enqueue, QueueRPC, historyVars, TypeInv, TypeOK, DbTypeOK
<1>6. m \in answered' /\ row'[m].device_id = row[m].device_id
  BY <1>1, <1>3, <1>4, <1>5 DEF EventsNext, Next, PostStep, Crash, Restart, dbVars,
     historyVars
<1> QED BY <1>1, <1>2, <1>6

LEMMA EventsStep ==
    ASSUME EventsInv, OverlappingPosts = FALSE, [EventsNext]_<<vars, eventVars>>
    PROVE  EventsInv'
<1> USE DEF EventsInv
<1>1. [Next]_vars
  BY DEF EventsNext
<1>2. SerialInv' /\ HoldingInv'
  BY <1>1, SerialStep, HoldingStep
<1>3. CASE UNCHANGED <<vars, eventVars>>
  <2>1. \A m : InFlight(m)' = InFlight(m)
    BY <1>3 DEF vars, sessionVars, handlerVars, InFlight, HandlerAt
  <2>2. ResponsesCovered'
    BY <1>3, <2>1 DEF vars, eventVars, historyVars, ResponsesCovered
  <2> QED BY <1>2, <1>3, <2>2 DEF vars, eventVars, dbVars, sessionVars, handlerVars,
       historyVars, DevicesHeard, ResponsesSettled
<1>4. CASE EventsNext
  <2>1. responses' \in [Messages -> Nat] /\ informs' \subseteq Devices /\ informs \subseteq informs'
    BY <1>4 DEF EventsNext
  <2>2. DevicesHeard'
    <3>1. ASSUME NEW r \in Requests, Receive(r) PROVE DevicesHeard'
      BY <2>1, <3>1, HeardReceive
    <3>2. ASSUME NEW r \in Requests, HandlerStep(r) PROVE DevicesHeard'
      BY <1>4, <3>2, HeardHandler
    <3>3. CASE UNCHANGED <<sessionVars, handlerVars>>
      BY <2>1, <3>3 DEF sessionVars, handlerVars, DevicesHeard
    <3>4. CASE Crash
      BY <3>4 DEF Crash, Restart, NewSessions, NewSession, Idle, SessionLabels,
         InformLabels, DevicesHeard
    <3> QED BY <1>4, <3>1, <3>2, <3>3, <3>4 DEF EventsNext, Next, PostStep, Enqueue
  <2> QED BY <1>2, <1>4, <2>1, <2>2, CoveredStep, SettledStep
<1> QED BY <1>3, <1>4

LEMMA EventsInvInit == EventsInit => EventsInv
<1> SUFFICES ASSUME EventsInit PROVE EventsInv
  OBVIOUS
<1>1. SerialInv /\ HoldingInv
  BY SerialInit, HoldingInit DEF EventsInit
<1>2. ResponsesCovered
  <2>1. \A m \in Messages : InFlight(m) = {}
    BY SessionAssumption DEF EventsInit, Init, NewSessions, NewSession, InFlight
  <2> QED BY <2>1, FS_EmptySet DEF EventsInit, Init, ResponsesCovered
<1>3. DevicesHeard
  BY DEF EventsInit, Init, NewSessions, NewSession, Idle, SessionLabels, InformLabels,
     DevicesHeard
<1> QED BY <1>1, <1>2, <1>3 DEF EventsInit, ResponsesSettled, EventsInv

\* A response event comes after an Inform event of its device, and there are no
\* more of them than transmissions of the RPC: an event uses up the ActiveRPC that
\* a transmission had set, and a crash only forgets.
THEOREM EventsFollow == OverlappingPosts = FALSE => (EventsSpec => []EventsFollowDelivery)
<1> SUFFICES ASSUME OverlappingPosts = FALSE PROVE EventsSpec => []EventsFollowDelivery
  OBVIOUS
<1>1. EventsInv => EventsFollowDelivery
  <2> SUFFICES ASSUME EventsInv, NEW m \in Messages, responses[m] > 0
               PROVE  responses[m] <= transmissions[m] /\ m \in answered
                      /\ row[m].device_id \in informs
    BY DEF EventsFollowDelivery
  <2>1. IsFiniteSet(InFlight(m)) /\ responses[m] + Cardinality(InFlight(m)) <= transmissions[m]
    BY DEF EventsInv, ResponsesCovered
  <2>2. Cardinality(InFlight(m)) \in Nat /\ responses[m] \in Nat /\ transmissions[m] \in Nat
    BY <2>1, FS_CardinalityType DEF EventsInv, SerialInv, LossInv, TypeInv, TypeOK
  <2> QED BY <2>1, <2>2 DEF EventsInv, ResponsesSettled
<1> QED BY <1>1, EventsInvInit, EventsStep, PTL DEF EventsSpec
=============================================================================
