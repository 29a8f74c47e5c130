---------------------------- MODULE AcsApi_proofs ----------------------------
(***************************************************************************)
(* Theorems about AcsApi, for every instance: API calls and sessions       *)
(* together are a run of CwmpSessions, and what a caller got a 202 for     *)
(* stays in the database until it is settled or exhausted.                 *)
(***************************************************************************)
EXTENDS AcsApi, CwmpDelivery_proofs

\* What a handler leaves behind when it returns, and what a crash finds when
\* nothing is going on.
AtRest ==
    /\ \A r \in Requests :
          pc[r] = "idle" => post[r] = NoPost /\ sess[r] = NoSession /\ out[r] = NoMessage
    /\ \A s \in SessionIdActiveSessions : sessions[s].SessionState # "NEW"

RestInv == TypeInv /\ NoOrphanedEntry /\ AtRest

\* A call that is about to queue its RPC still may; no two calls have one id.
CallsFit ==
    /\ \A c \in Calls :
          /\ callPc[c] # "idle" => call[c].id \in Messages /\ call[c].dev \in Devices
          /\ callPc[c] = "queue" => /\ Registered(call[c].dev)
                                    /\ row[call[c].id].device_id = NoDevice
    /\ \A c, e \in Calls : c # e /\ call[c].id = call[e].id => call[c].id = NoMessage

CallsInv == ApiTypeOK /\ RestInv /\ CallsFit

\* In the queue, or rightly gone from it.
Kept(m) == m \in rpc_queue \/ m \in answered \/ Exhausted(m)

KeptInv == /\ LossInv /\ CallsInv
           /\ \A m \in accepted : Kept(m)
           /\ \A c \in Calls : callPc[c] \in {"lookUp", "check", "connect"}
                                => Kept(call[c].id)

-----------------------------------------------------------------------------
(* Handlers at rest. *)

\* A handler step ends in "idle" only by Return, and makes no session new.
LEMMA RestFrame ==
    ASSUME TypeInv, NEW r \in Requests, HandlerStep(r)
    PROVE  /\ pc'[r] = "idle" => post'[r] = NoPost /\ sess'[r] = NoSession
                                 /\ out'[r] = NoMessage
           /\ SessionIdActiveSessions' \subseteq SessionIdActiveSessions
           /\ \A s \in Sessions : sessions[s].SessionState # "NEW"
                                  => sessions'[s].SessionState # "NEW"
<1> USE DEF TypeInv, TypeOK, SessionInfos, Goto, At, UnchangedTables
<1>1. ASSUME NEW infos, Return(r, infos)
      PROVE  /\ post'[r] = NoPost /\ sess'[r] = NoSession /\ out'[r] = NoMessage
             /\ \A s \in Sessions : sessions'[s].SessionState = infos[s].SessionState
  BY <1>1 DEF Return
<1>2. CASE InformFault(r) \/ SendRpc(r) \/ RecoverPanic(r) \/ UnmapDevice(r)
  BY <1>1, <1>2 DEF InformFault, SendRpc, RecoverPanic, UnmapDevice
<1>3. CASE SendInformResponse(r)
  <2> DEFINE infos == [sessions EXCEPT ![sess[r]].SessionState = "RECEIVING_CPE_RPCS"]
  <2>1. \A s \in Sessions : sessions[s].SessionState # "NEW" => infos[s].SessionState # "NEW"
    OBVIOUS
  <2> QED BY <1>1, <1>3, <2>1 DEF SendInformResponse
<1>4. \A s \in Sessions : WithContext(r)[s].SessionState = sessions[s].SessionState
  BY DEF WithContext
<1>5. CASE AnswerAtOnce(r)
  <2>1. Return(r, WithContext(r)) /\ UnchangedTables
    BY <1>5 DEF AnswerAtOnce
  <2> QED BY <1>1, <1>4, <2>1
<1>6. CASE AcceptResponse(r) \/ ContinueEmptyPost(r)
  BY <1>4, <1>6 DEF AcceptResponse, ContinueEmptyPost
<1>7. CASE AcceptEmptyPost(r)
  <2> DEFINE infos == [sessions EXCEPT ![sess[r]].SessionState = "SENDING_ACS_RPCS"]
  <2>1. \A s \in Sessions : sessions[s].SessionState # "NEW" => infos[s].SessionState # "NEW"
    OBVIOUS
  <2>2. sessions' = infos /\ pc'[r] # "idle" /\ UnchangedTables
    BY <1>7 DEF AcceptEmptyPost
  <2> QED BY <2>1, <2>2
<1>8. CASE TerminateSession(r)
  <2> DEFINE infos == [sessions EXCEPT ![sess[r]].SessionState = "TERMINATED"]
  <2>1. \A s \in Sessions : sessions[s].SessionState # "NEW" => infos[s].SessionState # "NEW"
    OBVIOUS
  <2>2. sessions' = infos /\ pc'[r] # "idle" /\ UnchangedTables
    BY <1>8 DEF TerminateSession
  <2> QED BY <2>1, <2>2
<1>9. CASE ClearActiveRPC(r)
  <2> DEFINE infos == [sessions EXCEPT ![sess[r]].ActiveRPC = NoMessage]
  <2>1. \A s \in Sessions : infos[s].SessionState = sessions[s].SessionState
    OBVIOUS
  <2>2. sessions' = infos /\ pc'[r] = "fetch" /\ UnchangedTables
    BY <1>9 DEF ClearActiveRPC
  <2> QED BY <2>1, <2>2
<1>10. CASE AssignActiveRPC(r)
  <2> DEFINE infos == [sessions EXCEPT ![sess[r]].ActiveRPC = out[r]]
  <2>1. \A s \in Sessions : infos[s].SessionState = sessions[s].SessionState
    OBVIOUS
  <2>2. sessions' = infos /\ pc'[r] # "idle" /\ UnchangedTables
    BY <1>10 DEF AssignActiveRPC
  <2> QED BY <2>1, <2>2
<1>11. CASE \/ AddDevice(r) \/ IsDeviceRegistered(r) \/ UpdateDevice(r) \/ CheckEmptyPost(r)
            \/ CheckSessionState(r) \/ MatchResponse(r) \/ CompareResponse(r)
            \/ DeleteAnswered(r) \/ DeleteAnsweredFails(r) \/ ActiveRPCIsGone(r)
            \/ FetchRow(r) \/ FetchUnbuildable(r) \/ FetchNothing(r) \/ DropRow(r)
            \/ DropRowFails(r) \/ UnmapSessionId(r)
  BY <1>11 DEF UnmapSessionId, AddDevice, IsDeviceRegistered, UpdateDevice, CheckEmptyPost,
     CheckSessionState, MatchResponse, CompareResponse, DeleteAnswered, DeleteAnsweredFails,
     ActiveRPCIsGone, FetchRow, FetchUnbuildable, FetchNothing, DropRow, DropRowFails,
     sessionVars
<1> QED BY <1>2, <1>3, <1>5, <1>6, <1>7, <1>8, <1>9, <1>10, <1>11 DEF HandlerStep

LEMMA RestStep == RestInv /\ [Next]_vars => RestInv'
<1> SUFFICES ASSUME RestInv, [Next]_vars PROVE AtRest'
  BY TablesStep DEF RestInv, TablesInv
<1> USE DEF RestInv
<1>1. CASE UNCHANGED <<sessionVars, handlerVars>>
  BY <1>1 DEF sessionVars, handlerVars, AtRest
<1>2. ASSUME NEW r \in Requests, Receive(r)
      PROVE  AtRest'
  <2>1. /\ pc'[r] # "idle"
        /\ \A s \in SessionIdActiveSessions' : sessions'[s].SessionState # "NEW"
    BY <1>2 DEF Receive, ReceiveEmptyPost, ReceiveMessage, ReceiveInSession, ReceiveBroken,
       ReceiveInform, Goto, sessionVars, AtRest, TypeInv, TypeOK
  <2> QED BY <1>2, <2>1, LocalFrame DEF AtRest
<1>3. ASSUME NEW r \in Requests, HandlerStep(r)
      PROVE  AtRest'
  <2>1. SessionIdActiveSessions \subseteq Sessions
    BY DEF TypeInv, TypeOK
  <2> QED BY <1>3, <2>1, RestFrame, LocalFrame DEF AtRest
<1>4. CASE Crash
  BY <1>4 DEF Crash, Restart, NoPosts, NoSess, NoOut, AtRest
<1> QED BY <1>1, <1>2, <1>3, <1>4 DEF Next, PostStep, Enqueue, vars

\* When nothing is in memory, a restart changes nothing.
LEMMA QuietRestart ==
    ASSUME RestInv, ~Busy, Restart
    PROVE  UNCHANGED vars
<1> USE DEF RestInv, TypeInv, TypeOK
<1>1. sessions = NewSessions /\ \A r \in Requests : pc[r] = "idle"
  BY DEF Busy
<1>2. SessionIdActiveSessions = {}
  BY <1>1 DEF AtRest, NewSessions, NewSession
<1>3. \A d \in Devices : DeviceIdStringActiveSessions[d] = NoSession
  BY <1>1, <1>2 DEF NoOrphanedEntry
<1>4. DeviceIdStringActiveSessions = NoEntries
  BY <1>3 DEF NoEntries
<1>5. pc = Idle /\ post = NoPosts /\ sess = NoSess /\ out = NoOut
  BY <1>1 DEF AtRest, Idle, NoPosts, NoSess, NoOut
<1> QED BY <1>1, <1>2, <1>4, <1>5 DEF Restart, vars, sessionVars, handlerVars

-----------------------------------------------------------------------------
(* Calls. *)

\* A device that has a row keeps it.
LEMMA DevicesStay ==
    ASSUME TypeInv, [Next]_vars, NEW d \in Devices, Registered(d)
    PROVE  Registered(d)'
<1> USE DbAssumption DEF TypeInv, TypeOK, DbTypeOK, Registered
<1>1. CASE UNCHANGED device
  BY <1>1
<1>2. ASSUME NEW r \in Requests, AddDevice(r) \/ UpdateDevice(r)
      PROVE  Registered(d)'
  <2>1. post[r].url \in Urls
    <3>1. post[r] \in Posts /\ post[r].kind = "Inform"
      BY <1>2 DEF AddDevice, UpdateDevice, At, PostFitsLabel, InformLabels
    <3> QED BY <3>1, PostFields
  <2> QED BY <1>2, <2>1 DEF AddDevice, UpdateDevice, AddDeviceRow, UpdateDeviceRow
<1>3. ASSUME NEW r \in Requests, Receive(r)
      PROVE  UNCHANGED device
  BY <1>3, ArrivalFrame DEF dbVars
<1>4. ASSUME NEW r \in Requests, HandlerStep(r), ~AddDevice(r), ~UpdateDevice(r)
      PROVE  UNCHANGED device
  BY <1>4 DEF HandlerStep, IsDeviceRegistered, InformFault, SendInformResponse,
     CheckEmptyPost, AcceptEmptyPost, ContinueEmptyPost, CheckSessionState,
     AnswerAtOnce, AcceptResponse, MatchResponse, CompareResponse, DeleteAnswered,
     DeleteAnsweredFails, ActiveRPCIsGone, ClearActiveRPC, FetchRow, FetchUnbuildable,
     FetchQueuedRPC, FetchNothing, DropRow, DropRowFails, DeleteQueuedRPC,
     AssignActiveRPC, SendRpc, TerminateSession, UnmapSessionId, UnmapDevice,
     RecoverPanic, dbVars
<1> QED BY <1>1, <1>2, <1>3, <1>4 DEF Next, PostStep, Enqueue, QueueRPC, Crash, Restart,
     vars, dbVars

\* Only QueueCall changes what the sessions can see; it does what Enqueue does.
LEMMA CallRefines ==
    ASSUME CallsInv, NEW c \in Calls, CallStep(c)
    PROVE  \/ UNCHANGED vars
           \/ QueueCall(c) /\ Enqueue(call[c].dev, call[c].id)
                           /\ call[c].dev \in Devices /\ call[c].id \in Messages
<1>1. CASE QueueCall(c)
  BY <1>1 DEF QueueCall, Enqueue, CallsInv, CallsFit
<1>2. CASE \/ ReceiveCall(c) \/ QueueCallFails(c) \/ LookUpFinds(c) \/ LookUpFindsNone(c)
           \/ CheckActive(c) \/ CheckTerminated(c) \/ ConnectionRequest(c)
           \/ ConnectionRequestFails(c)
  BY <1>2 DEF ReceiveCall, QueueCallFails, LookUpFinds, LookUpFindsNone, CheckActive,
     CheckTerminated, ConnectionRequest, ConnectionRequestFails
<1> QED BY <1>1, <1>2 DEF CallStep

LEMMA ApiRefines == CallsInv /\ [ApiNext]_allVars => [Next]_vars
<1> SUFFICES ASSUME CallsInv, ApiNext PROVE [Next]_vars
  BY DEF allVars
<1>1. ASSUME NEW c \in Calls, CallStep(c)
      PROVE  [Next]_vars
  BY <1>1, CallRefines DEF Next
<1>2. CASE CrashAll
  BY <1>2, QuietRestart DEF CrashAll, CallsInv, Crash, Next
<1> QED BY <1>1, <1>2 DEF ApiNext, Next

\* No step of a POST, and no crash, changes the owner of a row.
LEMMA OwnerStays ==
    ASSUME TypeInv, PostStep, NEW m \in Messages
    PROVE  row'[m].device_id = row[m].device_id
<1>1. ASSUME NEW r \in Requests, Receive(r)
      PROVE  row' = row
  BY <1>1, ArrivalFrame DEF dbVars
<1> QED BY <1>1, RowFrame DEF PostStep

LEMMA CallsInit == ApiInit => CallsInv
<1> SUFFICES ASSUME ApiInit PROVE CallsInv
  OBVIOUS
<1>1. RestInv
  BY TypeInit DEF ApiInit, Init, RestInv, NoOrphanedEntry, AtRest, NoEntries, NoPosts,
     NoSess, NoOut
<1>2. CallsFit
  BY DEF ApiInit, CallsFit, IdleCalls, NoCalls, NoCall
<1>3. ApiTypeOK
  BY <1>1, ApiAssumption DEF ApiInit, ApiTypeOK, RestInv, TypeInv, IdleCalls, NoCalls,
     NoCall, NoInfos, NoneFound, CallLabels
<1> QED BY <1>1, <1>2, <1>3 DEF CallsInv

\* The part of the step lemma about calls: what each writes for itself.
LEMMA CallsKeepTypes ==
    ASSUME CallsInv, NEW c \in Calls, CallStep(c)
    PROVE  /\ callPc' \in [Calls -> CallLabels]
           /\ call' \in [Calls -> [dev : Devices \cup {NoDevice},
                                   id : Messages \cup {NoMessage}, trigger : BOOLEAN]]
           /\ deviceInfo' \in [Calls -> Urls]
           /\ sessionInfo' \in [Calls -> Sessions \cup {NoSession}]
           /\ accepted' \subseteq Messages
<1> USE DEF CallsInv, ApiTypeOK, CallLabels
<1>1. ASSUME Reply(c)
      PROVE  /\ callPc' \in [Calls -> CallLabels]
             /\ call' \in [Calls -> [dev : Devices \cup {NoDevice},
                                     id : Messages \cup {NoMessage}, trigger : BOOLEAN]]
             /\ deviceInfo' \in [Calls -> Urls]
             /\ sessionInfo' \in [Calls -> Sessions \cup {NoSession}]
  BY <1>1, ApiAssumption DEF Reply, NoCall
<1>2. callPc[c] # "idle" => call[c].id \in Messages
  BY DEF CallsFit
<1>3. CASE ReceiveCall(c)
  <2>1. PICK d \in Devices, m \in Messages, trigger \in BOOLEAN :
          /\ Registered(d)
          /\ callPc' = [callPc EXCEPT ![c] = "queue"]
          /\ call' = [call EXCEPT ![c] = [dev |-> d, id |-> m, trigger |-> trigger]]
          /\ deviceInfo' = [deviceInfo EXCEPT ![c] = GetDeviceByID(d)]
    BY <1>3 DEF ReceiveCall
  <2>2. GetDeviceByID(d) \in Urls
    BY <2>1 DEF Registered, GetDeviceByID, TypeOK, DbTypeOK
  <2> QED BY <1>3, <2>1, <2>2 DEF ReceiveCall
<1>4. CASE QueueCall(c)
  BY <1>1, <1>2, <1>4 DEF QueueCall, ReplyAccepted, CallGoto
<1>5. CASE QueueCallFails(c) \/ ConnectionRequestFails(c)
  BY <1>1, <1>5 DEF QueueCallFails, ConnectionRequestFails
<1>6. CASE CheckActive(c) \/ ConnectionRequest(c)
  BY <1>1, <1>2, <1>6 DEF CheckActive, ConnectionRequest, ReplyAccepted
<1>7. CASE LookUpFindsNone(c) \/ CheckTerminated(c)
  BY <1>7 DEF LookUpFindsNone, CheckTerminated, CallGoto
<1>8. CASE LookUpFinds(c)
  <2>1. callPc[c] # "idle"
    BY <1>8 DEF LookUpFinds
  <2>2. call[c].dev \in Devices
    BY <2>1 DEF CallsFit
  <2>3. DeviceIdStringActiveSessions[call[c].dev] \in Sessions \cup {NoSession}
    BY <2>2 DEF TypeOK
  <2> QED BY <1>8, <2>3 DEF LookUpFinds
<1> QED BY <1>3, <1>4, <1>5, <1>6, <1>7, <1>8 DEF CallStep

\* And what it leaves of the other calls and of itself.
LEMMA CallFrame ==
    ASSUME CallsInv, NEW c \in Calls, CallStep(c)
    PROVE  /\ \A e \in Calls : e # c => callPc'[e] = callPc[e] /\ call'[e] = call[e]
           /\ \/ ReceiveCall(c)
              \/ callPc'[c] = "idle" /\ call'[c] = NoCall
              \/ callPc'[c] = "lookUp" /\ call'[c] = call[c] /\ QueueCall(c)
              \/ /\ callPc'[c] \in {"check", "connect"} /\ call'[c] = call[c]
                 /\ callPc[c] \in {"lookUp", "check"}
           /\ \/ accepted' = accepted
              \/ /\ accepted' = accepted \cup {call[c].id}
                 /\ QueueCall(c) \/ callPc[c] \in {"lookUp", "check", "connect"}
BY DEF CallsInv, ApiTypeOK, CallStep, ReceiveCall, QueueCall, QueueCallFails,
   LookUpFinds, LookUpFindsNone, CheckActive, CheckTerminated, ConnectionRequest,
   ConnectionRequestFails, Reply, ReplyAccepted, CallGoto

LEMMA CallsFitStep ==
    ASSUME CallsInv, NEW c \in Calls, CallStep(c)
    PROVE  CallsFit'
<1> USE DEF CallsInv
<1>1. \A e \in Calls : e # c => callPc'[e] = callPc[e] /\ call'[e] = call[e]
  BY CallFrame
<1>2. [Next]_vars /\ TypeInv
  BY ApiRefines DEF ApiNext, RestInv
<1>3. \A d \in Devices : Registered(d) => Registered(d)'
  BY <1>2, DevicesStay
<1>4. CASE ReceiveCall(c)
  <2>1. PICK d \in Devices, m \in Messages, trigger \in BOOLEAN :
          /\ Registered(d) /\ FreshId(m)
          /\ callPc' = [callPc EXCEPT ![c] = "queue"]
          /\ call' = [call EXCEPT ![c] = [dev |-> d, id |-> m, trigger |-> trigger]]
    BY <1>4 DEF ReceiveCall
  <2>2. callPc'[c] = "queue" /\ call'[c] = [dev |-> d, id |-> m, trigger |-> trigger]
    BY <2>1 DEF ApiTypeOK
  <2>3. row' = row /\ device' = device
    BY <1>4 DEF ReceiveCall, vars, dbVars
  <2> QED BY <1>1, <2>1, <2>2, <2>3 DEF CallsFit, FreshId, Registered
<1>5. CASE ~ReceiveCall(c)
  <2>1. \/ callPc'[c] = "idle" /\ call'[c].id = NoMessage
        \/ /\ callPc'[c] \in {"lookUp", "check", "connect"} /\ call'[c] = call[c]
           /\ callPc[c] # "idle"
    BY <1>5, CallFrame DEF QueueCall, NoCall
  <2>2. \A m \in Messages :
           row'[m] = row[m] \/ (callPc[c] = "queue" /\ m = call[c].id)
    <3>1. CASE UNCHANGED vars
      BY <3>1 DEF vars, dbVars
    <3>2. CASE QueueCall(c)
      BY <1>2, <3>2 DEF QueueCall, QueueRPC, TypeInv, TypeOK, DbTypeOK
    <3> QED BY <3>1, <3>2, CallRefines
  <2>3. \A e \in Calls : callPc'[e] # "idle" =>
            call'[e].id \in Messages /\ call'[e].dev \in Devices
    BY <1>1, <2>1 DEF CallsFit
  <2>4. ASSUME NEW e \in Calls, callPc'[e] = "queue"
        PROVE  device'[call'[e].dev] # NoRow /\ row'[call'[e].id].device_id = NoDevice
    <3>1. e # c /\ callPc[e] = "queue" /\ call'[e] = call[e]
      BY <1>1, <2>1, <2>4
    <3>2. /\ call[e].id \in Messages /\ call[e].dev \in Devices
          /\ Registered(call[e].dev) /\ row[call[e].id].device_id = NoDevice
      BY <3>1 DEF CallsFit
    <3>3. ~(callPc[c] = "queue" /\ call[e].id = call[c].id)
      BY <3>1, <3>2, SessionAssumption DEF CallsFit
    <3>4. row'[call[e].id] = row[call[e].id]
      BY <2>2, <3>2, <3>3
    <3>5. device'[call[e].dev] # NoRow
      BY <1>3, <3>2 DEF Registered
    <3> QED BY <3>1, <3>2, <3>4, <3>5
  <2>5. \A e, f \in Calls : e # f /\ call'[e].id = call'[f].id => call'[e].id = NoMessage
    BY <1>1, <2>1 DEF CallsFit
  <2> QED BY <2>3, <2>4, <2>5 DEF CallsFit, Registered
<1> QED BY <1>4, <1>5

LEMMA CallsStep == CallsInv /\ [ApiNext]_allVars => CallsInv'
<1> SUFFICES ASSUME CallsInv, [ApiNext]_allVars PROVE CallsInv'
  OBVIOUS
<1> USE DEF CallsInv
<1>1. [Next]_vars /\ TypeInv
  BY ApiRefines DEF RestInv
<1>2. RestInv' /\ TypeOK'
  BY <1>1, RestStep DEF RestInv, TypeInv
<1>3. ASSUME NEW c \in Calls, CallStep(c)
      PROVE  CallsInv'
  BY <1>2, <1>3, CallsKeepTypes, CallsFitStep DEF ApiTypeOK
<1>4. CASE PostStep /\ UNCHANGED apiVars
  <2>1. CallsFit'
    <3>1. \A d \in Devices : Registered(d) => device'[d] # NoRow
      BY <1>1, DevicesStay DEF Registered
    <3>2. \A m \in Messages : row'[m].device_id = row[m].device_id
      BY <1>1, <1>4, OwnerStays
    <3> QED BY <1>4, <3>1, <3>2 DEF CallsFit, apiVars, callVars, Registered
  <2> QED BY <1>2, <1>4, <2>1 DEF ApiTypeOK, apiVars, callVars
<1>5. CASE CrashAll
  <2>1. CallsFit'
    BY <1>5 DEF CrashAll, CallsFit, IdleCalls, NoCalls, NoCall
  <2>2. ApiTypeOK'
    BY <1>2, <1>5, ApiAssumption DEF CrashAll, ApiTypeOK, IdleCalls, NoCalls, NoCall,
       NoInfos, NoneFound, CallLabels
  <2> QED BY <1>2, <2>1, <2>2
<1>6. CASE UNCHANGED allVars
  BY <1>2, <1>6 DEF allVars, apiVars, callVars, vars, dbVars, ApiTypeOK, CallsFit,
     Registered
<1> QED BY <1>3, <1>4, <1>5, <1>6 DEF ApiNext

\* Every variable of handlers and calls keeps its type.
THEOREM ApiTypeCorrect == ApiSpec => []ApiTypeOK
<1>1. CallsInv => ApiTypeOK
  BY DEF CallsInv
<1> QED BY <1>1, CallsInit, CallsStep, PTL DEF ApiSpec

\* Handlers of POSTs and of API calls together are a run of CwmpSessions: an RPC
\* is queued only under a fresh id and for a device that has a row, though
\* other calls and POSTs come between the lookup, the minting and the INSERT.
THEOREM ApiImplementsSessions == ApiSpec => ImplementsSessions
<1>1. ApiInit => Init
  BY DEF ApiInit
<1> QED BY <1>1, CallsInit, CallsStep, ApiRefines, PTL DEF ApiSpec, ImplementsSessions, Spec

\* So they also deliver as RpcDelivery promises: what holds of the sessions
\* with RPCs from nowhere holds of those with RPCs from callers.
THEOREM ApiDeliversAsPromised ==
    OverlappingPosts = FALSE => (ApiSpec => ImplementsDelivery)
<1>1. ImplementsSessions <=> Spec
  BY DEF ImplementsSessions
<1> QED BY <1>1, ApiImplementsSessions, DeliversAsPromised, PTL

\* What the sessions keep to without API calls they keep to with them, also when
\* POSTs of one session overlap: callers that look up, mint and INSERT between
\* the steps of handlers let no RPC out too often, out of turn or to another
\* device.
THEOREM ApiKeepsSessions ==
    ApiSpec => InOrder /\ [](NoOrphanedEntry /\ BoundedRetransmission /\ DeliveredToOwner)
<1>1. ImplementsSessions <=> Spec
  BY DEF ImplementsSessions
<1> QED BY <1>1, ApiImplementsSessions, SentInOrder, NoOrphans, RetransmissionBounded,
     OwnersServed, PTL

\* And with CPEs that await each answer: calls lose no RPC and settle none, and
\* bring no session to a state or a panic it would not come to without them.
THEOREM ApiKeepsSerialSessions ==
    OverlappingPosts = FALSE
    => (ApiSpec => /\ NoSilentLoss /\ OnlyMatchedDeleted /\ StateOrder
                   /\ [](/\ AnsweredWasSent /\ ContextIsOwn /\ PanicsOnlyOnBadMessage
                         /\ SendingAwaitsResponse))
<1> SUFFICES ASSUME OverlappingPosts = FALSE
             PROVE  ApiSpec => /\ NoSilentLoss /\ OnlyMatchedDeleted /\ StateOrder
                               /\ [](/\ AnsweredWasSent /\ ContextIsOwn /\ PanicsOnlyOnBadMessage
                                     /\ SendingAwaitsResponse)
  OBVIOUS
<1>1. ImplementsSessions <=> Spec
  BY DEF ImplementsSessions
<1>2. Spec => NoSilentLoss /\ OnlyMatchedDeleted /\ StateOrder
  BY NothingLost, MatchedDeleted, StatesAdvance
<1>3. (Spec => []AnsweredWasSent) /\ (Spec => []ContextIsOwn)
  BY SettledWasSent, OwnContext
<1>4. (Spec => []PanicsOnlyOnBadMessage) /\ (Spec => []SendingAwaitsResponse)
  BY NoOtherPanic, NeverBothWait
<1> QED BY <1>1, <1>2, <1>3, <1>4, ApiImplementsSessions, PTL

-----------------------------------------------------------------------------
(* What a caller may rely on. *)

\* An RPC that is in the queue, or rightly gone from it, stays so.
LEMMA KeptStays ==
    ASSUME LossInv, [Next]_vars, NEW m \in Messages, Kept(m)
    PROVE  Kept(m)'
<1> USE DEF LossInv
<1>1. CASE UNCHANGED <<rpc_queue, row, answered>>
  BY <1>1 DEF Kept, Exhausted
<1>2. ASSUME NEW r \in Requests, HandlerStep(r)
      PROVE  Kept(m)'
  <2>1. answered \subseteq answered'
    BY <1>2, LabelFrame
  <2>2. Exhausted(m) => Exhausted(m)'
    <3>1. row'[m].send_count >= row[m].send_count
      BY <1>2, RowFrame
    <3>2. row[m].send_count \in Int /\ row'[m].send_count \in Int
      BY TypeStep, DbAssumption DEF TypeInv, TypeOK, DbTypeOK, Rows, SendCounts
    <3> QED BY <3>1, <3>2, DbAssumption DEF Exhausted
  <2>3. ASSUME m \in rpc_queue, m \notin rpc_queue'
        PROVE  m \in answered \/ Exhausted(m)
    <3>1. \/ pc[r] = "delete" /\ m = sessions[sess[r]].ActiveRPC
          \/ pc[r] = "drop" /\ m = out[r]
      BY <1>2, <2>3, DeleteFrame
    <3> QED BY <3>1 DEF DeletesAnswered, DropsExhausted
  <2> QED BY <2>1, <2>2, <2>3 DEF Kept
<1>3. ASSUME NEW d \in Devices, NEW n \in Messages, Enqueue(d, n)
      PROVE  Kept(m)'
  <2>1. /\ rpc_queue' = rpc_queue \cup {n} /\ answered' = answered
        /\ m # n => row'[m] = row[m]
    BY <1>3 DEF Enqueue, QueueRPC, historyVars, TypeInv, TypeOK, DbTypeOK
  <2> QED BY <2>1 DEF Kept, Exhausted
<1>4. ASSUME NEW r \in Requests, Receive(r)
      PROVE  UNCHANGED <<rpc_queue, row, answered>>
  BY <1>4, ArrivalFrame DEF dbVars, historyVars
<1> QED BY <1>1, <1>2, <1>3, <1>4 DEF Next, PostStep, Crash, Restart, vars, dbVars,
     historyVars

LEMMA KeptInit == ApiInit => KeptInv
<1> SUFFICES ASSUME ApiInit PROVE KeptInv
  OBVIOUS
<1>1. LossInv
  BY SerialInit DEF ApiInit, SerialInv
<1> QED BY <1>1, CallsInit DEF ApiInit, KeptInv, IdleCalls

LEMMA KeptStep ==
    ASSUME OverlappingPosts = FALSE, KeptInv, [ApiNext]_allVars
    PROVE  KeptInv'
<1> USE DEF KeptInv
<1>1. [Next]_vars
  BY ApiRefines
<1>2. LossInv' /\ CallsInv'
  BY <1>1, LossStep, CallsStep
<1>3. accepted \subseteq Messages
      /\ \A c \in Calls : callPc[c] # "idle" => call[c].id \in Messages
  BY DEF CallsInv, ApiTypeOK, CallsFit
<1>4. \A m \in Messages : Kept(m) => Kept(m)'
  BY <1>1, KeptStays
<1>5. ASSUME NEW c \in Calls, CallStep(c)
      PROVE  KeptInv'
  <2>1. /\ \A e \in Calls : e # c => callPc'[e] = callPc[e] /\ call'[e] = call[e]
        /\ \/ ReceiveCall(c)
           \/ callPc'[c] = "idle" /\ call'[c] = NoCall
           \/ callPc'[c] = "lookUp" /\ call'[c] = call[c] /\ QueueCall(c)
           \/ /\ callPc'[c] \in {"check", "connect"} /\ call'[c] = call[c]
              /\ callPc[c] \in {"lookUp", "check"}
        /\ accepted' = accepted \/ /\ accepted' = accepted \cup {call[c].id}
                                   /\ QueueCall(c) \/ callPc[c] \in {"lookUp", "check", "connect"}
    BY <1>5, CallFrame
  <2>2. ReceiveCall(c) => callPc'[c] = "queue" /\ accepted' = accepted
    BY DEF ReceiveCall, CallsInv, ApiTypeOK
  <2>3. PICK m : m = call[c].id
    OBVIOUS
  <2>4. QueueCall(c) => Kept(m)'
    BY <2>3 DEF QueueCall, QueueRPC, Kept
  <2>5. callPc[c] \in {"lookUp", "check", "connect"} => Kept(m)'
    BY <1>3, <1>4, <2>3
  <2>6. ASSUME NEW n \in accepted'
        PROVE  Kept(n)'
    BY <1>3, <1>4, <2>1, <2>3, <2>4, <2>5, <2>6
  <2>7. ASSUME NEW e \in Calls, callPc'[e] \in {"lookUp", "check", "connect"}
        PROVE  Kept(call[e].id)'
    <3>1. PICK n : n = call'[e].id
      OBVIOUS
    <3>2. Kept(n)'
      BY <1>3, <1>4, <2>1, <2>2, <2>3, <2>4, <2>5, <2>7, <3>1
    <3> QED BY <3>1, <3>2 DEF Kept, Exhausted
  <2> QED BY <1>2, <2>6, <2>7
<1>6. CASE UNCHANGED apiVars
  BY <1>2, <1>3, <1>4, <1>6 DEF apiVars, callVars
<1>7. CASE CrashAll
  BY <1>2, <1>3, <1>4, <1>7 DEF CrashAll, IdleCalls
<1> QED BY <1>5, <1>6, <1>7 DEF ApiNext, allVars

\* A caller that got 202 has its RPC in the database until a response settled it
\* or it was fetched too often, through every crash and every lost session.
THEOREM AcceptedStays == OverlappingPosts = FALSE => (ApiSpec => []AcceptedIsDurable)
<1> SUFFICES ASSUME OverlappingPosts = FALSE PROVE ApiSpec => []AcceptedIsDurable
  OBVIOUS
<1>1. KeptInv /\ [ApiNext]_allVars => KeptInv'
  BY KeptStep
<1>2. KeptInv => AcceptedIsDurable
  BY DEF KeptInv, Kept, AcceptedIsDurable
<1> QED BY <1>1, <1>2, KeptInit, PTL DEF ApiSpec

\* A connection request goes out after the RPC is in the database, whatever the
\* sessions of the device do meanwhile.
THEOREM RequestsFollow == OverlappingPosts = FALSE => (ApiSpec => []RequestFollowsQueueing)
<1> SUFFICES ASSUME OverlappingPosts = FALSE PROVE ApiSpec => []RequestFollowsQueueing
  OBVIOUS
<1>1. KeptInv /\ [ApiNext]_allVars => KeptInv'
  BY KeptStep
<1>2. KeptInv => RequestFollowsQueueing
  BY DEF KeptInv, Kept, RequestFollowsQueueing
<1> QED BY <1>1, <1>2, KeptInit, PTL DEF ApiSpec

-----------------------------------------------------------------------------
(* What the lookup of the session is worth. *)

\* What a call found in the table has been a session since, if an ended one.
FoundInv == /\ SerialInv /\ CallsInv
            /\ \A c \in Calls :
                  callPc[c] = "check" => /\ sessionInfo[c] \in Sessions
                                         /\ sessions[sessionInfo[c]].SessionState # "NEW"

\* Nothing but a crash makes a session new again.
LEMMA NewIsNew ==
    ASSUME TypeInv, PostStep, NEW s \in Sessions, sessions[s].SessionState # "NEW"
    PROVE  sessions'[s].SessionState # "NEW"
<1>1. ASSUME NEW r \in Requests, Receive(r)
      PROVE  sessions'[s].SessionState # "NEW"
  BY <1>1 DEF Receive, ReceiveEmptyPost, ReceiveMessage, ReceiveInSession, ReceiveBroken,
     ReceiveInform, sessionVars, TypeInv, TypeOK
<1> QED BY <1>1, RestFrame DEF PostStep

LEMMA FoundInit == ApiInit => FoundInv
BY CallsInit, SerialInit DEF ApiInit, FoundInv, IdleCalls

LEMMA FoundStep ==
    ASSUME OverlappingPosts = FALSE, FoundInv, [ApiNext]_allVars
    PROVE  FoundInv'
<1> USE DEF FoundInv
<1>1. SerialInv' /\ CallsInv'
  BY ApiRefines, SerialStep, CallsStep
<1>2. TypeInv
  BY DEF SerialInv, LossInv
<1> SUFFICES ASSUME NEW c \in Calls, callPc'[c] = "check"
             PROVE  /\ sessionInfo'[c] \in Sessions
                    /\ sessions'[sessionInfo'[c]].SessionState # "NEW"
  BY <1>1
<1>3. CASE LookUpFinds(c)
  <2>1. PICK s : s = DeviceIdStringActiveSessions[call[c].dev]
    OBVIOUS
  <2>2. /\ sessionInfo'[c] = s /\ s # NoSession /\ sessions' = sessions
        /\ callPc[c] # "idle"
    BY <1>3, <2>1 DEF LookUpFinds, vars, sessionVars, CallsInv, ApiTypeOK
  <2>3. call[c].dev \in Devices
    BY <2>2 DEF CallsInv, CallsFit
  <2>4. /\ s \in Sessions
        /\ \/ s \in SessionIdActiveSessions
           \/ \E r \in Requests : pc[r] = "unmapDevice" /\ sess[r] = s
    BY <1>2, <2>1, <2>2, <2>3 DEF CallsInv, RestInv, NoOrphanedEntry, TypeInv, TypeOK
  <2>5. sessions[s].SessionState # "NEW"
    BY <2>4 DEF CallsInv, RestInv, AtRest, SerialInv, HandlerFits
  <2> QED BY <2>2, <2>4, <2>5
<1>4. ASSUME NEW e \in Calls, CallStep(e), ~LookUpFinds(c)
      PROVE  /\ callPc[c] = "check" /\ sessionInfo'[c] = sessionInfo[c]
             /\ sessions' = sessions
  <2>1. sessions' = sessions
    BY <1>4, CallRefines DEF vars, sessionVars, Enqueue
  <2>2. CASE e = c
    BY <1>4, <2>2 DEF CallStep, ReceiveCall, QueueCall, QueueCallFails, LookUpFindsNone,
       CheckActive, CheckTerminated, ConnectionRequest, ConnectionRequestFails, CallGoto,
       Reply, ReplyAccepted, CallsInv, ApiTypeOK
  <2>3. CASE e # c
    <3>1. /\ callPc \in [Calls -> CallLabels]
          /\ sessionInfo \in [Calls -> Sessions \cup {NoSession}]
      BY DEF CallsInv, ApiTypeOK
    <3>2. callPc'[c] = callPc[c]
      BY <1>4, <2>3, <3>1 DEF CallStep, ReceiveCall, QueueCall, QueueCallFails,
         LookUpFinds, LookUpFindsNone, CheckActive, CheckTerminated, ConnectionRequest,
         ConnectionRequestFails, CallGoto, Reply, ReplyAccepted
    <3>3. sessionInfo'[c] = sessionInfo[c]
      <4>1. CASE ReceiveCall(e) \/ LookUpFindsNone(e) \/ CheckTerminated(e)
        BY <4>1 DEF ReceiveCall, LookUpFindsNone, CheckTerminated, CallGoto
      <4>2. CASE \/ QueueCallFails(e) \/ CheckActive(e)
                 \/ ConnectionRequest(e) \/ ConnectionRequestFails(e)
        BY <2>3, <3>1, <4>2 DEF QueueCallFails, CheckActive, ConnectionRequest,
           ConnectionRequestFails, Reply, ReplyAccepted
      <4>3. CASE QueueCall(e) \/ LookUpFinds(e)
        BY <2>3, <3>1, <4>3 DEF QueueCall, LookUpFinds, CallGoto, Reply, ReplyAccepted
      <4> QED BY <1>4, <4>1, <4>2, <4>3 DEF CallStep
    <3> QED BY <2>1, <3>2, <3>3
  <2> QED BY <2>1, <2>2, <2>3
<1>5. CASE PostStep /\ UNCHANGED apiVars
  BY <1>2, <1>5, NewIsNew DEF apiVars, callVars
<1>6. CASE CrashAll
  BY <1>6 DEF CrashAll, IdleCalls
<1>7. CASE UNCHANGED allVars
  BY <1>7 DEF allVars, vars, sessionVars, apiVars, callVars
<1> QED BY <1>3, <1>4, <1>5, <1>6, <1>7 DEF ApiNext

\* A session that ApiHandler finds, and then finds not TERMINATED, is still in the
\* table by id: a handler writes TERMINATED before it takes the session out of
\* either table, so what is found between the two deletes reads as ended.
THEOREM FoundIsOpen == OverlappingPosts = FALSE => (ApiSpec => []ActiveFoundIsRegistered)
<1> SUFFICES ASSUME OverlappingPosts = FALSE PROVE ApiSpec => []ActiveFoundIsRegistered
  OBVIOUS
<1>1. FoundInv /\ [ApiNext]_allVars => FoundInv'
  BY FoundStep
<1>2. FoundInv => ActiveFoundIsRegistered
  BY DEF FoundInv, SerialInv, SessionFits, ActiveFoundIsRegistered
<1> QED BY <1>1, <1>2, FoundInit, PTL DEF ApiSpec
=============================================================================
