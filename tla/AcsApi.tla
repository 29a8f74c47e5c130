------------------------------- MODULE AcsApi -------------------------------
(***************************************************************************)
(* The handler of POST /api (controllers/api_controller.go) beside the     *)
(* sessions: an operator hands over an RPC for a device and may ask that   *)
(* the device be contacted if it has no session.  Calls run concurrently   *)
(* with each other and with the POSTs of CPEs; they share the database and *)
(* the table DeviceIdStringActiveSessions with them.                       *)
(***************************************************************************)
EXTENDS CwmpDelivery

CONSTANTS
    Calls,       \* slots for API calls in progress
    NoUrl        \* the empty ConnectionRequestURL

ASSUME ApiAssumption == NoUrl \in Urls

VARIABLES
    callPc,      \* where the call in each slot stands
    call,        \* its request: device, fresh message id, trigger_session
    deviceInfo,  \* its local copy of the device's ConnectionRequestURL
    sessionInfo, \* its local variable of that name: the session it found
    accepted     \* history: RPCs whose caller got 202

callVars == <<callPc, call, deviceInfo, sessionInfo>>
apiVars == <<callVars, accepted>>
allVars == <<vars, apiVars>>

-----------------------------------------------------------------------------

CallLabels == {"idle", "queue", "lookUp", "check", "connect"}

NoCall == [dev |-> NoDevice, id |-> NoMessage, trigger |-> FALSE]

ApiTypeOK ==
    /\ TypeOK
    /\ callPc \in [Calls -> CallLabels]
    /\ call \in [Calls -> [dev : Devices \cup {NoDevice}, id : Messages \cup {NoMessage},
                           trigger : BOOLEAN]]
    /\ deviceInfo \in [Calls -> Urls]
    /\ sessionInfo \in [Calls -> Sessions \cup {NoSession}]
    /\ accepted \subseteq Messages

IdleCalls == [c \in Calls |-> "idle"]
NoCalls == [c \in Calls |-> NoCall]
NoInfos == [c \in Calls |-> NoUrl]
NoneFound == [c \in Calls |-> NoSession]

ApiInit ==
    /\ Init
    /\ callPc = IdleCalls /\ call = NoCalls /\ deviceInfo = NoInfos
    /\ sessionInfo = NoneFound
    /\ accepted = {}

-----------------------------------------------------------------------------

CallGoto(c, label) ==
    /\ callPc' = [callPc EXCEPT ![c] = label]
    /\ UNCHANGED <<call, deviceInfo, sessionInfo>>

\* The handler of c returns.
Reply(c) ==
    /\ callPc' = [callPc EXCEPT ![c] = "idle"]
    /\ call' = [call EXCEPT ![c] = NoCall]
    /\ deviceInfo' = [deviceInfo EXCEPT ![c] = NoUrl]
    /\ sessionInfo' = [sessionInfo EXCEPT ![c] = NoSession]

\* The 202 at the end of ApiHandler.
ReplyAccepted(c) == Reply(c) /\ accepted' = accepted \cup {call[c].id}

\* newMessageID.
FreshId(m) ==
    /\ row[m].device_id = NoDevice
    /\ \A c \in Calls : call[c].id # m

\* Mutant: the lookup of the device is dropped.
ReceiveCall_AnyDevice(c) ==
    /\ callPc[c] = "idle"
    /\ \E d \in Devices, m \in Messages, trigger \in BOOLEAN :
        /\ FreshId(m)
        /\ callPc' = [callPc EXCEPT ![c] = "queue"]
        /\ call' = [call EXCEPT ![c] = [dev |-> d, id |-> m, trigger |-> trigger]]
    /\ UNCHANGED <<vars, deviceInfo, sessionInfo, accepted>>

\* A valid call: GetDeviceByID finds the device and the message is built.  A
\* call that fails here is answered with an error and changes nothing.
ReceiveCall(c) ==
    /\ callPc[c] = "idle"
    /\ \E d \in Devices, m \in Messages, trigger \in BOOLEAN :
        /\ Registered(d) /\ FreshId(m)
        /\ callPc' = [callPc EXCEPT ![c] = "queue"]
        /\ call' = [call EXCEPT ![c] = [dev |-> d, id |-> m, trigger |-> trigger]]
        /\ deviceInfo' = [deviceInfo EXCEPT ![c] = GetDeviceByID(d)]
    /\ UNCHANGED <<vars, sessionInfo, accepted>>

QueueCall(c) ==
    /\ callPc[c] = "queue"
    /\ QueueRPC(call[c].dev, call[c].id)
    /\ IF call[c].trigger THEN CallGoto(c, "lookUp") /\ UNCHANGED accepted
                          ELSE ReplyAccepted(c)
    /\ UNCHANGED <<sessionVars, handlerVars, historyVars>>

\* Mutants: the error of QueueRPC is not looked at, as that of DeleteQueuedRPC
\* is not: 202 at once, or on to the connection request.
QueueCallFails_Accepts(c) ==
    /\ callPc[c] = "queue"
    /\ ReplyAccepted(c)
    /\ UNCHANGED vars

QueueCallFails_Triggers(c) ==
    /\ callPc[c] = "queue"
    /\ CallGoto(c, "lookUp")
    /\ UNCHANGED <<vars, accepted>>

\* 500 "failed to enqueue message".
QueueCallFails(c) ==
    /\ callPc[c] = "queue"
    /\ Reply(c)
    /\ UNCHANGED <<vars, accepted>>

\* The entry of the device in DeviceIdStringActiveSessions, as the handlers of
\* its POSTs left it.
LookUpFinds(c) ==
    /\ callPc[c] = "lookUp"
    /\ DeviceIdStringActiveSessions[call[c].dev] # NoSession
    /\ sessionInfo' = [sessionInfo EXCEPT ![c] = DeviceIdStringActiveSessions[call[c].dev]]
    /\ callPc' = [callPc EXCEPT ![c] = "check"]
    /\ UNCHANGED <<vars, call, deviceInfo, accepted>>

LookUpFindsNone(c) ==
    /\ callPc[c] = "lookUp"
    /\ DeviceIdStringActiveSessions[call[c].dev] = NoSession
    /\ CallGoto(c, "connect")
    /\ UNCHANGED <<vars, accepted>>

\* The state of the session that was found, which may have ended since.
CheckActive(c) ==
    /\ callPc[c] = "check"
    /\ sessions[sessionInfo[c]].SessionState # "TERMINATED"
    /\ ReplyAccepted(c)
    /\ UNCHANGED vars

CheckTerminated(c) ==
    /\ callPc[c] = "check"
    /\ sessions[sessionInfo[c]].SessionState = "TERMINATED"
    /\ CallGoto(c, "connect")
    /\ UNCHANGED <<vars, accepted>>

\* sendConnectionRequest got a 2xx.  What the CPE then does is ReceiveInform.
ConnectionRequest(c) ==
    /\ callPc[c] = "connect"
    /\ deviceInfo[c] # NoUrl
    /\ ReplyAccepted(c)
    /\ UNCHANGED vars

\* No URL, no connection or no 2xx: the caller gets a 500 for an RPC that
\* stays queued.
ConnectionRequestFails(c) ==
    /\ callPc[c] = "connect"
    /\ Reply(c)
    /\ UNCHANGED <<vars, accepted>>

CallStep(c) ==
    \/ ReceiveCall(c)
    \/ QueueCall(c)
    \/ QueueCallFails(c)
    \/ LookUpFinds(c)
    \/ LookUpFindsNone(c)
    \/ CheckActive(c)
    \/ CheckTerminated(c)
    \/ ConnectionRequest(c)
    \/ ConnectionRequestFails(c)

\* The process dies with the calls in progress.
CrashAll ==
    /\ Busy \/ \E c \in Calls : callPc[c] # "idle"
    /\ Restart
    /\ callPc' = IdleCalls /\ call' = NoCalls /\ deviceInfo' = NoInfos
    /\ sessionInfo' = NoneFound
    /\ UNCHANGED accepted

\* A SessionInfo a call still refers to is not one an Inform creates.
KeepsFound == \A c \in Calls : sessionInfo[c] \notin SessionIdActiveSessions'
                                                     \ SessionIdActiveSessions

ApiNext ==
    \/ PostStep /\ KeepsFound /\ UNCHANGED apiVars
    \/ \E c \in Calls : CallStep(c)
    \/ CrashAll

ApiSpec == ApiInit /\ [][ApiNext]_allVars

-----------------------------------------------------------------------------

\* ApiHandler and CwmpHandler together do what CwmpSessions allows: between the
\* device check, the minting of the id and the INSERT of concurrent calls no
\* row of an unregistered device and no second row of an id comes about.
ImplementsSessions == Spec

\* A 202 is a promise: the RPC is in the database until a response settled it
\* or it was fetched too often, through every crash and every lost session.
AcceptedIsDurable ==
    \A m \in accepted : m \in rpc_queue \/ m \in answered \/ Exhausted(m)

\* A connection request goes out after the RPC is in the database, so that
\* the session it provokes finds it.
RequestFollowsQueueing ==
    \A c \in Calls : callPc[c] = "connect" =>
        call[c].id \in rpc_queue \cup answered \/ Exhausted(call[c].id)

\* Between the lookup and the test of its state a session may end, leave the
\* tables one by one or be superseded.  One that is then not TERMINATED, for the
\* sake of which no connection request is sent, is still registered by its id.
ActiveFoundIsRegistered ==
    \A c \in Calls :
        callPc[c] = "check" /\ sessions[sessionInfo[c]].SessionState # "TERMINATED"
        => sessionInfo[c] \in SessionIdActiveSessions

\* The device is in a session at this moment: a POST of it is being served
\* in a session that is open.
InSession(d) ==
    \E r \in Requests :
        /\ sess[r] # NoSession
        /\ sessions[sess[r]].DeviceIdString = d
        /\ sessions[sess[r]].SessionState \in {"RECEIVING_CPE_RPCS", "SENDING_ACS_RPCS"}

\* "No active session for %s, so triggering a connection request": the device
\* is not in one when ApiHandler says so.
TriggeredOnlyWithoutSession ==
    [][\A c \in Calls : callPc[c] \in {"lookUp", "check"} /\ callPc'[c] = "connect"
          => ~ InSession(call[c].dev)]_allVars

\* "No outgoing RPCs, so we're done": a session that ends after a fetch has no
\* RPC left to send.
DoneMeansNothingPending ==
    [][\A r \in Requests : pc[r] = "assign" /\ pc'[r] = "terminate"
          => Pending(sessions[sess[r]].DeviceIdString) = {}]_allVars
=============================================================================
