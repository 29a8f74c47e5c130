---------------------------- MODULE CwmpSessions ----------------------------
(***************************************************************************)
(* CWMP sessions: the handler of POST /cwmp (controllers/                  *)
(* cwmp_controller.go) over the two global session tables (session/        *)
(* session.go) and the database.                                           *)
(*                                                                         *)
(* net/http runs each POST in a goroutine of its own; Requests is a set of *)
(* slots for the POSTs in progress and pc[r] says where the handler in     *)
(* slot r stands.  One action runs from one blocking call, or one access   *)
(* to data another goroutine can change, to the next.  Nothing locks the   *)
(* tables or a SessionInfo, so two accesses are two actions; a database    *)
(* call is one with the reads of its arguments.                            *)
(***************************************************************************)
EXTENDS AcsDb

CONSTANTS
    Sessions,         \* SessionInfo values; one is reused once nothing refers to it
    Requests,         \* slots for POSTs in progress
    NoSession,        \* nil *SessionInfo
    NoMessage,        \* nil CwmpMessageInterface
    Cancelled,        \* a context whose request is over
    OverlappingPosts  \* may a CPE post in a session before its last POST was answered?

ASSUME SessionAssumption ==
    /\ OverlappingPosts \in BOOLEAN
    /\ IsFiniteSet(Requests)
    /\ NoSession \notin Sessions
    /\ NoMessage \notin Messages
    /\ Cancelled \notin Requests

VARIABLES
    sessions,                      \* the SessionInfo structs
    SessionIdActiveSessions,       \* ids registered in the table by session id
    DeviceIdStringActiveSessions,  \* the table by device: a session or NoSession
    pc,                            \* where the handler in each slot stands
    post,                          \* the POST it handles
    sess,                          \* its local variable sessionInfo
    out,                           \* its local variable outgoingMsg
    answered,                      \* history: ids whose response matched ActiveRPC
    transmissions                  \* history: how often each RPC was written to a CPE

sessionVars == <<sessions, SessionIdActiveSessions, DeviceIdStringActiveSessions>>
handlerVars == <<pc, post, sess, out>>
historyVars == <<answered, transmissions>>
vars == <<dbVars, sessionVars, handlerVars, historyVars>>

-----------------------------------------------------------------------------

States == {"NEW", "INITIATING", "RECEIVING_CPE_RPCS", "SENDING_ACS_RPCS", "TERMINATED"}

\* The iota constants.
Ordinal == [NEW |-> 0, INITIATING |-> 1, RECEIVING_CPE_RPCS |-> 2,
            SENDING_ACS_RPCS |-> 3, TERMINATED |-> 4]

SessionInfos == [DeviceIdString : Devices \cup {NoDevice},
                 SessionState   : States,
                 Context        : Requests \cup {Cancelled},
                 ActiveRPC      : Messages \cup {NoMessage}]

\* What a POST carries, as far as the handler tells POSTs apart.  "Rejected"
\* is a message other than Inform whose parser or the lack of one reports an
\* error, "BadHeader" one whose CWMP header fails isHeaderValidForMessageType
\* and "NoChild" an envelope with an empty Body.  A POST that is answered
\* before the handler reads or writes anything shared (malformed XML, a bad
\* namespace map, an Inform that does not parse, an unknown cookie on
\* anything but an Inform) changes nothing and has no action.
Posts == [kind : {"None", "Empty", "GetRPCMethods", "Rejected", "BadHeader", "NoChild"}]
         \cup [kind : {"Inform"}, dev : Devices, boot : BOOLEAN, url : Urls]
         \cup [kind : {"Response"}, id : Messages]

NoPost == [kind |-> "None"]

Labels == {"idle", "emptyCheck", "emptyAccept", "emptyContext", "addDevice",
           "isRegistered", "updateDevice", "informReply", "stateCheck", "context",
           "match", "compare", "delete", "clear", "fetch", "drop", "assign", "send",
           "terminate", "unmapId", "unmapDevice",
           "nilSession", "nilActiveRPC", "noBodyChild"}

\* The labels at which a handler panics; net/http recovers it.
PanicLabels == {"nilSession", "nilActiveRPC", "noBodyChild"}

\* The labels at which a handler calls the database under sessionInfo.Context.
DbLabels == {"addDevice", "isRegistered", "updateDevice", "delete", "fetch", "drop"}

TypeOK ==
    /\ DbTypeOK
    /\ sessions \in [Sessions -> SessionInfos]
    /\ SessionIdActiveSessions \subseteq Sessions
    /\ DeviceIdStringActiveSessions \in [Devices -> Sessions \cup {NoSession}]
    /\ pc \in [Requests -> Labels]
    /\ post \in [Requests -> Posts]
    /\ sess \in [Requests -> Sessions \cup {NoSession}]
    /\ out \in [Requests -> Messages \cup {NoMessage}]
    /\ answered \subseteq Messages
    /\ transmissions \in [Messages -> Nat]

\* CreateNewSession.
NewSession == [DeviceIdString |-> NoDevice, SessionState |-> "NEW",
               Context |-> Cancelled, ActiveRPC |-> NoMessage]

\* No session, no handler: the memory of a process that has just started.
NewSessions == [s \in Sessions |-> NewSession]
NoEntries == [d \in Devices |-> NoSession]
Idle == [r \in Requests |-> "idle"]
NoPosts == [r \in Requests |-> NoPost]
NoSess == [r \in Requests |-> NoSession]
NoOut == [r \in Requests |-> NoMessage]

Init ==
    /\ DbInit
    /\ sessions = NewSessions
    /\ SessionIdActiveSessions = {}
    /\ DeviceIdStringActiveSessions = NoEntries
    /\ pc = Idle /\ post = NoPosts /\ sess = NoSess /\ out = NoOut
    /\ answered = {}
    /\ transmissions = [m \in Messages |-> 0]

-----------------------------------------------------------------------------
(* How a handler moves on. *)

At(r, label) == pc[r] = label

Goto(r, label) == pc' = [pc EXCEPT ![r] = label]

\* The database refuses a statement under a cancelled context.
DbReachable(r) == sessions[sess[r]].Context # Cancelled

\* The handler of r returns (or its panic was recovered): net/http cancels
\* the request's context, and with it the Context of a session that holds it.
Return(r, infos) ==
    /\ pc' = [pc EXCEPT ![r] = "idle"]
    /\ post' = [post EXCEPT ![r] = NoPost]
    /\ sess' = [sess EXCEPT ![r] = NoSession]
    /\ out' = [out EXCEPT ![r] = NoMessage]
    /\ sessions' = [s \in Sessions |-> IF infos[s].Context = r
                                        THEN [infos[s] EXCEPT !.Context = Cancelled]
                                        ELSE infos[s]]

UnchangedTables == UNCHANGED <<SessionIdActiveSessions, DeviceIdStringActiveSessions>>

-----------------------------------------------------------------------------
(* A POST arrives. *)

\* The CPE got the cookie with the InformResponse and got that only when its
\* handler had returned, so it can name the sessions past INITIATING.  A CPE
\* that keeps to the protocol awaits the answer to a POST before the next one.
MayPost(s) ==
    /\ s \in SessionIdActiveSessions
    /\ sessions[s].SessionState \notin {"NEW", "INITIATING"}
    /\ OverlappingPosts \/ \A r \in Requests : sess[r] # s

\* Cookie, body and the lookup in SessionIdActiveSessions.
ReceiveInSession(r, s, p, label) ==
    /\ At(r, "idle") /\ MayPost(s)
    /\ Goto(r, label)
    /\ post' = [post EXCEPT ![r] = p]
    /\ sess' = [sess EXCEPT ![r] = s]
    /\ UNCHANGED <<dbVars, sessionVars, out, historyVars>>

ReceiveEmptyPost(r) ==
    \E s \in Sessions : ReceiveInSession(r, s, [kind |-> "Empty"], "emptyCheck")

ReceiveMessage(r) ==
    \E s \in Sessions, p \in [kind : {"GetRPCMethods", "Rejected"}]
                             \cup [kind : {"Response"}, id : Messages] :
        ReceiveInSession(r, s, p, "stateCheck")

\* The Body's first child is read before anything else of the message, and
\* the header is checked before the session is looked up: sessionInfo is nil
\* whatever the cookie was.
ReceiveBroken(r) ==
    /\ At(r, "idle")
    /\ \/ post' = [post EXCEPT ![r] = [kind |-> "NoChild"]] /\ Goto(r, "noBodyChild")
       \/ post' = [post EXCEPT ![r] = [kind |-> "BadHeader"]] /\ Goto(r, "nilSession")
    /\ UNCHANGED <<dbVars, sessionVars, sess, out, historyVars>>

\* A SessionInfo nothing refers to, standing for the one CreateNewSession makes.
Unreferenced(s) ==
    /\ s \notin SessionIdActiveSessions
    /\ \A r \in Requests : sess[r] # s

\* An Inform always sets up a new session, whatever its cookie, and registers
\* it in both tables; the device's entry is overwritten.  The id, written first,
\* is a fresh uuid no POST can name yet, so that the two writes are one action.
ReceiveInform(r) ==
    /\ At(r, "idle")
    /\ \E s \in Sessions, d \in Devices, boot \in BOOLEAN, url \in Urls :
        /\ Unreferenced(s)
        /\ Goto(r, IF boot THEN "addDevice" ELSE "isRegistered")
        /\ post' = [post EXCEPT ![r] =
                       [kind |-> "Inform", dev |-> d, boot |-> boot, url |-> url]]
        /\ sess' = [sess EXCEPT ![r] = s]
        /\ sessions' = [sessions EXCEPT ![s] =
                           [DeviceIdString |-> d, SessionState |-> "INITIATING",
                            Context |-> r, ActiveRPC |-> NoMessage]]
        /\ SessionIdActiveSessions' = SessionIdActiveSessions \cup {s}
        /\ DeviceIdStringActiveSessions' = [DeviceIdStringActiveSessions EXCEPT ![d] = s]
    /\ UNCHANGED <<dbVars, out, historyVars>>

-----------------------------------------------------------------------------
(* processInformRequest. *)

AddDevice(r) ==
    /\ At(r, "addDevice") /\ DbReachable(r)
    /\ AddDeviceRow(post[r].dev, post[r].url)
    /\ Goto(r, "informReply")
    /\ UNCHANGED <<sessionVars, post, sess, out, historyVars>>

IsDeviceRegistered(r) ==
    /\ At(r, "isRegistered") /\ DbReachable(r)
    /\ Registered(post[r].dev)
    /\ Goto(r, "updateDevice")
    /\ UNCHANGED <<dbVars, sessionVars, post, sess, out, historyVars>>

UpdateDevice(r) ==
    /\ At(r, "updateDevice") /\ DbReachable(r)
    /\ UpdateDeviceRow(post[r].dev, post[r].url)
    /\ Goto(r, "informReply")
    /\ UNCHANGED <<sessionVars, post, sess, out, historyVars>>

\* A device without a row, or a database error, is answered with a Fault.  The
\* session stays registered in both tables.
InformFault(r) ==
    /\ \/ At(r, "isRegistered")
       \/ At(r, "addDevice")
       \/ At(r, "updateDevice")
    /\ Return(r, sessions)
    /\ UnchangedTables
    /\ UNCHANGED <<dbVars, historyVars>>

\* The InformResponse with its cookie is written, then the state changes.
SendInformResponse(r) ==
    /\ At(r, "informReply")
    /\ Return(r, [sessions EXCEPT ![sess[r]].SessionState = "RECEIVING_CPE_RPCS"])
    /\ UnchangedTables
    /\ UNCHANGED <<dbVars, historyVars>>

-----------------------------------------------------------------------------
(* Empty POSTs. *)

\* The test of SessionState that decides what an empty POST does.
CheckEmptyPost(r) ==
    /\ At(r, "emptyCheck")
    /\ Goto(r, IF sessions[sess[r]].SessionState = "RECEIVING_CPE_RPCS"
               THEN "emptyAccept" ELSE "terminate")
    /\ UNCHANGED <<dbVars, sessionVars, post, sess, out, historyVars>>

\* The CPE is done; the session turns to the RPCs of the ACS.
AcceptEmptyPost(r) ==
    /\ At(r, "emptyAccept")
    /\ sessions' = [sessions EXCEPT ![sess[r]].SessionState = "SENDING_ACS_RPCS"]
    /\ Goto(r, "emptyContext")
    /\ UnchangedTables
    /\ UNCHANGED <<dbVars, post, sess, out, historyVars>>

WithContext(r) == [sessions EXCEPT ![sess[r]].Context = r]

ContinueEmptyPost(r) ==
    /\ At(r, "emptyContext")
    /\ sessions' = WithContext(r)
    /\ Goto(r, "fetch")
    /\ UnchangedTables
    /\ UNCHANGED <<dbVars, post, sess, out, historyVars>>

-----------------------------------------------------------------------------
(* Messages in a session. *)

\* The session must be RECEIVING_CPE_RPCS or SENDING_ACS_RPCS.  If it is not,
\* the error travels with a nil session to sendOutgoingMsg.
CheckSessionState(r) ==
    /\ At(r, "stateCheck")
    /\ Goto(r, IF sessions[sess[r]].SessionState
                     \in {"RECEIVING_CPE_RPCS", "SENDING_ACS_RPCS"}
               THEN "context" ELSE "nilSession")
    /\ UNCHANGED <<dbVars, sessionVars, post, sess, out, historyVars>>

\* Mutant: the test for "InformResponse" after sendOutgoingMsg is dropped.
AnswerAtOnce_Reopens(r) ==
    /\ At(r, "context")
    /\ post[r].kind \in {"GetRPCMethods", "Rejected"}
    /\ Return(r, [sessions EXCEPT ![sess[r]].SessionState = "RECEIVING_CPE_RPCS"])
    /\ UnchangedTables
    /\ UNCHANGED <<dbVars, historyVars>>

\* GetRPCMethods gets its response, a message that does not parse a fault, a
\* 400 or a 500: nothing but Context changes.
AnswerAtOnce(r) ==
    /\ At(r, "context")
    /\ post[r].kind \in {"GetRPCMethods", "Rejected"}
    /\ Return(r, WithContext(r))
    /\ UnchangedTables
    /\ UNCHANGED <<dbVars, historyVars>>

\* Mutant: the session keeps the Context of its previous POST.
AcceptResponse_OldContext(r) ==
    /\ At(r, "context")
    /\ post[r].kind = "Response"
    /\ Goto(r, "match")
    /\ UNCHANGED <<dbVars, sessionVars, post, sess, out, historyVars>>

AcceptResponse(r) ==
    /\ At(r, "context")
    /\ post[r].kind = "Response"
    /\ sessions' = WithContext(r)
    /\ Goto(r, "match")
    /\ UnchangedTables
    /\ UNCHANGED <<dbVars, post, sess, out, historyVars>>

\* processIncomingResponse: is there an active RPC?
MatchResponse(r) ==
    /\ At(r, "match")
    /\ Goto(r, IF sessions[sess[r]].ActiveRPC = NoMessage THEN "fetch" ELSE "compare")
    /\ UNCHANGED <<dbVars, sessionVars, post, sess, out, historyVars>>

\* Mutant: the id of the response is not compared.
CompareResponse_AnyId(r) ==
    /\ At(r, "compare")
    /\ sessions[sess[r]].ActiveRPC # NoMessage
    /\ Goto(r, "delete") /\ answered' = answered \cup {post[r].id}
    /\ UNCHANGED <<dbVars, sessionVars, post, sess, out, transmissions>>

\* The second operand of the test reads ActiveRPC again, for its id.
CompareResponse(r) ==
    /\ At(r, "compare")
    /\ sessions[sess[r]].ActiveRPC # NoMessage
    /\ IF sessions[sess[r]].ActiveRPC = post[r].id
       THEN Goto(r, "delete") /\ answered' = answered \cup {post[r].id}
       ELSE Goto(r, "fetch") /\ UNCHANGED answered
    /\ UNCHANGED <<dbVars, sessionVars, post, sess, out, transmissions>>

\* DeleteQueuedRPC(..., sessionInfo.ActiveRPC.GetID()) reads it a third time.
DeleteAnswered(r) ==
    /\ At(r, "delete") /\ DbReachable(r)
    /\ sessions[sess[r]].ActiveRPC # NoMessage
    /\ DeleteQueuedRPC(sessions[sess[r]].ActiveRPC)
    /\ Goto(r, "clear")
    /\ UNCHANGED <<sessionVars, post, sess, out, historyVars>>

\* The error of that call is not looked at.
DeleteAnsweredFails(r) ==
    /\ At(r, "delete")
    /\ sessions[sess[r]].ActiveRPC # NoMessage
    /\ Goto(r, "clear")
    /\ UNCHANGED <<dbVars, sessionVars, post, sess, out, historyVars>>

\* Another handler has cleared ActiveRPC since it was last read: GetID on nil.
ActiveRPCIsGone(r) ==
    /\ At(r, "compare") \/ At(r, "delete")
    /\ sessions[sess[r]].ActiveRPC = NoMessage
    /\ Goto(r, "nilActiveRPC")
    /\ UNCHANGED <<dbVars, sessionVars, post, sess, out, historyVars>>

ClearActiveRPC(r) ==
    /\ At(r, "clear")
    /\ sessions' = [sessions EXCEPT ![sess[r]].ActiveRPC = NoMessage]
    /\ Goto(r, "fetch")
    /\ UnchangedTables
    /\ UNCHANGED <<dbVars, post, sess, out, historyVars>>

-----------------------------------------------------------------------------
(* findOutgoingRpc. *)

\* The head row of the device's queue, to be sent or, once it was fetched too
\* often, to be dropped.
FetchRow(r) ==
    /\ At(r, "fetch") /\ DbReachable(r)
    /\ \E m \in Messages :
        /\ IsHead(sessions[sess[r]].DeviceIdString, m)
        /\ FetchQueuedRPC(m)
        /\ out' = [out EXCEPT ![r] = m]
        /\ Goto(r, IF Exhausted(m) THEN "drop" ELSE "assign")
    /\ UNCHANGED <<sessionVars, post, sess, historyVars>>

\* The row is counted but does not build: nil, as if there were none.  Rows of
\* this version of the program always build (AcceptedCallIsSent in
\* CwmpExchange); a database can hold others.
FetchUnbuildable(r) ==
    /\ At(r, "fetch") /\ DbReachable(r)
    /\ \E m \in Messages :
        /\ IsHead(sessions[sess[r]].DeviceIdString, m)
        /\ ~ Exhausted(m)
        /\ FetchQueuedRPC(m)
    /\ out' = [out EXCEPT ![r] = NoMessage]
    /\ Goto(r, "assign")
    /\ UNCHANGED <<sessionVars, post, sess, historyVars>>

\* No row, or a database error: both mean "nothing to send".
FetchNothing(r) ==
    /\ At(r, "fetch")
    /\ out' = [out EXCEPT ![r] = NoMessage]
    /\ Goto(r, "assign")
    /\ UNCHANGED <<dbVars, sessionVars, post, sess, historyVars>>

\* Mutant: the loop goes on without deleting the row.
DropRow_Keeps(r) ==
    /\ At(r, "drop") /\ DbReachable(r)
    /\ Goto(r, "fetch")
    /\ UNCHANGED <<dbVars, sessionVars, post, sess, out, historyVars>>

DropRow(r) ==
    /\ At(r, "drop") /\ DbReachable(r)
    /\ DeleteQueuedRPC(out[r])
    /\ Goto(r, "fetch")
    /\ UNCHANGED <<sessionVars, post, sess, out, historyVars>>

\* The error of that call is not looked at either.
DropRowFails(r) ==
    /\ At(r, "drop")
    /\ Goto(r, "fetch")
    /\ UNCHANGED <<dbVars, sessionVars, post, sess, out, historyVars>>

-----------------------------------------------------------------------------
(* The answer to an empty POST or to a response. *)

\* Mutant: what is sent is not remembered as the RPC in flight.
AssignActiveRPC_Forgets(r) ==
    /\ At(r, "assign")
    /\ Goto(r, IF out[r] = NoMessage THEN "terminate" ELSE "send")
    /\ UNCHANGED <<dbVars, sessionVars, post, sess, out, historyVars>>

AssignActiveRPC(r) ==
    /\ At(r, "assign")
    /\ sessions' = [sessions EXCEPT ![sess[r]].ActiveRPC = out[r]]
    /\ Goto(r, IF out[r] = NoMessage THEN "terminate" ELSE "send")
    /\ UnchangedTables
    /\ UNCHANGED <<dbVars, post, sess, out, historyVars>>

SendRpc(r) ==
    /\ At(r, "send")
    /\ transmissions' = [transmissions EXCEPT ![out[r]] = @ + 1]
    /\ Return(r, sessions)
    /\ UnchangedTables
    /\ UNCHANGED <<dbVars, answered>>

\* Mutant: the assignment of TERMINATED is missing.
TerminateSession_KeepsState(r) ==
    /\ At(r, "terminate")
    /\ Goto(r, "unmapId")
    /\ UNCHANGED <<dbVars, sessionVars, post, sess, out, historyVars>>

\* Also the end of a session that got an empty POST at the wrong time.
TerminateSession(r) ==
    /\ At(r, "terminate")
    /\ sessions' = [sessions EXCEPT ![sess[r]].SessionState = "TERMINATED"]
    /\ Goto(r, "unmapId")
    /\ UnchangedTables
    /\ UNCHANGED <<dbVars, post, sess, out, historyVars>>

\* Mutant: the first of the two deletes is missing.
UnmapSessionId_Keeps(r) ==
    /\ At(r, "unmapId")
    /\ Goto(r, "unmapDevice")
    /\ UNCHANGED <<dbVars, sessionVars, post, sess, out, historyVars>>

\* The session leaves the table by id: no POST finds it any more.
UnmapSessionId(r) ==
    /\ At(r, "unmapId")
    /\ SessionIdActiveSessions' = SessionIdActiveSessions \ {sess[r]}
    /\ Goto(r, "unmapDevice")
    /\ UNCHANGED <<dbVars, sessions, DeviceIdStringActiveSessions, post, sess, out,
                   historyVars>>

\* Mutant: the second is missing.
UnmapDevice_Keeps(r) ==
    /\ At(r, "unmapDevice")
    /\ Return(r, sessions)
    /\ UnchangedTables
    /\ UNCHANGED <<dbVars, historyVars>>

\* The entry of the device goes, whichever session it names.
UnmapDevice(r) ==
    /\ At(r, "unmapDevice")
    /\ DeviceIdStringActiveSessions' = [DeviceIdStringActiveSessions
                         EXCEPT ![sessions[sess[r]].DeviceIdString] = NoSession]
    /\ Return(r, sessions)
    /\ UNCHANGED <<SessionIdActiveSessions, dbVars, historyVars>>

\* net/http recovers the panic and drops the connection.
RecoverPanic(r) ==
    /\ pc[r] \in PanicLabels
    /\ Return(r, sessions)
    /\ UnchangedTables
    /\ UNCHANGED <<dbVars, historyVars>>

-----------------------------------------------------------------------------
(* The rest of the program, as far as sessions see it. *)

\* ApiHandler checks that the device has a row and queues an RPC under a
\* fresh message id; module AcsApi has its steps.
Enqueue(d, m) ==
    /\ Registered(d)
    /\ row[m].device_id = NoDevice
    /\ QueueRPC(d, m)
    /\ UNCHANGED <<sessionVars, handlerVars, historyVars>>

\* A new process: sessions and handlers are lost, the database is not.
Restart ==
    /\ sessions' = NewSessions
    /\ SessionIdActiveSessions' = {}
    /\ DeviceIdStringActiveSessions' = NoEntries
    /\ pc' = Idle /\ post' = NoPosts /\ sess' = NoSess /\ out' = NoOut
    /\ UNCHANGED <<dbVars, historyVars>>

\* Anything in memory that a crash would lose?
Busy == sessions # NewSessions \/ \E r \in Requests : pc[r] # "idle"

Crash == Busy /\ Restart

Receive(r) ==
    \/ ReceiveEmptyPost(r)
    \/ ReceiveMessage(r)
    \/ ReceiveBroken(r)
    \/ ReceiveInform(r)

HandlerStep(r) ==
    \/ AddDevice(r)
    \/ IsDeviceRegistered(r)
    \/ UpdateDevice(r)
    \/ InformFault(r)
    \/ SendInformResponse(r)
    \/ CheckEmptyPost(r)
    \/ AcceptEmptyPost(r)
    \/ ContinueEmptyPost(r)
    \/ CheckSessionState(r)
    \/ AnswerAtOnce(r)
    \/ AcceptResponse(r)
    \/ MatchResponse(r)
    \/ CompareResponse(r)
    \/ ActiveRPCIsGone(r)
    \/ DeleteAnswered(r)
    \/ DeleteAnsweredFails(r)
    \/ ClearActiveRPC(r)
    \/ FetchRow(r)
    \/ FetchUnbuildable(r)
    \/ FetchNothing(r)
    \/ DropRow(r)
    \/ DropRowFails(r)
    \/ AssignActiveRPC(r)
    \/ SendRpc(r)
    \/ TerminateSession(r)
    \/ UnmapSessionId(r)
    \/ UnmapDevice(r)
    \/ RecoverPanic(r)

PostStep == \E r \in Requests : Receive(r) \/ HandlerStep(r)

Next ==
    \/ PostStep
    \/ \E d \in Devices, m \in Messages : Enqueue(d, m)
    \/ Crash

Spec == Init /\ [][Next]_vars

\* What liveness needs.  The Go scheduler runs every handler on; a DELETE that
\* is tried again and again succeeds in the end; a CPE whose session is open
\* answers the RPC in flight rather than post other messages for ever.
CpeAnswers(s) ==
    /\ sessions[s].SessionState = "SENDING_ACS_RPCS"
    /\ sessions[s].ActiveRPC # NoMessage
    /\ \E r \in Requests :
        ReceiveInSession(r, s, [kind |-> "Response", id |-> sessions[s].ActiveRPC],
                         "stateCheck")

SchedulingFairness ==
    \A r \in Requests : WF_vars(HandlerStep(r)) /\ SF_vars(DropRow(r))

CpeFairness == \A s \in Sessions : SF_vars(CpeAnswers(s))

FairSpec == Spec /\ SchedulingFairness /\ CpeFairness

-----------------------------------------------------------------------------
(* Safety. *)

\* The two deletes at the end of a session, and the two writes of an Inform, are
\* not synchronised.  An entry by device names a session of that device that is
\* registered by id too, or else a handler is on its way to delete the entry,
\* whichever sessions of the device end or begin meanwhile: no session that no
\* CPE can post in stays behind for ApiHandler to find.
NoOrphanedEntry ==
    \A d \in Devices :
        LET s == DeviceIdStringActiveSessions[d]
        IN  s # NoSession =>
                /\ sessions[s].DeviceIdString = d
                /\ \/ s \in SessionIdActiveSessions
                   \/ \E r \in Requests : pc[r] = "unmapDevice" /\ sess[r] = s

\* No RPC is written to a CPE more than MaxSends + 1 times, whatever fails,
\* crashes or overlaps: findOutgoingRpc's give-up test counts every fetch.
BoundedRetransmission ==
    \A m \in Messages : transmissions[m] <= MaxSends + 1

\* A session only ever has an RPC in flight that was queued for its device,
\* although sessions and messages of all devices share one process and table.
DeliveredToOwner ==
    /\ \A s \in Sessions : sessions[s].ActiveRPC # NoMessage =>
           row[sessions[s].ActiveRPC].device_id = sessions[s].DeviceIdString
    /\ \A r \in Requests : out[r] # NoMessage =>
           row[out[r]].device_id = sessions[sess[r]].DeviceIdString

\* A response only settles an RPC that was written to a CPE.
AnsweredWasSent ==
    \A m \in answered : transmissions[m] > 0

\* Every database call of a handler runs under the context of its own POST,
\* never under one that another POST of the session left in sessionInfo.
ContextIsOwn ==
    \A r \in Requests : pc[r] \in DbLabels => sessions[sess[r]].Context = r

\* No order of POSTs, failed call or crash makes a handler panic: only a message
\* with a bad header or an empty Body does.
PanicsOnlyOnBadMessage ==
    \A r \in Requests :
        pc[r] \in PanicLabels => post[r].kind \in {"BadHeader", "NoChild"}

\* While no POST of it is in progress, a session that is sending RPCs has one
\* in flight: ACS and CPE never both wait for the other to speak.
SendingAwaitsResponse ==
    \A s \in SessionIdActiveSessions :
        /\ sessions[s].SessionState = "SENDING_ACS_RPCS"
        /\ \A r \in Requests : sess[r] # s
        => sessions[s].ActiveRPC # NoMessage

\* A row leaves the queue only after its response came or after it was fetched
\* more than MaxSends times: no crash, failed call or other session loses it.
NoSilentLoss ==
    [][\A m \in rpc_queue : m \notin rpc_queue' => m \in answered \/ Exhausted(m)]_vars

\* An RPC is first sent when every RPC queued earlier for its device has left
\* the queue.
InOrder ==
    [][\A m \in rpc_queue :
          transmissions[m] = 0 /\ transmissions'[m] > 0
          => \A n \in Pending(row[m].device_id) : row[m].id <= row[n].id]_vars

\* "if they match then we can clear the active RPC": a response to an RPC only
\* ever deletes the row of that RPC.
OnlyMatchedDeleted ==
    [][\A r \in Requests : \A m \in rpc_queue \ rpc_queue' :
          pc[r] = "delete" /\ pc'[r] = "clear" => m = post[r].id]_vars

\* "CWMP message parsing error - we need to return a SOAP fault": no handler
\* reaches sendOutgoingMsg with a fault and a nil session.
IncomingErrorGetsFault == \A r \in Requests : pc[r] # "nilSession"

\* A session registered before and after a step moves forward through its
\* states or stays; none comes back once terminated.
StateOrder ==
    [][\A s \in SessionIdActiveSessions \cap SessionIdActiveSessions' :
          Ordinal[sessions[s].SessionState] <= Ordinal[sessions'[s].SessionState]]_vars

-----------------------------------------------------------------------------
(* Liveness. *)

\* "For now we'll let the automated session cleaner eventually handle this":
\* a session whose device has begun another one leaves the tables in the end.
OldSessionIsCleaned ==
    \A s \in Sessions :
        /\ s \in SessionIdActiveSessions
        /\ DeviceIdStringActiveSessions[sessions[s].DeviceIdString] \notin {s, NoSession}
        ~> s \notin SessionIdActiveSessions

\* Every handler returns: the loop of findOutgoingRpc over rows to drop ends.
HandlersReturn ==
    \A r \in Requests : pc[r] # "idle" ~> pc[r] = "idle"

\* A session that is sending RPCs to a CPE that answers them ends, even when
\* answers fail to delete their rows: send_count bounds the resending.
SendingEnds ==
    \A s \in Sessions :
        (s \in SessionIdActiveSessions /\ sessions[s].SessionState = "SENDING_ACS_RPCS")
            ~> s \notin SessionIdActiveSessions
=============================================================================
