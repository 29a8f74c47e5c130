------------------------ MODULE CwmpSessions_proofs ------------------------
(***************************************************************************)
(* Theorems about CwmpSessions, for any number of devices, messages,       *)
(* sessions and concurrent POSTs and any send limit.  They hold however    *)
(* the POSTs of a CPE overlap; those of CwmpSerial_proofs need a CPE that  *)
(* awaits each answer.                                                     *)
(***************************************************************************)
EXTENDS CwmpSessions, FiniteSetTheorems, TLAPS

\* The labels at which a handler works on an Inform, and on a matched response.
InformLabels == {"addDevice", "isRegistered", "updateDevice"}
ResponseLabels == {"match", "compare", "delete", "clear"}

\* What a handler's label says about its POST.  TypeOK alone is not inductive:
\* AddDevice stores post[r].url, which only an Inform has.
PostFitsLabel ==
    \A r \in Requests :
        /\ pc[r] \in InformLabels => post[r].kind = "Inform"
        /\ pc[r] \in ResponseLabels => post[r].kind = "Response"

TypeInv == TypeOK /\ PostFitsLabel

-----------------------------------------------------------------------------
(* Lemmas about the values the actions are built from. *)

\* The records the actions build are POSTs.
LEMMA PostValues ==
    /\ NoPost \in Posts
    /\ [kind |-> "Empty"] \in Posts
    /\ [kind |-> "NoChild"] \in Posts
    /\ [kind |-> "BadHeader"] \in Posts
    /\ [kind : {"GetRPCMethods", "Rejected"}] \cup [kind : {"Response"}, id : Messages]
           \subseteq Posts
    /\ \A d \in Devices, boot \in BOOLEAN, url \in Urls :
           [kind |-> "Inform", dev |-> d, boot |-> boot, url |-> url] \in Posts
BY DEF Posts, NoPost

\* What the kind of a POST says about its other fields.
LEMMA PostFields ==
    ASSUME NEW p \in Posts
    PROVE  /\ p.kind = "Inform" => p.dev \in Devices /\ p.url \in Urls
           /\ p.kind = "Response" => p.id \in Messages
BY DEF Posts

\* Return keeps the types of everything it writes.
LEMMA ReturnType ==
    ASSUME TypeInv, NEW r \in Requests, NEW infos \in [Sessions -> SessionInfos],
           Return(r, infos)
    PROVE  /\ sessions' \in [Sessions -> SessionInfos]
           /\ pc' \in [Requests -> Labels]
           /\ post' \in [Requests -> Posts]
           /\ sess' \in [Requests -> Sessions \cup {NoSession}]
           /\ out' \in [Requests -> Messages \cup {NoMessage}]
           /\ PostFitsLabel'
<1>1. sessions' \in [Sessions -> SessionInfos]
  BY DEF Return, SessionInfos
<1>2. /\ pc' \in [Requests -> Labels]
      /\ post' \in [Requests -> Posts]
      /\ sess' \in [Requests -> Sessions \cup {NoSession}]
      /\ out' \in [Requests -> Messages \cup {NoMessage}]
  BY PostValues DEF Return, TypeInv, TypeOK, Labels
<1>3. PostFitsLabel'
  BY DEF Return, TypeInv, TypeOK, PostFitsLabel, InformLabels, ResponseLabels
<1> QED BY <1>1, <1>2, <1>3

\* Counting an attempt, which stops above MaxSends, keeps the rows' types.
LEMMA FetchType ==
    ASSUME TypeInv, NEW m \in Messages, FetchQueuedRPC(m)
    PROVE  row' \in [Messages -> Rows]
<1> USE DEF TypeInv, TypeOK, DbTypeOK
<1>1. CASE Exhausted(m)
  BY <1>1 DEF FetchQueuedRPC
<1>2. CASE ~Exhausted(m)
  <2>1. row[m] \in Rows
    OBVIOUS
  <2>2. [row[m] EXCEPT !.send_count = @ + 1] \in Rows
    BY <1>2, <2>1, DbAssumption DEF Exhausted, Rows, SendCounts
  <2>3. row' = [row EXCEPT ![m] = [row[m] EXCEPT !.send_count = @ + 1]]
    BY <1>2 DEF FetchQueuedRPC
  <2> QED BY <2>2, <2>3
<1> QED BY <1>1, <1>2

-----------------------------------------------------------------------------
(* Type correctness. *)

LEMMA TypeInit == Init => TypeInv
<1> SUFFICES ASSUME Init PROVE TypeInv
  OBVIOUS
<1>1. DbTypeOK
  BY DbAssumption DEF Init, DbInit, DbTypeOK, Rows, SendCounts
<1>2. sessions \in [Sessions -> SessionInfos]
  BY DEF Init, NewSessions, NewSession, SessionInfos, States
<1>3. pc \in [Requests -> Labels] /\ post \in [Requests -> Posts]
  BY PostValues DEF Init, Idle, Labels, NoPosts
<1>4. PostFitsLabel
  BY DEF Init, PostFitsLabel, Idle, InformLabels, ResponseLabels
<1> QED BY <1>1, <1>2, <1>3, <1>4
     DEF Init, TypeInv, TypeOK, NoEntries, NoSess, NoOut

\* A POST arrives: its record is a POST, its label fits it.
LEMMA TypeReceive ==
    ASSUME TypeInv, NEW r \in Requests, Receive(r)
    PROVE  TypeInv'
<1> USE DEF TypeInv
<1>1. ASSUME NEW s \in Sessions, NEW p \in Posts, NEW label \in {"emptyCheck", "stateCheck"},
             ReceiveInSession(r, s, p, label)
      PROVE  TypeInv'
  BY <1>1 DEF ReceiveInSession, Goto, TypeOK, DbTypeOK, Labels, PostFitsLabel,
     InformLabels, ResponseLabels, dbVars, sessionVars, historyVars
<1>2. CASE ReceiveEmptyPost(r)
  BY <1>1, <1>2, PostValues DEF ReceiveEmptyPost
<1>3. CASE ReceiveMessage(r)
  BY <1>1, <1>3, PostValues DEF ReceiveMessage
<1>4. CASE ReceiveBroken(r)
  BY <1>4, PostValues DEF ReceiveBroken, Goto, TypeOK, DbTypeOK, Labels, PostFitsLabel,
     InformLabels, ResponseLabels, dbVars, sessionVars, historyVars
<1>5. CASE ReceiveInform(r)
  <2>1. PICK s \in Sessions, d \in Devices, boot \in BOOLEAN, url \in Urls :
          /\ Goto(r, IF boot THEN "addDevice" ELSE "isRegistered")
          /\ post' = [post EXCEPT ![r] =
                         [kind |-> "Inform", dev |-> d, boot |-> boot, url |-> url]]
          /\ sess' = [sess EXCEPT ![r] = s]
          /\ sessions' = [sessions EXCEPT ![s] =
                             [DeviceIdString |-> d, SessionState |-> "INITIATING",
                              Context |-> r, ActiveRPC |-> NoMessage]]
          /\ SessionIdActiveSessions' = SessionIdActiveSessions \cup {s}
          /\ DeviceIdStringActiveSessions' =
                 [DeviceIdStringActiveSessions EXCEPT ![d] = s]
    BY <1>5, ZenonT(30) DEF ReceiveInform
  <2>2. sessions' \in [Sessions -> SessionInfos]
    BY <2>1 DEF TypeOK, SessionInfos, States
  <2>3. post' \in [Requests -> Posts] /\ pc' \in [Requests -> Labels]
    BY <2>1, PostValues DEF TypeOK, Goto, Labels
  <2>4. PostFitsLabel'
    BY <2>1 DEF TypeOK, Goto, PostFitsLabel, InformLabels, ResponseLabels
  <2>5. UNCHANGED <<dbVars, out, historyVars>>
    BY <1>5 DEF ReceiveInform
  <2> QED BY <2>1, <2>2, <2>3, <2>4, <2>5 DEF TypeOK, DbTypeOK, dbVars, historyVars
<1> QED BY <1>2, <1>3, <1>4, <1>5 DEF Receive

\* A handler takes a step.
LEMMA TypeHandlerStep ==
    ASSUME TypeInv, NEW r \in Requests, HandlerStep(r)
    PROVE  TypeInv'
<1> USE DEF TypeInv
\* Actions that only move on, or write a field of the session or of out.
<1>1. ASSUME NEW label \in Labels, Goto(r, label),
             label \in InformLabels => post[r].kind = "Inform",
             label \in ResponseLabels => post[r].kind = "Response",
             UNCHANGED post
      PROVE  pc' \in [Requests -> Labels] /\ PostFitsLabel'
  BY <1>1 DEF Goto, TypeOK, PostFitsLabel
<1>2. post[r] \in Posts
  BY DEF TypeOK
<1>3. \A s \in Sessions : sessions[s] \in SessionInfos
  BY DEF TypeOK
<1>4. CASE AddDevice(r)
  <2>1. post[r].kind = "Inform"
    BY <1>4 DEF AddDevice, At, PostFitsLabel, InformLabels
  <2>2. device' \in [Devices -> Urls \cup {NoRow}]
    BY <1>2, <1>4, <2>1, PostFields DEF AddDevice, AddDeviceRow, TypeOK, DbTypeOK
  <2> QED BY <1>1, <1>4, <2>2 DEF AddDevice, AddDeviceRow, TypeOK, DbTypeOK, Labels,
       InformLabels, ResponseLabels, sessionVars, historyVars
<1>5. CASE IsDeviceRegistered(r)
  <2>1. post[r].kind = "Inform"
    BY <1>5 DEF IsDeviceRegistered, At, PostFitsLabel, InformLabels
  <2> QED BY <1>1, <1>5, <2>1 DEF IsDeviceRegistered, TypeOK, DbTypeOK, Labels,
       InformLabels, ResponseLabels, dbVars, sessionVars, historyVars
<1>6. CASE UpdateDevice(r)
  <2>1. post[r].kind = "Inform"
    BY <1>6 DEF UpdateDevice, At, PostFitsLabel, InformLabels
  <2>2. device' \in [Devices -> Urls \cup {NoRow}]
    BY <1>2, <1>6, <2>1, PostFields DEF UpdateDevice, UpdateDeviceRow, TypeOK, DbTypeOK
  <2> QED BY <1>1, <1>6, <2>2 DEF UpdateDevice, UpdateDeviceRow, TypeOK, DbTypeOK,
       Labels, InformLabels, ResponseLabels, sessionVars, historyVars
<1>7. CASE InformFault(r)
  BY <1>7, ReturnType DEF InformFault, UnchangedTables, TypeOK, DbTypeOK, dbVars,
     historyVars
<1>8. CASE SendInformResponse(r)
  <2>1. [sessions EXCEPT ![sess[r]].SessionState = "RECEIVING_CPE_RPCS"]
            \in [Sessions -> SessionInfos]
    BY ZenonT(30) DEF TypeOK, SessionInfos, States
  <2> QED BY <1>8, <2>1, ReturnType DEF SendInformResponse, UnchangedTables, TypeOK,
       DbTypeOK, dbVars, historyVars
<1>9. CASE CheckEmptyPost(r)
  BY <1>1, <1>9 DEF CheckEmptyPost, TypeOK, DbTypeOK, Labels, InformLabels,
     ResponseLabels, dbVars, sessionVars, historyVars
<1>10. CASE AcceptEmptyPost(r)
  <2>1. [sessions EXCEPT ![sess[r]].SessionState = "SENDING_ACS_RPCS"]
            \in [Sessions -> SessionInfos]
    BY ZenonT(30) DEF TypeOK, SessionInfos, States
  <2> QED BY <1>1, <1>10, <2>1 DEF AcceptEmptyPost, UnchangedTables, TypeOK, DbTypeOK,
       Labels, InformLabels, ResponseLabels, dbVars, historyVars
<1>11. CASE CheckSessionState(r)
  BY <1>1, <1>11 DEF CheckSessionState, TypeOK, DbTypeOK, Labels, InformLabels,
     ResponseLabels, dbVars, sessionVars, historyVars
<1>12. WithContext(r) \in [Sessions -> SessionInfos]
  BY ZenonT(30) DEF WithContext, TypeOK, SessionInfos
<1>13. CASE AnswerAtOnce(r)
  BY <1>12, <1>13, ReturnType DEF AnswerAtOnce, UnchangedTables, TypeOK, DbTypeOK,
     dbVars, historyVars
<1>14. CASE AcceptResponse(r)
  BY <1>1, <1>12, <1>14 DEF AcceptResponse, UnchangedTables, TypeOK, DbTypeOK, Labels,
     InformLabels, ResponseLabels, dbVars, historyVars
<1>15. CASE ContinueEmptyPost(r)
  BY <1>1, <1>12, <1>15 DEF ContinueEmptyPost, UnchangedTables, TypeOK, DbTypeOK, Labels,
     InformLabels, ResponseLabels, dbVars, historyVars
<1>16. CASE MatchResponse(r)
  <2>1. post[r].kind = "Response"
    BY <1>16 DEF MatchResponse, At, PostFitsLabel, ResponseLabels
  <2> QED BY <1>1, <1>16, <2>1 DEF MatchResponse, TypeOK, DbTypeOK, Labels,
       InformLabels, ResponseLabels, dbVars, sessionVars, historyVars
<1>17. CASE CompareResponse(r)
  <2>1. post[r].kind = "Response"
    BY <1>17 DEF CompareResponse, At, PostFitsLabel, ResponseLabels
  <2>2. answered' \subseteq Messages
    BY <1>2, <1>17, <2>1, PostFields DEF CompareResponse, TypeOK
  <2> QED BY <1>1, <1>17, <2>1, <2>2 DEF CompareResponse, TypeOK, DbTypeOK, Labels,
       InformLabels, ResponseLabels, dbVars, sessionVars
<1>18. CASE DeleteAnswered(r)
  <2>1. post[r].kind = "Response"
    BY <1>18 DEF DeleteAnswered, At, PostFitsLabel, ResponseLabels
  <2> QED BY <1>1, <1>18, <2>1 DEF DeleteAnswered, DeleteQueuedRPC, TypeOK, DbTypeOK,
       Labels, InformLabels, ResponseLabels, sessionVars, historyVars
<1>19. CASE DeleteAnsweredFails(r)
  <2>1. post[r].kind = "Response"
    BY <1>19 DEF DeleteAnsweredFails, At, PostFitsLabel, ResponseLabels
  <2> QED BY <1>1, <1>19, <2>1 DEF DeleteAnsweredFails, TypeOK, DbTypeOK, Labels,
       InformLabels, ResponseLabels, dbVars, sessionVars, historyVars
<1>20. CASE ActiveRPCIsGone(r)
  BY <1>1, <1>20 DEF ActiveRPCIsGone, TypeOK, DbTypeOK, Labels, InformLabels,
     ResponseLabels, dbVars, sessionVars, historyVars
<1>21. CASE ClearActiveRPC(r)
  <2>1. sessions' \in [Sessions -> SessionInfos]
    BY <1>21, ZenonT(30) DEF ClearActiveRPC, TypeOK, SessionInfos
  <2> QED BY <1>1, <1>21, <2>1 DEF ClearActiveRPC, UnchangedTables, TypeOK, DbTypeOK,
       Labels, InformLabels, ResponseLabels, dbVars, historyVars
<1>22. CASE FetchRow(r)
  <2>1. PICK m \in Messages : /\ FetchQueuedRPC(m)
                              /\ out' = [out EXCEPT ![r] = m]
                              /\ Goto(r, IF Exhausted(m) THEN "drop" ELSE "assign")
    BY <1>22 DEF FetchRow
  <2>2. row' \in [Messages -> Rows]
    BY <2>1, FetchType
  <2> QED BY <1>1, <1>22, <2>1, <2>2 DEF FetchRow, FetchQueuedRPC, TypeOK, DbTypeOK,
       Labels, InformLabels, ResponseLabels, sessionVars, historyVars
<1>23. CASE FetchUnbuildable(r)
  <2>1. PICK m \in Messages : FetchQueuedRPC(m)
    BY <1>23 DEF FetchUnbuildable
  <2>2. row' \in [Messages -> Rows]
    BY <2>1, FetchType
  <2> QED BY <1>1, <1>23, <2>1, <2>2 DEF FetchUnbuildable, FetchQueuedRPC, TypeOK,
       DbTypeOK, Labels, InformLabels, ResponseLabels, sessionVars, historyVars
<1>24. CASE FetchNothing(r)
  BY <1>1, <1>24 DEF FetchNothing, TypeOK, DbTypeOK, Labels, InformLabels,
     ResponseLabels, dbVars, sessionVars, historyVars
<1>25. CASE DropRow(r)
  BY <1>1, <1>25 DEF DropRow, DeleteQueuedRPC, TypeOK, DbTypeOK, Labels, InformLabels,
     ResponseLabels, sessionVars, historyVars
<1>26. CASE DropRowFails(r)
  BY <1>1, <1>26 DEF DropRowFails, TypeOK, DbTypeOK, Labels, InformLabels,
     ResponseLabels, dbVars, sessionVars, historyVars
<1>27. CASE AssignActiveRPC(r)
  <2>1. sessions' \in [Sessions -> SessionInfos]
    BY <1>27, ZenonT(30) DEF AssignActiveRPC, TypeOK, SessionInfos
  <2> QED BY <1>1, <1>27, <2>1 DEF AssignActiveRPC, UnchangedTables, TypeOK, DbTypeOK,
       Labels, InformLabels, ResponseLabels, dbVars, historyVars
<1>28. CASE SendRpc(r)
  <2>1. transmissions' \in [Messages -> Nat]
    <3>1. CASE out[r] \in Messages
      BY <1>28, <3>1 DEF SendRpc, TypeOK
    <3>2. CASE out[r] = NoMessage
      BY <1>28, <3>2, SessionAssumption DEF SendRpc, TypeOK
    <3> QED BY <3>1, <3>2 DEF TypeOK
  <2> QED BY <1>28, <2>1, ReturnType DEF SendRpc, UnchangedTables, TypeOK, DbTypeOK, dbVars
<1>29. CASE TerminateSession(r)
  <2>1. [sessions EXCEPT ![sess[r]].SessionState = "TERMINATED"]
            \in [Sessions -> SessionInfos]
    BY ZenonT(30) DEF TypeOK, SessionInfos, States
  <2> QED BY <1>1, <1>29, <2>1 DEF TerminateSession, UnchangedTables, TypeOK, DbTypeOK,
       Labels, InformLabels, ResponseLabels, dbVars, historyVars
<1>30. CASE UnmapSessionId(r)
  BY <1>1, <1>30 DEF UnmapSessionId, TypeOK, DbTypeOK, Labels, InformLabels,
     ResponseLabels, dbVars, historyVars
<1>31. CASE UnmapDevice(r)
  BY <1>31, ReturnType DEF UnmapDevice, TypeOK, DbTypeOK, dbVars, historyVars
<1>32. CASE RecoverPanic(r)
  BY <1>32, ReturnType DEF RecoverPanic, UnchangedTables, TypeOK, DbTypeOK, dbVars,
     historyVars
<1> QED BY <1>4, <1>5, <1>6, <1>7, <1>8, <1>9, <1>10, <1>11, <1>13, <1>14, <1>15,
     <1>16, <1>17, <1>18, <1>19, <1>20, <1>21, <1>22, <1>23, <1>24, <1>25, <1>26,
     <1>27, <1>28, <1>29, <1>30, <1>31, <1>32
     DEF HandlerStep

\* An RPC is queued.
LEMMA TypeEnqueue ==
    ASSUME TypeInv, NEW d \in Devices, NEW m \in Messages, Enqueue(d, m)
    PROVE  TypeInv'
<1>1. row' \in [Messages -> Rows]
  BY DbAssumption DEF Enqueue, QueueRPC, TypeInv, TypeOK, DbTypeOK, Rows, SendCounts
<1> QED BY <1>1 DEF Enqueue, QueueRPC, TypeInv, TypeOK, DbTypeOK, PostFitsLabel,
     sessionVars, handlerVars, historyVars

\* The process starts anew.
LEMMA TypeCrash ==
    ASSUME TypeInv, Crash
    PROVE  TypeInv'
<1>1. sessions' \in [Sessions -> SessionInfos]
  BY DEF Crash, Restart, NewSessions, NewSession, SessionInfos, States
<1>2. pc' \in [Requests -> Labels] /\ post' \in [Requests -> Posts]
  BY PostValues DEF Crash, Restart, Idle, Labels, NoPosts
<1>3. PostFitsLabel'
  BY DEF Crash, Restart, PostFitsLabel, Idle, InformLabels, ResponseLabels
<1> QED BY <1>1, <1>2, <1>3 DEF Crash, Restart, TypeInv, TypeOK, DbTypeOK, NoEntries,
     NoSess, NoOut, dbVars, historyVars

LEMMA TypeStep == TypeInv /\ [Next]_vars => TypeInv'
<1> SUFFICES ASSUME TypeInv, [Next]_vars PROVE TypeInv'
  OBVIOUS
<1>1. CASE PostStep
  BY <1>1, TypeReceive, TypeHandlerStep DEF PostStep
<1>2. CASE \E d \in Devices, m \in Messages : Enqueue(d, m)
  BY <1>2, TypeEnqueue
<1>3. CASE Crash
  BY <1>3, TypeCrash
<1>4. CASE UNCHANGED vars
  BY <1>4 DEF vars, dbVars, sessionVars, handlerVars, historyVars, TypeInv, TypeOK,
     DbTypeOK, PostFitsLabel
<1> QED BY <1>1, <1>2, <1>3, <1>4 DEF Next

\* Every variable keeps its type, and a handler's label always fits its POST:
\* no handler reads a field its POST does not have.
THEOREM TypeCorrect == Spec => [](TypeOK /\ PostFitsLabel)
<1>1. Init => TypeInv
  BY TypeInit
<1>2. TypeInv /\ [Next]_vars => TypeInv'
  BY TypeStep
<1>3. TypeInv <=> TypeOK /\ PostFitsLabel
  BY DEF TypeInv
<1> QED BY <1>1, <1>2, <1>3, PTL DEF Spec

-----------------------------------------------------------------------------
(* Frame lemmas: what a step of one handler leaves alone.  Each invariant   *)
(* then needs only the steps that can disturb it.                           *)

\* The local variables of one handler are not written by another.
LEMMA LocalFrame ==
    ASSUME TypeInv, NEW r \in Requests, NEW q \in Requests, q # r,
           Receive(r) \/ HandlerStep(r)
    PROVE  pc'[q] = pc[q] /\ post'[q] = post[q] /\ sess'[q] = sess[q] /\ out'[q] = out[q]
<1> USE DEF TypeInv, TypeOK, Goto
<1>1. CASE Receive(r)
  BY <1>1 DEF Receive, ReceiveEmptyPost, ReceiveMessage, ReceiveInSession, ReceiveBroken,
     ReceiveInform
<1>2. ASSUME NEW infos, Return(r, infos)
      PROVE  pc'[q] = pc[q] /\ post'[q] = post[q] /\ sess'[q] = sess[q] /\ out'[q] = out[q]
  BY <1>2 DEF Return
<1>3. CASE \/ AddDevice(r) \/ IsDeviceRegistered(r) \/ UpdateDevice(r)
           \/ CheckEmptyPost(r) \/ AcceptEmptyPost(r) \/ ContinueEmptyPost(r)
           \/ CheckSessionState(r) \/ AcceptResponse(r) \/ MatchResponse(r)
           \/ CompareResponse(r) \/ DeleteAnswered(r) \/ DeleteAnsweredFails(r)
           \/ ActiveRPCIsGone(r) \/ ClearActiveRPC(r)
  BY <1>3 DEF AddDevice, IsDeviceRegistered, UpdateDevice, CheckEmptyPost,
     AcceptEmptyPost, ContinueEmptyPost, CheckSessionState, AcceptResponse,
     MatchResponse, CompareResponse, DeleteAnswered, DeleteAnsweredFails,
     ActiveRPCIsGone, ClearActiveRPC
<1>4. CASE \/ FetchRow(r) \/ FetchUnbuildable(r) \/ FetchNothing(r) \/ DropRow(r)
           \/ DropRowFails(r) \/ AssignActiveRPC(r) \/ TerminateSession(r)
           \/ UnmapSessionId(r)
  BY <1>4 DEF FetchRow, FetchUnbuildable, FetchNothing, DropRow, DropRowFails,
     AssignActiveRPC, TerminateSession, UnmapSessionId
<1>5. CASE \/ InformFault(r) \/ SendInformResponse(r) \/ AnswerAtOnce(r)
           \/ SendRpc(r) \/ UnmapDevice(r) \/ RecoverPanic(r)
  BY <1>2, <1>5 DEF InformFault, SendInformResponse, AnswerAtOnce, SendRpc, UnmapDevice,
     RecoverPanic
<1> QED BY <1>1, <1>3, <1>4, <1>5 DEF HandlerStep

\* A handler changes the device of no session, and the ActiveRPC of its own at two
\* places only.
LEMMA SessionFrame ==
    ASSUME TypeInv, NEW r \in Requests, HandlerStep(r), NEW s \in Sessions
    PROVE  /\ sessions'[s].DeviceIdString = sessions[s].DeviceIdString
           /\ \/ sessions'[s].ActiveRPC = sessions[s].ActiveRPC
              \/ s = sess[r] /\ ClearActiveRPC(r)
                            /\ sessions'[s].ActiveRPC = NoMessage
              \/ s = sess[r] /\ AssignActiveRPC(r) /\ sessions'[s].ActiveRPC = out[r]
<1> USE DEF TypeInv, TypeOK, SessionInfos
<1>1. ASSUME NEW infos \in [Sessions -> SessionInfos], Return(r, infos),
             infos[s].DeviceIdString = sessions[s].DeviceIdString,
             infos[s].ActiveRPC = sessions[s].ActiveRPC
      PROVE  /\ sessions'[s].DeviceIdString = sessions[s].DeviceIdString
             /\ sessions'[s].ActiveRPC = sessions[s].ActiveRPC
  BY <1>1 DEF Return
<1>2. CASE UNCHANGED sessionVars
  BY <1>2 DEF sessionVars
<1>3. CASE InformFault(r) \/ SendRpc(r) \/ UnmapDevice(r) \/ RecoverPanic(r)
  BY <1>1, <1>3 DEF InformFault, SendRpc, UnmapDevice, RecoverPanic
<1>4. CASE SendInformResponse(r)
  <2> DEFINE infos == [sessions EXCEPT ![sess[r]].SessionState = "RECEIVING_CPE_RPCS"]
  <2>1. infos \in [Sessions -> SessionInfos]
    BY ZenonT(30) DEF States
  <2>2. infos[s].DeviceIdString = sessions[s].DeviceIdString
        /\ infos[s].ActiveRPC = sessions[s].ActiveRPC
    OBVIOUS
  <2> QED BY <1>1, <1>4, <2>1, <2>2 DEF SendInformResponse
<1>5. /\ WithContext(r) \in [Sessions -> SessionInfos]
      /\ WithContext(r)[s].DeviceIdString = sessions[s].DeviceIdString
      /\ WithContext(r)[s].ActiveRPC = sessions[s].ActiveRPC
  BY ZenonT(30) DEF WithContext
<1>6. CASE AnswerAtOnce(r) \/ AcceptResponse(r) \/ ContinueEmptyPost(r)
  BY <1>1, <1>5, <1>6 DEF AnswerAtOnce, AcceptResponse, ContinueEmptyPost
<1>7. CASE AcceptEmptyPost(r)
  <2> DEFINE infos == [sessions EXCEPT ![sess[r]].SessionState = "SENDING_ACS_RPCS"]
  <2>1. infos[s].DeviceIdString = sessions[s].DeviceIdString
        /\ infos[s].ActiveRPC = sessions[s].ActiveRPC
    OBVIOUS
  <2>2. sessions' = infos
    BY <1>7 DEF AcceptEmptyPost
  <2> QED BY <2>1, <2>2
<1>8. CASE TerminateSession(r)
  <2> DEFINE infos == [sessions EXCEPT ![sess[r]].SessionState = "TERMINATED"]
  <2>1. infos[s].DeviceIdString = sessions[s].DeviceIdString
        /\ infos[s].ActiveRPC = sessions[s].ActiveRPC
    OBVIOUS
  <2>2. sessions' = infos
    BY <1>8 DEF TerminateSession
  <2> QED BY <2>1, <2>2
<1>9. CASE ClearActiveRPC(r) \/ AssignActiveRPC(r)
  BY <1>9 DEF ClearActiveRPC, AssignActiveRPC
<1> QED BY <1>2, <1>3, <1>4, <1>6, <1>7, <1>8, <1>9 DEF HandlerStep, AddDevice,
     IsDeviceRegistered, UpdateDevice, CheckEmptyPost, CheckSessionState,
     MatchResponse, CompareResponse, DeleteAnswered, DeleteAnsweredFails,
     ActiveRPCIsGone, FetchRow, FetchUnbuildable, FetchNothing, DropRow, DropRowFails,
     UnmapSessionId

\* A handler adds no row, and rewrites none but to count an attempt.
LEMMA RowFrame ==
    ASSUME TypeInv, NEW r \in Requests, HandlerStep(r), NEW m \in Messages
    PROVE  /\ rpc_queue' \subseteq rpc_queue
           /\ row'[m].device_id = row[m].device_id
           /\ row'[m].id = row[m].id /\ lastRowId' = lastRowId
           /\ row'[m].send_count >= row[m].send_count
           /\ row'[m].send_count # row[m].send_count
                  => (FetchRow(r) \/ FetchUnbuildable(r)) /\ m \in rpc_queue
<1> USE DEF TypeInv, TypeOK, DbTypeOK, Rows, SendCounts
<1>1. row[m].send_count \in Nat /\ row[m] \in Rows
  BY DbAssumption
<1>2. CASE UNCHANGED dbVars
  BY <1>1, <1>2 DEF dbVars
<1>3. CASE FetchRow(r) \/ FetchUnbuildable(r)
  <2>1. PICK n \in Messages : FetchQueuedRPC(n) /\ n \in rpc_queue
    BY <1>3 DEF FetchRow, FetchUnbuildable, IsHead, Pending
  <2>2. CASE n = m
    BY <1>1, <1>3, <2>1, <2>2 DEF FetchQueuedRPC
  <2>3. CASE n # m
    BY <1>1, <1>3, <2>1, <2>3 DEF FetchQueuedRPC
  <2> QED BY <2>2, <2>3
<1>4. CASE DeleteAnswered(r) \/ DropRow(r)
  BY <1>1, <1>4 DEF DeleteAnswered, DropRow, DeleteQueuedRPC
<1>5. CASE AddDevice(r) \/ UpdateDevice(r)
  BY <1>1, <1>5 DEF AddDevice, UpdateDevice, AddDeviceRow, UpdateDeviceRow
<1> QED BY <1>2, <1>3, <1>4, <1>5 DEF HandlerStep, IsDeviceRegistered, InformFault,
     SendInformResponse, CheckEmptyPost, AcceptEmptyPost, ContinueEmptyPost,
     CheckSessionState, AnswerAtOnce, AcceptResponse, MatchResponse, CompareResponse,
     DeleteAnsweredFails, ActiveRPCIsGone, ClearActiveRPC, FetchNothing, DropRowFails,
     AssignActiveRPC, SendRpc, TerminateSession, UnmapSessionId, UnmapDevice, RecoverPanic

-----------------------------------------------------------------------------
(* The session tables. *)

TablesInv == TypeInv /\ NoOrphanedEntry

\* Some handler of session s has yet to delete the entry of its device.
Unmapping(s) == \E r \in Requests : pc[r] = "unmapDevice" /\ sess[r] = s

\* A handler that has yet to delete it stays where it is until it does.
LEMMA UnmappingStays ==
    ASSUME TypeInv, NEW r \in Requests, Receive(r) \/ HandlerStep(r),
           NEW s, Unmapping(s)
    PROVE  Unmapping(s)' \/ (UnmapDevice(r) /\ sess[r] = s)
<1>1. PICK q \in Requests : pc[q] = "unmapDevice" /\ sess[q] = s
  BY DEF Unmapping
<1>2. CASE q # r
  BY <1>1, <1>2, LocalFrame DEF Unmapping
<1>3. CASE q = r
  BY <1>1, <1>3 DEF Receive, ReceiveEmptyPost, ReceiveMessage, ReceiveInSession,
     ReceiveBroken, ReceiveInform, HandlerStep, At, AddDevice, IsDeviceRegistered,
     UpdateDevice, InformFault, SendInformResponse, CheckEmptyPost, AcceptEmptyPost,
     ContinueEmptyPost, CheckSessionState, AnswerAtOnce, AcceptResponse, MatchResponse,
     CompareResponse, DeleteAnswered, DeleteAnsweredFails, ActiveRPCIsGone,
     ClearActiveRPC, FetchRow, FetchUnbuildable, FetchNothing, DropRow, DropRowFails,
     AssignActiveRPC, SendRpc, TerminateSession, UnmapSessionId, RecoverPanic, PanicLabels
<1> QED BY <1>2, <1>3

LEMMA TablesStep == TablesInv /\ [Next]_vars => TablesInv'
<1> SUFFICES ASSUME TablesInv, [Next]_vars,
                    NEW d \in Devices, NEW s, s = DeviceIdStringActiveSessions'[d],
                    s # NoSession
             PROVE  /\ sessions'[s].DeviceIdString = d
                    /\ s \in SessionIdActiveSessions' \/ Unmapping(s)'
  BY TypeStep DEF TablesInv, NoOrphanedEntry, Unmapping
<1> USE DEF TablesInv
<1>0. /\ DeviceIdStringActiveSessions \in [Devices -> Sessions \cup {NoSession}]
      /\ sessions \in [Sessions -> SessionInfos]
  BY DEF TypeInv, TypeOK
<1>1. ASSUME s = DeviceIdStringActiveSessions[d]
      PROVE  /\ s \in Sessions /\ sessions[s].DeviceIdString = d
             /\ s \in SessionIdActiveSessions \/ Unmapping(s)
  BY <1>0, <1>1 DEF NoOrphanedEntry, Unmapping
<1>2. CASE UNCHANGED <<sessionVars, handlerVars>>
  BY <1>1, <1>2 DEF sessionVars, handlerVars, Unmapping
<1>3. ASSUME NEW r \in Requests, ReceiveInform(r)
      PROVE  /\ sessions'[s].DeviceIdString = d
             /\ s \in SessionIdActiveSessions' \/ Unmapping(s)'
  <2>1. PICK t \in Sessions, e \in Devices :
          /\ Unreferenced(t)
          /\ sessions' = [sessions EXCEPT ![t] =
                             [DeviceIdString |-> e, SessionState |-> "INITIATING",
                              Context |-> r, ActiveRPC |-> NoMessage]]
          /\ SessionIdActiveSessions' = SessionIdActiveSessions \cup {t}
          /\ DeviceIdStringActiveSessions' =
                 [DeviceIdStringActiveSessions EXCEPT ![e] = t]
    BY <1>3 DEF ReceiveInform
  <2>2. CASE d = e
    BY <1>0, <2>1, <2>2
  <2>3. CASE d # e
    <3>1. s = DeviceIdStringActiveSessions[d]
      BY <1>0, <2>1, <2>3
    <3>2. s # t
      BY <1>1, <2>1, <3>1 DEF Unreferenced, Unmapping
    <3>3. Unmapping(s) => Unmapping(s)'
      BY <1>3, UnmappingStays DEF Receive, ReceiveInform, At, UnmapDevice
    <3> QED BY <1>0, <1>1, <2>1, <3>1, <3>2, <3>3
  <2> QED BY <2>2, <2>3
<1>4. ASSUME NEW r \in Requests, Receive(r), UNCHANGED sessionVars
      PROVE  /\ sessions'[s].DeviceIdString = d
             /\ s \in SessionIdActiveSessions' \/ Unmapping(s)'
  <2>1. pc[r] = "idle"
    BY <1>4 DEF Receive, ReceiveEmptyPost, ReceiveMessage, ReceiveInSession, ReceiveBroken,
       ReceiveInform, At
  <2> QED BY <1>1, <1>4, <2>1, UnmappingStays DEF sessionVars, UnmapDevice, At
<1>5. ASSUME NEW r \in Requests, HandlerStep(r)
      PROVE  /\ sessions'[s].DeviceIdString = d
             /\ s \in SessionIdActiveSessions' \/ Unmapping(s)'
  <2>1. \A t \in Sessions : sessions'[t].DeviceIdString = sessions[t].DeviceIdString
    BY <1>5, SessionFrame
  <2>2. CASE UnmapSessionId(r)
    <3>1. /\ s = DeviceIdStringActiveSessions[d]
          /\ SessionIdActiveSessions' = SessionIdActiveSessions \ {sess[r]}
          /\ pc[r] = "unmapId"
      BY <2>2 DEF UnmapSessionId, At
    <3>2. Unmapping(s) => Unmapping(s)'
      BY <1>5, <3>1, UnmappingStays DEF UnmapDevice, At
    <3>3. s = sess[r] => Unmapping(s)'
      BY <2>2 DEF UnmapSessionId, Goto, Unmapping, TypeInv, TypeOK
    <3> QED BY <1>1, <2>1, <3>1, <3>2, <3>3
  <2>3. CASE UnmapDevice(r)
    <3>1. /\ DeviceIdStringActiveSessions' = [DeviceIdStringActiveSessions
                 EXCEPT ![sessions[sess[r]].DeviceIdString] = NoSession]
          /\ SessionIdActiveSessions' = SessionIdActiveSessions
      BY <2>3 DEF UnmapDevice
    <3>2. s = DeviceIdStringActiveSessions[d] /\ d # sessions[sess[r]].DeviceIdString
      BY <1>0, <3>1
    <3>3. s # sess[r]
      BY <1>1, <3>2
    <3>4. Unmapping(s) => Unmapping(s)'
      BY <1>5, <3>3, UnmappingStays
    <3> QED BY <1>1, <2>1, <3>1, <3>2, <3>4
  <2>4. CASE UnchangedTables /\ ~UnmapDevice(r)
    <3>1. Unmapping(s) => Unmapping(s)'
      BY <1>5, <2>4, UnmappingStays
    <3> QED BY <1>1, <2>1, <2>4, <3>1 DEF UnchangedTables
  <2> QED BY <1>5, <2>2, <2>3, <2>4 DEF HandlerStep, UnchangedTables, sessionVars,
       AddDevice, IsDeviceRegistered, UpdateDevice, InformFault, SendInformResponse,
       CheckEmptyPost, AcceptEmptyPost, ContinueEmptyPost, CheckSessionState,
       AnswerAtOnce, AcceptResponse, MatchResponse, CompareResponse, DeleteAnswered,
       DeleteAnsweredFails, ActiveRPCIsGone, ClearActiveRPC, FetchRow,
       FetchUnbuildable, FetchNothing, DropRow, DropRowFails, AssignActiveRPC, SendRpc,
       TerminateSession, RecoverPanic
<1>6. CASE Crash
  BY <1>6 DEF Crash, Restart, NoEntries
<1> QED BY <1>2, <1>3, <1>4, <1>5, <1>6 DEF Next, PostStep, Receive, ReceiveEmptyPost,
     ReceiveMessage, ReceiveInSession, ReceiveBroken, Enqueue, vars

\* Between and after the two deletes that end a session, and the two writes that
\* begin one, the table by device never keeps a session that is gone by id unless
\* a handler is about to delete the entry, even when POSTs of one session overlap
\* and several handlers end it: the handler that took the id out goes on to the
\* device, and no Inform reuses a session a handler still holds.
THEOREM NoOrphans == Spec => []NoOrphanedEntry
<1>1. Init => TablesInv
  BY TypeInit DEF Init, TablesInv, NoOrphanedEntry, NoEntries
<1>2. TablesInv /\ [Next]_vars => TablesInv'
  BY TablesStep
<1>3. TablesInv => NoOrphanedEntry
  BY DEF TablesInv
<1> QED BY <1>1, <1>2, <1>3, PTL DEF Spec

-----------------------------------------------------------------------------
(* Retransmission.  A fetch counts an attempt before anything is sent, so the *)
(* attempts counted always cover the transmissions made and those under way. *)

\* The handlers that hold m and are about to write it to their CPE.
Sending(m) == {r \in Requests : pc[r] \in {"assign", "send"} /\ out[r] = m}

QueuedRowsOwned == \A m \in rpc_queue : row[m].device_id \in Devices

UnqueuedUncounted ==
    \A m \in Messages : row[m].device_id = NoDevice => row[m].send_count = 0

AttemptsCounted ==
    \A m \in Messages : transmissions[m] + Cardinality(Sending(m)) <= row[m].send_count

RetransmissionInv == TypeInv /\ QueuedRowsOwned /\ UnqueuedUncounted /\ AttemptsCounted

LEMMA SendingFinite == \A m : IsFiniteSet(Sending(m)) /\ Cardinality(Sending(m)) \in Nat
<1> TAKE m
<1>1. Sending(m) \in SUBSET Requests
  BY DEF Sending
<1> QED BY <1>1, SessionAssumption, FS_Subset, FS_CardinalityType

\* Only a fetch adds a handler to Sending, and only SendRpc transmits.
LEMMA SendingFrame ==
    ASSUME TypeInv, NEW r \in Requests, Receive(r) \/ HandlerStep(r), ~FetchRow(r),
           NEW m \in Messages
    PROVE  /\ Sending(m)' \subseteq Sending(m)
           /\ ~SendRpc(r) => transmissions' = transmissions
<1>1. \A q \in Requests : q # r => pc'[q] = pc[q] /\ out'[q] = out[q]
  BY LocalFrame
<1>2. /\ pc'[r] \in {"assign", "send"} /\ out'[r] = m
         => pc[r] \in {"assign", "send"} /\ out[r] = m
      /\ ~SendRpc(r) => transmissions' = transmissions
  <2> USE SessionAssumption DEF TypeInv, TypeOK, Goto, At, historyVars
  <2>1. CASE Receive(r)
    BY <2>1 DEF Receive, ReceiveEmptyPost, ReceiveMessage, ReceiveInSession,
       ReceiveBroken, ReceiveInform
  <2>2. CASE \/ InformFault(r) \/ SendInformResponse(r) \/ AnswerAtOnce(r)
             \/ SendRpc(r) \/ UnmapDevice(r) \/ RecoverPanic(r)
    <3>1. ASSUME NEW infos, Return(r, infos)
          PROVE  pc'[r] = "idle"
      BY <3>1 DEF Return
    <3> QED BY <2>2, <3>1 DEF InformFault, SendInformResponse, AnswerAtOnce, SendRpc,
         UnmapDevice, RecoverPanic
  <2>3. CASE \/ AddDevice(r) \/ IsDeviceRegistered(r) \/ UpdateDevice(r)
             \/ CheckEmptyPost(r) \/ AcceptEmptyPost(r) \/ ContinueEmptyPost(r)
             \/ CheckSessionState(r) \/ AcceptResponse(r) \/ MatchResponse(r)
             \/ CompareResponse(r) \/ DeleteAnswered(r)
    BY <2>3 DEF AddDevice, IsDeviceRegistered, UpdateDevice, CheckEmptyPost,
       AcceptEmptyPost, ContinueEmptyPost, CheckSessionState, AcceptResponse,
       MatchResponse, CompareResponse, DeleteAnswered
  <2>4. CASE \/ DeleteAnsweredFails(r) \/ ActiveRPCIsGone(r) \/ ClearActiveRPC(r)
             \/ FetchUnbuildable(r) \/ FetchNothing(r) \/ DropRow(r) \/ DropRowFails(r)
             \/ AssignActiveRPC(r) \/ TerminateSession(r) \/ UnmapSessionId(r)
    BY <2>4 DEF DeleteAnsweredFails, ActiveRPCIsGone, ClearActiveRPC, FetchUnbuildable,
       FetchNothing, DropRow, DropRowFails, AssignActiveRPC, TerminateSession, UnmapSessionId
  <2> QED BY <2>1, <2>2, <2>3, <2>4 DEF HandlerStep
<1> QED BY <1>1, <1>2 DEF Sending

\* Rows of another handler's making: none is added, and its device stays.
LEMMA QueueStep ==
    ASSUME TypeInv, QueuedRowsOwned, [Next]_vars
    PROVE  QueuedRowsOwned'
<1> USE DEF TypeInv, TypeOK, DbTypeOK, Rows, QueuedRowsOwned
<1>1. CASE UNCHANGED dbVars
  BY <1>1 DEF dbVars
<1>2. ASSUME NEW r \in Requests, HandlerStep(r)
      PROVE  QueuedRowsOwned'
  <2>1. rpc_queue' \subseteq Messages
    BY TypeStep
  <2>2. \A m \in Messages : rpc_queue' \subseteq rpc_queue
                            /\ row'[m].device_id = row[m].device_id
    BY <1>2, RowFrame
  <2> QED BY <2>1, <2>2
<1>3. ASSUME NEW d \in Devices, NEW m \in Messages, Enqueue(d, m)
      PROVE  QueuedRowsOwned'
  BY <1>3 DEF Enqueue, QueueRPC
<1> QED BY <1>1, <1>2, <1>3 DEF Next, PostStep, Receive, ReceiveEmptyPost, ReceiveMessage,
     ReceiveInSession, ReceiveBroken, ReceiveInform, Crash, Restart, vars

\* A step that fetches and sends nothing keeps the attempts of m covered.
LEMMA CountingHelper ==
    ASSUME RetransmissionInv, NEW m \in Messages,
           Sending(m)' \subseteq Sending(m), transmissions' = transmissions,
           row'[m].send_count >= row[m].send_count, row'[m].send_count \in Nat
    PROVE  transmissions'[m] + Cardinality(Sending(m)') <= row'[m].send_count
<1>1. /\ Cardinality(Sending(m)') <= Cardinality(Sending(m))
      /\ Cardinality(Sending(m)') \in Nat /\ Cardinality(Sending(m)) \in Nat
  <2>1. IsFiniteSet(Sending(m)') /\ Cardinality(Sending(m)') <= Cardinality(Sending(m))
    BY SendingFinite, FS_Subset
  <2> QED BY <2>1, SendingFinite, FS_CardinalityType
<1>2. transmissions[m] \in Nat /\ row[m].send_count \in Nat
  BY DbAssumption DEF RetransmissionInv, TypeInv, TypeOK, DbTypeOK, Rows, SendCounts
<1>3. transmissions[m] + Cardinality(Sending(m)) <= row[m].send_count
  BY DEF RetransmissionInv, AttemptsCounted
<1> QED BY <1>1, <1>2, <1>3

LEMMA RetransmissionStep == RetransmissionInv /\ [Next]_vars => RetransmissionInv'
<1> SUFFICES ASSUME RetransmissionInv, [Next]_vars
             PROVE  UnqueuedUncounted' /\ AttemptsCounted'
  BY TypeStep, QueueStep DEF RetransmissionInv
<1>0. /\ \A m \in Messages : row[m].send_count \in Nat /\ transmissions[m] \in Nat
      /\ \A m \in Messages : row'[m].send_count \in Nat /\ transmissions'[m] \in Nat
  <2>1. TypeInv /\ TypeInv'
    BY TypeStep DEF RetransmissionInv
  <2> QED BY <2>1, DbAssumption DEF TypeInv, TypeOK, DbTypeOK, Rows, SendCounts
<1>1. CASE UNCHANGED vars
  <2>1. UNCHANGED row /\ UNCHANGED transmissions /\ \A m : Sending(m)' = Sending(m)
    BY <1>1 DEF vars, dbVars, handlerVars, historyVars, Sending
  <2> QED BY <2>1, CountingHelper, <1>0 DEF RetransmissionInv, UnqueuedUncounted,
       AttemptsCounted
<1>2. ASSUME NEW r \in Requests, Receive(r) \/ HandlerStep(r)
      PROVE  UnqueuedUncounted' /\ AttemptsCounted'
  <2>1. /\ \A m \in Messages : row'[m].device_id = row[m].device_id
        /\ \A m \in Messages : row'[m].send_count >= row[m].send_count
        /\ \A m \in Messages : row'[m].send_count # row[m].send_count => m \in rpc_queue
    <3>1. CASE Receive(r)
      BY <1>0, <3>1 DEF Receive, ReceiveEmptyPost, ReceiveMessage, ReceiveInSession,
         ReceiveBroken, ReceiveInform, dbVars
    <3>2. CASE HandlerStep(r)
      BY <3>2, RowFrame DEF RetransmissionInv
    <3> QED BY <1>2, <3>1, <3>2
  <2>2. UnqueuedUncounted'
    <3> SUFFICES ASSUME NEW m \in Messages, row'[m].device_id = NoDevice
                 PROVE  row'[m].send_count = 0
      BY DEF UnqueuedUncounted
    <3>1. m \notin rpc_queue
      BY <2>1, DbAssumption DEF RetransmissionInv, QueuedRowsOwned
    <3> QED BY <2>1, <3>1 DEF RetransmissionInv, UnqueuedUncounted
  <2>3. ASSUME NEW m \in Messages
        PROVE  transmissions'[m] + Cardinality(Sending(m)') <= row'[m].send_count
    <3>1. CASE ~FetchRow(r) /\ ~SendRpc(r)
      <4>1. Sending(m)' \subseteq Sending(m) /\ transmissions' = transmissions
        BY <1>2, <3>1, SendingFrame DEF RetransmissionInv
      <4> QED BY <1>0, <2>1, <4>1, CountingHelper
    <3>2. CASE FetchRow(r)
      <4>1. PICK n \in Messages :
              /\ FetchQueuedRPC(n)
              /\ out' = [out EXCEPT ![r] = n]
              /\ pc' = [pc EXCEPT ![r] = IF Exhausted(n) THEN "drop" ELSE "assign"]
              /\ pc[r] = "fetch" /\ transmissions' = transmissions
        BY <3>2 DEF FetchRow, Goto, At, historyVars
      <4>2. CASE n # m \/ Exhausted(n)
        <5>1. Sending(m)' \subseteq Sending(m)
          BY <4>1, <4>2 DEF Sending, RetransmissionInv, TypeInv, TypeOK
        <5> QED BY <1>0, <2>1, <4>1, <5>1, CountingHelper
      <4>3. CASE n = m /\ ~Exhausted(n)
        <5>1. Sending(m)' = Sending(m) \cup {r} /\ r \notin Sending(m)
          BY <4>1, <4>3 DEF Sending, RetransmissionInv, TypeInv, TypeOK
        <5>2. Cardinality(Sending(m)') = Cardinality(Sending(m)) + 1
          BY <5>1, SendingFinite, FS_AddElement
        <5>3. row'[m].send_count = row[m].send_count + 1
          BY <4>1, <4>3 DEF FetchQueuedRPC, RetransmissionInv, TypeInv, TypeOK, DbTypeOK,
             Rows
        <5>4. transmissions[m] + Cardinality(Sending(m)) <= row[m].send_count
          BY DEF RetransmissionInv, AttemptsCounted
        <5> QED BY <1>0, <4>1, <5>2, <5>3, <5>4, SendingFinite
      <4> QED BY <4>2, <4>3
    <3>3. CASE SendRpc(r)
      <4>1. /\ pc[r] = "send" /\ pc'[r] = "idle"
            /\ transmissions' = [transmissions EXCEPT ![out[r]] = @ + 1]
            /\ UNCHANGED row
        BY <3>3 DEF SendRpc, Return, At, dbVars, RetransmissionInv, TypeInv, TypeOK
      <4>2. CASE out[r] # m
        <5>1. Sending(m)' \subseteq Sending(m)
          BY <1>2, <3>3, SendingFrame DEF RetransmissionInv, FetchRow, SendRpc, At
        <5>2. transmissions'[m] = transmissions[m]
          BY <4>1, <4>2 DEF RetransmissionInv, TypeInv, TypeOK
        <5>3. Cardinality(Sending(m)') <= Cardinality(Sending(m))
          BY <5>1, SendingFinite, FS_Subset
        <5>4. Cardinality(Sending(m)') \in Nat
          BY <5>1, SendingFinite, FS_Subset, FS_CardinalityType
        <5>5. transmissions[m] + Cardinality(Sending(m)) <= row[m].send_count
          BY DEF RetransmissionInv, AttemptsCounted
        <5> QED BY <1>0, <4>1, <5>2, <5>3, <5>4, <5>5, SendingFinite
      <4>3. CASE out[r] = m
        <5>1. Sending(m)' \subseteq Sending(m) \ {r} /\ r \in Sending(m)
          <6>1. Sending(m)' \subseteq Sending(m)
            BY <1>2, <3>3, SendingFrame DEF RetransmissionInv, FetchRow, SendRpc, At
          <6>2. r \notin Sending(m)' /\ r \in Sending(m)
            BY <4>1, <4>3 DEF Sending
          <6> QED BY <6>1, <6>2
        <5>2. IsFiniteSet(Sending(m) \ {r})
              /\ Cardinality(Sending(m) \ {r}) = Cardinality(Sending(m)) - 1
          BY <5>1, SendingFinite, FS_RemoveElement
        <5>3. Cardinality(Sending(m)') <= Cardinality(Sending(m)) - 1
              /\ Cardinality(Sending(m)') \in Nat
          <6>1. IsFiniteSet(Sending(m)')
                /\ Cardinality(Sending(m)') <= Cardinality(Sending(m) \ {r})
            BY <5>1, <5>2, FS_Subset
          <6> QED BY <5>2, <6>1, FS_CardinalityType
        <5>4. transmissions'[m] = transmissions[m] + 1
          BY <4>1, <4>3 DEF RetransmissionInv, TypeInv, TypeOK
        <5>5. transmissions[m] + Cardinality(Sending(m)) <= row[m].send_count
          BY DEF RetransmissionInv, AttemptsCounted
        <5> QED BY <1>0, <4>1, <5>3, <5>4, <5>5, SendingFinite
      <4> QED BY <4>2, <4>3
    <3> QED BY <3>1, <3>2, <3>3
  <2> QED BY <2>2, <2>3 DEF AttemptsCounted
<1>3. ASSUME NEW d \in Devices, NEW m \in Messages, Enqueue(d, m)
      PROVE  UnqueuedUncounted' /\ AttemptsCounted'
  <2>1. /\ row' = [row EXCEPT ![m] =
                       [id |-> lastRowId + 1, device_id |-> d, send_count |-> 0]]
        /\ row[m].device_id = NoDevice
        /\ transmissions' = transmissions
        /\ \A n : Sending(n)' = Sending(n)
    BY <1>3 DEF Enqueue, QueueRPC, handlerVars, historyVars, Sending
  <2>2. row[m].send_count = 0
    BY <2>1 DEF RetransmissionInv, UnqueuedUncounted
  <2>3. \A n \in Messages : n # m => row'[n] = row[n]
    BY <2>1 DEF RetransmissionInv, TypeInv, TypeOK, DbTypeOK
  <2>4. row'[m].send_count = 0 /\ row'[m].device_id = d
    BY <2>1 DEF RetransmissionInv, TypeInv, TypeOK, DbTypeOK
  <2>5. UnqueuedUncounted'
    BY <2>3, <2>4, DbAssumption DEF RetransmissionInv, UnqueuedUncounted
  <2>6. \A n \in Messages : row'[n].send_count >= row[n].send_count
    BY <1>0, <2>2, <2>3, <2>4
  <2> QED BY <1>0, <2>1, <2>5, <2>6, CountingHelper DEF AttemptsCounted
<1>4. CASE Crash
  <2>1. \A m : Sending(m)' = {}
    BY <1>4 DEF Crash, Restart, Idle, Sending
  <2>2. UNCHANGED row /\ UNCHANGED transmissions
    BY <1>4 DEF Crash, Restart, dbVars, historyVars
  <2> QED BY <1>0, <2>1, <2>2, CountingHelper DEF RetransmissionInv, UnqueuedUncounted,
       AttemptsCounted
<1> QED BY <1>1, <1>2, <1>3, <1>4 DEF Next, PostStep

LEMMA RetransmissionInit == Init => RetransmissionInv
<1> SUFFICES ASSUME Init PROVE RetransmissionInv
  OBVIOUS
<1>1. TypeInv /\ QueuedRowsOwned /\ UnqueuedUncounted
  BY TypeInit DEF Init, DbInit, QueuedRowsOwned, UnqueuedUncounted
<1>2. \A m : Sending(m) = {}
  BY DEF Init, Idle, Sending
<1> QED BY <1>1, <1>2, FS_EmptySet DEF Init, DbInit, RetransmissionInv, AttemptsCounted

\* No RPC is written to a CPE more than MaxSends + 1 times, whatever crashes,
\* fails or overlaps: send_count, which a fetch never takes past MaxSends + 1,
\* counts every attempt before it is made.
THEOREM RetransmissionBounded == Spec => []BoundedRetransmission
<1>1. RetransmissionInv => BoundedRetransmission
  <2> SUFFICES ASSUME RetransmissionInv, NEW m \in Messages
               PROVE  transmissions[m] <= MaxSends + 1
    BY DEF BoundedRetransmission
  <2>1. transmissions[m] \in Nat /\ row[m].send_count \in 0 .. MaxSends + 1
    BY DEF RetransmissionInv, TypeInv, TypeOK, DbTypeOK, Rows, SendCounts
  <2>2. transmissions[m] + Cardinality(Sending(m)) <= row[m].send_count
    BY DEF RetransmissionInv, AttemptsCounted
  <2> QED BY <2>1, <2>2, SendingFinite, DbAssumption
<1> QED BY <1>1, RetransmissionInit, RetransmissionStep, PTL DEF Spec

-----------------------------------------------------------------------------
(* Whose RPCs are sent, and in which order.  A handler and a session hold an  *)
(* RPC of their device before which no other of that device is queued.        *)

\* The labels of a handler that works in a session.
SessionLabels == Labels \ ({"idle"} \cup PanicLabels)

\* Handlers that work in a session have one.
HandlersHaveSession ==
    \A r \in Requests : pc[r] \in SessionLabels => sess[r] \in Sessions

\* What a handler step does to the local variables of its own slot.
LEMMA OwnFrame ==
    ASSUME TypeInv, NEW r \in Requests, HandlerStep(r)
    PROVE  \/ /\ sess'[r] = sess[r] /\ post'[r] = post[r]
              /\ pc'[r] \in SessionLabels => pc[r] \in SessionLabels
           \/ sess'[r] = NoSession /\ pc'[r] = "idle"
<1> USE DEF TypeInv, TypeOK, Goto, At, SessionLabels, Labels, PanicLabels
<1>1. ASSUME NEW infos, Return(r, infos)
      PROVE  sess'[r] = NoSession /\ pc'[r] = "idle"
  BY <1>1 DEF Return
<1>2. CASE \/ InformFault(r) \/ SendInformResponse(r) \/ AnswerAtOnce(r)
           \/ SendRpc(r) \/ UnmapDevice(r) \/ RecoverPanic(r)
  BY <1>1, <1>2 DEF InformFault, SendInformResponse, AnswerAtOnce, SendRpc, UnmapDevice,
     RecoverPanic
<1>3. CASE \/ AddDevice(r) \/ IsDeviceRegistered(r) \/ UpdateDevice(r)
           \/ CheckEmptyPost(r) \/ AcceptEmptyPost(r) \/ ContinueEmptyPost(r)
           \/ CheckSessionState(r) \/ AcceptResponse(r) \/ MatchResponse(r)
           \/ CompareResponse(r) \/ DeleteAnswered(r)
  BY <1>3 DEF AddDevice, IsDeviceRegistered, UpdateDevice, CheckEmptyPost,
     AcceptEmptyPost, ContinueEmptyPost, CheckSessionState, AcceptResponse,
     MatchResponse, CompareResponse, DeleteAnswered
<1>4. CASE \/ DeleteAnsweredFails(r) \/ ActiveRPCIsGone(r) \/ ClearActiveRPC(r)
           \/ FetchRow(r) \/ FetchUnbuildable(r) \/ FetchNothing(r) \/ DropRow(r)
           \/ DropRowFails(r) \/ AssignActiveRPC(r) \/ TerminateSession(r)
           \/ UnmapSessionId(r)
  BY <1>4 DEF DeleteAnsweredFails, ActiveRPCIsGone, ClearActiveRPC, FetchRow,
     FetchUnbuildable, FetchNothing, DropRow, DropRowFails, AssignActiveRPC,
     TerminateSession, UnmapSessionId
<1> QED BY <1>2, <1>3, <1>4 DEF HandlerStep

\* The POST that arrives has a session or fails at once; it has no RPC yet.
LEMMA ArrivalFrame ==
    ASSUME TypeInv, NEW r \in Requests, Receive(r)
    PROVE  /\ pc[r] = "idle" /\ out'[r] = out[r]
           /\ pc'[r] \in SessionLabels => sess'[r] \in Sessions
           /\ \A s \in Sessions :
                 \/ sessions'[s] = sessions[s]
                 \/ /\ sessions'[s].ActiveRPC = NoMessage
                    /\ \A q \in Requests : sess[q] # s
           /\ UNCHANGED dbVars /\ UNCHANGED historyVars
<1> USE DEF TypeInv, TypeOK, Goto, At, SessionLabels, Labels, PanicLabels
<1>1. CASE ReceiveEmptyPost(r) \/ ReceiveMessage(r)
  BY <1>1 DEF ReceiveEmptyPost, ReceiveMessage, ReceiveInSession, sessionVars
<1>2. CASE ReceiveBroken(r)
  BY <1>2 DEF ReceiveBroken, sessionVars
<1>3. CASE ReceiveInform(r)
  BY <1>3 DEF ReceiveInform, Unreferenced
<1> QED BY <1>1, <1>2, <1>3 DEF Receive

\* m is queued for d, or was, and no row of d that is queued is older.
Foremost(m, d) ==
    /\ m \in Messages /\ d \in Devices
    /\ row[m].device_id = d
    /\ \A n \in Pending(d) : row[m].id <= row[n].id

\* A handler holds an RPC from the fetch to the moment it is written.
OutWhileSending ==
    \A r \in Requests : out[r] # NoMessage => pc[r] \in {"fetch", "drop", "assign", "send"}

HeldIsForemost ==
    /\ \A s \in Sessions : sessions[s].ActiveRPC # NoMessage =>
           Foremost(sessions[s].ActiveRPC, sessions[s].DeviceIdString)
    /\ \A r \in Requests : out[r] # NoMessage =>
           Foremost(out[r], sessions[sess[r]].DeviceIdString)

RowIdsGiven == \A m \in Messages : row[m].id <= lastRowId

HoldingInv == /\ TypeInv
              /\ QueuedRowsOwned
              /\ HandlersHaveSession
              /\ OutWhileSending
              /\ HeldIsForemost
              /\ RowIdsGiven

\* No step puts a row before one that was foremost, or takes the row's device
\* away: ids only grow.
LEMMA ForemostStays ==
    ASSUME TypeInv, QueuedRowsOwned, RowIdsGiven, [Next]_vars, NEW m, NEW d, Foremost(m, d)
    PROVE  Foremost(m, d)'
<1> USE DEF TypeInv, TypeOK, DbTypeOK, Rows
<1>1. CASE UNCHANGED dbVars
  BY <1>1 DEF dbVars, Foremost, Pending
<1>2. ASSUME NEW r \in Requests, HandlerStep(r)
      PROVE  Foremost(m, d)'
  <2>1. /\ rpc_queue' \subseteq rpc_queue
        /\ \A n \in Messages : row'[n].device_id = row[n].device_id /\ row'[n].id = row[n].id
    BY <1>2, RowFrame DEF Foremost
  <2> QED BY <2>1 DEF Foremost, Pending
<1>3. ASSUME NEW e \in Devices, NEW k \in Messages, Enqueue(e, k)
      PROVE  Foremost(m, d)'
  <2>1. /\ k # m /\ rpc_queue' = rpc_queue \cup {k}
        /\ row'[k].id = lastRowId + 1
        /\ \A n \in Messages : n # k => row'[n] = row[n]
    BY <1>3, DbAssumption DEF Enqueue, QueueRPC, Foremost
  <2>2. ASSUME NEW n \in Pending(d)' PROVE row'[m].id <= row'[n].id
    <3>1. CASE n = k
      BY <2>1, <3>1 DEF RowIdsGiven, Foremost
    <3>2. CASE n # k
      BY <2>1, <2>2, <3>2 DEF Foremost, Pending
    <3> QED BY <3>1, <3>2
  <2> QED BY <2>1, <2>2 DEF Foremost
<1> QED BY <1>1, <1>2, <1>3 DEF Next, PostStep, Receive, ReceiveEmptyPost, ReceiveMessage,
     ReceiveInSession, ReceiveBroken, ReceiveInform, Crash, Restart, vars

\* The rows' ids are those given so far.
LEMMA RowIdsStep ==
    ASSUME TypeInv, RowIdsGiven, [Next]_vars
    PROVE  RowIdsGiven'
<1> USE DEF TypeInv, TypeOK, DbTypeOK, Rows, RowIdsGiven
<1>1. CASE UNCHANGED dbVars
  BY <1>1 DEF dbVars
<1>2. ASSUME NEW r \in Requests, HandlerStep(r)
      PROVE  RowIdsGiven'
  BY <1>2, RowFrame
<1>3. ASSUME NEW e \in Devices, NEW k \in Messages, Enqueue(e, k)
      PROVE  RowIdsGiven'
  BY <1>3 DEF Enqueue, QueueRPC
<1> QED BY <1>1, <1>2, <1>3 DEF Next, PostStep, Receive, ReceiveEmptyPost, ReceiveMessage,
     ReceiveInSession, ReceiveBroken, ReceiveInform, Crash, Restart, vars

\* Only a fetch puts an RPC into a handler's hands, and it is let go of at the
\* latest when the handler returns.
LEMMA OutFrame ==
    ASSUME TypeInv, NEW r \in Requests, HandlerStep(r),
           out[r] # NoMessage => pc[r] \in {"fetch", "drop", "assign", "send"}
    PROVE  /\ FetchRow(r) \/ out'[r] \in {out[r], NoMessage}
           /\ out'[r] # NoMessage => pc'[r] \in {"fetch", "drop", "assign", "send"}
           /\ sess'[r] = sess[r] \/ out'[r] = NoMessage
<1> USE SessionAssumption DEF TypeInv, TypeOK, Goto, At
<1>1. ASSUME NEW infos, Return(r, infos)
      PROVE  out'[r] = NoMessage
  BY <1>1 DEF Return
<1>2. CASE \/ InformFault(r) \/ SendInformResponse(r) \/ AnswerAtOnce(r)
           \/ SendRpc(r) \/ UnmapDevice(r) \/ RecoverPanic(r)
  BY <1>1, <1>2 DEF InformFault, SendInformResponse, AnswerAtOnce, SendRpc, UnmapDevice,
     RecoverPanic
<1>3. CASE \/ AddDevice(r) \/ IsDeviceRegistered(r) \/ UpdateDevice(r)
           \/ CheckEmptyPost(r) \/ AcceptEmptyPost(r) \/ ContinueEmptyPost(r)
           \/ CheckSessionState(r) \/ AcceptResponse(r) \/ MatchResponse(r)
           \/ CompareResponse(r) \/ DeleteAnswered(r)
  BY <1>3 DEF AddDevice, IsDeviceRegistered, UpdateDevice, CheckEmptyPost,
     AcceptEmptyPost, ContinueEmptyPost, CheckSessionState, AcceptResponse,
     MatchResponse, CompareResponse, DeleteAnswered
<1>4. CASE \/ DeleteAnsweredFails(r) \/ ActiveRPCIsGone(r) \/ ClearActiveRPC(r)
           \/ FetchRow(r) \/ FetchUnbuildable(r) \/ FetchNothing(r) \/ DropRow(r)
           \/ DropRowFails(r) \/ AssignActiveRPC(r) \/ TerminateSession(r)
           \/ UnmapSessionId(r)
  BY <1>4 DEF DeleteAnsweredFails, ActiveRPCIsGone, ClearActiveRPC, FetchRow,
     FetchUnbuildable, FetchNothing, DropRow, DropRowFails, AssignActiveRPC,
     TerminateSession, UnmapSessionId
<1> QED BY <1>2, <1>3, <1>4 DEF HandlerStep

\* The part of the step lemma about POSTs that arrive.
LEMMA HoldingReceive ==
    ASSUME HoldingInv, NEW r \in Requests, Receive(r)
    PROVE  HandlersHaveSession' /\ OutWhileSending' /\ HeldIsForemost'
<1> USE DEF HoldingInv
<1>1. /\ pc[r] = "idle" /\ out'[r] = out[r]
      /\ pc'[r] \in SessionLabels => sess'[r] \in Sessions
      /\ \A s \in Sessions :
            \/ sessions'[s] = sessions[s]
            \/ /\ sessions'[s].ActiveRPC = NoMessage
               /\ \A q \in Requests : sess[q] # s
      /\ UNCHANGED dbVars
  BY ArrivalFrame
<1>2. \A q \in Requests : q # r => /\ pc'[q] = pc[q] /\ sess'[q] = sess[q] /\ out'[q] = out[q]
  BY LocalFrame
<1>3. out[r] = NoMessage
  BY <1>1 DEF OutWhileSending
<1>4. HandlersHaveSession'
  BY <1>1, <1>2 DEF HandlersHaveSession
<1>5. OutWhileSending'
  BY <1>1, <1>2, <1>3 DEF OutWhileSending
<1>6. \A m, d : Foremost(m, d)' <=> Foremost(m, d)
  BY <1>1 DEF Foremost, Pending, dbVars
<1>7. ASSUME NEW s \in Sessions, sessions'[s].ActiveRPC # NoMessage
      PROVE  Foremost(sessions[s].ActiveRPC, sessions[s].DeviceIdString)'
  <2>1. sessions'[s] = sessions[s]
    BY <1>1, <1>7
  <2>2. Foremost(sessions[s].ActiveRPC, sessions[s].DeviceIdString)
    BY <1>7, <2>1 DEF HeldIsForemost
  <2> QED BY <1>6, <2>1, <2>2
<1>8. ASSUME NEW q \in Requests, out'[q] # NoMessage
      PROVE  Foremost(out[q], sessions[sess[q]].DeviceIdString)'
  <2>1. q # r /\ out'[q] = out[q] /\ sess'[q] = sess[q]
    BY <1>1, <1>2, <1>3, <1>8
  <2>2. sess[q] \in Sessions
    BY <1>8, <2>1 DEF OutWhileSending, HandlersHaveSession, SessionLabels, Labels,
       PanicLabels
  <2>3. sessions'[sess[q]] = sessions[sess[q]]
    BY <1>1, <2>2
  <2>4. Foremost(out[q], sessions[sess[q]].DeviceIdString)
    BY <1>8, <2>1 DEF HeldIsForemost
  <2> QED BY <1>6, <2>1, <2>3, <2>4
<1> QED BY <1>4, <1>5, <1>7, <1>8 DEF HeldIsForemost

\* The part about handlers that go on.
LEMMA HoldingHandler ==
    ASSUME HoldingInv, NEW r \in Requests, HandlerStep(r)
    PROVE  HandlersHaveSession' /\ OutWhileSending' /\ HeldIsForemost'
<1> USE DEF HoldingInv
<1>1. \/ /\ sess'[r] = sess[r] /\ post'[r] = post[r]
         /\ pc'[r] \in SessionLabels => pc[r] \in SessionLabels
      \/ sess'[r] = NoSession /\ pc'[r] = "idle"
  BY OwnFrame
<1>2. \A q \in Requests : q # r => /\ pc'[q] = pc[q] /\ sess'[q] = sess[q] /\ out'[q] = out[q]
  BY LocalFrame
<1>3. /\ FetchRow(r) \/ out'[r] \in {out[r], NoMessage}
      /\ out'[r] # NoMessage => pc'[r] \in {"fetch", "drop", "assign", "send"}
      /\ sess'[r] = sess[r] \/ out'[r] = NoMessage
  BY OutFrame DEF OutWhileSending
<1>4. \A s \in Sessions : sessions'[s].DeviceIdString = sessions[s].DeviceIdString
  BY SessionFrame
<1>5. HandlersHaveSession'
  BY <1>1, <1>2 DEF HandlersHaveSession, SessionLabels
<1>6. OutWhileSending'
  BY <1>2, <1>3 DEF OutWhileSending
<1>7. [Next]_vars
  BY DEF Next, PostStep
<1>8. \A q \in Requests : out[q] # NoMessage => sess[q] \in Sessions
  BY DEF OutWhileSending, HandlersHaveSession, SessionLabels, Labels, PanicLabels
<1>9. ASSUME NEW s \in Sessions, sessions'[s].ActiveRPC # NoMessage
      PROVE  Foremost(sessions[s].ActiveRPC, sessions[s].DeviceIdString)'
  <2>1. \/ sessions'[s].ActiveRPC = sessions[s].ActiveRPC
        \/ s = sess[r] /\ sessions'[s].ActiveRPC = out[r]
    BY <1>9, SessionFrame
  <2>2. Foremost(sessions'[s].ActiveRPC, sessions[s].DeviceIdString)
    BY <1>9, <2>1 DEF HeldIsForemost
  <2> QED BY <1>4, <1>7, <2>2, ForemostStays
<1>10. ASSUME NEW q \in Requests, out'[q] # NoMessage
       PROVE  Foremost(out[q], sessions[sess[q]].DeviceIdString)'
  <2>1. CASE out'[q] = out[q]
    <3>1. Foremost(out[q], sessions[sess[q]].DeviceIdString) /\ sess[q] \in Sessions
      BY <1>8, <1>10, <2>1 DEF HeldIsForemost
    <3>2. sess'[q] = sess[q]
      BY <1>2, <1>3, <1>10
    <3> QED BY <1>4, <1>7, <2>1, <3>1, <3>2, ForemostStays
  <2>2. CASE out'[q] # out[q]
    <3>1. q = r /\ FetchRow(r)
      BY <1>2, <1>3, <1>10, <2>2
    <3>2. PICK m \in Messages : /\ IsHead(sessions[sess[r]].DeviceIdString, m)
                                /\ out' = [out EXCEPT ![r] = m]
      BY <3>1 DEF FetchRow
    <3>3. out'[r] = m /\ sess'[r] = sess[r] /\ sess[r] \in Sessions
      BY <3>1, <3>2 DEF FetchRow, At, TypeInv, TypeOK, HandlersHaveSession, SessionLabels,
         Labels, PanicLabels
    <3>4. Foremost(m, sessions[sess[r]].DeviceIdString)
      BY <3>2 DEF IsHead, Pending, Foremost, QueuedRowsOwned
    <3> QED BY <1>4, <1>7, <3>1, <3>3, <3>4, ForemostStays
  <2> QED BY <2>1, <2>2
<1> QED BY <1>5, <1>6, <1>9, <1>10 DEF HeldIsForemost

LEMMA HoldingInit == Init => HoldingInv
<1> SUFFICES ASSUME Init PROVE HoldingInv
  OBVIOUS
<1>1. TypeInv /\ QueuedRowsOwned /\ RowIdsGiven
  BY TypeInit DEF Init, DbInit, QueuedRowsOwned, RowIdsGiven
<1> QED BY <1>1 DEF Init, Idle, NoOut, NewSessions, NewSession, HoldingInv,
     HandlersHaveSession, SessionLabels, OutWhileSending, HeldIsForemost

LEMMA HoldingStep == HoldingInv /\ [Next]_vars => HoldingInv'
<1> SUFFICES ASSUME HoldingInv, [Next]_vars PROVE HoldingInv'
  OBVIOUS
<1> USE DEF HoldingInv
<1>0. TypeInv' /\ QueuedRowsOwned' /\ RowIdsGiven'
  BY TypeStep, QueueStep, RowIdsStep
<1>1. CASE PostStep
  BY <1>0, <1>1, HoldingReceive, HoldingHandler DEF PostStep
<1>2. CASE UNCHANGED <<sessionVars, handlerVars>>
  <2>1. HeldIsForemost'
    BY <1>2, ForemostStays DEF HeldIsForemost, sessionVars, handlerVars
  <2> QED BY <1>0, <1>2, <2>1 DEF sessionVars, handlerVars, HandlersHaveSession,
       OutWhileSending
<1>3. CASE Crash
  BY <1>0, <1>3 DEF Crash, Restart, Idle, NoOut, NewSessions, NewSession, SessionLabels,
     HandlersHaveSession, OutWhileSending, HeldIsForemost
<1> QED BY <1>1, <1>2, <1>3 DEF Next, Enqueue, vars

\* A session only ever has an RPC in flight that was queued for its device, and
\* a handler only holds one of its session's, even when POSTs of one session
\* overlap: a fetch looks for rows of the session's device, which never changes
\* while a handler works in it, and a row never changes its device.
THEOREM OwnersServed == Spec => []DeliveredToOwner
<1>1. HoldingInv => DeliveredToOwner
  BY DEF HoldingInv, HeldIsForemost, Foremost, DeliveredToOwner
<1> QED BY <1>1, HoldingInit, HoldingStep, PTL DEF Spec

\* RPCs of a device are first sent in the order they were queued, whichever of
\* its sessions send them: what a handler fetched stays the oldest row until it
\* is gone, since later rows have greater ids.
THEOREM SentInOrder == Spec => InOrder
<1>1. HoldingInv /\ [Next]_vars
      => [\A m \in rpc_queue :
             transmissions[m] = 0 /\ transmissions'[m] > 0
             => \A n \in Pending(row[m].device_id) : row[m].id <= row[n].id]_vars
  <2> SUFFICES ASSUME HoldingInv, Next, NEW m \in rpc_queue,
                      transmissions[m] = 0, transmissions'[m] > 0
               PROVE  \A n \in Pending(row[m].device_id) : row[m].id <= row[n].id
    OBVIOUS
  <2> USE DEF HoldingInv
  <2>1. transmissions'[m] # transmissions[m]
    OBVIOUS
  <2>2. PICK r \in Requests : HandlerStep(r)
    BY <2>1 DEF Next, PostStep, Enqueue, Crash, Restart, historyVars, Receive,
       ReceiveEmptyPost, ReceiveMessage, ReceiveInSession, ReceiveBroken, ReceiveInform
  <2>3. SendRpc(r)
    <3>1. m \in Messages
      BY DEF TypeInv, TypeOK, DbTypeOK
    <3> QED BY <2>1, <2>2, <3>1, SendingFrame DEF FetchRow, historyVars
  <2>4. m = out[r]
    BY <2>1, <2>3 DEF SendRpc, TypeInv, TypeOK, DbTypeOK
  <2>5. out[r] # NoMessage
    BY <2>4, SessionAssumption DEF TypeInv, TypeOK, DbTypeOK
  <2> QED BY <2>4, <2>5 DEF HeldIsForemost, Foremost
<1> QED BY <1>1, HoldingInit, HoldingStep, PTL DEF Spec, InOrder
=============================================================================
