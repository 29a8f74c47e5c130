------------------------- MODULE CwmpSerial_proofs -------------------------
(***************************************************************************)
(* What holds of the sessions, for every instance, when each CPE awaits    *)
(* the answer to a POST before the next one: no RPC is lost, a session     *)
(* moves forward, no handler works under the context of another's POST.    *)
(* (When POSTs of a session overlap, a response can delete the row of      *)
(* another RPC: OnlyMatchedDeleted has the counterexample.)                *)
(***************************************************************************)
EXTENDS CwmpSessions_proofs

\* No two handlers work in the same session.
OneHandlerPerSession ==
    \A r, q \in Requests : r # q /\ sess[r] = sess[q] => sess[r] = NoSession

\* A handler that is about to delete a row for good has the right to.
DropsExhausted ==
    \A r \in Requests :
        pc[r] = "drop" => /\ out[r] \in Messages
                          /\ row[out[r]].device_id \in Devices
                          /\ Exhausted(out[r])

DeletesAnswered ==
    \A r \in Requests :
        pc[r] \in {"delete", "clear"} => /\ post[r].id \in answered
                                         /\ sessions[sess[r]].ActiveRPC = post[r].id

LossInv == /\ TypeInv
           /\ QueuedRowsOwned
           /\ HandlersHaveSession
           /\ OneHandlerPerSession
           /\ DropsExhausted
           /\ DeletesAnswered

-----------------------------------------------------------------------------

\* How a POST starts: in a session no handler works in, or in none.
LEMMA ReceiveFrame ==
    ASSUME TypeInv, OverlappingPosts = FALSE, NEW r \in Requests, Receive(r)
    PROVE  /\ pc[r] = "idle"
           /\ pc'[r] \notin {"drop", "delete", "clear"}
           /\ pc'[r] \in SessionLabels => sess'[r] \in Sessions
           /\ \/ sess'[r] = sess[r]
              \/ \A q \in Requests : sess[q] # sess'[r]
           /\ \A s \in Sessions : s # sess'[r] => sessions'[s] = sessions[s]
           /\ UNCHANGED <<rpc_queue, row, answered>>
<1> USE DEF TypeInv, TypeOK, Goto, At, SessionLabels, Labels, PanicLabels, dbVars, historyVars
<1>1. ASSUME NEW s \in Sessions, NEW p \in Posts, NEW label \in {"emptyCheck", "stateCheck"},
             ReceiveInSession(r, s, p, label)
      PROVE  /\ pc[r] = "idle" /\ pc'[r] = label /\ sess'[r] = s
             /\ \A q \in Requests : sess[q] # s
             /\ sessions' = sessions
             /\ UNCHANGED <<rpc_queue, row, answered>>
  BY <1>1 DEF ReceiveInSession, MayPost, sessionVars
<1>2. CASE ReceiveEmptyPost(r)
  BY <1>1, <1>2, PostValues DEF ReceiveEmptyPost
<1>3. CASE ReceiveMessage(r)
  BY <1>1, <1>3, PostValues DEF ReceiveMessage
<1>4. CASE ReceiveBroken(r)
  BY <1>4 DEF ReceiveBroken, sessionVars
<1>5. CASE ReceiveInform(r)
  BY <1>5 DEF ReceiveInform, Unreferenced
<1> QED BY <1>2, <1>3, <1>4, <1>5 DEF Receive

\* Only FetchRow leads to "drop", only CompareResponse to "delete", only "delete" to
\* "clear", and what was answered once stays answered.
LEMMA LabelFrame ==
    ASSUME TypeInv, NEW r \in Requests, HandlerStep(r)
    PROVE  /\ pc'[r] = "drop" => FetchRow(r)
           /\ pc'[r] = "delete" => CompareResponse(r)
           /\ pc'[r] = "clear" => DeleteAnswered(r) \/ DeleteAnsweredFails(r)
           /\ answered \subseteq answered'
<1> USE DEF TypeInv, TypeOK, Goto, At, historyVars
<1>1. ASSUME NEW infos, Return(r, infos)
      PROVE  pc'[r] = "idle"
  BY <1>1 DEF Return
<1>2. CASE \/ InformFault(r) \/ SendInformResponse(r) \/ AnswerAtOnce(r)
           \/ SendRpc(r) \/ UnmapDevice(r) \/ RecoverPanic(r)
  BY <1>1, <1>2 DEF InformFault, SendInformResponse, AnswerAtOnce, SendRpc, UnmapDevice,
     RecoverPanic
<1>3. CASE \/ AddDevice(r) \/ IsDeviceRegistered(r) \/ UpdateDevice(r)
           \/ CheckEmptyPost(r) \/ AcceptEmptyPost(r) \/ ContinueEmptyPost(r)
           \/ CheckSessionState(r) \/ AcceptResponse(r) \/ MatchResponse(r)
           \/ CompareResponse(r) \/ DeleteAnswered(r)
  BY <1>3 DEF AddDevice, IsDeviceRegistered, UpdateDevice, CheckEmptyPost,
     AcceptEmptyPost, ContinueEmptyPost, CheckSessionState, AcceptResponse,
     MatchResponse, CompareResponse, DeleteAnswered
<1>4. CASE \/ DeleteAnsweredFails(r) \/ ActiveRPCIsGone(r) \/ ClearActiveRPC(r)
           \/ FetchRow(r) \/ FetchUnbuildable(r) \/ FetchNothing(r) \/ DropRow(r)
           \/ DropRowFails(r) \/ AssignActiveRPC(r) \/ TerminateSession(r)
           \/ UnmapSessionId(r)
  BY <1>4 DEF DeleteAnsweredFails, ActiveRPCIsGone, ClearActiveRPC, FetchRow,
     FetchUnbuildable, FetchNothing, DropRow, DropRowFails, AssignActiveRPC,
     TerminateSession, UnmapSessionId
<1> QED BY <1>2, <1>3, <1>4 DEF HandlerStep

\* Only the two calls of DeleteQueuedRPC take a row out of the queue.
LEMMA DeleteFrame ==
    ASSUME TypeInv, NEW r \in Requests, HandlerStep(r), NEW m \in rpc_queue,
           m \notin rpc_queue'
    PROVE  \/ pc[r] = "delete" /\ m = sessions[sess[r]].ActiveRPC
           \/ pc[r] = "drop" /\ m = out[r]
BY DEF HandlerStep, AddDevice, AddDeviceRow, IsDeviceRegistered, UpdateDevice,
   UpdateDeviceRow, InformFault, SendInformResponse, CheckEmptyPost, AcceptEmptyPost,
   ContinueEmptyPost, CheckSessionState, AnswerAtOnce, AcceptResponse, MatchResponse,
   CompareResponse, DeleteAnswered, DeleteAnsweredFails, ActiveRPCIsGone,
   ClearActiveRPC, FetchRow, FetchUnbuildable, FetchQueuedRPC, FetchNothing, DropRow,
   DropRowFails, AssignActiveRPC, SendRpc, TerminateSession, UnmapSessionId, UnmapDevice,
   RecoverPanic, DeleteQueuedRPC, At, dbVars

-----------------------------------------------------------------------------

\* The part of the step lemma about POSTs that arrive.
LEMMA LossReceive ==
    ASSUME LossInv, OverlappingPosts = FALSE, NEW r \in Requests, Receive(r)
    PROVE  HandlersHaveSession' /\ OneHandlerPerSession' /\ DropsExhausted'
           /\ DeletesAnswered'
<1> USE DEF LossInv
<1>1. /\ pc[r] = "idle"
      /\ pc'[r] \notin {"drop", "delete", "clear"}
      /\ pc'[r] \in SessionLabels => sess'[r] \in Sessions
      /\ sess'[r] = sess[r] \/ \A q \in Requests : sess[q] # sess'[r]
      /\ \A s \in Sessions : s # sess'[r] => sessions'[s] = sessions[s]
      /\ rpc_queue' = rpc_queue /\ row' = row /\ answered' = answered
  BY ReceiveFrame
<1>2. \A q \in Requests : q # r => /\ pc'[q] = pc[q] /\ post'[q] = post[q]
                                   /\ sess'[q] = sess[q] /\ out'[q] = out[q]
  BY LocalFrame
<1>3. HandlersHaveSession'
  BY <1>1, <1>2 DEF HandlersHaveSession
<1>4. OneHandlerPerSession'
  BY <1>1, <1>2 DEF OneHandlerPerSession
<1>5. DropsExhausted'
  BY <1>1, <1>2 DEF DropsExhausted, Exhausted
<1>6. DeletesAnswered'
  <2> SUFFICES ASSUME NEW q \in Requests, pc'[q] \in {"delete", "clear"}
               PROVE  post'[q].id \in answered'
                      /\ sessions'[sess'[q]].ActiveRPC = post'[q].id
    BY DEF DeletesAnswered
  <2>1. q # r /\ pc[q] \in {"delete", "clear"} /\ sess[q] \in Sessions
    BY <1>1, <1>2 DEF HandlersHaveSession, SessionLabels, Labels, PanicLabels
  <2>2. sess[q] # sess'[r]
    BY <1>1, <2>1, SessionAssumption DEF OneHandlerPerSession
  <2> QED BY <1>1, <1>2, <2>1, <2>2 DEF DeletesAnswered
<1> QED BY <1>3, <1>4, <1>5, <1>6

\* The part about handlers that go on.
LEMMA LossHandler ==
    ASSUME LossInv, NEW r \in Requests, HandlerStep(r)
    PROVE  HandlersHaveSession' /\ OneHandlerPerSession' /\ DropsExhausted'
           /\ DeletesAnswered'
<1> USE DEF LossInv
<1>1. \/ /\ sess'[r] = sess[r] /\ post'[r] = post[r]
         /\ pc'[r] \in SessionLabels => pc[r] \in SessionLabels
      \/ sess'[r] = NoSession /\ pc'[r] = "idle"
  BY OwnFrame
<1>2. \A q \in Requests : q # r => /\ pc'[q] = pc[q] /\ post'[q] = post[q]
                                   /\ sess'[q] = sess[q] /\ out'[q] = out[q]
  BY LocalFrame
<1>3. /\ pc'[r] = "drop" => FetchRow(r)
      /\ pc'[r] = "delete" => CompareResponse(r)
      /\ pc'[r] = "clear" => DeleteAnswered(r) \/ DeleteAnsweredFails(r)
      /\ answered \subseteq answered'
  BY LabelFrame
<1>4. HandlersHaveSession'
  BY <1>1, <1>2 DEF HandlersHaveSession, SessionLabels
<1>5. OneHandlerPerSession'
  BY <1>1, <1>2 DEF OneHandlerPerSession
<1>6. DropsExhausted'
  <2> SUFFICES ASSUME NEW q \in Requests, pc'[q] = "drop"
               PROVE  out'[q] \in Messages /\ row'[out'[q]].device_id \in Devices
                      /\ row'[out'[q]].send_count > MaxSends
    BY DEF DropsExhausted, Exhausted
  <2>1. CASE q # r
    <3>1. /\ out'[q] = out[q] /\ out[q] \in Messages
          /\ row[out[q]].device_id \in Devices /\ row[out[q]].send_count > MaxSends
      BY <1>2, <2>1 DEF DropsExhausted, Exhausted
    <3>2. row'[out[q]].device_id = row[out[q]].device_id
          /\ row'[out[q]].send_count >= row[out[q]].send_count
      BY <3>1, RowFrame
    <3>3. row[out[q]].send_count \in Nat /\ row'[out[q]].send_count \in Nat
      <4>1. TypeInv /\ TypeInv'
        BY TypeStep DEF Next, PostStep
      <4> QED BY <3>1, <4>1, DbAssumption DEF TypeInv, TypeOK, DbTypeOK, Rows, SendCounts
    <3> QED BY <3>1, <3>2, <3>3, DbAssumption
  <2>2. CASE q = r
    <3>1. FetchRow(r)
      BY <1>3, <2>2
    <3>2. PICK m \in Messages :
            /\ m \in rpc_queue /\ FetchQueuedRPC(m)
            /\ out'[r] = m
            /\ pc'[r] = IF Exhausted(m) THEN "drop" ELSE "assign"
      BY <3>1 DEF FetchRow, IsHead, Pending, Goto, TypeInv, TypeOK
    <3>3. Exhausted(m) /\ row' = row
      BY <2>2, <3>2 DEF FetchQueuedRPC
    <3> QED BY <2>2, <3>2, <3>3 DEF QueuedRowsOwned, Exhausted
  <2> QED BY <2>1, <2>2
<1>7. DeletesAnswered'
  <2> SUFFICES ASSUME NEW q \in Requests, pc'[q] \in {"delete", "clear"}
               PROVE  post'[q].id \in answered'
                      /\ sessions'[sess'[q]].ActiveRPC = post'[q].id
    BY DEF DeletesAnswered
  <2>1. CASE q # r
    <3>1. pc[q] \in {"delete", "clear"} /\ sess[q] \in Sessions
      BY <1>2, <2>1 DEF HandlersHaveSession, SessionLabels, Labels, PanicLabels
    <3>2. sess[q] # sess[r]
      BY <2>1, <3>1, SessionAssumption DEF OneHandlerPerSession
    <3>3. sessions'[sess[q]].ActiveRPC = sessions[sess[q]].ActiveRPC
      BY <3>1, <3>2, SessionFrame
    <3> QED BY <1>2, <1>3, <2>1, <3>1, <3>3 DEF DeletesAnswered
  <2>2. CASE q = r /\ pc'[r] = "delete"
    BY <1>3, <2>2 DEF CompareResponse, Goto, sessionVars, TypeInv, TypeOK
  <2>3. CASE q = r /\ pc'[r] = "clear"
    <3>1. /\ pc[r] = "delete"
          /\ UNCHANGED <<sessions, post, sess, answered>>
      BY <1>3, <2>3 DEF DeleteAnswered, DeleteAnsweredFails, At, sessionVars, historyVars
    <3> QED BY <2>3, <3>1 DEF DeletesAnswered
  <2> QED BY <2>1, <2>2, <2>3
<1> QED BY <1>4, <1>5, <1>6, <1>7

LEMMA LossStep ==
    ASSUME LossInv, OverlappingPosts = FALSE, [Next]_vars
    PROVE  LossInv'
<1> USE DEF LossInv
<1>0. TypeInv' /\ QueuedRowsOwned'
  BY TypeStep, QueueStep
<1>1. CASE UNCHANGED vars
  BY <1>0, <1>1 DEF vars, dbVars, sessionVars, handlerVars, historyVars,
     HandlersHaveSession, OneHandlerPerSession, DropsExhausted, DeletesAnswered, Exhausted
<1>2. CASE PostStep
  BY <1>0, <1>2, LossReceive, LossHandler DEF PostStep
<1>3. ASSUME NEW d \in Devices, NEW m \in Messages, Enqueue(d, m)
      PROVE  LossInv'
  <2>1. /\ \A n \in Messages : row[n].device_id \in Devices => row'[n] = row[n]
        /\ UNCHANGED <<sessionVars, handlerVars, historyVars>>
    BY <1>3, DbAssumption DEF Enqueue, QueueRPC, TypeInv, TypeOK, DbTypeOK
  <2> QED BY <1>0, <2>1 DEF sessionVars, handlerVars, historyVars, HandlersHaveSession,
       OneHandlerPerSession, DropsExhausted, DeletesAnswered, Exhausted
<1>4. CASE Crash
  BY <1>0, <1>4 DEF Crash, Restart, Idle, NoSess, SessionLabels, Labels, PanicLabels,
     HandlersHaveSession, OneHandlerPerSession, DropsExhausted, DeletesAnswered
<1> QED BY <1>1, <1>2, <1>3, <1>4 DEF Next

LEMMA LossInvariant == OverlappingPosts = FALSE => (Spec => []LossInv)
<1>1. Init => LossInv
  BY TypeInit DEF Init, DbInit, LossInv, QueuedRowsOwned, HandlersHaveSession,
     OneHandlerPerSession, DropsExhausted, DeletesAnswered, Idle, NoSess, SessionLabels
<1>2. OverlappingPosts = FALSE /\ LossInv /\ [Next]_vars => LossInv'
  BY LossStep
<1> SUFFICES ASSUME OverlappingPosts = FALSE PROVE Spec => []LossInv
  OBVIOUS
<1>3. LossInv /\ [Next]_vars => LossInv'
  BY <1>2
<1> QED BY <1>1, <1>3, PTL DEF Spec

\* A row leaves the queue only after its response came or after it was fetched
\* more than MaxSends times, if a CPE posts in a session only once its last POST
\* there was answered: no crash, failed call or other session loses an RPC.
THEOREM NothingLost == OverlappingPosts = FALSE => (Spec => NoSilentLoss)
<1> SUFFICES ASSUME OverlappingPosts = FALSE PROVE Spec => NoSilentLoss
  OBVIOUS
<1>1. LossInv /\ [Next]_vars
      => [\A m \in rpc_queue : m \notin rpc_queue' => m \in answered \/ Exhausted(m)]_vars
  <2> SUFFICES ASSUME LossInv, Next, NEW m \in rpc_queue, m \notin rpc_queue'
               PROVE  m \in answered \/ Exhausted(m)
    OBVIOUS
  <2>1. PICK r \in Requests : HandlerStep(r)
    BY DEF Next, PostStep, Enqueue, QueueRPC, Crash, Restart, dbVars, Receive,
       ReceiveEmptyPost, ReceiveMessage, ReceiveInSession, ReceiveBroken, ReceiveInform
  <2>2. \/ pc[r] = "delete" /\ m = sessions[sess[r]].ActiveRPC
        \/ pc[r] = "drop" /\ m = out[r]
    BY <2>1, DeleteFrame DEF LossInv
  <2> QED BY <2>2 DEF LossInv, DeletesAnswered, DropsExhausted
<1> QED BY <1>1, LossInvariant, PTL DEF Spec, NoSilentLoss

\* Nothing but what its response settled: a handler that a response has led to
\* the DELETE takes out the row of that RPC and no other, if a CPE posts in a
\* session only once its last POST there was answered.  So overlapping POSTs are
\* all that can break this.
THEOREM MatchedDeleted == OverlappingPosts = FALSE => (Spec => OnlyMatchedDeleted)
<1> SUFFICES ASSUME OverlappingPosts = FALSE PROVE Spec => OnlyMatchedDeleted
  OBVIOUS
<1>1. LossInv /\ [Next]_vars
      => [\A r \in Requests : \A m \in rpc_queue \ rpc_queue' :
             pc[r] = "delete" /\ pc'[r] = "clear" => m = post[r].id]_vars
  <2> SUFFICES ASSUME LossInv, Next, NEW r \in Requests, NEW m \in rpc_queue \ rpc_queue',
                      pc[r] = "delete", pc'[r] = "clear"
               PROVE  m = post[r].id
    OBVIOUS
  <2>1. PICK q \in Requests : HandlerStep(q)
    BY DEF Next, PostStep, Enqueue, QueueRPC, Crash, Restart, dbVars, Receive,
       ReceiveEmptyPost, ReceiveMessage, ReceiveInSession, ReceiveBroken, ReceiveInform
  <2>2. q = r
    BY <2>1, LocalFrame DEF LossInv
  <2>3. m = sessions[sess[r]].ActiveRPC
    BY <2>1, <2>2, DeleteFrame DEF LossInv
  <2> QED BY <2>3 DEF LossInv, DeletesAnswered
<1> QED BY <1>1, LossInvariant, PTL DEF Spec, OnlyMatchedDeleted

-----------------------------------------------------------------------------
(* How sessions move on. *)

\* What the label of a handler says about its session.
HandlerFits(r) ==
    LET info == sessions[sess[r]]
    IN  /\ pc[r] \notin SessionLabels => sess[r] = NoSession
        /\ pc[r] \in PanicLabels => post[r].kind \in {"BadHeader", "NoChild"}
        /\ pc[r] \in InformLabels \cup {"informReply"} => info.SessionState = "INITIATING"
        /\ pc[r] \in {"emptyCheck", "stateCheck", "context"} =>
              info.SessionState \in {"RECEIVING_CPE_RPCS", "SENDING_ACS_RPCS"}
        /\ pc[r] = "emptyAccept" => info.SessionState = "RECEIVING_CPE_RPCS"
        /\ pc[r] = "emptyContext" => info.SessionState = "SENDING_ACS_RPCS"
        /\ pc[r] \in {"unmapId", "unmapDevice"} => info.SessionState = "TERMINATED"
        /\ pc[r] \in DbLabels \cup {"match", "compare", "clear"} => info.Context = r
        /\ pc[r] = "compare" => info.ActiveRPC # NoMessage
        /\ pc[r] = "send" => info.ActiveRPC = out[r] /\ out[r] # NoMessage

\* What the state of a session says about a handler that works in it.
HandlerAt(s, labels) == \E r \in Requests : sess[r] = s /\ pc[r] \in labels

SessionFits(s) ==
    LET info == sessions[s]
    IN  /\ info.SessionState \notin {"NEW", "TERMINATED"} => s \in SessionIdActiveSessions
        /\ s \in SessionIdActiveSessions /\ info.SessionState = "TERMINATED"
              => HandlerAt(s, {"unmapId"})
        /\ s \in SessionIdActiveSessions /\ info.SessionState = "SENDING_ACS_RPCS"
              => info.ActiveRPC # NoMessage
                 \/ HandlerAt(s, {"emptyContext", "fetch", "drop", "assign", "terminate"})
        /\ info.ActiveRPC # NoMessage
              => transmissions[info.ActiveRPC] > 0 \/ HandlerAt(s, {"send"})

SerialInv == /\ LossInv
             /\ \A r \in Requests : HandlerFits(r)
             /\ \A s \in Sessions : SessionFits(s)
             /\ AnsweredWasSent

\* A handler touches no session but its own, except that its return cancels a
\* context that is its request's.
LEMMA ForeignSession ==
    ASSUME TypeInv, NEW r \in Requests, HandlerStep(r), NEW s \in Sessions, s # sess[r]
    PROVE  /\ sessions'[s].SessionState = sessions[s].SessionState
           /\ sessions'[s].ActiveRPC = sessions[s].ActiveRPC
           /\ sessions[s].Context # r => sessions'[s].Context = sessions[s].Context
           /\ s \in SessionIdActiveSessions' <=> s \in SessionIdActiveSessions
<1> USE DEF TypeInv, TypeOK, SessionInfos
<1>1. ASSUME NEW infos, infos[s] = sessions[s], Return(r, infos)
      PROVE  /\ sessions'[s].SessionState = sessions[s].SessionState
             /\ sessions'[s].ActiveRPC = sessions[s].ActiveRPC
             /\ sessions[s].Context # r => sessions'[s].Context = sessions[s].Context
  BY <1>1 DEF Return
<1>2. CASE UNCHANGED sessionVars
  BY <1>2 DEF sessionVars
<1>3. CASE \/ InformFault(r) \/ SendInformResponse(r) \/ AnswerAtOnce(r)
           \/ SendRpc(r) \/ RecoverPanic(r) \/ UnmapDevice(r)
  BY <1>1, <1>3 DEF InformFault, SendInformResponse, AnswerAtOnce, WithContext, SendRpc,
     RecoverPanic, UnmapDevice, UnchangedTables
<1>4. CASE \/ AcceptEmptyPost(r) \/ ContinueEmptyPost(r) \/ AcceptResponse(r)
           \/ ClearActiveRPC(r) \/ AssignActiveRPC(r) \/ TerminateSession(r)
           \/ UnmapSessionId(r)
  BY <1>4 DEF AcceptEmptyPost, ContinueEmptyPost, AcceptResponse, WithContext,
     ClearActiveRPC, AssignActiveRPC, TerminateSession, UnmapSessionId, UnchangedTables
<1> QED BY <1>2, <1>3, <1>4 DEF HandlerStep, AddDevice, IsDeviceRegistered, UpdateDevice,
     CheckEmptyPost, CheckSessionState, MatchResponse, CompareResponse, DeleteAnswered,
     DeleteAnsweredFails, ActiveRPCIsGone, FetchRow, FetchUnbuildable, FetchNothing,
     DropRow, DropRowFails

\* What was written to a CPE stays written.
LEMMA TransmissionsGrow ==
    ASSUME TypeInv, [Next]_vars, NEW m \in Messages, transmissions[m] > 0
    PROVE  transmissions'[m] > 0
<1>1. transmissions \in [Messages -> Nat]
  BY DEF TypeInv, TypeOK
<1>2. CASE UNCHANGED historyVars
  BY <1>2 DEF historyVars
<1>3. ASSUME NEW r \in Requests, SendRpc(r)
      PROVE  transmissions'[m] > 0
  BY <1>1, <1>3 DEF SendRpc
<1>4. ASSUME NEW r \in Requests, HandlerStep(r), ~SendRpc(r)
      PROVE  transmissions' = transmissions
  BY <1>4 DEF HandlerStep, historyVars, AddDevice, IsDeviceRegistered, UpdateDevice,
     InformFault, SendInformResponse, CheckEmptyPost, AcceptEmptyPost,
     ContinueEmptyPost, CheckSessionState, AnswerAtOnce, AcceptResponse, MatchResponse,
     CompareResponse, DeleteAnswered, DeleteAnsweredFails, ActiveRPCIsGone,
     ClearActiveRPC, FetchRow, FetchUnbuildable, FetchNothing, DropRow, DropRowFails,
     AssignActiveRPC, TerminateSession, UnmapSessionId, UnmapDevice, RecoverPanic
<1> QED BY <1>2, <1>3, <1>4 DEF Next, PostStep, Receive, ReceiveEmptyPost, ReceiveMessage,
     ReceiveInSession, ReceiveBroken, ReceiveInform, Enqueue, Crash, Restart, vars

\* What a step of the only handler in a session leaves behind, for the session
\* and for the handler.
LEMMA OwnSession ==
    ASSUME SerialInv, NEW r \in Requests, HandlerStep(r), NEW s \in Sessions, s = sess[r]
    PROVE  /\ HandlerFits(r)'
           /\ sessions'[s].SessionState \notin {"NEW", "TERMINATED"}
                 => s \in SessionIdActiveSessions'
           /\ s \in SessionIdActiveSessions' /\ sessions'[s].SessionState = "TERMINATED"
                 => sess'[r] = s /\ pc'[r] = "unmapId"
           /\ s \in SessionIdActiveSessions' /\ sessions'[s].SessionState = "SENDING_ACS_RPCS"
                 => \/ sessions'[s].ActiveRPC # NoMessage
                    \/ /\ sess'[r] = s
                       /\ pc'[r] \in {"emptyContext", "fetch", "drop", "assign", "terminate"}
           /\ sessions'[s].ActiveRPC # NoMessage
                 => \/ transmissions'[sessions'[s].ActiveRPC] > 0
                    \/ sess'[r] = s /\ pc'[r] = "send"
<1>0. /\ sessions \in [Sessions -> SessionInfos] /\ sess \in [Requests -> Sessions \cup {NoSession}]
      /\ pc \in [Requests -> Labels] /\ out \in [Requests -> Messages \cup {NoMessage}]
      /\ transmissions \in [Messages -> Nat] /\ SessionIdActiveSessions \subseteq Sessions
  BY DEF SerialInv, LossInv, TypeInv, TypeOK
<1>1. pc[r] \in SessionLabels
  BY SessionAssumption DEF SerialInv, HandlerFits
<1>2. HandlerFits(r)
  BY DEF SerialInv
<1>3. /\ sessions[s].SessionState \notin {"NEW", "TERMINATED"}
            => s \in SessionIdActiveSessions
      /\ s \in SessionIdActiveSessions /\ sessions[s].SessionState = "TERMINATED"
            => pc[r] = "unmapId"
      /\ s \in SessionIdActiveSessions /\ sessions[s].SessionState = "SENDING_ACS_RPCS"
            => \/ sessions[s].ActiveRPC # NoMessage
               \/ pc[r] \in {"emptyContext", "fetch", "drop", "assign", "terminate"}
      /\ sessions[s].ActiveRPC # NoMessage
            => \/ transmissions[sessions[s].ActiveRPC] > 0
               \/ pc[r] = "send"
  <2>1. \A q \in Requests : sess[q] = s => q = r
    BY SessionAssumption DEF SerialInv, LossInv, OneHandlerPerSession
  <2> QED BY <2>1 DEF SerialInv, SessionFits, HandlerAt
<1> USE <1>0, <1>1, <1>2, <1>3, SessionAssumption DEF HandlerFits, SessionLabels, Labels,
        PanicLabels, InformLabels, DbLabels, SessionInfos, Goto, At, UnchangedTables
<1>4. CASE AddDevice(r) \/ IsDeviceRegistered(r) \/ UpdateDevice(r) \/ CheckEmptyPost(r)
  BY <1>4 DEF AddDevice, IsDeviceRegistered, UpdateDevice, CheckEmptyPost, sessionVars,
     historyVars
<1>5. CASE InformFault(r)
  BY <1>5 DEF InformFault, Return, historyVars
<1>6. CASE SendInformResponse(r)
  <2>1. /\ sessions'[s].SessionState = "RECEIVING_CPE_RPCS"
        /\ sessions'[s].ActiveRPC = sessions[s].ActiveRPC
    BY <1>6 DEF SendInformResponse, Return
  <2>2. /\ pc[r] = "informReply" /\ pc'[r] = "idle" /\ sess'[r] = NoSession
        /\ SessionIdActiveSessions' = SessionIdActiveSessions
        /\ transmissions' = transmissions
    BY <1>6 DEF SendInformResponse, Return, historyVars
  <2> QED BY <2>1, <2>2
<1>7. CASE AcceptEmptyPost(r)
  BY <1>7 DEF AcceptEmptyPost, ContinueEmptyPost, historyVars
<1>8. CASE CheckSessionState(r)
  BY <1>8 DEF CheckSessionState, sessionVars, historyVars
<1>9. CASE AnswerAtOnce(r)
  BY <1>9 DEF AnswerAtOnce, WithContext, Return, historyVars
<1>10. CASE AcceptResponse(r)
  BY <1>10 DEF AcceptResponse, WithContext, historyVars
<1>11. CASE ContinueEmptyPost(r)
  BY <1>11 DEF ContinueEmptyPost, WithContext, historyVars
<1>12. CASE MatchResponse(r) \/ CompareResponse(r)
  BY <1>12 DEF MatchResponse, CompareResponse, sessionVars, historyVars
<1>13. CASE DeleteAnswered(r) \/ DeleteAnsweredFails(r)
  BY <1>13 DEF DeleteAnswered, DeleteAnsweredFails, sessionVars, historyVars
<1>14. ~ActiveRPCIsGone(r)
  <2>1. pc[r] = "delete" => sessions[sess[r]].ActiveRPC \in Messages
    BY DEF SerialInv, LossInv, DeletesAnswered, TypeInv, TypeOK
  <2> QED BY <2>1 DEF ActiveRPCIsGone
<1>15. CASE ClearActiveRPC(r)
  BY <1>15 DEF ClearActiveRPC, historyVars
<1>16. CASE FetchRow(r) \/ FetchUnbuildable(r) \/ FetchNothing(r)
  BY <1>16 DEF FetchRow, FetchUnbuildable, FetchNothing, sessionVars, historyVars
<1>17. CASE DropRow(r) \/ DropRowFails(r)
  BY <1>17 DEF DropRow, DropRowFails, sessionVars, historyVars
<1>18. CASE AssignActiveRPC(r)
  BY <1>18 DEF AssignActiveRPC, historyVars
<1>19. CASE SendRpc(r)
  BY <1>19 DEF SendRpc, Return
<1>20. CASE TerminateSession(r)
  BY <1>20 DEF TerminateSession, historyVars
<1>21. CASE UnmapSessionId(r)
  BY <1>21 DEF UnmapSessionId, historyVars
<1>22. CASE UnmapDevice(r)
  BY <1>22 DEF UnmapDevice, Return, historyVars
<1>23. CASE RecoverPanic(r)
  BY <1>23 DEF RecoverPanic
<1> QED BY <1>4, <1>5, <1>6, <1>7, <1>8, <1>9, <1>10, <1>12, <1>13, <1>14, <1>15, <1>16,
     <1>17, <1>18, <1>19, <1>20, <1>22, <1>23, <1>11, <1>21 DEF HandlerStep

\* A POST in a session finds it open and at rest; an Inform makes a session.
LEMMA SerialArrival ==
    ASSUME SerialInv, OverlappingPosts = FALSE, NEW r \in Requests, Receive(r)
    PROVE  /\ HandlerFits(r)'
           /\ \A s \in Sessions : s = sess'[r] => SessionFits(s)'
           /\ \A s \in Sessions : s # sess'[r] =>
                  (s \in SessionIdActiveSessions' <=> s \in SessionIdActiveSessions)
<1> USE SessionAssumption DEF SerialInv, LossInv, TypeInv, TypeOK, SessionInfos, Goto, At,
        SessionLabels, Labels, PanicLabels, InformLabels, DbLabels, HandlerFits
<1>1. ASSUME NEW s \in Sessions, NEW p \in Posts, NEW label \in {"emptyCheck", "stateCheck"},
             ReceiveInSession(r, s, p, label)
      PROVE  /\ HandlerFits(r)' /\ sess'[r] = s /\ SessionFits(s)'
             /\ SessionIdActiveSessions' = SessionIdActiveSessions
  <2>1. /\ pc'[r] = label /\ sess'[r] = s
        /\ s \in SessionIdActiveSessions /\ \A q \in Requests : sess[q] # s
        /\ sessions[s].SessionState \notin {"NEW", "INITIATING"}
        /\ sessions' = sessions /\ transmissions' = transmissions
        /\ SessionIdActiveSessions' = SessionIdActiveSessions
    BY <1>1 DEF ReceiveInSession, MayPost, sessionVars, historyVars
  <2>2. SessionFits(s) /\ \A labels : ~HandlerAt(s, labels)
    BY <2>1 DEF HandlerAt
  <2>3. sessions[s].SessionState \in {"RECEIVING_CPE_RPCS", "SENDING_ACS_RPCS"}
    BY <2>1, <2>2 DEF SessionFits, States
  <2> QED BY <2>1, <2>2, <2>3 DEF SessionFits
<1>2. CASE ReceiveEmptyPost(r)
  BY <1>1, <1>2, PostValues DEF ReceiveEmptyPost
<1>3. CASE ReceiveMessage(r)
  BY <1>1, <1>3, PostValues DEF ReceiveMessage
<1>4. CASE ReceiveBroken(r)
  BY <1>4 DEF ReceiveBroken, sessionVars
<1>5. CASE ReceiveInform(r)
  BY <1>5 DEF ReceiveInform, SessionFits
<1> QED BY <1>2, <1>3, <1>4, <1>5 DEF Receive

LEMMA SerialReceive ==
    ASSUME SerialInv, OverlappingPosts = FALSE, NEW r \in Requests, Receive(r)
    PROVE  (\A q \in Requests : HandlerFits(q))' /\ (\A s \in Sessions : SessionFits(s))'
<1> USE DEF SerialInv, LossInv
<1>1. /\ pc[r] = "idle"
      /\ sess'[r] = sess[r] \/ \A q \in Requests : sess[q] # sess'[r]
      /\ \A s \in Sessions : s # sess'[r] => sessions'[s] = sessions[s]
  BY ReceiveFrame
<1>2. \A q \in Requests : q # r => /\ pc'[q] = pc[q] /\ post'[q] = post[q]
                                   /\ sess'[q] = sess[q] /\ out'[q] = out[q]
  BY LocalFrame
<1>3. transmissions' = transmissions
  BY ArrivalFrame DEF historyVars
<1>4. /\ HandlerFits(r)'
      /\ \A s \in Sessions : s = sess'[r] => SessionFits(s)'
      /\ \A s \in Sessions : s # sess'[r] =>
             (s \in SessionIdActiveSessions' <=> s \in SessionIdActiveSessions)
  BY SerialArrival
<1>5. sess[r] = NoSession
  BY <1>1 DEF HandlerFits, SessionLabels
<1>6. ASSUME NEW q \in Requests, q # r PROVE HandlerFits(q)'
  <2>1. CASE pc[q] \in SessionLabels
    <3>1. sess[q] \in Sessions /\ sess[q] # sess'[r]
      BY <1>1, <1>5, <2>1, SessionAssumption DEF HandlersHaveSession
    <3>2. sessions'[sess[q]] = sessions[sess[q]] /\ HandlerFits(q)
      BY <1>1, <3>1
    <3> QED BY <1>2, <1>6, <3>2 DEF HandlerFits
  <2>2. CASE pc[q] \notin SessionLabels
    <3>1. HandlerFits(q)
      OBVIOUS
    <3> QED BY <1>2, <1>6, <2>2, <3>1 DEF HandlerFits, SessionLabels, Labels, PanicLabels,
         InformLabels, DbLabels, TypeInv, TypeOK
  <2> QED BY <2>1, <2>2
<1>7. ASSUME NEW s \in Sessions, s # sess'[r] PROVE SessionFits(s)'
  <2>1. sessions'[s] = sessions[s]
        /\ (s \in SessionIdActiveSessions' <=> s \in SessionIdActiveSessions)
    BY <1>1, <1>4, <1>7
  <2>2. ASSUME NEW labels, "idle" \notin labels, HandlerAt(s, labels)
        PROVE  HandlerAt(s, labels)'
    BY <1>1, <1>2, <2>2 DEF HandlerAt
  <2>3. SessionFits(s)
    OBVIOUS
  <2> QED BY <1>3, <2>1, <2>2, <2>3 DEF SessionFits
<1> QED BY <1>4, <1>6, <1>7

LEMMA SerialHandler ==
    ASSUME SerialInv, NEW r \in Requests, HandlerStep(r)
    PROVE  (\A q \in Requests : HandlerFits(q))' /\ (\A s \in Sessions : SessionFits(s))'
<1> USE DEF SerialInv, LossInv
<1>0. /\ sess \in [Requests -> Sessions \cup {NoSession}]
      /\ sessions \in [Sessions -> SessionInfos]
  BY DEF TypeInv, TypeOK
<1>1. \A q \in Requests : q # r => /\ pc'[q] = pc[q] /\ post'[q] = post[q]
                                   /\ sess'[q] = sess[q] /\ out'[q] = out[q]
  BY LocalFrame
<1>2. \A s \in Sessions : s # sess[r] =>
          /\ sessions'[s].SessionState = sessions[s].SessionState
          /\ sessions'[s].ActiveRPC = sessions[s].ActiveRPC
          /\ sessions[s].Context # r => sessions'[s].Context = sessions[s].Context
          /\ s \in SessionIdActiveSessions' <=> s \in SessionIdActiveSessions
  BY ForeignSession
<1>3. HandlerFits(r)'
  <2>1. CASE sess[r] \in Sessions
    BY <2>1, OwnSession
  <2>2. CASE sess[r] \notin Sessions
    <3>1. pc[r] \in {"idle"} \cup PanicLabels
      BY <2>2 DEF HandlersHaveSession, SessionLabels, TypeInv, TypeOK
    <3>2. RecoverPanic(r)
      BY <3>1 DEF HandlerStep, AddDevice, IsDeviceRegistered, UpdateDevice, InformFault,
         SendInformResponse, CheckEmptyPost, AcceptEmptyPost, ContinueEmptyPost,
         CheckSessionState, AnswerAtOnce, AcceptResponse,
         MatchResponse, CompareResponse, DeleteAnswered, DeleteAnsweredFails,
         ActiveRPCIsGone, ClearActiveRPC, FetchRow, FetchUnbuildable, FetchNothing,
         DropRow, DropRowFails, AssignActiveRPC, SendRpc, TerminateSession,
         UnmapSessionId, UnmapDevice, At, PanicLabels
    <3>3. pc'[r] = "idle" /\ sess'[r] = NoSession
      BY <3>2 DEF RecoverPanic, Return, TypeInv, TypeOK
    <3> QED BY <3>3 DEF HandlerFits, SessionLabels, PanicLabels, InformLabels,
         DbLabels
  <2> QED BY <2>1, <2>2
<1>4. ASSUME NEW q \in Requests, q # r PROVE HandlerFits(q)'
  <2>1. HandlerFits(q)
    OBVIOUS
  <2>2. CASE pc[q] \in SessionLabels
    <3>1. sess[q] \in Sessions /\ sess[q] # sess[r]
      BY <1>4, <2>2, SessionAssumption DEF HandlersHaveSession, OneHandlerPerSession
    <3>2. /\ sessions'[sess[q]].SessionState = sessions[sess[q]].SessionState
          /\ sessions'[sess[q]].ActiveRPC = sessions[sess[q]].ActiveRPC
          /\ sessions[sess[q]].Context # r
                => sessions'[sess[q]].Context = sessions[sess[q]].Context
      BY <1>2, <3>1
    <3> QED BY <1>1, <1>4, <2>1, <3>2 DEF HandlerFits
  <2>3. CASE pc[q] \notin SessionLabels
    BY <1>1, <1>4, <2>1, <2>3 DEF HandlerFits, SessionLabels, Labels, PanicLabels,
       InformLabels, DbLabels, TypeInv, TypeOK
  <2> QED BY <2>2, <2>3
<1>5. \A m \in Messages : transmissions[m] > 0 => transmissions'[m] > 0
  BY TransmissionsGrow DEF Next, PostStep
<1>6. ASSUME NEW s \in Sessions, s # sess[r] PROVE SessionFits(s)'
  <2>1. ASSUME NEW labels, HandlerAt(s, labels)
        PROVE  HandlerAt(s, labels)'
    BY <1>1, <1>6, <2>1 DEF HandlerAt
  <2>2. SessionFits(s) /\ sessions[s].ActiveRPC \in Messages \cup {NoMessage}
    BY <1>0 DEF SessionInfos
  <2> QED BY <1>2, <1>5, <1>6, <2>1, <2>2 DEF SessionFits
<1>7. ASSUME NEW s \in Sessions, s = sess[r] PROVE SessionFits(s)'
  BY <1>7, OwnSession DEF SessionFits, HandlerAt
<1> QED BY <1>3, <1>4, <1>6, <1>7

\* What is settled was sent: only the response to the RPC in flight settles one.
LEMMA AnsweredHandler ==
    ASSUME SerialInv, NEW r \in Requests, HandlerStep(r)
    PROVE  AnsweredWasSent'
<1> USE DEF SerialInv, LossInv
<1>1. \A m \in Messages : transmissions[m] > 0 => transmissions'[m] > 0
  BY TransmissionsGrow DEF Next, PostStep
<1>2. SUFFICES ASSUME NEW m \in answered', m \notin answered PROVE transmissions'[m] > 0
  BY <1>1 DEF AnsweredWasSent, TypeInv, TypeOK
<1>3. CompareResponse(r)
  BY <1>2 DEF HandlerStep, AddDevice, IsDeviceRegistered, UpdateDevice, InformFault,
     SendInformResponse, CheckEmptyPost, AcceptEmptyPost, ContinueEmptyPost,
     CheckSessionState, AnswerAtOnce, AcceptResponse, MatchResponse, DeleteAnswered,
     DeleteAnsweredFails, ActiveRPCIsGone, ClearActiveRPC, FetchRow, FetchUnbuildable,
     FetchNothing, DropRow, DropRowFails, AssignActiveRPC, SendRpc, TerminateSession,
     UnmapSessionId, UnmapDevice, RecoverPanic, historyVars
<1>4. pc[r] = "compare" /\ m = sessions[sess[r]].ActiveRPC
  BY <1>2, <1>3 DEF CompareResponse, At
<1>5. m \in Messages
  BY <1>2, TypeStep DEF Next, PostStep, TypeInv, TypeOK
<1>6. sess[r] \in Sessions
  BY <1>4 DEF HandlersHaveSession, SessionLabels, Labels, PanicLabels
<1>7. SessionFits(sess[r]) /\ ~HandlerAt(sess[r], {"send"})
  BY <1>4, <1>6, SessionAssumption DEF HandlerAt, OneHandlerPerSession
<1> QED BY <1>1, <1>4, <1>5, <1>7, SessionAssumption DEF SessionFits

LEMMA SerialInit == Init => SerialInv
<1> SUFFICES ASSUME Init PROVE SerialInv
  OBVIOUS
<1>1. LossInv
  BY TypeInit DEF Init, DbInit, LossInv, QueuedRowsOwned, HandlersHaveSession,
     OneHandlerPerSession, DropsExhausted, DeletesAnswered, Idle, NoSess, SessionLabels
<1>2. \A r \in Requests : HandlerFits(r)
  BY DEF Init, Idle, NoSess, HandlerFits, SessionLabels, PanicLabels, InformLabels,
     DbLabels
<1>3. \A s \in Sessions : SessionFits(s)
  BY DEF Init, NewSessions, NewSession, SessionFits
<1> QED BY <1>1, <1>2, <1>3 DEF Init, AnsweredWasSent, SerialInv

LEMMA SerialStep ==
    ASSUME SerialInv, OverlappingPosts = FALSE, [Next]_vars
    PROVE  SerialInv'
<1> USE DEF SerialInv
<1>0. LossInv'
  BY LossStep
<1>1. CASE UNCHANGED <<sessionVars, handlerVars, historyVars>>
  BY <1>0, <1>1 DEF sessionVars, handlerVars, historyVars, HandlerFits, SessionFits,
     HandlerAt, AnsweredWasSent
<1>2. ASSUME NEW r \in Requests, Receive(r)
      PROVE  SerialInv'
  <2>1. AnsweredWasSent'
    BY <1>2, ArrivalFrame DEF LossInv, AnsweredWasSent, historyVars
  <2> QED BY <1>0, <1>2, <2>1, SerialReceive
<1>3. ASSUME NEW r \in Requests, HandlerStep(r)
      PROVE  SerialInv'
  BY <1>0, <1>3, SerialHandler, AnsweredHandler
<1>4. CASE Crash
  <2>1. \A r \in Requests : HandlerFits(r)'
    BY <1>4 DEF Crash, Restart, Idle, NoSess, HandlerFits, SessionLabels, PanicLabels,
       InformLabels, DbLabels
  <2>2. \A s \in Sessions : SessionFits(s)'
    BY <1>4 DEF Crash, Restart, NewSessions, NewSession, SessionFits
  <2> QED BY <1>0, <1>4, <2>1, <2>2 DEF Crash, Restart, historyVars, AnsweredWasSent
<1> QED BY <1>1, <1>2, <1>3, <1>4 DEF Next, PostStep, Enqueue, vars

LEMMA SerialInvariant == OverlappingPosts = FALSE => (Spec => []SerialInv)
<1> SUFFICES ASSUME OverlappingPosts = FALSE PROVE Spec => []SerialInv
  OBVIOUS
<1> QED BY SerialInit, SerialStep, PTL DEF Spec

\* A response only settles an RPC that was written to a CPE: between the
\* assignment to ActiveRPC and the write no response can be matched with it.
THEOREM SettledWasSent == OverlappingPosts = FALSE => (Spec => []AnsweredWasSent)
<1>1. SerialInv => AnsweredWasSent
  BY DEF SerialInv
<1> QED BY <1>1, SerialInvariant, PTL

\* Every database call of a handler runs under the context of its own POST,
\* which is not cancelled before the handler returns.
THEOREM OwnContext == OverlappingPosts = FALSE => (Spec => []ContextIsOwn)
<1>1. SerialInv => ContextIsOwn
  BY DEF SerialInv, HandlerFits, ContextIsOwn
<1> QED BY <1>1, SerialInvariant, PTL

\* No handler dereferences a nil session, a nil ActiveRPC or a missing child of
\* the Body, except for a message with a bad header or an empty Body.
THEOREM NoOtherPanic == OverlappingPosts = FALSE => (Spec => []PanicsOnlyOnBadMessage)
<1>1. SerialInv => PanicsOnlyOnBadMessage
  BY DEF SerialInv, HandlerFits, PanicsOnlyOnBadMessage
<1> QED BY <1>1, SerialInvariant, PTL

\* A session that is sending RPCs has one in flight whenever no POST of it is in
\* progress: ACS and CPE never both wait for the other to speak.
THEOREM NeverBothWait == OverlappingPosts = FALSE => (Spec => []SendingAwaitsResponse)
<1>1. SerialInv => SendingAwaitsResponse
  BY DEF SerialInv, LossInv, TypeInv, TypeOK, SessionFits, HandlerAt, SendingAwaitsResponse
<1> QED BY <1>1, SerialInvariant, PTL

LEMMA OrdinalValues ==
    /\ \A a \in States : Ordinal[a] <= Ordinal[a] /\ Ordinal[a] <= Ordinal["TERMINATED"]
    /\ Ordinal["INITIATING"] <= Ordinal["RECEIVING_CPE_RPCS"]
    /\ Ordinal["RECEIVING_CPE_RPCS"] <= Ordinal["SENDING_ACS_RPCS"]
<1>1. /\ Ordinal["NEW"] = 0 /\ Ordinal["INITIATING"] = 1
      /\ Ordinal["RECEIVING_CPE_RPCS"] = 2 /\ Ordinal["SENDING_ACS_RPCS"] = 3
      /\ Ordinal["TERMINATED"] = 4
  BY DEF Ordinal
<1> QED BY <1>1 DEF States

\* The states a handler's own session can come from and go to in one step.
LEMMA OwnState ==
    ASSUME SerialInv, NEW r \in Requests, HandlerStep(r), NEW s \in Sessions
    PROVE  \/ sessions'[s].SessionState = sessions[s].SessionState
           \/ /\ s = sess[r] /\ pc[r] = "terminate"
              /\ sessions'[s].SessionState = "TERMINATED"
           \/ /\ s = sess[r] /\ pc[r] = "informReply"
              /\ sessions[s].SessionState = "INITIATING"
              /\ sessions'[s].SessionState = "RECEIVING_CPE_RPCS"
           \/ /\ s = sess[r] /\ pc[r] = "emptyAccept"
              /\ sessions[s].SessionState = "RECEIVING_CPE_RPCS"
              /\ sessions'[s].SessionState = "SENDING_ACS_RPCS"
<1> USE DEF SerialInv, LossInv, TypeInv, TypeOK, SessionInfos, HandlerFits, At
<1>1. CASE UNCHANGED sessionVars
  BY <1>1 DEF sessionVars
<1>2. ASSUME NEW infos, Return(r, infos)
      PROVE  sessions'[s].SessionState = infos[s].SessionState
  BY <1>2 DEF Return
<1>3. CASE InformFault(r) \/ SendRpc(r) \/ RecoverPanic(r) \/ UnmapDevice(r)
  BY <1>2, <1>3 DEF InformFault, SendRpc, RecoverPanic, UnmapDevice
<1>4. CASE SendInformResponse(r)
  <2> DEFINE infos == [sessions EXCEPT ![sess[r]].SessionState = "RECEIVING_CPE_RPCS"]
  <2>1. /\ pc[r] = "informReply" /\ sess[r] \in Sessions
        /\ sessions'[s].SessionState = infos[s].SessionState
    BY <1>2, <1>4 DEF SendInformResponse, HandlersHaveSession, SessionLabels, Labels,
       PanicLabels
  <2> QED BY <2>1
<1>5. CASE AnswerAtOnce(r) \/ AcceptResponse(r) \/ ContinueEmptyPost(r)
  <2>1. WithContext(r)[s].SessionState = sessions[s].SessionState
    BY DEF WithContext
  <2> QED BY <1>2, <1>5, <2>1 DEF AnswerAtOnce, AcceptResponse, ContinueEmptyPost
<1>6. CASE AcceptEmptyPost(r)
  BY <1>6 DEF AcceptEmptyPost
<1>7. CASE \/ ClearActiveRPC(r) \/ AssignActiveRPC(r) \/ TerminateSession(r)
           \/ UnmapSessionId(r)
  BY <1>7 DEF ClearActiveRPC, AssignActiveRPC, TerminateSession, UnmapSessionId
<1> QED BY <1>1, <1>3, <1>4, <1>5, <1>6, <1>7 DEF HandlerStep, AddDevice,
     IsDeviceRegistered, UpdateDevice, CheckEmptyPost, CheckSessionState,
     MatchResponse, CompareResponse, DeleteAnswered, DeleteAnsweredFails,
     ActiveRPCIsGone, FetchRow, FetchUnbuildable, FetchNothing, DropRow, DropRowFails

\* A session that stays registered moves forward through its states or stays
\* where it is; none comes back once terminated.
THEOREM StatesAdvance == OverlappingPosts = FALSE => (Spec => StateOrder)
<1> SUFFICES ASSUME OverlappingPosts = FALSE PROVE Spec => StateOrder
  OBVIOUS
<1>1. SerialInv /\ [Next]_vars
      => [\A s \in SessionIdActiveSessions \cap SessionIdActiveSessions' :
             Ordinal[sessions[s].SessionState] <= Ordinal[sessions'[s].SessionState]]_vars
  <2> SUFFICES ASSUME SerialInv, Next,
                      NEW s \in SessionIdActiveSessions \cap SessionIdActiveSessions'
               PROVE  Ordinal[sessions[s].SessionState] <= Ordinal[sessions'[s].SessionState]
    OBVIOUS
  <2>1. s \in Sessions /\ sessions[s].SessionState \in States
    BY DEF SerialInv, LossInv, TypeInv, TypeOK, SessionInfos
  <2>2. CASE sessions'[s] = sessions[s]
    BY <2>1, <2>2, OrdinalValues
  <2>3. ASSUME NEW r \in Requests, HandlerStep(r)
        PROVE  Ordinal[sessions[s].SessionState] <= Ordinal[sessions'[s].SessionState]
    BY <2>1, <2>3, OwnState, OrdinalValues
  <2>4. ASSUME NEW r \in Requests, Receive(r)
        PROVE  sessions'[s] = sessions[s]
    BY <2>1, <2>4 DEF Receive, ReceiveEmptyPost, ReceiveMessage, ReceiveInSession,
       ReceiveBroken, ReceiveInform, Unreferenced, sessionVars, SerialInv, LossInv, TypeInv,
       TypeOK
  <2> QED BY <2>2, <2>3, <2>4 DEF Next, PostStep, Enqueue, sessionVars, Crash, Restart
<1> QED BY <1>1, SerialInit, SerialStep, PTL DEF Spec, StateOrder
=============================================================================
