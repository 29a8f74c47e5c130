------------------------- MODULE CwmpDelivery_proofs -------------------------
(***************************************************************************)
(* The refinement of RpcDelivery, step by step: every handler step maps to *)
(* an abstract step or to a stutter, for every instance in which each CPE  *)
(* awaits the answer to a POST before the next one.                        *)
(***************************************************************************)
EXTENDS CwmpDelivery, CwmpSerial_proofs

DeliveryInv == SerialInv /\ HoldingInv /\ RetransmissionInv

\* Steps that touch nothing the mapping looks at are stutters.
LEMMA DeliveryStutters ==
    ASSUME UNCHANGED <<rpc_queue, row, answered, transmissions>>
    PROVE  UNCHANGED Delivery!vars
BY DEF Delivery!vars, Pending, Queued

\* A row that is foremost in its device's queue, and still there, is the first.
LEMMA ForemostIsFirst ==
    ASSUME TypeInv, NEW m, NEW d, Foremost(m, d), m \in rpc_queue
    PROVE  Delivery!First(d, m)
BY DbAssumption DEF Foremost, Delivery!First, Pending, Queued, TypeInv, TypeOK, DbTypeOK, Rows

LEMMA EnqueueHandsOver ==
    ASSUME HoldingInv, UnqueuedUncounted, NEW d \in Devices, NEW k \in Messages, Enqueue(d, k)
    PROVE  Delivery!HandOver(d, k)
<1> USE DbAssumption DEF HoldingInv, TypeInv, TypeOK, DbTypeOK, Rows, SendCounts
<1>1. /\ row[k].device_id = NoDevice /\ rpc_queue' = rpc_queue \cup {k}
      /\ row'[k].id = lastRowId + 1 /\ row'[k].device_id = d /\ row'[k].send_count = 0
      /\ \A n \in Messages : n # k => row'[n] = row[n]
      /\ k \notin rpc_queue
      /\ UNCHANGED <<answered, transmissions>>
  BY DEF Enqueue, QueueRPC, historyVars, QueuedRowsOwned
<1>2. Queued' = Queued \cup {k} /\ k \notin Queued
  BY <1>1 DEF Queued
<1>3. [e \in Devices |-> Pending(e)']
        = [[e \in Devices |-> Pending(e)] EXCEPT ![d] = @ \cup {k}]
  <2>1. ASSUME NEW e \in Devices
        PROVE  Pending(e)' = IF e = d THEN Pending(d) \cup {k} ELSE Pending(e)
    BY <1>1 DEF Pending
  <2> QED BY <2>1
<1>4. [m \in Messages |-> {n \in Queued' : row'[n].id < row'[m].id}]
        = [[m \in Messages |-> {n \in Queued : row[n].id < row[m].id}] EXCEPT ![k] = Queued]
  <2>1. ASSUME NEW m \in Messages, m # k
        PROVE  {n \in Queued' : row'[n].id < row'[m].id}
                 = {n \in Queued : row[n].id < row[m].id}
    BY <1>1, <1>2, <2>1 DEF RowIdsGiven, Queued
  <2>2. {n \in Queued' : row'[n].id < row'[k].id} = Queued
    BY <1>1, <1>2 DEF RowIdsGiven, Queued
  <2> QED BY <2>1, <2>2
<1>5. [m \in Messages |-> row'[m].send_count] = [m \in Messages |-> row[m].send_count]
  BY <1>1 DEF UnqueuedUncounted
<1> QED BY <1>1, <1>2, <1>3, <1>4, <1>5 DEF Delivery!HandOver

\* A fetch takes the first row up for sending, or finds it exhausted.
LEMMA FetchAttempts ==
    ASSUME HoldingInv, NEW r \in Requests, FetchRow(r) \/ FetchUnbuildable(r)
    PROVE  \/ \E d \in Devices, m \in Messages : Delivery!Attempt(d, m)
           \/ UNCHANGED Delivery!vars
<1> USE DbAssumption DEF HoldingInv, TypeInv, TypeOK, DbTypeOK, Rows, SendCounts
<1> DEFINE d == sessions[sess[r]].DeviceIdString
<1>1. PICK m \in Messages : IsHead(d, m) /\ FetchQueuedRPC(m)
  BY DEF FetchRow, FetchUnbuildable
<1>2. /\ d \in Devices /\ Foremost(m, d) /\ m \in rpc_queue
  BY <1>1 DEF IsHead, Pending, Foremost, QueuedRowsOwned
<1>3. UNCHANGED <<rpc_queue, answered, transmissions>>
  BY <1>1 DEF FetchQueuedRPC, FetchRow, FetchUnbuildable, historyVars
<1>4. CASE Exhausted(m)
  BY <1>1, <1>3, <1>4, DeliveryStutters DEF FetchQueuedRPC
<1>5. CASE ~Exhausted(m)
  <2>1. row' = [row EXCEPT ![m].send_count = @ + 1]
    BY <1>1, <1>5 DEF FetchQueuedRPC
  <2>2. /\ row'[m].send_count = row[m].send_count + 1
        /\ \A n \in Messages : n # m => row'[n] = row[n]
        /\ \A n \in Messages : /\ row'[n].device_id = row[n].device_id
                               /\ row'[n].id = row[n].id
    BY <2>1
  <2>3. Queued' = Queued
    BY <2>2 DEF Queued
  <2>4. \A e : Pending(e)' = Pending(e)
    BY <1>3, <2>2 DEF Pending
  <2>5. [n \in Messages |-> {k \in Queued' : row'[k].id < row'[n].id}]
          = [n \in Messages |-> {k \in Queued : row[k].id < row[n].id}]
    BY <2>2, <2>3 DEF Queued
  <2>6. [n \in Messages |-> row'[n].send_count]
          = [[n \in Messages |-> row[n].send_count] EXCEPT ![m] = @ + 1]
    BY <2>2
  <2>7. Delivery!First(d, m) /\ row[m].send_count <= MaxSends
    BY <1>2, <1>5, ForemostIsFirst DEF Exhausted
  <2> QED BY <1>2, <1>3, <2>3, <2>4, <2>5, <2>6, <2>7 DEF Delivery!Attempt
<1> QED BY <1>4, <1>5

\* A DELETE takes away the first row, which was settled or exhausted, or one
\* that is gone already.
LEMMA DeleteRemoves ==
    ASSUME TypeInv, NEW m \in Messages, NEW d, Foremost(m, d),
           m \in answered \/ Exhausted(m), DeleteQueuedRPC(m),
           UNCHANGED <<answered, transmissions>>
    PROVE  \/ \E e \in Devices, n \in Messages : Delivery!Remove(e, n)
           \/ UNCHANGED Delivery!vars
<1>1. rpc_queue' = rpc_queue \ {m} /\ row' = row
  BY DEF DeleteQueuedRPC
<1>2. CASE m \notin rpc_queue
  BY <1>1, <1>2, DeliveryStutters
<1>3. CASE m \in rpc_queue
  <2>1. d \in Devices /\ row[m].device_id = d
    BY DEF Foremost
  <2>2. [e \in Devices |-> Pending(e)'] = [[e \in Devices |-> Pending(e)] EXCEPT ![d] = @ \ {m}]
    <3>1. ASSUME NEW e \in Devices
          PROVE  Pending(e)' = IF e = d THEN Pending(d) \ {m} ELSE Pending(e)
      BY <1>1, <2>1 DEF Pending
    <3> QED BY <3>1
  <2>3. Queued' = Queued
    BY <1>1 DEF Queued
  <2>4. Delivery!First(d, m)
    BY <1>3, ForemostIsFirst
  <2>5. m \in answered \/ row[m].send_count > MaxSends
    BY DEF Exhausted
  <2> QED BY <1>1, <2>1, <2>2, <2>3, <2>4, <2>5, ZenonT(30) DEF Delivery!Remove
<1> QED BY <1>2, <1>3

\* Only the response to the RPC in flight settles one, and it was sent.
LEMMA CompareSettles ==
    ASSUME SerialInv, NEW r \in Requests, CompareResponse(r)
    PROVE  \/ \E m \in Messages : Delivery!Settle(m)
           \/ UNCHANGED Delivery!vars
<1>1. UNCHANGED <<rpc_queue, row, transmissions>> /\ Queued' = Queued
  BY DEF CompareResponse, dbVars, Queued
<1>2. CASE sessions[sess[r]].ActiveRPC = post[r].id
  <2> DEFINE m == post[r].id
  <2>1. answered' = answered \cup {m}
    BY <1>2 DEF CompareResponse
  <2>2. HandlerStep(r)
    BY DEF HandlerStep
  <2>3. m \in Messages /\ transmissions'[m] > 0
    <3>1. AnsweredWasSent' /\ answered' \subseteq Messages
      BY <2>2, AnsweredHandler, TypeStep DEF SerialInv, LossInv, TypeInv, TypeOK, Next, PostStep
    <3> QED BY <2>1, <3>1 DEF AnsweredWasSent
  <2>4. Delivery!Settle(m)
    BY <1>1, <2>1, <2>3 DEF Delivery!Settle, Pending
  <2> QED BY <2>3, <2>4
<1>3. CASE sessions[sess[r]].ActiveRPC # post[r].id
  BY <1>1, <1>3, DeliveryStutters DEF CompareResponse
<1> QED BY <1>2, <1>3

\* A write uses up one of the attempts that fetches have counted.
LEMMA SendTransmits ==
    ASSUME SerialInv, RetransmissionInv, NEW r \in Requests, SendRpc(r)
    PROVE  \E m \in Messages : Delivery!Transmit(m)
<1> USE DEF RetransmissionInv, TypeInv, TypeOK
<1> DEFINE m == out[r]
<1>1. pc[r] = "send" /\ m \in Messages
  BY DEF SendRpc, At, SerialInv, HandlerFits
<1>2. transmissions[m] < row[m].send_count
  <2>1. r \in Sending(m)
    BY <1>1 DEF Sending
  <2>2. Cardinality(Sending(m)) \in Nat /\ Cardinality(Sending(m)) # 0
    BY <2>1, SendingFinite, FS_EmptySet
  <2>3. transmissions[m] \in Nat /\ row[m].send_count \in Nat
    BY <1>1, DbAssumption DEF DbTypeOK, Rows, SendCounts
  <2> QED BY <1>1, <2>2, <2>3 DEF AttemptsCounted
<1>3. /\ transmissions' = [transmissions EXCEPT ![m] = @ + 1]
      /\ UNCHANGED <<rpc_queue, row, answered>> /\ Queued' = Queued
  BY DEF SendRpc, dbVars, Queued
<1>4. Delivery!Transmit(m)
  BY <1>1, <1>2, <1>3 DEF Delivery!Transmit, Pending
<1> QED BY <1>1, <1>4

LEMMA DeliveryHandler ==
    ASSUME DeliveryInv, NEW r \in Requests, HandlerStep(r)
    PROVE  [Delivery!Next]_(Delivery!vars)
<1> USE DEF DeliveryInv
<1>1. CASE FetchRow(r) \/ FetchUnbuildable(r)
  BY <1>1, FetchAttempts DEF Delivery!Next
<1>2. CASE DeleteAnswered(r)
  <2> DEFINE m == sessions[sess[r]].ActiveRPC
  <2>1. /\ pc[r] = "delete" /\ m # NoMessage /\ DeleteQueuedRPC(m)
        /\ UNCHANGED <<answered, transmissions>>
    BY <1>2 DEF DeleteAnswered, At, historyVars
  <2>2. sess[r] \in Sessions
    BY <2>1 DEF HoldingInv, HandlersHaveSession, SessionLabels, Labels, PanicLabels
  <2>3. Foremost(m, sessions[sess[r]].DeviceIdString)
    BY <2>1, <2>2 DEF HoldingInv, HeldIsForemost
  <2>4. m \in answered /\ m \in Messages
    BY <2>1 DEF SerialInv, LossInv, DeletesAnswered, TypeInv, TypeOK
  <2> QED BY <2>1, <2>3, <2>4, DeleteRemoves DEF HoldingInv, Delivery!Next
<1>3. CASE DropRow(r)
  <2> DEFINE m == out[r]
  <2>1. /\ pc[r] = "drop" /\ DeleteQueuedRPC(m)
        /\ UNCHANGED <<answered, transmissions>>
    BY <1>3 DEF DropRow, At, historyVars
  <2>2. m \in Messages /\ Exhausted(m)
    BY <2>1 DEF SerialInv, LossInv, DropsExhausted
  <2>3. Foremost(m, sessions[sess[r]].DeviceIdString)
    BY <2>2, SessionAssumption DEF HoldingInv, HeldIsForemost
  <2> QED BY <2>1, <2>2, <2>3, DeleteRemoves DEF HoldingInv, Delivery!Next
<1>4. CASE CompareResponse(r)
  BY <1>4, CompareSettles DEF Delivery!Next
<1>5. CASE SendRpc(r)
  BY <1>5, SendTransmits DEF Delivery!Next
<1>6. CASE UNCHANGED <<rpc_queue, row, answered, transmissions>>
  BY <1>6, DeliveryStutters
<1> QED BY <1>1, <1>2, <1>3, <1>4, <1>5, <1>6 DEF HandlerStep, AddDevice, AddDeviceRow,
     IsDeviceRegistered, UpdateDevice, UpdateDeviceRow, InformFault, SendInformResponse,
     CheckEmptyPost, AcceptEmptyPost, ContinueEmptyPost, CheckSessionState, AnswerAtOnce,
     AcceptResponse, MatchResponse, DeleteAnsweredFails, ActiveRPCIsGone, ClearActiveRPC,
     FetchNothing, DropRowFails, AssignActiveRPC, TerminateSession, UnmapSessionId,
     UnmapDevice, RecoverPanic, dbVars, historyVars

LEMMA DeliveryStep ==
    ASSUME DeliveryInv, [Next]_vars
    PROVE  [Delivery!Next]_(Delivery!vars)
<1>1. ASSUME NEW r \in Requests, HandlerStep(r)
      PROVE  [Delivery!Next]_(Delivery!vars)
  BY <1>1, DeliveryHandler
<1>2. ASSUME NEW d \in Devices, NEW m \in Messages, Enqueue(d, m)
      PROVE  [Delivery!Next]_(Delivery!vars)
  <2>1. Delivery!HandOver(d, m)
    BY <1>2, EnqueueHandsOver DEF DeliveryInv, RetransmissionInv
  <2> QED BY <2>1 DEF Delivery!Next
<1>3. ASSUME NEW r \in Requests, Receive(r)
      PROVE  UNCHANGED <<rpc_queue, row, answered, transmissions>>
  BY <1>3, ArrivalFrame DEF DeliveryInv, HoldingInv, dbVars, historyVars
<1>4. CASE UNCHANGED <<rpc_queue, row, answered, transmissions>>
  BY <1>4, DeliveryStutters
<1> QED BY <1>1, <1>2, <1>3, <1>4 DEF Next, PostStep, Crash, Restart, vars, dbVars, historyVars

LEMMA DeliveryInit == Init => Delivery!Init
<1> SUFFICES ASSUME Init PROVE Delivery!Init
  OBVIOUS
<1>1. /\ rpc_queue = {} /\ answered = {} /\ transmissions = [m \in Messages |-> 0]
      /\ \A m \in Messages : row[m] = [id |-> 0, device_id |-> NoDevice, send_count |-> 0]
  BY DEF Init, DbInit
<1>2. Queued = {} /\ \A d : Pending(d) = {}
  BY <1>1 DEF Queued, Pending
<1>3. [m \in Messages |-> {n \in Queued : row[n].id < row[m].id}] = [m \in Messages |-> {}]
  BY <1>2
<1> QED BY <1>1, <1>2, <1>3 DEF Delivery!Init

\* The sessions deliver RPCs as RpcDelivery promises: whatever fails or crashes,
\* and however the sessions of a device interleave, an RPC is served in turn,
\* attempted at most MaxSends + 1 times, sent at most once per attempt, settled
\* only when it was sent, and leaves the queue only settled or exhausted.
THEOREM DeliversAsPromised == OverlappingPosts = FALSE => (Spec => ImplementsDelivery)
<1> SUFFICES ASSUME OverlappingPosts = FALSE PROVE Spec => ImplementsDelivery
  OBVIOUS
<1>1. Init => DeliveryInv
  BY SerialInit, HoldingInit, RetransmissionInit DEF DeliveryInv
<1>2. DeliveryInv /\ [Next]_vars => DeliveryInv'
  BY SerialStep, HoldingStep, RetransmissionStep DEF DeliveryInv
<1> QED BY <1>1, <1>2, DeliveryInit, DeliveryStep, PTL DEF Spec, ImplementsDelivery, Delivery!Spec
=============================================================================
