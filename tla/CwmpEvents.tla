----------------------------- MODULE CwmpEvents -----------------------------
(***************************************************************************)
(* What the sessions tell the event broker: the Informs they accepted and  *)
(* the responses that settled an RPC.  Publish itself, which never blocks, *)
(* is in EventBroker.                                                      *)
(***************************************************************************)
EXTENDS CwmpDelivery

VARIABLES
    responses,  \* history: how many events each RPC's responses have caused
    informs     \* history: devices with an Inform event

eventVars == <<responses, informs>>

EventsInit ==
    /\ Init
    /\ responses = [m \in Messages |-> 0]
    /\ informs = {}

\* Mutant: the event is published before the id is compared.
PublishesResponse_Always(r, m) ==
    /\ pc[r] = "match" /\ pc'[r] \in {"compare", "fetch"}
    /\ post[r].id = m

\* In processIncomingResponse, once ActiveRPC is cleared.
PublishesResponse(r, m) ==
    /\ pc[r] = "clear" /\ pc'[r] = "fetch"
    /\ post[r].id = m

\* In processInformRequest, once the device has its row.
PublishesInform(r, d) ==
    /\ pc[r] \in {"addDevice", "updateDevice"} /\ pc'[r] = "informReply"
    /\ post[r].dev = d

EventsNext ==
    /\ Next
    /\ responses' = [m \in Messages |-> IF \E r \in Requests : PublishesResponse(r, m)
                                        THEN responses[m] + 1 ELSE responses[m]]
    /\ informs' = informs \cup {d \in Devices : \E r \in Requests : PublishesInform(r, d)}

EventsSpec == EventsInit /\ [][EventsNext]_<<vars, eventVars>>

\* The steps of CwmpSessions with its fairness.
FairEventsSpec == EventsSpec /\ SchedulingFairness /\ CpeFairness

-----------------------------------------------------------------------------

\* A response to an RPC is published only when an Inform of its device was
\* published earlier (whoever was subscribed then), and no more often than the RPC
\* was transmitted: repeated and foreign responses, resent RPCs and restarts cause
\* no event of their own.
EventsFollowDelivery ==
    \A m \in Messages :
        responses[m] > 0 => /\ responses[m] <= transmissions[m]
                            /\ m \in answered
                            /\ row[m].device_id \in informs
=============================================================================
