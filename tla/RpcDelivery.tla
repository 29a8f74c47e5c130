----------------------------- MODULE RpcDelivery -----------------------------
(***************************************************************************)
(* What the ACS promises about an RPC handed to it for a device, with no   *)
(* word of sessions, POSTs, handlers or tables: RPCs of a device are       *)
(* served in the order they were queued; each is attempted at most         *)
(* MaxSends + 1 times and written to the CPE at most once per attempt; it  *)
(* is settled only by an answer to something that was written; it leaves   *)
(* the queue only when it is the first there, and only settled or          *)
(* exhausted.  A crash is no action here: none may change any of this.     *)
(***************************************************************************)
EXTENDS Naturals

CONSTANTS Devices, Messages, MaxSends

VARIABLES
    waiting,    \* per device, the RPCs in its queue
    earlier,    \* per RPC, those handed over before it
    issued,     \* RPCs ever handed over
    attempts,   \* how often an RPC was taken up for sending
    sent,       \* how often it was written to the CPE
    settled     \* RPCs the CPE has answered

vars == <<waiting, earlier, issued, attempts, sent, settled>>

Init ==
    /\ waiting = [d \in Devices |-> {}]
    /\ earlier = [m \in Messages |-> {}]
    /\ issued = {}
    /\ attempts = [m \in Messages |-> 0]
    /\ sent = [m \in Messages |-> 0]
    /\ settled = {}

\* The queue of d is not empty and m has its head.
First(d, m) == m \in waiting[d] /\ earlier[m] \cap waiting[d] = {}

HandOver(d, m) ==
    /\ m \notin issued
    /\ issued' = issued \cup {m}
    /\ waiting' = [waiting EXCEPT ![d] = @ \cup {m}]
    /\ earlier' = [earlier EXCEPT ![m] = issued]
    /\ UNCHANGED <<attempts, sent, settled>>

Attempt(d, m) ==
    /\ First(d, m)
    /\ attempts[m] <= MaxSends
    /\ attempts' = [attempts EXCEPT ![m] = @ + 1]
    /\ UNCHANGED <<waiting, earlier, issued, sent, settled>>

Transmit(m) ==
    /\ sent[m] < attempts[m]
    /\ sent' = [sent EXCEPT ![m] = @ + 1]
    /\ UNCHANGED <<waiting, earlier, issued, attempts, settled>>

Settle(m) ==
    /\ sent[m] > 0
    /\ settled' = settled \cup {m}
    /\ UNCHANGED <<waiting, earlier, issued, attempts, sent>>

Remove(d, m) ==
    /\ First(d, m)
    /\ m \in settled \/ attempts[m] > MaxSends
    /\ waiting' = [waiting EXCEPT ![d] = @ \ {m}]
    /\ UNCHANGED <<earlier, issued, attempts, sent, settled>>

Next ==
    \/ \E d \in Devices, m \in Messages : HandOver(d, m) \/ Attempt(d, m) \/ Remove(d, m)
    \/ \E m \in Messages : Transmit(m) \/ Settle(m)

Spec == Init /\ [][Next]_vars
=============================================================================
