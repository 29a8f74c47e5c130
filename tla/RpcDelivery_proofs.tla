------------------------- MODULE RpcDelivery_proofs -------------------------
(***************************************************************************)
(* What RpcDelivery says in its actions, as properties of its runs, for    *)
(* any devices, messages and bound: the promise the sessions are shown to  *)
(* keep is the one its reader understands.                                 *)
(***************************************************************************)
EXTENDS RpcDelivery, TLAPS

TypeInv ==
    /\ waiting \in [Devices -> SUBSET Messages]
    /\ earlier \in [Messages -> SUBSET Messages]
    /\ issued \subseteq Messages
    /\ attempts \in [Messages -> Nat]
    /\ sent \in [Messages -> Nat]
    /\ settled \subseteq Messages

\* Only what was handed over waits, and waits for one device.
OneOwner ==
    /\ \A d \in Devices : waiting[d] \subseteq issued
    /\ \A d, e \in Devices : d # e => waiting[d] \cap waiting[e] = {}
    /\ \A m \in Messages : earlier[m] \subseteq issued

\* Never more attempts than allowed, no more transmissions than attempts, no
\* answer to what was not transmitted.
Accounted ==
    /\ \A m \in Messages : sent[m] <= attempts[m] /\ attempts[m] <= MaxSends + 1
    /\ \A m \in settled : sent[m] > 0

\* What was attempted was first in its queue, and what comes later does not
\* overtake it.
AttemptedIsFirst ==
    \A d \in Devices, m \in Messages :
        attempts[m] > 0 => /\ m \in issued
                           /\ m \in waiting[d] => earlier[m] \cap waiting[d] = {}

\* What was handed over waits, unless it was settled or attempted too often.
KeptUntilDone ==
    \A m \in issued : \/ \E d \in Devices : m \in waiting[d]
                      \/ m \in settled \/ attempts[m] > MaxSends

PromiseInv == TypeInv /\ OneOwner /\ Accounted /\ AttemptedIsFirst /\ KeptUntilDone

LEMMA PromiseInit == MaxSends \in Nat /\ Init => PromiseInv
BY DEF Init, PromiseInv, TypeInv, OneOwner, Accounted, AttemptedIsFirst, KeptUntilDone

LEMMA PromiseStep ==
    ASSUME MaxSends \in Nat, PromiseInv, [Next]_vars
    PROVE  PromiseInv'
<1> USE DEF PromiseInv, TypeInv, OneOwner, Accounted, AttemptedIsFirst
<1>1. ASSUME NEW d \in Devices, NEW m \in Messages, HandOver(d, m)
      PROVE  PromiseInv'
  <2>1. /\ m \notin issued /\ issued' = issued \cup {m}
        /\ waiting' \in [Devices -> SUBSET Messages]
        /\ waiting'[d] = waiting[d] \cup {m}
        /\ \A e \in Devices : e # d => waiting'[e] = waiting[e]
        /\ earlier' \in [Messages -> SUBSET Messages]
        /\ earlier'[m] = issued
        /\ \A n \in Messages : n # m => earlier'[n] = earlier[n]
        /\ UNCHANGED <<attempts, sent, settled>>
    BY <1>1 DEF HandOver
  <2>2. TypeInv' /\ Accounted'
    BY <2>1
  <2>3. OneOwner'
    <3>1. \A e \in Devices : waiting'[e] \subseteq issued'
      BY <2>1
    <3>2. \A e, f \in Devices : e # f => waiting'[e] \cap waiting'[f] = {}
      BY <2>1
    <3>3. \A n \in Messages : earlier'[n] \subseteq issued'
      BY <2>1
    <3> QED BY <3>1, <3>2, <3>3
  <2>4. AttemptedIsFirst'
    <3> SUFFICES ASSUME NEW e \in Devices, NEW n \in Messages, attempts'[n] > 0
                 PROVE  /\ n \in issued'
                        /\ n \in waiting'[e] => earlier'[n] \cap waiting'[e] = {}
      OBVIOUS
    <3>1. n \in issued /\ n # m
      BY <2>1
    <3>2. m \notin earlier[n]
      BY <2>1
    <3>3. n \in waiting'[e] => n \in waiting[e] /\ earlier[n] \cap waiting[e] = {}
      BY <2>1, <3>1
    <3> QED BY <2>1, <3>1, <3>2, <3>3
  <2>5. KeptUntilDone'
    BY <2>1 DEF KeptUntilDone
  <2> QED BY <2>2, <2>3, <2>4, <2>5
<1>2. ASSUME NEW d \in Devices, NEW m \in Messages, Attempt(d, m)
      PROVE  PromiseInv'
  <2>1. /\ First(d, m) /\ attempts[m] <= MaxSends
        /\ attempts' \in [Messages -> Nat] /\ attempts'[m] = attempts[m] + 1
        /\ \A n \in Messages : n # m => attempts'[n] = attempts[n]
        /\ UNCHANGED <<waiting, earlier, issued, sent, settled>>
    BY <1>2 DEF Attempt
  <2>2. TypeInv' /\ OneOwner'
    BY <2>1
  <2>3. Accounted'
    BY <2>1
  <2>4. AttemptedIsFirst'
    BY <2>1 DEF First
  <2>5. KeptUntilDone'
    BY <2>1 DEF KeptUntilDone
  <2> QED BY <2>2, <2>3, <2>4, <2>5
<1>3. ASSUME NEW d \in Devices, NEW m \in Messages, Remove(d, m)
      PROVE  PromiseInv'
  <2>1. /\ waiting' \in [Devices -> SUBSET Messages]
        /\ \A e \in Devices : waiting'[e] \subseteq waiting[e]
        /\ \A e \in Devices : waiting[e] \ {m} \subseteq waiting'[e]
        /\ m \in settled \/ attempts[m] > MaxSends
        /\ UNCHANGED <<earlier, issued, attempts, sent, settled>>
    BY <1>3 DEF Remove
  <2>2. TypeInv' /\ OneOwner' /\ Accounted'
    BY <2>1
  <2>3. AttemptedIsFirst'
    BY <2>1
  <2>4. KeptUntilDone'
    BY <2>1 DEF KeptUntilDone
  <2> QED BY <2>2, <2>3, <2>4
<1>4. ASSUME NEW m \in Messages, Transmit(m)
      PROVE  PromiseInv'
  <2>1. /\ sent[m] < attempts[m]
        /\ sent' \in [Messages -> Nat] /\ sent'[m] = sent[m] + 1
        /\ \A n \in Messages : n # m => sent'[n] = sent[n]
        /\ UNCHANGED <<waiting, earlier, issued, attempts, settled>>
    BY <1>4 DEF Transmit
  <2>2. TypeInv' /\ OneOwner' /\ AttemptedIsFirst'
    BY <2>1
  <2>3. Accounted'
    BY <2>1
  <2>4. KeptUntilDone'
    BY <2>1 DEF KeptUntilDone
  <2> QED BY <2>2, <2>3, <2>4
<1>5. ASSUME NEW m \in Messages, Settle(m)
      PROVE  PromiseInv'
  BY <1>5 DEF Settle, KeptUntilDone
<1>6. CASE UNCHANGED vars
  BY <1>6 DEF vars, KeptUntilDone
<1> QED BY <1>1, <1>2, <1>3, <1>4, <1>5, <1>6 DEF Next

LEMMA PromiseInvariant == MaxSends \in Nat => (Spec => []PromiseInv)
<1> SUFFICES ASSUME MaxSends \in Nat PROVE Spec => []PromiseInv
  OBVIOUS
<1>1. Init => PromiseInv
  BY PromiseInit
<1>2. PromiseInv /\ [Next]_vars => PromiseInv'
  BY PromiseStep
<1> QED BY <1>1, <1>2, PTL DEF Spec

\* An RPC is written to the CPE at most once for each of at most MaxSends + 1
\* attempts, and settled only if it was written.
THEOREM PromiseBounded == MaxSends \in Nat => (Spec => []Accounted)
<1>1. PromiseInv => Accounted
  BY DEF PromiseInv
<1> QED BY <1>1, PromiseInvariant, PTL

\* An RPC handed over is never forgotten: it waits until it was answered or was
\* attempted MaxSends + 1 times.
THEOREM PromiseKept == MaxSends \in Nat => (Spec => []KeptUntilDone)
<1>1. PromiseInv => KeptUntilDone
  BY DEF PromiseInv
<1> QED BY <1>1, PromiseInvariant, PTL

\* An RPC that is still waiting is first written when all that were handed over
\* before it for the same device have left the queue.
THEOREM PromiseInTurn ==
    MaxSends \in Nat =>
        (Spec => [][\A d \in Devices : \A m \in waiting[d] :
                       sent[m] = 0 /\ sent'[m] > 0 => earlier[m] \cap waiting[d] = {}]_vars)
<1> SUFFICES ASSUME MaxSends \in Nat
             PROVE  Spec => [][\A d \in Devices : \A m \in waiting[d] :
                        sent[m] = 0 /\ sent'[m] > 0 => earlier[m] \cap waiting[d] = {}]_vars
  OBVIOUS
<1>1. PromiseInv /\ [Next]_vars
      => [\A d \in Devices : \A m \in waiting[d] :
             sent[m] = 0 /\ sent'[m] > 0 => earlier[m] \cap waiting[d] = {}]_vars
  <2> SUFFICES ASSUME PromiseInv, Next, NEW d \in Devices, NEW m \in waiting[d],
                      sent[m] = 0, sent'[m] > 0
               PROVE  earlier[m] \cap waiting[d] = {}
    OBVIOUS
  <2>1. m \in Messages /\ sent[m] \in Nat /\ attempts[m] \in Nat
    BY DEF PromiseInv, TypeInv
  <2>2. sent'[m] # sent[m]
    BY <2>1
  <2>3. PICK n \in Messages : Transmit(n)
    BY <2>2 DEF Next, HandOver, Attempt, Remove, Settle
  <2>4. n = m
    BY <2>2, <2>3 DEF Transmit, PromiseInv, TypeInv
  <2>5. attempts[m] > 0
    BY <2>1, <2>3, <2>4 DEF Transmit
  <2> QED BY <2>1, <2>5 DEF PromiseInv, AttemptedIsFirst
<1>2. MaxSends \in Nat => (Spec => []PromiseInv)
  BY PromiseInvariant
<1> QED BY <1>1, <1>2, PTL DEF Spec
=============================================================================
