---------------------------- MODULE CwmpDelivery ----------------------------
(***************************************************************************)
(* The refinement mapping from CwmpSessions to RpcDelivery.  What waits    *)
(* for a device are its rows, and their ids say which was handed over      *)
(* first; attempts are the send_count column; the rest is history.         *)
(***************************************************************************)
EXTENDS CwmpSessions

\* The RPCs that have, or had, a row.
Queued == {m \in Messages : row[m].device_id # NoDevice}

Delivery == INSTANCE RpcDelivery WITH
    waiting  <- [d \in Devices |-> Pending(d)],
    earlier  <- [m \in Messages |-> {n \in Queued : row[n].id < row[m].id}],
    issued   <- Queued,
    attempts <- [m \in Messages |-> row[m].send_count],
    sent     <- transmissions,
    settled  <- answered

\* The sessions deliver RPCs as RpcDelivery promises: every step of a handler,
\* of two sessions of one device in any interleaving, and of a crash, is one of
\* its steps or none.
ImplementsDelivery == Delivery!Spec
=============================================================================
