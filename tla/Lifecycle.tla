------------------------------ MODULE Lifecycle ------------------------------
(***************************************************************************)
(* The process (main.go): it opens the database, listens, waits for a      *)
(* signal and shuts down, while handlers of CPEs and of the API are in     *)
(* progress and event streams are open (EventBroker).  Shutdown closes the *)
(* listener and waits for the handlers; nothing tells them to stop.        *)
(***************************************************************************)
EXTENDS EventBroker

VARIABLES
    phase,    \* what main and the goroutine of ListenAndServe are at
    dbOpen,   \* can handlers use the sql.DB?
    handler   \* the handler that serves a POST in each slot, or "none"

processVars == <<phase, dbOpen, handler>>
lifecycleVars == <<brokerVars, processVars>>

\* "off" is between two lives of the process.  "deaf" is one whose
\* ListenAndServe has failed: main has no part in it and waits for a signal.
Phases == {"off", "starting", "listening", "deaf", "draining", "closing", "closed"}

NoHandlers == [p \in Publishers |-> "none"]

LifecycleTypeOK ==
    /\ phase \in Phases
    /\ dbOpen \in BOOLEAN
    /\ handler \in [Publishers -> {"none", "CwmpHandler", "ApiHandler"}]

LifecycleInit ==
    /\ BrokerInit
    /\ phase = "off" /\ dbOpen = FALSE /\ handler = NoHandlers

-----------------------------------------------------------------------------
(* main. *)

Phase(from, to) == phase \in from /\ phase' = to

\* Nothing of the process is left but the database file.
ForgetProcess ==
    /\ phase' = "off" /\ dbOpen' = FALSE /\ handler' = NoHandlers
    /\ subscribers' = {} /\ open' = {} /\ connected' = {}
    /\ buffer' = [c \in Clients |-> <<>>]
    /\ seen' = [c \in Clients |-> <<>>]
    /\ filter' = [c \in Clients |-> NoFilter]
    /\ client' = [c \in Clients |-> "away"]
    /\ event' = [p \in Publishers |-> NoEvent]
    /\ visited' = [p \in Publishers |-> {}]
    /\ target' = [p \in Publishers |-> NoClient]
    /\ published' = [p \in Publishers |-> 0]
    /\ readers' = {} /\ blocked' = {} /\ writer' = NoClient

\* A failure of InitDB is fatal: the process stays off.
InitDB ==
    /\ Phase({"off"}, "starting")
    /\ dbOpen' = TRUE
    /\ UNCHANGED <<brokerVars, handler>>

ListenAndServe ==
    /\ \/ Phase({"starting"}, "listening")
       \/ Phase({"starting"}, "deaf")
    /\ UNCHANGED <<brokerVars, dbOpen, handler>>

\* Shutdown: no new connections.  If it comes before ListenAndServe, that
\* returns ErrServerClosed.
Signal ==
    /\ Phase({"starting", "listening", "deaf"}, "draining")
    /\ UNCHANGED <<brokerVars, dbOpen, handler>>

HandlersInProgress ==
    \/ \E p \in Publishers : handler[p] # "none"
    \/ \E c \in Clients : client[c] # "away"

ShutdownDone ==
    /\ ~HandlersInProgress
    /\ Phase({"draining"}, "closing")
    /\ UNCHANGED <<brokerVars, dbOpen, handler>>

\* Mutants: Shutdown has no deadline; its error is logged and main goes on.
ShutdownTimeout_Never == FALSE /\ UNCHANGED lifecycleVars

ShutdownTimeout_GoesOn ==
    /\ HandlersInProgress
    /\ Phase({"draining"}, "closing")
    /\ UNCHANGED <<brokerVars, dbOpen, handler>>

\* Five seconds have passed: log.Fatal, without CloseDB.
ShutdownTimeout ==
    /\ HandlersInProgress
    /\ phase = "draining"
    /\ ForgetProcess

CloseDB ==
    /\ Phase({"closing"}, "closed")
    /\ dbOpen' = FALSE
    /\ UNCHANGED <<brokerVars, handler>>

Exit == phase = "closed" /\ ForgetProcess

\* A crash, or a signal that is not waited for.
Kill == phase # "off" /\ ForgetProcess

-----------------------------------------------------------------------------
(* Requests. *)

routingTable ==
    [cwmp   |-> [Method |-> "POST", Handler |-> "CwmpHandler"],
     status |-> [Method |-> "GET", Handler |-> "StatusHandler"],
     api    |-> [Method |-> "POST", Handler |-> "ApiHandler"],
     events |-> [Method |-> "GET", Handler |-> "EventsHandler"]]

router(path, method) ==
    IF path \notin DOMAIN routingTable THEN "NotFound"
    ELSE IF method # routingTable[path].Method THEN "MethodNotAllowed"
    ELSE routingTable[path].Handler

\* A POST gets a handler.
BeginPost(p, name) ==
    /\ handler[p] = "none"
    /\ handler' = [handler EXCEPT ![p] = name]
    /\ UNCHANGED <<brokerVars, phase, dbOpen>>

\* StatusHandler and the error replies return at once and change nothing.
Serve ==
    /\ phase = "listening"
    /\ \E path \in DOMAIN routingTable \cup {"other"}, method \in {"GET", "POST"} :
        \/ /\ router(path, method) \in {"CwmpHandler", "ApiHandler"}
           /\ \E p \in Publishers : BeginPost(p, router(path, method))
        \/ /\ router(path, method) = "EventsHandler"
           /\ \E c \in Clients : Connect(c)
           /\ UNCHANGED processVars

EndPost(p) ==
    /\ handler[p] # "none" /\ event[p] = NoEvent
    /\ handler' = [handler EXCEPT ![p] = "none"]
    /\ UNCHANGED <<brokerVars, phase, dbOpen>>

\* What handlers do, whatever main is at; only those of CPEs publish.
HandlerStep ==
    /\ \/ \E p \in Publishers : \/ handler[p] = "CwmpHandler" /\ Publish(p)
                                \/ PublisherStep(p)
       \/ \E c \in Clients : \/ Lock(c) \/ LockStep(c) \/ TakeEvent(c) \/ WriteEvent(c)
                             \/ Disconnect(c) \/ Leave(c)
    /\ UNCHANGED processVars

LifecycleNext ==
    \/ InitDB
    \/ ListenAndServe
    \/ Signal
    \/ ShutdownDone
    \/ ShutdownTimeout
    \/ CloseDB
    \/ Exit
    \/ Kill
    \/ Serve
    \/ \E p \in Publishers : EndPost(p)
    \/ HandlerStep

\* The handlers as in EventBroker; main, once it has its signal, goes on, and
\* its five seconds pass.
LifecycleSpec ==
    /\ LifecycleInit /\ [][LifecycleNext]_lifecycleVars
    /\ BrokerFairness
    /\ WF_lifecycleVars(ShutdownDone \/ ShutdownTimeout)
    /\ WF_lifecycleVars(CloseDB)
    /\ WF_lifecycleVars(Exit)

-----------------------------------------------------------------------------

\* The database is closed under no handler: not at the end of a Shutdown, and
\* not when Shutdown gave up waiting for streams and slow connection requests.
HandlersHaveDatabase == HandlersInProgress => dbOpen

\* A signal ends the process, although clients keep their streams open, never
\* read them, and handlers never return.
SignalEndsProcess == phase = "draining" ~> phase = "off"
=============================================================================
