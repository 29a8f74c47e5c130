# Verification of cwmp-acs-go

TLA+ models, TLC runs and TLAPS proofs for the auto-configuration server (ACS)
in this repository: a Go program that speaks CWMP (TR-069) with customer
premises equipment (CPE) on `POST /cwmp`, takes RPCs for devices on a REST API,
keeps them in SQLite until a device fetches them, and streams events to
clients. Paths below are relative to the repository root.

## 1. The system

| Component | State | Operations | Talks to |
|---|---|---|---|
| Store (`db/`) | tables `device`, `rpc_queue` (SQLite, AUTOINCREMENT ids) | `AddDevice`, `UpdateDevice`, `IsDeviceRegistered`, `GetDeviceByID`, `QueueRPC`, `FetchQueuedRPC` (a transaction that also counts the attempt), `DeleteQueuedRPC` | called by both HTTP handlers |
| CWMP sessions (`internal/controllers/cwmp_controller.go`, `internal/session/`) | two global Go maps of `SessionInfo`, by session id and by device; per session: state, `Context`, `ActiveRPC`, CWMP version | one `POST` at a time per goroutine: Inform, empty POST, request, response | store, broker, envelope parser |
| REST API (`internal/controllers/api_controller.go`) | none of its own | check device, build and queue an RPC, look for a session, send a connection request | store, the map by device, the CPE |
| Event broker and stream (`internal/events/`, `events_controller.go`) | map of subscribers under an `RWMutex`, one buffered channel each | `Publish`, `SubscribeWithFilter`, `Unsubscribe`; the SSE loop | called by the CWMP handler; streams to clients |
| Envelope parser (`internal/xml/parser.go`) | two element stacks during a parse | `ParseSOAPEnvelope`, `BuildNamespaceMap`, `ParseCPEHeader` | called by the CWMP handler |
| Versions (`internal/cwmp/cwmp_versions.go`) | none | `MaxCommonVersion`, `determineCwmpVersion` | called for each Inform |
| Messages (`internal/xml/cwmp_1_4/`, `xml/dom/`) | none | a parser and a generator per RPC | called through dispatch tables |
| Process (`main.go`) | the HTTP server, the database handle | start, route, shut down on a signal | all |

What makes it hard:

* every POST runs in a goroutine of its own, and sessions, maps and `ActiveRPC`
  have no lock; two sessions of one device fetch from one queue;
* a database call runs under the context of *some* POST of the session and
  fails once that POST is over; most errors of the store are not looked at;
* the process may die between any two steps, and the queue survives it;
* the API and the CWMP handler meet only in the store and in one map;
* the broker's lock stands between the handlers of CPEs and clients that come,
  go, or stop reading.

What has to hold: an RPC is neither lost nor sent without bound nor sent to
another device nor out of order; sessions end and leave both tables; handlers
return and do not dereference nil; a 202 is durable; publishing never waits
for a client nor meets a closed channel; the parsed tree is the document's.

## 2. Modules

| Module | Models | State and actions |
|---|---|---|
| `AcsDb` | `db/db.go` | the two tables; one operator per function, atomic because each is one statement or one transaction |
| `CwmpSessions` | `CwmpHandler` and all it calls, `session.go` | session structs, both maps, and per handler slot a label `pc`, its POST and its local variables; one action from one blocking call or shared access to the next: a session that ends leaves the two maps in two actions, `ActiveRPC` is read three times |
| `RpcDelivery` | – | abstract specification: what becomes of an RPC handed to the ACS, without sessions, handlers or crashes |
| `CwmpDelivery` | – | the refinement mapping: the queue of a device is its rows, their ids are the order of hand-over, attempts are `send_count` |
| `AcsApi` | `ApiHandler` | concurrent calls beside the handlers; device check, id, INSERT, look for a session, read its state, connection request |
| `EventBroker` | `broker.go`, `events_controller.go` | the map, the channels, the `RWMutex` (a waiting writer keeps new readers out, its unlock lets the waiting readers in), publishers with their range loop, clients with their `select` loop |
| `SoapEnvelope` | `ParseSOAPEnvelope` | the decoder's tokens as actions, the two stacks, the trees built and where text goes |
| `CwmpVersions` | `cwmp_versions.go`, `determineCwmpVersion` | pure operators; the loop is a recursive function |
| `CwmpIncoming` | `handleIncomingMessage` up to the session lookup | composes the last two |
| `CwmpMessages` | `cwmp_1_4/parsers.go`, the parser tables, `ParseCPEHeader` | pure operators from an element to a message or an error |
| `CwmpRpcs` | `buildCwmpMessageFromParts`, the column `parameters`, `cwmp_1_4/generators.go`, `dom.go`, `generateDeviceIdString`, the device row of an Inform | pure operators from JSON to a message to XML |
| `CwmpExchange` | one session message by message | composes the last three: an Inform is taken apart, parsed and answered, an RPC goes from the API over its row to the CPE, the response settles it or not |
| `CwmpEvents` | the two `Publish` calls of the CWMP handler | `CwmpSessions` with a history of events |
| `Lifecycle` | `main.go`, the status handler | composes with `EventBroker`: phases of the process, the handler of each POST in progress; restart after any end |
| `*_proofs` | – | theorems, section 6 |
| `MC*` | – | constants of the runs |

`PROJECT.json` maps each definition to the source lines it stands for.

### Abstractions

* **POSTs.** A POST is what the handler tells apart: empty, Inform (device,
  BOOT event or not, URL), request answered at once, response (id), message
  that does not parse, bad header, empty Body. POSTs that are answered before
  anything shared is read or written (malformed XML, an unknown cookie on
  anything but an Inform) have no action.
* **Errors of the store.** A call that fails changes nothing and may fail at any
  time; under a cancelled context it must fail. `FetchNothing` therefore covers
  both "no row" and "error", as the code does.
* **Contexts.** When a handler returns, `net/http` cancels its context; `Return`
  does so for the session that holds it.
* **Session ids** are slots reused once neither map nor handler refers to them;
  a slot stands for the fresh id of `CreateNewSession`.
* **`send_count`** stops at `MaxSends + 1`: the code tests only `> MaxSends`.
* **Data races.** The two maps are unsynchronised; the Go runtime may abort the
  process on a concurrent write. That outcome is the action `Crash`.
* **Panics** are labels of their own; `net/http` recovers them (`RecoverPanic`).
* **Accesses to shared data** without a lock are actions of their own: the tests and
  reads of `ActiveRPC` (lines 406 and 408), the state and the context an empty POST
  writes, TERMINATED and the two deletes at the end of a session, the table and the
  state that the API looks at. Merged are the two writes of an Inform (line 240
  registers a fresh id that no POST can name before the answer, line 241 the
  device) and a database call with the reads of its arguments.
* **Rows that do not build** (`FetchUnbuildable`): any row may be one. Those that this
  version of the program queued always build (`AcceptedCallIsSent`); a database can
  hold others.
* **Events** are told apart by publisher and number, elements of a document by
  their number, version entries by major and minor number.
* **Documents** (`SoapEnvelope`): a text is the element it stands in and those it
  was appended to; of the attributes, which the parser copies, the code reads only
  the namespaces and `arrayType`. Order and white space of texts are left out.
* **Contents of messages** (`CwmpMessages`, `CwmpRpcs`) are trees of elements with
  the texts the code tests or copies. A parameter's name is its root and the rest
  of its path, because two places ask for different suffixes of it; a field of a
  DeviceId is the sequence of its parts between hyphens, because hyphens join the
  fields to the device id. `encoding/json`, `strconv` and the serialisation of the
  tree are external. One operator stands for the scheme that the five list
  parsers repeat; what they differ in are its arguments.
* **One session at a time** in `CwmpExchange`: what happens concurrently, fails or
  crashes is the matter of `CwmpSessions` and `AcsApi`, where the contents of a
  message are only "parses" or not.
* **The end of the process** (`Lifecycle`) forgets everything but the database file.
  What `log.Fatal`, a crash and a clean exit leave behind is the same for a
  handler: it is gone.

## 3. Runs

Safety runs use symmetry (sessions, requests, messages, devices, clients are
interchangeable); runs with liveness properties use none.

| Run | Instance | Shows |
|---|---|---|
| `sessions_serial` | 1 device, 2 messages, 2 sessions, 2 POSTs, `MaxSends = 1`, no overlap | types, no orphaned entry in the table by device while two sessions of it end and begin, send bound, no lost RPC, no context of another POST, no unexpected panic, state order, refinement of `RpcDelivery` |
| `sessions_overlap` | 2 devices, 2 messages, 1 session slot, 2 POSTs, `MaxSends = 0`, overlap | what survives overlapping POSTs: no orphaned entry although two handlers end one session, send bound, delivery to the owner only, first sends in order |
| `sessions_live` | 1 session, 2 POSTs, 2 messages, `MaxSends = 1`, with the events published | handlers return, a sending session ends; a response event follows an answer, at most one per transmission, after an Inform event of its device |
| `api_calls` | 2 calls, 1 handler, 2 messages, 2 URLs | the API implements the queueing step of `CwmpSessions`; a 202 is durable; requests follow queueing; a session the API takes for active is still registered, although it may end between lookup and test or lie between the two deletes |
| `broker_safety` | 2 clients, 2 publishers of different devices, 2 events each, buffer of 1 | no send on a closed channel, streams filtered and in order, no leak, no early drop |
| `broker_live` | the process with 2 POSTs of one device, 1 client, 2 events, buffer of 1 | a signal ends the process; no handler outlives the database; `Publish` returns although clients never read; gone clients leave |
| `incoming` | 5 elements and 1 text, 4 namespace sets, version lists of up to 3 of 5 entries; 200 Informs, 9 RPCs and an unknown one with 4 to 6 kinds of parameters, 10 kinds of responses with 3 Headers | trees and stacks follow the document; what is taken has the required structure; highest common version; what the API accepts is sent; only well-formed lists settle an RPC; an accepted Inform leaves a usable device; device ids are distinct; the parsers read what the generators write |
| `fault_reply`, `overlapping_responses`, `old_sessions`, `trigger_in_session`, `done_with_pending` | small | one disagreement each, section 5 |

**Why the bounds are enough.** Two sessions of one device with two POSTs in
progress are the smallest instance in which an older session disturbs a newer
one; two messages the smallest in which one can overtake another or be deleted
in its place; `MaxSends = 1` has a first send, a resend and a give-up (the code
has 5). Two devices appear in the overlap run, where slots are shared. A buffer
of one event is full after the first and two clients contend for the write
lock. Five elements hold an Envelope, Header, Body and two more in any nesting
(six were tried: no difference); a text is
appended whatever the texts before it, so one, anywhere, is enough. Crashes are unlimited: they only shrink state.
In `broker_live` one client and two publishers contend for the lock; two clients
together with the phases of the process are out of reach, and `broker_safety` has
them. The contents of messages hold, for each parser, well-formed lists (an empty
one among them), a count that is one too high, another item type, a missing
`arrayType`, an item with a foreign child and a text that is no number; for each
RPC, parameters that are missing, `null`, unreadable, empty and filled; a response's Header has no `ID`, or
two of which either is the right one; DeviceIds
with and without a class and with hyphens; a required parameter under its usual
root, under a vendor's and under none. A second session after the first would
repeat the same operators: `CwmpExchange` keeps nothing from one to the next.

## 4. Fairness

* `SchedulingFairness`: weak fairness of each handler's next step (the Go
  scheduler runs every goroutine on), and strong fairness of `DropRow`: a DELETE
  that is tried again and again under a live context succeeds in the end. Without
  it the give-up loop of `findOutgoingRpc` spins on the same row for ever.
* `CpeFairness`: a CPE whose session is open answers the RPC in flight. Nothing
  is assumed about deletes of *answered* rows: they may fail for ever, and the
  session ends all the same because `send_count` grows.
* `BrokerFairness`: weak fairness of publishers and of critical sections, strong
  fairness of taking the mutex (`sync.Mutex` hands itself to a starved waiter)
  and of the `Done` case of a `select` (Go chooses at random among ready cases).
  No fairness for reading: a connected client may stop for ever.
* `LifecycleSpec` adds weak fairness for `main` once it has its signal: the context
  of `Shutdown` expires after five seconds whatever handlers do, so one of
  `ShutdownDone` and `ShutdownTimeout` comes, then `CloseDB` and the exit. None is
  assumed for starting, for a signal, or for handlers to return. `PublishReturns`
  and `GoneClientsLeave` hold with the process ending at any time, which ends
  handlers too.
* `FairEventsSpec` is the fairness of `CwmpSessions`; the history adds nothing to it.

## 5. Disagreements found

Each is a run that expects a violation; the trace is the run's output.

1. `fault_reply` – a message with an invalid header, or in a session of the
   wrong state, returns a nil `sessionInfo` together with the error that
   `CwmpHandler` means to answer with a SOAP fault; building the fault panics.
2. `overlapping_responses` – `processIncomingResponse` compares the id with
   `ActiveRPC` and reads `ActiveRPC` again for the DELETE; a repeated response
   served at the same time makes it delete the row of the next RPC.
3. `old_sessions` – comments leave superseded sessions to an "automated session
   cleaner"; there is none, and they stay registered.
4. `trigger_in_session` – the end of an older session removes the device's entry
   of the newer one, and the API then takes the device for one without session.
5. `done_with_pending` – "No outgoing RPCs, so we're done" also when the fetch
   failed, a row did not build or an RPC was queued after the fetch.

Noted while reading, without a run: `isHeaderValidForMessageType` tests
`UseCWMPVersion` and `HoldRequests`, which `ParseCPEHeader` never fills; the
comment at `internal/xml/parser.go:121` speaks of a Body "with only a single
child", which is not tested; a Header element inside the Body pops the Body's
stack as well. `GetDeviceByID` reports an unknown device as an error, so
`ApiHandler` answers 500 and its 404 ("device not found") is never reached.
`TransferComplete` is advertised to CPEs but has no parser. The Fault for a
message that does not parse has an empty ID. Faults are written as `cwmp:Fault`,
in the prefix of CWMP. With no common version, `UseCWMPVersion` is the text for an
unknown version. `GenerateGetRPCMethodsResponse` sorts its list after writing it,
so the order sent is that of a Go map. A document that declares a required
namespace as its default one has the prefix "", and the elements of the answer
then have names such as ":Envelope".

## 6. What is proved

All theorems hold for every value of the constants that satisfies the named
assumptions. `DbAssumption`, `SessionAssumption` and `BrokerAssumption` say that the
markers such as `NoSession` are no ordinary values and that `Requests` is finite;
`MalformedAssumption` and `VersionListsAssumption` that a version list holds pairs of
numbers and the marker of what `Sscanf` refuses; `DeviceIdsAssumption` and
`ApiCallsAssumption` that DeviceIds and the JSON of API calls have the Go types of
`DeviceId` and the request structs, and that what an Inform holds are trees of
elements; `ResponsesAssumption` that the responses a run calls good are well-formed
and the others are not, by a definition (`WellFormed`) that does not mention the
parsers. `RpcDelivery_proofs` needs `MaxSends \in Nat`. Theorems written `OverlappingPosts = FALSE => ...`
hold for CPEs that await the answer to a POST before the next; where they do not,
`overlapping_responses` and section 4 show what goes wrong.

**Sessions** (`CwmpSessions_proofs`, overlap included).

* `TypeCorrect`: `Spec => [](TypeOK /\ PostFitsLabel)`. `TypeOK` alone is not
  inductive: `AddDevice` stores `post[r].url`, which only an Inform has, so the
  invariant also says which POST a handler at a label has.
* `NoOrphans`: an entry by device names a session of that device that is registered by
  id, or one a handler has taken out of the first table and is about to take out of
  the second. Inductive with the types; the frame lemmas show that no handler changes
  the device of a session and only three actions and a restart touch the tables. The obvious
  property, that the entry names a registered session, is false between the deletes.
* `RetransmissionBounded` counts: for each RPC, transmissions made plus the handlers
  about to send it are at most its `send_count`. A fetch raises both sides by one,
  a send moves a handler from one summand to the other, a crash empties the set;
  `Enqueue` resets the count of an id that was never queued.
* `OwnersServed` and `SentInOrder` share `HoldingInv`: what a session holds in
  `ActiveRPC` and what a handler is about to write was queued for the session's
  device and is older than all that still waits for it (`Foremost`). That stays so
  because ids of rows only grow and a fetch takes the oldest.

**Sessions without overlap** (`CwmpSerial_proofs`).

* `NothingLost`: `LossInv` says that a handler at `delete` holds the id it matched,
  still the `ActiveRPC` of a session no other handler works in, and that one at
  `drop` holds an exhausted row.
* `MatchedDeleted`, from the same invariant, is the property that
  `overlapping_responses` refutes: a POST that overlaps another of its session is all
  that can break it.
* `SettledWasSent` (in no run: `ImplementsDelivery` includes it), `OwnContext`,
  `NoOtherPanic`, `NeverBothWait`, `StatesAdvance` come from `SerialInv`: per label,
  what a handler may rely on in its session (its context, a non-nil `ActiveRPC`, the
  state), and per session, what is in flight or which handler is about to see to it.
  `ForeignSession` shows that handlers of other sessions leave all of it alone.

**Refinements.** `CwmpDelivery_proofs!DeliversAsPromised` maps every step of handlers,
crash and restart to a step of `RpcDelivery` or a stutter: a fetched row is an attempt,
`SendRpc` a transmission, `DeleteAnswered` the settling, `DropRow` the giving up. It
needs `SerialInv` (what is deleted was written), `HoldingInv` (what leaves is first) and
the counting invariant. The queue of the abstract specification is a set per device
with an order of hand-overs, which says what a sequence does and needs no recursive
mapping. `AcsApi_proofs!ApiImplementsSessions` shows that concurrent calls of
`ApiHandler` do nothing to the store that the atomic `Enqueue` does not: between check,
id and INSERT a call keeps its fresh id to itself (`CallsInv`). `ApiDeliversAsPromised`
composes the two; `AcceptedStays` and `RequestsFollow` add that an RPC that a call has
stored is in the queue or rightly gone (`KeptInv`). By the refinement
`ApiKeepsSessions` and `ApiKeepsSerialSessions` carry every safety theorem of the
sessions over to sessions with API calls beside them, which no run is large enough for.
`FoundIsOpen` is about what the API reads of a session: it may end between the lookup
and the test of its state, and between the two deletes the lookup still finds it. Both
read as TERMINATED, since that is written first (`SerialInv`: a session that was set up
and is not TERMINATED is registered; `NoOrphans`: what is found is registered or between
the deletes). So a session on whose account the API sends no connection request has not
ended. That its CPE posts again, and that it fetches again, is another matter
(`old_sessions`, `done_with_pending`).

What the abstract specification amounts to is proved of it alone
(`RpcDelivery_proofs`): `PromiseBounded`, `PromiseKept` and `PromiseInTurn` from
`PromiseInv` (an RPC waits for one device, what was attempted is the first there and
nothing gets before it, what is gone was settled or exhausted).

**Events** (`CwmpEvents_proofs!EventsFollow`). `EventsInv` counts again: response events
plus sessions in which the RPC is in flight are at most its transmissions; clearing
`ActiveRPC` publishes one event and takes one session out of the set. The Inform event
is one that was published, to whoever was subscribed then.

**Broker** (first half of `Lifecycle_proofs`). `BrokerInv` is the lock discipline: whoever has a
target holds the read lock, readers and waiters are disjoint, a client's channel is
open as long as its handler runs. `StreamsFaithful` and `DroppedOnlyWhenFull` speak of
what a client took and what its channel still holds as one sequence (`StreamInv`): the
subscribers of a range loop cannot change under the read lock, and until the loop has
come by a client all it has of that publisher is older. `LockProgress` is the part of
`PublishReturns` that fairness cannot give: a publisher that has no lock waits for a
writer, and a writer waits only for publishers in their loop (`LockInv`).

**Lifecycle** (second half). Types and `DatabaseOutlivesHandlers`: handlers are in
progress only while the process listens or drains, and the database is open in every
phase but "off" and "closed"; `ShutdownDone` waits for the last handler, every other way
out forgets them all. `BrokerServesEveryLife`: every step of the process is one of the
broker, leaves it alone or starts it anew, so its invariants hold in every life.
`ShutdownLeavesQuiet` joins the two: handlers of CPEs are not over before their event is
published (`PublishersAreHandlers`), so after a `Shutdown` that was waited for there is
no event, no subscriber and no holder of the lock.

**Contents** (`CwmpExchange_proofs`, for documents, lists and messages of any size).

* `StacksFollow`, `TreesMirror`, `TakenStructured` from `EnvelopeInv`: the stack of the
  Header and that of the Body are an end of the decoder's path (up to the element
  that started it), `built` says what was hung where, and a document that is
  accepted had its parts. `Ancestors` is a recursive function on a growing document;
  that its equation has one solution is part of the invariant (`AncestorsFit`) and is
  carried from each document to the next, which has one element more.
* `HighestVersion`: the loop of `MaxCommonVersion`, by induction over the list. The
  induction is `SetInduction`, proved from the pigeonhole principle: if S holds 0 and is
  closed under successor but lacks N, the function that sends n to n + 1 in S and to
  itself outside fits 0 .. N into 1 .. N. It needs no operator as a parameter.
* `IdsDistinct`: three parts without hyphens can be read back from their join.
* `AcceptedSent`: the column gives back the parameters that went in, so what was
  built once builds again; every generator of an RPC writes arrays that count their
  items (`CallCounted`, one case per generator).
* `InformUsable`, `ReadsBack`, `GoodResponsesSettle`: the loops of the parsers, which
  keep the last of what they find, are sets found per element of which the last that
  is not empty counts (`LastFound`). `LastFoundIs` and `OneParsed` say which element a
  value came from; with them `InformUsable` traces the URL of the device row to a
  parameter of the Inform, `ReadsBack` follows each message the handler writes
  (`ReplyInv`, `Readable`) into its parser, and `ResponseParses` shows, one case per
  kind of response, that a parser accepts exactly what is `WellFormed`. `SettledInv`
  adds that nothing else leads to `settled` or to a refusal.
* `ExchangeTypeCorrect`: the types of all of these, and that a session has a device
  exactly while its Inform is the last message it took.

Only model-checked:

* all liveness (`HandlersReturn`, `SendingEnds`, `PublishReturns`, `GoneClientsLeave`,
  `SignalEndsProcess`): it needs fairness and `ENABLED`, out of the prover's reach;
* The violations of section 5.

## 7. Not modelled

* The serialisation of XML, prefixes and namespace declarations, the wording of
  faults and logs: no control depends on them (what was noticed is in section 5).
* The timestamps of sessions and rows, which nothing reads.
* SQLite itself with its pragmas and the pool of two connections (a call that
  waits for a connection is a call that has not been made yet), `net/http`, and the
  CPE's side of a connection request.
* The contents of rows queued by a version of the program with other rules than the
  running one; `CwmpSessions` has what they lead to, a row that does not build.

## 8. State of the plan

Done: store, sessions, delivery promise, API, broker, envelope, versions, message
parsers and generators, exchange of contents, events, lifecycle; theorems for every
safety property of the passing runs. What could be added:

1. Two sessions after each other in `CwmpExchange`, with rows left by the first.
2. A bound on the steps of a range loop: it visits each subscriber once, so with a
   well-founded order `LockProgress` would give `PublishReturns`, were liveness in
   reach of the prover.

## 9. Running

    tlc -config MCSessions_serial.cfg MCSessions.tla
    tlapm CwmpDelivery_proofs.tla

Each run of `PROJECT.json` names its module and configuration. The longest takes
about two and a half minutes on two cores. The proofs of `CwmpExchange_proofs` take about five
minutes from nothing, those of every other module less than one.
