-------------------------------- MODULE AcsDb --------------------------------
(***************************************************************************)
(* The SQLite store of the ACS (db/db.go): the table of devices that have  *)
(* sent a BOOT/BOOTSTRAP Inform and the table of RPCs waiting for them.    *)
(* Each exported function runs one statement or one transaction, and       *)
(* SQLite serialises writers, so every operator below is atomic.  It is    *)
(* the effect of a call that succeeded; a call that returned an error      *)
(* changed nothing, and the caller's module has an action for it.          *)
(***************************************************************************)
EXTENDS Integers, FiniteSets

CONSTANTS
    Devices,      \* device identifier strings (OUI-ProductClass-Serial)
    Messages,     \* message ids: newMessageID mints a fresh uuid per RPC
    Urls,         \* values of ConnectionRequestURL, the empty one included
    NoRow,        \* a device without a row
    NoDevice,     \* the device of a message id that was never queued
    MaxSends      \* findOutgoingRpc gives up on a row when send_count > MaxSends

ASSUME DbAssumption ==
    /\ MaxSends \in Nat
    /\ NoRow \notin Urls
    /\ NoDevice \notin Devices

VARIABLES
    device,       \* table device: the ConnectionRequestURL of a row, or NoRow
    rpc_queue,    \* table rpc_queue: the message ids that have a row
    row,          \* what each row holds; kept as history once it is deleted
    lastRowId     \* AUTOINCREMENT: the last id given, never reused

dbVars == <<device, rpc_queue, row, lastRowId>>

-----------------------------------------------------------------------------

\* send_count is unbounded in the table.  Every value above MaxSends is
\* treated alike, so the model stops counting at the first of them.
SendCounts == 0 .. MaxSends + 1

Rows == [id : Nat, device_id : Devices \cup {NoDevice}, send_count : SendCounts]

DbTypeOK ==
    /\ device \in [Devices -> Urls \cup {NoRow}]
    /\ rpc_queue \subseteq Messages
    /\ row \in [Messages -> Rows]
    /\ lastRowId \in Nat

DbInit ==
    /\ device = [d \in Devices |-> NoRow]
    /\ rpc_queue = {}
    /\ row = [m \in Messages |-> [id |-> 0, device_id |-> NoDevice, send_count |-> 0]]
    /\ lastRowId = 0

-----------------------------------------------------------------------------

Registered(d) == device[d] # NoRow

\* SELECT ... WHERE device_id = ?, for a device that has a row: of its columns
\* the one a caller uses.
GetDeviceByID(d) == device[d]

\* INSERT ... ON CONFLICT(device_id) DO UPDATE.
AddDeviceRow(d, url) ==
    /\ device' = [device EXCEPT ![d] = url]
    /\ UNCHANGED <<rpc_queue, row, lastRowId>>

\* UPDATE ... WHERE device_id = ?: no row, no effect.
UpdateDeviceRow(d, url) ==
    /\ device' = IF Registered(d) THEN [device EXCEPT ![d] = url] ELSE device
    /\ UNCHANGED <<rpc_queue, row, lastRowId>>

\* Mutant: the WHERE clause is missing.
Pending_AnyDevice(d) == rpc_queue

\* The rows of a device, and the one ORDER BY id ASC LIMIT 1 picks.
Pending(d) == {m \in rpc_queue : row[m].device_id = d}

\* Mutant: ORDER BY id DESC.
IsHead_Newest(d, m) ==
    m \in Pending(d) /\ \A n \in Pending(d) : row[m].id >= row[n].id

IsHead(d, m) == m \in Pending(d) /\ \A n \in Pending(d) : row[m].id <= row[n].id

QueueRPC(d, m) ==
    /\ rpc_queue' = rpc_queue \cup {m}
    /\ row' = [row EXCEPT ![m] =
                  [id |-> lastRowId + 1, device_id |-> d, send_count |-> 0]]
    /\ lastRowId' = lastRowId + 1
    /\ UNCHANGED device

\* Mutant: the count read is compared as if it included this attempt.
Exhausted_OffByOne(m) == row[m].send_count > MaxSends + 1

\* A row the caller will give up on: the count FetchQueuedRPC returns is the
\* one it read, before its own increment.
Exhausted(m) == row[m].send_count > MaxSends

\* Mutant: the UPDATE is forgotten.
FetchQueuedRPC_NoCount(m) == UNCHANGED <<device, rpc_queue, row, lastRowId>>

\* The transaction SELECT, UPDATE send_count + 1, COMMIT on the head row m.
FetchQueuedRPC(m) ==
    /\ row' = IF Exhausted(m) THEN row ELSE [row EXCEPT ![m].send_count = @ + 1]
    /\ UNCHANGED <<device, rpc_queue, lastRowId>>

\* DELETE ... WHERE message_id = ?.
DeleteQueuedRPC(m) ==
    /\ rpc_queue' = rpc_queue \ {m}
    /\ UNCHANGED <<device, row, lastRowId>>
=============================================================================
