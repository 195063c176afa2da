# A TLA+ model of mautrix-meta

mautrix-meta bridges Facebook Messenger and Instagram DMs to Matrix. It keeps
one websocket per login to Meta's MQTT broker, sends requests over it, applies
the update tables the server pushes, and remembers how far it got across
restarts. This directory models what several goroutines, a network that fails and a
server that answers late can do to each other, and, as functions on bounded
inputs, the conversions between the formats of the three networks. Source
paths below are relative to the repository.

## The system

| Part | State | Operations | What makes it correct |
|---|---|---|---|
| Request correlation (`pkg/messagix/responsehandler.go`, `socket.go`, `payload.go`) | two maps packet ID → channel, the packet counter | `SafePacketID`, register, send, wait, time out, `CancelAllRequests` | an answer reaches its own caller; no channel is closed twice or leaked; nobody waits for ever |
| Socket and connection loop (`socket.go`, `client.go`, `events.go` of `pkg/messagix`) | `Socket.conn`, `wsQueue`, `canSendMessages`, `previouslyConnected`, attempts | dial, read loop, queue worker, pinger, ready handler, back-off, `Disconnect` | a disconnect stops everything; a refusal is seen; the loop dials again |
| Sync manager (`syncManager.go`) | a cursor per database | `SyncSocketData`, `updateSyncGroupCursors` | the cursor covers nothing that was lost |
| Table pipeline (`pkg/connector/handlemeta.go`) | `parsedTables`, `initialTable`, `initialTableHandled` | `parseAndQueueTable`, `handleTableLoop`, `handleParsedTable` | every queued table is handled, in order |
| Connection state (`pkg/connector/client.go`, `pkg/metadb`) | the saved state in the database | `DumpState`, `LoadState`, `saveConnectionState`, `Disconnect`, `FullReconnect` | what is saved has been applied |
| Backfill (`pkg/connector/backfill.go`) | `backfillCollectors` | `FetchMessages`, the two answer handlers | history has no gaps; a fetch returns; the end is not reported early |
| Connector lifecycle (`pkg/connector/client.go`) | `Client`, `E2EEClient`, two bridge states, several cancel functions | `Connect`, `connectWithRetry`, `periodicReconnect`, `FullReconnect`, `LogoutRemote` | one connect at a time; no client is left disconnected silently |
| Matrix → Meta (`handlematrix.go`, `startchat.go`) | edit channels, watermark, last presence | send, edit, react, redact, read, view, delete, rename | a message is sent once; what Matrix is told is true |
| Meta → Matrix (`handlemeta.go`, `events.go`, `chatinfo.go`, `userinfo.go`) | portal metadata, ID caches | `parseTable`, event wrappers | each row becomes one event, in an order that makes sense |
| E2EE (`connector/client.go`, `handlewhatsapp.go`, `e2ee-*.go`) | whatsmeow client, device | `connectE2EE`, registration | one connection, a registered device |
| Login (`login.go`, `messengerlite.go`, `bloks/`) | the browser's page, the user's input | login steps, pages, scripts | each step leads on or fails; nothing refused is sent again |
| DGW (`dgw/`) | one connection, five goroutines | handshake, frames, pings | it ends when it should and leaves nothing behind |
| Conversion (`pkg/msgconv`, `pkg/metaid`, `directmedia.go`) | none | messages, media, mentions, IDs | nothing is lost; IDs lead back |
| Codecs (`byter/`, `packets/`, `lightspeed/`) | none | encode, decode | inverses |
| Thread backfill, push, HTTP, page scraping, script interpreter, crypto, configuration | – | – | not modelled, see below |

How they interact: `Client.Connect` starts a goroutine (the connection loop)
that runs `Socket.Connect` again and again. Its `readLoop` reads packets; ACKs
and responses go straight through the channel maps to waiting callers, pushed
tables and the CONNACK go through `wsQueue` to a worker. The worker syncs the
databases on the CONNACK, then hands each table to the connector, which parses
it and puts it on `parsedTables`; the table loop passes the events on to the
bridge, moves the cursor and saves the state. Backfill answers travel the same
way and meet the waiting `FetchMessages` in `backfillCollectors`. Around all
this `MetaClient` connects, refreshes and drops clients, and opens a second
connection (WhatsApp) for encrypted chats; Instagram logins open a third (DGW)
for typing notifications.

The hard behaviour is in the seams: channels used outside their lock, a worker
and a reader that wait for each other, a cursor that is moved by two
goroutines, answers that are correlated by timestamp only, a disconnect or a
crash between any two of these steps. `PROJECT.json` lists these hazards with
the line where each bites.

## Modules

### ResponseHandler

One record per call in a family of functions (`kind`, `pid`, `pc`, `ch`,
`got`), the two maps, the buffer and the closed set of the channels, the
reader goroutine, and the server's debts (`owed`, `seen`). A Go channel is
named after the call that created it, so a model value stands for the pointer
and the model can see that two calls with one ID share a channel. Each
critical section of `ResponseHandler.lock` and each channel operation is one
action: `SafePacketID`, `addPacketChannel`, `addRequestChannel`, `sendDataOk`
and `sendDataFail`, `FailPacket` and `FailRequest` (the two deletes after a
failed send), `getChannel`, `Receive`, `ReceiveClosed`, `GiveUp` (the select of
`waitForDetails`), `Finish` (the delete afterwards), `ReadPacket`,
`FetchChannel` and `PushPacket` (the reader; the send is outside the lock and
panics on a closed channel), `Reconnect`, `CancelAllRequests`. The cast in
`castIfNotNil` is `WrongAck`. Left out: encoding errors of a request (they
happen before anything is sent and take the same deletes).

### SocketLoop

`loop` is the connection loop's goroutine, which is also the reader; `worker`,
`pinger` and `disc` are the others. `conn` distinguishes nil, open and broken,
because `CanConnect` only looks for nil. `closeErr` follows the atomic pointer
of `readLoop` (`FirstError` is its CompareAndSwap; a refusal stores
unconditionally). Requests of the ready handler are "answered" or "failed",
since ResponseHandler has the detail. Times are choices, except that a server
which refuses a connection is taken to do so within two minutes. The counters of
`Connect` are capped one above their limit. `badLogins` and `refused` are
history.

### TablePipeline

Updates of database 1 are numbered; a cursor is a number, a table a range of
updates, the saved state a cursor. `sync` follows the queue worker through
`SyncSocketData`, the ready event and pushed tables; `handler` follows the
table loop; `stale` says that a cancelled one is still there, whose select may
pick a table instead of the cancelled context; `disc` follows a disconnect. The handling of one table is cut where the
cursor and the saved state can differ: take, events, post-handling, save.
`handled`, `dropped`, `skipped` and `synced` are history.
`saveConnectionState` has the rate limit as it is written: a save without a
given state happens only if the last attempt was *less* than a minute ago.
`CacheConnectionState` is taken to be on. The connector's retry loop around a
failed page load changes nothing here.

### Backfill

The thread's messages are numbered by timestamp. `col[f]` is the collector of
fetch `f` with the fields of the range that the code reads, `registered` the
entry of `backfillCollectors` for the thread, `wire` the requests the server
has yet to answer. Nothing ties an answer to the fetch that asked: it goes to
whoever is registered, late or not, and the fetch it was made for is only
remembered to fill the history `mixed` (fetches whose collector was given
another fetch's answer). `handleUpdateExistingMessageRange` calls Done before
its unlocked delete, so the two are separate steps (`deleting`). The collected
messages are a set, as `wrapBackfillEvents` sorts and deduplicates.

### RequestReply

What ResponseHandler promises, without channels, maps and goroutines: a call
takes an ID, is sent, acknowledged and answered at most once and in this order,
each time by a message about a request with its ID, and may end without any of
it. `Rpc` in ResponseHandler is the refinement mapping: `Phase` abstracts from
the program counter, the received messages stay.

### DurableCursor

What the saved connection state is for, without connections, queues and
goroutines: a cursor is used and saved only once what it covers has reached the
bridge or is excused (skipped for a known reason, or brought by the page or a
sync), a login resumes from what was saved, and a crash loses only the cursor in
use. `Log` in TablePipeline is the refinement mapping: `CursorInUse` is the
client's cursor or, while a disconnect holds it to save it, the dumped one;
`Excused` is the history of updates with an excuse (`skipped`, `synced`).

### MetaClient

Every goroutine that runs `Connect`, `FullReconnect`, `Disconnect` or
`LogoutRemote` is a process (`pc`), so are those in `tryConnectE2EE` (`epc`) and
the `periodicReconnect` loops (`refresh`). `disconnect` is two actions,
`StopClient` and `DropClient`, because it reads `m.Client` and clears it later.
`connectE2EE` is cut wherever it reads a field that another goroutine may clear
(`E2EELock`, `E2EEDevice`, `E2EERegister`, `E2EEPrepare`, `E2EEConnect`). The
loop of each messagix client is reduced to the events it sends (`Connected`,
`SocketError`, `PermanentError`). Identities are reused once they are free.
`overlap`, `regFailed` and `dropped` are history. Left out are proxies, and the
error codes inside a bridge state. The two stored bridge states are those of
`ConnectionStates`, with the merge of `FillBridgeState`.

### BridgeStates

How a stored state reaches the user. The handlers of both connections,
`tryConnectE2EE`, `Connect` and `Disconnect` run on goroutines of their own and
share `m.metaState` and `m.waState` without a lock, so storing a state, merging
it (`FillBridgeState` inside `BridgeState.Send`) and queueing the result are
three steps, with those of the other goroutines in between. A handler may store
any of its states at any time, which includes whatever MetaClient does. `owes`
(what a goroutine stored and has not sent yet), `raced` (merged states that were
stored past) and `stale` (the state last queued was one of these) are history.

### Messaging

`spc` and `epc` follow an invocation of `HandleMatrixMessage` and of
`HandleMatrixEdit`. The server's side is `stored` (what each otid has become);
an answer may be lost after the request was executed. `channel` is the entry of
`editChannels`, which is keyed by message only, and `handleEdit` is the table
loop's push into it. The five seconds of the correction and the timeouts of the
waits are choices.

### Login

`st` is the state of the browser; `After` lists which states the script of a
page can lead to, as `DoLoginStep` and the bridge callbacks allow it. What a
script does is the server's choice. `input` is the map of the user's fields in
the current call, `lastError` the message of the last refusal. The cookie login
and the creation of the user login at the end are here too.

### DGWSocket

`pc` has `connectDGW` with `readLoop` ("main") and the five goroutines. Channels
without a buffer are joint steps of the sender and the receiver (`Deliver`,
`Take`). `fatalError` stores the first error, closes `done` and the connection.
A message is a sequence of frames of the kinds the processor tells apart;
`Byter` has their bytes.

### Functions without state

| Module | Code | Abstraction |
|---|---|---|
| FromMeta | `ToMatrix` of `from-meta.go` | a message is a record of what the conversion looks at; transfers and lookups succeed or fail as the record says |
| WhatsAppConv | `to-whatsapp.go`, `from-whatsapp.go` | the same, with sizes of thumbnails and timers as numbers |
| ToMetaConv | `from-matrix.go`, `mentions.go` | a character is a pair of its lengths in bytes and in UTF-16 units |
| DirectMedia | `mediaid.go`, `directmedia.go`, chunks in `media.go` | media IDs are sequences of bytes |
| RemoteEvents | `parseTable` and its row handlers, `WrapMessages` | a table is a sequence of rows with operation, thread, type and ID; map iteration is in a fixed order and the properties do not depend on it |
| ChatState | `chatinfo.go`, `events.go`, `userinfo.go` | metadata and caches as records |
| MatrixHandlers | the other handlers of `handlematrix.go`, `startchat.go` | a handler is a plan: it refuses or makes requests until one fails |
| Byter | `byter/`, `packets/`, `request.go`, `response.go`, `dgw/frames.go` | sequences of bytes; a struct is a list of fields |
| Lightspeed | `lightspeed/decode.go` | steps are trees, values carry their Go type |

`MCCalls` turns functions into a specification: a state is a function and an
input, the step is the call. `MCCodec`, `MCHandlers` and `MCConversions` choose
the inputs and collect the properties of each area into one invariant.

In MatrixHandlers a step of a plan is done, refused, or done although it is
reported as failed (its answer was lost). `CreateGroup` goes on after the group
exists, and each of these steps can fail. In RemoteEvents the collectors that
wait for history are an input: a bundle is joined to the collector of its
thread, or ignored if it reaches above what that collector has; the answers
themselves, and `handleUpdateExistingMessageRange`, are in Backfill. Failures of
the database within `parseTable` are not modelled. In ChatState the ID table is
insert-only, as its `ON CONFLICT DO NOTHING` makes it, and an insert may fail.
In Lightspeed a row's struct has an `Unrecognized` field or not.

The other `MC*` modules add model-value symmetry and small sets. Operators
called `Mut*` are faulty variants of the definition that follows them: putting
one in its place makes a property fail. `PROJECT.json` names one for every
property; the others do the same for the other conjuncts of the same
properties. Every module with variables has a `TypeOK` (`SendTypeOK` in BridgeStates); it holds on the same
instances, and is part of a run where it says more than the others do.

## What is checked

| Run | Checks | Shows |
|---|---|---|
| `responses` | `ResponseMatches`, `NoDoubleClose`, `PanicNeedsCause`, `NothingLeftBehind`, `KeepsPromise` | answers reach their callers; a panic needs a repeated message, a caller that gave up, or colliding IDs; to its callers the correlation is RequestReply |
| `responses_live` | `CallsReturn`, `ReaderUnblocks` | every call returns; the reader gets past every push |
| `socket` | `NoStaleReady`, `RefusalReported`, `BadLoginsBounded`, `StopsUnlessStuck` | old workers do not announce a new connection; a refusal wins over the other errors; refused logins end the loop; so does a disconnect, but for the case below |
| `tables` | `NoSilentLoss`, `PushedUpdatesSafe`, `KeepsCursor` | the cursor and the saved state cover nothing that vanished for no known reason; to a login that resumes, the pipeline is DurableCursor |
| `backfill` | `TypeOK`, `GapFree`, `WaitingIsRegistered`, `NoFalseEnd`, `FetchReturns` | no gaps, but for a fetch that was given another's answer; a waiting fetch keeps its entry, but for one race; no early end of history; a fetch returns |
| `connector` | `OrphanNeedsOverlap`, `PanicNeedsRace`, `RefreshArmed` | a lost client needs two overlapping calls; a nil pointer or an unregistered device needs the named race or failure; a connected login will be refreshed |
| `states` | `NotBetterThanWorst` | the state shown is better than a stored one only until the Send after the store is through, or after two Sends crossed |
| `messaging` | `ExactlyOnce`, `EditReportIsTrue`, `HandlersReturn` | retries send nothing twice; reports about edits are true but for the named causes; handlers return |
| `login` | `NoResubmit`, `AcceptedIsSuccess`, `CallsReturn` | no refused input is sent again; a login that was handed over is not taken for an error; no page loop runs without the user |
| `dgw` | `FirstErrorReturned`, `ErrorIsStored`, `EndsUnlessStuck` | a round ends with an error to return, and it is the one that came first; it does end, but for two ways to be stuck |
| `conversions` | `MessageComplete`, `EncryptedArrives`, `SentAsWritten`, `MediaFound`, `TableEvents`, `ChatKept`, `RequestsExact`, `CodecsInvert` | each is a conjunction of the properties of one area's functions, which the modules state one by one |
| `dgw_stuck` | `ErrorIsReturned` | violated: see the first difference below |

### Where the code differs from what is said of it

`dgw_stuck`: `readLoop` of `dgwsocket.go` sends its two subscription frames with
`outgoing <- frame`. If the connection has failed by then, the writer has
returned, nobody receives, and `readLoop` never returns the error that
`fatalError` stored "so that it can be returned from the main loop".

These are in the models without a run of their own. Where a property is named,
its module states it, and adding it to the configuration shows the behaviour:

| Where | Property | What happens |
|---|---|---|
| `socket.go:249` | `DisconnectStopsLoop` | the worker returns on the cancelled context, the queue is full, the reader blocks for good in `wsQueue <- evt` |
| `socket.go:134` | `DialsAgain` | a failed CONNECT leaves `Socket.conn` set; later rounds are refused with `ErrSocketAlreadyOpen` |
| `handlemeta.go:248` | `InitialHandledBeforeSave` | the table loop saves a state while the initial table is still queued, which `Disconnect` avoids (`client.go:531`) |
| `syncManager.go:158` | `SavedUpdatesApplied` | the "last applied cursor" moves when the table is queued, not when it is applied |
| `backfill.go:61` | `GapFree` without `mixed` | a late answer is joined to a later fetch's collector across a gap |
| `backfill.go:277` | `HasAllMessages` | a forward fetch returns its bundle alone at the first tick, logging that it "has all messages" |
| `client.go:640` | `NotBetterThanWorst` without `stale` | "worst case" is picked and queued without a lock: a Send that merged before and is queued after another leaves the better state on show until the next one |
| `socket.go:369`, `socket.go:436`, `events.go:40` | `NothingLeftBehind` without `NeverSent` and `AckedAlone` | a subscribe that could not be sent leaves its packet channel in the map; a request that waits for its ACK alone leaves its request channel; a reconnect, or a later call with the same ID, removes them |
| `client.go:354` | – | the attempt counter restarts at 0 and not at 1, so six reconnects follow a refused password and not the five of the comment; `BadLoginsBounded` states the bound that holds |
| `handlemeta.go:214` | – | "Not dispatching parsed table, context is canceled" is logged, but there is no return: the table is queued for the next client |
| `dgwsocket.go:158` | – | a text message, or an OpenFrame with bad JSON, is "dropped" without advancing: the reader repeats it for ever (the second way of `Stuck`) |
| `from-meta.go:297` | – | the comment says only media parts are important; a share that became text is merged as well, and `MediaKeepsId` excludes it |
| `from-matrix.go:221` | – | mention offsets are sent in bytes and read in UTF-16 units; `MentionsRoundTrip` is about ASCII |
| `directmedia.go:374` | – | a refresh falls back to the position of a blob; `RefreshIsOwn` states when that is right |
| `handlemeta.go:555` | – | a row that deletes a subthread deletes the portal of its parent, active or not: only the subthread's key is looked for among the active threads; `DeletedStaysDeleted` is about a thread's own deletion |
| `handlematrix.go:656`, `startchat.go:95` | – | the second deletion of an encrypted chat may fail after the first, and `CreateGroup` returns errors after the group exists, so that trying again makes another; `AllOrNothing` names both |
| `handlematrix.go:568` | – | read receipts that fail are logged and never sent again; `ReceiptsExact` says so |
| `from-matrix.go:135` | – | the read task always has sync group 1, in communities too, where the message itself has 104 (cf. the TODO at `handlematrix.go:552`); `SentWhereItBelongs` is about the other tasks and states what the read task has |
| `from-whatsapp.go:753` | – | an explicit change of the timer is compared with the portal's setting after that was updated, so that its notice is never bridged (`AnnouncedOnce`) |
| `to-whatsapp.go:299` | – | "width and height" must not be empty, but what is not sent as a picture and comes without a size has none, and of a very thin picture one side is rounded to 0 (`ThumbnailHasSize` names both) |
| `userinfo.go:62`, `metadb/database.go:148` | – | a pair whose insert failed, or that contradicts a row, is in the cache and not in the database, and is not tried again until a restart (`CacheIsStored` names both) |
| `decode.go:337` | – | arguments no field takes are kept in `Unrecognized`; of structs without that field (`LSDeleteMessage` and others) they are only logged (`ArgumentsKept`) |
| `response.go:57` | – | a PUBLISH with QoS 1 on a topic that has not 8 characters, or with QoS 2, is always misread (`PublishIsRead` is an equivalence) |
| `client.go:666` | – | the last presence outlives the connection it was sent on; `PresenceFits` is about one connection |

### Bounds

Two calls and IDs 1..2, with the counter starting anywhere, are enough for every
pair of calls to race across a wrap; one repeat is enough to fill a one-element
buffer twice. Two live calls with the *same* ID need the counter to go all the
way round: that case is left to the theorems, which cover any ID width. The
reader's progress is not claimed for it. `wsQueue` has capacity 1 instead of 32 and three
events, so that it is full while the worker is busy and one event more is
pushed. `ReconnectLimit` is 1 instead of 5. `TableCap` is 1 instead of 16, with two updates and two stops:
one table cut short, one behind it, and a client after that. A thread has 3
messages, pages of at most 2, `Count` 2, two fetches, which is enough for a page
to be followed by another and for an answer to reach the other fetch across a
gap; two ticks to the timeout is the shortest of the code's three settings.
`states` has a goroutine of the Meta connection, two of WhatsApp's side and one
that connects or disconnects, each of them over and over. A login has two callers,
one E2EE goroutine and three calls, with one retry instead of ten: every pair of
calls overlaps, and a third comes after. One send with two tries and two edits,
an edit channel of one instead of five, one flap of the connection and one edit
from elsewhere are what the races of Messaging need. Login allows two refusals
and two polls. DGW has two rounds, two messages and a ping per round: a
goroutine left over from the first would meet the second. The inputs of
`conversions` are small sets around every limit in the code (sizes of
thumbnails, 255 and 256 bytes of an ID, powers of 128, 65535 bytes of a string)
and every combination of kinds of two or three elements. Deadlock checking is
on in `messaging` and `states` and off elsewhere because the bounded systems really stop: calls return, loops end, updates run
out.

### Fairness

`responses_live`: weak fairness of each started call (its waits end by
`packetTimeout`) and of the reader's own steps; none for the server, the
network or reconnects. `socket`: weak
fairness of the loop and of the worker (dials, requests and back-off have
timeouts), of the close that follows the cancellation in `Disconnect`, of a
pinger that sees its cancelled context, and of the break of a connection whose
pinger has stopped (the broker drops a client that is silent for the keep-alive
time). `backfill`: a fetch's own steps, which its ticker drives.
`messaging`: each handler that has begun, since all its waits have timeouts.
`login`: the browser's own steps; that another device is approved at some point,
or the server starts the second factor anew, is a condition of `CallsReturn`.
`dgw` and `dgw_stuck`: each goroutine's own steps and the timeouts of the acks;
no message from the server is assumed. Nothing else is assumed about how the
server answers.

## What is proved

`ResponseHandlerProofs` proves, for any set of calls, any ID width, any kinds
of request and any number of repeats:

- `TypeCorrect`: `Spec => []TypeOK`. Inductive with `Started` (a call has an ID
  exactly when it has left "idle"; 0 is never handed out), `Answerable` (the
  server only speaks of packets it was sent) and `Holding` (a reader past its
  lookup, or a waiting call, has a channel).
- `ResponsesMatch`: `Spec => []ResponseMatches`. `MatchInv` carries the packet
  ID along the way of a message: a map entry belongs to a call with that ID, so
  does what is buffered in a channel, what the reader is about to push, the
  channel a call selects on, and at last what it received. `PidStable` says IDs
  do not change under it.
- `NeverClosedTwice`: `Spec => []NoDoubleClose`. `CloseInv` adds to the goal
  that a channel which is yet to be registered is open and in no map (`Fresh`),
  without which registering could put a closed channel into a map.
- `NothingIsLeftBehind`: `Spec => []NothingLeftBehind`. `LeftInv` says, for
  every kind of request, that one past its ACK has no packet entry, that a
  finished one has no entry at all but those that `NeverSent` and `AckedAlone`
  name, and that a call which waits on another call's channel has already lost
  its entry to it; that last part is what makes the path through
  `ReceiveClosed`, which deletes nothing, safe.
- `Refinement`: `Spec => KeepsPromise`, that is, ResponseHandler implements
  RequestReply. Initial states map to initial states (`InitRefines`) and every
  step to a step or a stutter (`NextRefines`, by `CallRefines` for the steps of
  a call). The abstract acknowledgement and answer must be about a request that
  was *sent* with the same ID, so the proof needs, beyond `MatchInv`, that
  whatever is on its way to a caller comes from a call that has tried to send:
  `TriedInv` says so of the server's messages, of what the reader holds and of
  what is buffered, and what a waiting call can receive.
- `PanicsHaveCause`: `Spec => []PanicNeedsCause`, for a finite set of calls. Two
  invariants are joined. `CleanInv` says what holds as long as no message was
  repeated, nobody stopped waiting and no two calls share an ID: everything that
  carries an ID is the call's own (`OwnId`), each message is in one place only
  (`Once`), a call deletes its channel after it took the message out of it
  (`TookIt`) or after a reconnect took both of its channels (`LostBoth`), so the
  channel the reader has fetched is open when it sends on it (`ReaderOpen`).
  `WindowInv` bounds how often the counter can have moved since a call took its
  ID by the number of calls that have begun, so that two calls share an ID only
  if there are more calls than IDs: for the 65535 IDs of the code, more than
  65535 calls in the life of a socket's counter.

`SocketLoopProofs` proves, for any queue capacity, number of events, limit and
set of refusal codes, `ReadyIsCurrent` (`NoStaleReady`), `RefusalIsReported`
(`RefusalReported`), `BadLoginsEnd` (`BadLoginsBounded`) and `TypeCorrect`. They
share one invariant: a worker that has not exited belongs to a connection that
is being read (`WorkerInLoop`, because `readLoop` waits for it), only
`Disconnect` cancels the context (`CancelledByDisconnect`), a refusal stays the
connection's error and the error `readLoop` returns is the stored one
(`ErrorKept`), and each refused password counts as an attempt
(`RefusalsCounted`).

`TablePipelineProofs` proves, for any number of updates and stops and any
capacity, `NothingLostSilently` (`NoSilentLoss`), `SavedIsSafe`
(`PushedUpdatesSafe`) and `TypeCorrect`. For the first, `LossInv` says that
*every* cursor there is (in use, saved, being saved, on its way with a table)
covers only updates that were handled, dropped for a known reason or are in the
pipeline. The second needs the order of the pipeline: `SafeInv` says that the
cursor of a table covers at most what is safe, what the tables ahead of it bring
and its own rows (`CurInOrder`, `QueueInOrder`, `HandInOrder`, `SentInOrder`);
the cursor moves after the events of each table, in this order. `Refinement`
(`KeepsCursor`) shows that TablePipeline implements DurableCursor: every step is
one of DurableCursor's or a stutter, which takes `SafeInv` for the moves of the
cursor and `DumpFits` (a disconnect holds a dumped state only after it dropped
the client, and only until it is stored) for the saves. `ResumingSkipsNothing` then says what the abstract
specification promises: no cursor in use or in the database covers an update
that is neither with the bridge nor excused.

The same module has the theorems about RemoteEvents and ChatState, which are
functions and so have no bounds to remove but that of the inputs:

- `TablesAreKept`, about `parseTable` as a process (`TableSpec`) that starts from
  `parseStart` and handles rows in the code's order of operations: for any rows,
  database and client, `DeletedStaysDeleted`, `SyncComesFirst` and `OnePortal`
  hold at every point, and `MergedOnce` once the rows that may be merged have
  been handled. The invariant `TableInv` keeps three things: every queued event
  is fine by itself (`Fine`: no deletion of a thread that is active in the table,
  no resync of one that is not, the key of the thread's portal), until the
  threads have been brought up to date their resyncs are their only events
  (`NothingBefore`), and a row that was handled is in exactly one of the places
  `MergedOnce` names (`OnceEach`): the resync, an event of its own, a waiting
  collector or, for history alone, what the collector ignored. `HandleOutcome` gives the four things that a handler can
  do with a row. Hypotheses: the rows of a table agree on the type of a thread
  (`Agreed`), and no two rows are equal. Without the first `OnePortal` is false.
  That `parseTable`'s folds make exactly these steps, and that selecting the rows
  of an operation returns rows of that operation, needs induction and is left to
  TLC's runs of `parseTable` itself.
- `EncryptedForGood`: over any sequence of resyncs of any type, moves and
  encrypted messages, a chat that is encrypted stays so.
- `CacheStays`: over any sequence of lookups, inserts that succeed or fail, and
  restarts, what the ID caches have in both directions is what the database has,
  unless the insert failed or a row contradicts it. Rows are never changed
  (`InsertKeeps`), which is why a pair that is backed once stays so
  (`StaysBacked`). `SelfStaysMember` and `KeysNameTheSame`: the user stays a member
  whatever members the server reports, and a WhatsApp message key means the same
  message to both sides.

`BackfillProofs` proves, for any thread length, page size, count, timeout and
set of fetches, `AnswersReachFetch` (`WaitingIsRegistered`), `EndIsTrue`
(`NoFalseEnd`), `TypeCorrect`, and `HistoryHasNoGap` (`GapFree`), with answers
that come late or to another fetch. Its invariant: the range of a collector that
was given no answer of another fetch is collected completely (`ColsContiguous`),
and every request on the wire is for a timestamp that the collector of the fetch
that made it has reached (`WireContinues`).

`MetaClientProofs` proves, for any sets of calls, clients, loops and E2EE
goroutines, `OrphansNeedOverlap` (`OrphanNeedsOverlap`) and `RefreshStaysArmed`
(`RefreshArmed`), `PanicsNeedRace` (`PanicNeedsRace`) and `TypeCorrect`. The
first two rest on `CallInv`: as long as calls have not overlapped, the one that
runs closes the client that it drops, no client runs from there to the start of
the next, no other client runs, and a running one that is not about to be closed
has a loop that is yet to fire. `PanicsNeedRace` rests on `E2EEInv`: one
goroutine at a time is past the lock, whatever it has seen and finds gone was
dropped, and a device without an ID is being registered or failed to be. About
BridgeStates, for any number of goroutines, it proves `ShownIsWorst`
(`NotBetterThanWorst`): whoever stores a state merges both stored states after
it, so what a goroutine is about to queue is as bad as each of them unless
somebody stored since, who then owes a Send of their own (`ShownInv`).

`MessagingProofs` proves, for any finite set of sends, any set of edits and any
bounds, `SentExactlyOnce` (`ExactlyOnce`: otids are given once and in order, and
the server stores a message only under the otid of its send), `EditReports`
(`EditReportIsTrue`: only an edit that the server took silently is pushed; while
its handler waits, the push is on its way, in the handler's channel, or there is
a cause) and `TypeCorrect`. The run has one send; that two of them never share
an otid is what the theorem adds. About MatrixHandlers and DirectMedia:

- `RequestsGoRight`: reactions and removals go to the network of their message,
  and only while the login is connected to it.
- `AllOrNothing`: for every handler, every event and every combination of steps
  that are refused or whose answers are lost. A handler stops at its first
  failure (`FirstFailure`, `RunShape`), and in every plan nothing that changes
  anything at Meta is followed by anything but the steps of `AfterTheChange`
  (`PlanShape`).
- `ReceiptsExact`: over any sequence of read receipts, early, late or repeated,
  no message is marked twice (`NoneTwice`), none that came after the first
  receipt is missed (`NoneMissed`) and none is marked that was not read
  (`NoneWrong`); a request that failed is not made again. Messages have distinct IDs and are in the database when a
  receipt reaches past their time.
- `MediaIds`: `MakeMediaID` and `ParseMediaID` are inverse for all bytes, and no
  shortened ID is accepted, wherever it is cut. `Layout` gives the bytes of an
  ID, `Taken` and `Refused` what the parser makes of them.

`LoginProofs` proves, for any number of refusals and polls, `NeverResubmitted`
(`NoResubmit`), `AcceptanceCounts` (`AcceptedIsSuccess`) and `TypeCorrect`.
`ErrorAtForm` is the heart of it: a stored error message exists only at the form
it is about, whose field is no longer in the input, so the form is shown, and
the message cleared, before anything that looks at the message runs.

`DGWSocketProofs` proves for any number of rounds, messages and pings
`TypeCorrect` (`TypeOK`), `FirstIsReturned` (`FirstErrorReturned`: what
`readLoop` returns is the error that was reported first, or the missing
acknowledgement of the handshake) and `ErrorStored`
(`ErrorIsStored`: when `readLoop` waits for its goroutines, an error is stored).
The invariant `Inv` adds which goroutine can be where (`PcTyped`, `Holding`),
the flags (`Flags`) and that `done` is closed only with an error
(`DoneHasError`); `ErrorIsStored` alone is not inductive, since the step into
"wait" relies on that.

Assumptions: the absent value is not a member of the set it is absent from
(`NoCall`, `NoFetch`, `None`, `Other`); capacities, timeouts, ID and page sizes
are positive, other bounds natural numbers; the identities of clients and loops
are positive numbers; the sends are a finite set; the kinds, codes and start
values are among those of the code. TLC evaluates them on the instances. The
finite set of calls of `PanicsHaveCause` is a hypothesis of this theorem only. The proofs use SMT and Zenon for the
steps and PTL for the temporal conclusion; the inductive invariants were checked
with TLC first.

Only model-checked: all liveness properties, `CallsReturn`, `ReaderUnblocks`,
`StopsUnlessStuck`, `FetchReturns`, `HandlersReturn` and `EndsUnlessStuck`
(fairness and ENABLED are beyond the prover); and of the functions in
`conversions` those that recurse or fold over their input (the codecs, mentions,
message parts, `WrapMessages`), since what they compute for every input needs
induction, which is beyond the installed provers. The theorems about the other
functions are about the operators that the run's invariants are made of; these
invariants themselves quantify over the run's inputs.

## What is not modelled

- The interpreter, the tree queries, the parser and the minifier of `bloks/`:
  they run scripts the server sends. Login takes their outcome as a choice.
- `http.go`, `graphql.go`, `modules.go`, `js_module_parser.go`, `configs.go`,
  `mercury.go`, `facebook.go`, `instagram.go`, cookies: requests and the
  scraping of pages. The models take one answer or an error.
- Cryptography, push decryption, the whatsmeow library, `metadb` beyond the
  saved state and the ID tables.
- The row structs in `table/`, the task structs in `socket/`, response types:
  declarations without logic.
- Thread backfill, `ConnectBackground`, the thread key store and the databases
  other than 1 in the sync manager.
- Configuration, commands, entry points, capabilities.
- In SocketLoop a leftover pinger of an earlier connection (it sends a few more
  pings). In ChatState the ID caches are used by one goroutine, though the code
  shares the maps without a lock.

## Plan

1. The sync manager's key store with thread backfill, and the background
   connection.
2. The ID caches of ChatState with several goroutines.
3. Facts about single conversions of FromMeta and WhatsAppConv that need no
   induction; with an induction principle, that the folds of `parseTable` are
   the steps of `TableSpec`.
