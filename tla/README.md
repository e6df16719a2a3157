# Verification of whalib

whalib is a client library for WhatsApp Web in JavaScript: one Node.js thread,
no tests, a great deal of asynchronous code.  What can go wrong in it is mostly
not in one function but between two: jobs that interleave at an `await`,
messages that come twice, late or in another order, a process that dies between
two writes, events that are merged while the application is not looking.  This
directory holds TLA+ models of those parts, the TLC configurations that check
them on small instances, and TLAPS proofs of what matters most.

All paths are relative to `src/`.

## 1. The system

| part | state it keeps | operations | interacts with |
|---|---|---|---|
| job queue, `signal/queue_job.js` | per bucket an array of jobs; the executor's index and window | `queueJob` | every operation of `SessionBuilder` and `SessionCipher` is a job of the peer's address |
| mutexes, `lib/generics.js` | a promise chain per key | `makeMutex`, `makeKeyedMutex` | `signal-repository.js`, `messages-send.js`, `chats.js` take them per JID, group or operation |
| session records, `signal/session_record.js` | sessions of one remote device, each open or closed at a time | `setSession`, `closeSession`, `removeOldSessions`, `serialize`, `deserialize` | `session_builder.js`, `session_cipher.js`, stored by `signal-repository.js` |
| Double Ratchet, `signal/session_builder.js`, `signal/session_cipher.js` | root key, chains with counters and skipped keys, pending pre-key, per session | `initOutgoing`, `initIncoming`, `encrypt`, `decryptWhisperMessage`, `decryptPreKeyWhisperMessage` | key store, server |
| group sender keys, `signal/group_cipher.js`, `sender_key_record.js`, `group_session_builder.js` | up to 5 states per sender and group, iteration, skipped keys | `encrypt`, `decrypt`, `createSession`, `processDistributionMessage` | key store, `signal-repository.js` |
| key store, `lib/auth-state.js` | cache with a lock, one active transaction, files | `get`, `set`, `clear`, `transaction`, `saveCreds` | everything that stores keys |
| LID mapping, `lib/lid-utils.js` | cache of phone number and LID pairs over the key store | `storeLIDPNMappings`, `getLIDForPN`, `getPNForLID` | transactions |
| event buffer, `lib/event-buffer.js` | consolidated events, history cache, depth, timers | `emit`, `buffer`, `flush`, `createBufferedFunction` | every part emits into it, the application listens |
| retries, `lib/message-retry.js`, `lib/socket.js` `handleReceipt` | recent messages, retry counters, session recreations, phone requests | retry receipts, timers | sending, sessions |
| connection, `lib/socket.js` | socket, open queries, keep-alive, QR, login | connect, `query`, `end`, pairing, logout | server |
| Noise channel, `lib/noise-handler.js` | handshake hash and keys, both counters, bytes received | `processHandshake`, `finishInit`, `encodeFrame`, `decodeFrame` | connection |
| pre-keys, `lib/socket.js`, `lib/messages-send.js` | ids in creds, pairs in the key store, the stock at the server | uploads, rotation of the signed pre-key | queries, key store, sessions |
| app-state sync, `lib/chats.js`, `lib/chat-utils.js`, `lib/lt-hash.js` | version, LT hash and index map per collection | `resyncAppState`, `appPatch` | transactions, event buffer |
| receiving, `lib/socket.js`, `lib/messages-recv.js` | none but the mutexes; the application's message store | acknowledge, decode, decrypt, emit, process | sessions, sender keys, event buffer |
| sending, `lib/messages-send.js` | cached device lists, queries and encryptions in flight, media connection, pending resends | `getUSyncDevices`, `assertSessions`, `relayMessage`, `requestPlaceholderResend`, `refreshMediaConn` | sessions, queries |
| binary nodes, `lib/binary-node.js` | none | `encodeBinaryNode`, `decodeBinaryNode` | every stanza |
| content and media, `lib/messages.js`, `lib/messages-media.js` | temporary files | keys of messages, reactions, receipts, votes; `encryptedStream`, upload, `downloadEncryptedContent` | event buffer, media connection |

What is hard in it: (a) jobs and critical sections queued behind one another
while others fail; (b) sessions set up by both sides at once, closed, and
dropped; (c) a ratchet that meets reordered, repeated and lost messages and
crashes; (d) the merging of events during a buffered phase that several
functions and timers may end; (e) transactions, cached reads and file writes
that overlap, fail, or meet a crash; (f) answers that come after a timeout, and
an `end()` between any two steps of what is under way; (g) handlers, relays and
uploads that share caches, counters and queries in flight.  `PROJECT.json` lists
these hazards with the line where each one bites and the properties that would
catch it.

What makes each part correct: a serialiser runs every task once, in order, one
at a time, whatever fails; a record has at most one open session, the newest,
and drops only the oldest; a conversation delivers each message to the
application at most once and can always read what is still to come; a group
message is read with any distribution message that came for it; a buffer loses
and reorders nothing that the application could tell; a key store returns what
was last stored and survives a crash with all or nothing of a write; a retry is
bounded; once a connection has ended nothing waits for it; a channel never
uses a key and a counter twice; the server hands out keys whose private half
the device has; app-state versions only grow and match their hash; a message
means the same to all who refer to it.

## 2. Modules

| module | models | extends or instantiates |
|---|---|---|
| `SerialExecutor` | abstract: the promise of both serialisers | - |
| `JobQueue` | `signal/queue_job.js`, every step of the executor | implements `SerialExecutor` |
| `KeyedMutex` | `makeMutex`, `makeKeyedMutex` | implements `SerialExecutor` |
| `SessionRecord` | pure operators of `session_record.js` | - |
| `SessionStore` | the record of one device, job by job | `SessionRecord` |
| `StoredRecord` | a record as it is stored, read again and migrated | - |
| `Ratchet` | pure operators of the Double Ratchet, with symbolic keys | - |
| `SignalConversation` | two devices and the server between them | `Ratchet`, `SessionRecord`; implements `SessionStore` on each side |
| `SenderKeys` | a sender and a receiver of one group | - |
| `EventBuffer` | `lib/event-buffer.js` and the conditional updates of `chat-utils.js` | - |
| `Attachments` | reactions, receipts and votes of a message, held back or not | - |
| `MessageRetry` | `lib/message-retry.js` and the retry receipts of `handleReceipt` | - |
| `KeyCache` | the cached key store with its lock | - |
| `KeyTransactions` | `addTransactionCapability` | - |
| `AuthFiles` | one file of `useMultiFileAuthState` | - |
| `LidMapping` | `LIDMappingStore` over transactions or files | - |
| `Connection` | the life of one connection | - |
| `NoiseHandshake` | both ends of the handshake and the keys it leaves | - |
| `NoiseFrames` | `decodeFrame` with calls that suspend each other | - |
| `PreKeys` | one-time and signed pre-keys on device and server: two ways to upload, rotations | - |
| `AppState` | one collection, its log at the server, two calls | - |
| `DeviceLists` | `getUSyncDevices` with its caches | - |
| `SendPath` | `relayMessage` in its three forms | - |
| `Receive` | the handlers of incoming messages | - |
| `MessageKeys` | the keys devices give a message, and references to it | - |
| `PlaceholderResend` | `requestPlaceholderResend` | - |
| `MediaUpload` | uploads over several hosts, the shared media connection | - |
| `MediaDownload` | decryption of a download and its byte range | - |
| `Codec` | `encodeBinaryNode`, `decodeBinaryNode` (recursive functions) | - |
| `Written` | what is written and read again: nodes and records | `Codec`, `StoredRecord` |
| `LocalProofs` | theorems | `JobQueue`, `KeyedMutex`, `SessionStore`, `MessageRetry`, `LidMapping`, `TLAPS` |
| `SignalConversationProofs` | theorems | `SignalConversation`, `TLAPS` |
| `EventBufferProofs` | theorems | `EventBuffer`, `TLAPS` |
| `ReceiveProofs` | theorems | `Receive`, `MediaDownload`, `MessageKeys`, `Attachments`, `TLAPS` |
| `AppStateProofs` | theorems | `AppState`, `TLAPS` |
| `StorageProofs` | theorems | `AuthFiles`, `KeyTransactions`, `KeyCache`, `Written` (so `Codec` and `StoredRecord`), `TLAPS` |
| `ConnectionProofs` | theorems | `Connection`, `PreKeys`, `NoiseFrames`, `NoiseHandshake`, `TLAPS` |
| `SendingProofs` | theorems | `PlaceholderResend`, `MediaUpload`, `SendPath`, `DeviceLists`, `SenderKeys`, `TLAPS` |
| `MCSignalConversation`, `MCEventBuffer`, `MCAppState` | instances for TLC | the module each is named for |
| `MCLocal`, `MCStorage`, `MCConnection`, `MCMessaging` | instances of several components side by side: a variable `part` picks the one that runs in a behaviour, the others stay in their initial states | those components |

### Job queue

`queueJob` appends `{awaitable, resolve, reject}` to the array of its bucket
and starts an executor if there is none.  The executor
(`_asyncQueueExecutor`) walks the array up to a limit taken when it last
looked, awaits each job, and when jobs have come meanwhile either goes on or,
past `_gcLimit`, splices the done ones away.  `JobQueue` has `queue`, `pos`
(the loop's index), `limit`, and one action per way an iteration can end
(`StepWithin`, `StepFurther`, `StepCollect`, `StepLast`), because JavaScript
runs without interruption between two awaits; `SubmitIdle` and `SubmitBusy` are
`queueJob` without and with an executor.  A job settles either way.

The abstract `SerialExecutor` has the line of unsettled tasks of each bucket
and lets the oldest begin and finish.  `JobQueue` maps its array from the
current index on to that line.

### Keyed mutex

`mutex(task)` makes its promise wait for the one before, swallows that one's
rejection, and runs the task.  `KeyedMutex` has, per key, the chain of calls in
the order they were made and a phase per call; `PredecessorSettled` is the test
a call waits on, `Enter` and `Leave` are the section.  A section that calls the
mutex of its own key would wait for itself; nothing in `lib/` does.

### Session records

`record` maps the number of a session (in the order they were put in) to its
`closed` time, or `Open`.  An action is a whole job: load, change, store.  A
job that throws stores nothing.  `initOutgoing` (session_builder.js 20-53)
stores without `removeOldSessions`, all other jobs go through `storeRecord`.
The removal picks the least `closed` time; among equal ones the JavaScript
object order decides, which `Kept` leaves open.  Base keys are what sessions
are really indexed by; a new session has a new one.

The clock is `Date.now()`; the model lets it stand still (several jobs in one
millisecond) but not go back.  On a host whose clock is set back the order of
removal is not that of the sessions, and nothing here speaks of that.

`StoredRecord` is the same record between two starts: `serialize`, the JSON that
is stored, `deserialize` and its migration of records without a version.  A
buffer in memory is base64 text in the data, and JSON leaves out what is
undefined.

### Double Ratchet conversation

Keys are symbolic: a key pair is a tuple naming who generated it, a shared
secret the unordered pair of key pairs, a root key the list of secrets mixed
into it, a message key the chain it comes from and its number.  So two message
keys are equal exactly when both sides derived them from the same secrets, and
a MAC verifies exactly when the keys are equal.  `Ratchet` follows the code
function by function: `fillMessageKeys`, `maybeStepRatchet`, the order of
checks in `doDecryptWhisperMessage`, `previousCounter` as an unsigned integer
of `Word` values (2^32 in the code, 16 here: -1 must be far outside of what
`MaxJump`, 2000 in the code, allows).

`SignalConversation` has both devices' records, pre-keys, running jobs and
what they have read.  `wire` is the set of every message ever sent: a receiver
may take any of it, any time, any number of times, or never, which is a server
that loses, repeats, delays and reorders.  A job is one action up to the save
(it works on its own copy of the record, and `JobQueue` keeps others of the
address out) and one after it: `Encrypt`/`Send`, `Decrypt...`/`FinishRead`
(which removes the one-time pre-key).  `Crash` falls between.

Left out: refused bundles (a bad signature makes `initOutgoing` throw before it
changes anything) and identity changes (`isTrustedIdentity` is always true).

### Event buffer

An object (a chat, a contact, a message, a group) is the list of writes that
made it, newest last, so `Object.assign(t, s)` is concatenation and what the
model can tell is which write is there and which covers which.  `buf` is
`bufState` per thing: what history brought, the upsert, the pending update,
the deletes, reactions and receipts, and whether the pending update has a
`conditional`.  There is one action per event of `ingestEvent`, each of which
reaches the application at once when nothing is buffered.  `view` is an
application that applies events in the order it is handed them
(`collectConsolidated`: history, upserts, updates, deletes, then reactions and
receipts); `direct` is the same application had nothing ever been buffered.
The properties compare the two.

`buffer()` is called by the socket on its first tick (socket.js 1515-1522) and
by `createBufferedFunction`, which the library exports to itself but does not
call at present; `flush()` by the end of the offline phase (socket.js 979), by
the 100 ms timers of `createBufferedFunction` and by the 30 s timer.  Left
out: counts (`mergeChats`' unread arithmetic), timestamps, wording.  What is
merged into a message is the matter of `Attachments` below.

### Retry of messages

`added` is `recentMessagesMap` (when a message was put there), `index` is
`messageKeyIndex`, `count` and `counted` are `retryCounters`; `resent` and
`gaveUp` record what happened since the message came.  An entry that is past
its lifetime is not found, whether the purge came by or not; for the counters,
of which nothing else depends, only that is modelled.  A retry receipt is one
action, `RetryUnknown`, `RetryAnswered` or `RetryGivenUp`: after its first
`await` the handler does not touch this state, so an answer that then fails to
encrypt or to send is counted as one.  `Upsert` is the listener of
`messages.upsert` with `SimpleCache.set`, its eviction and the `dispose` of
what it evicts.

Message ids are taken to be unique (`UniqueIds`).  One id under two
destinations, as after a chat moved from phone number to LID, would share the
counter and the index, and giving up one could forget the other.

`RetryLimit` is the literal 5 of `handleReceipt`.  The option
`maxMsgRetryCount` (README.md 797) has no effect on it: only
`hasExceededMaxRetries` reads the option, and nothing calls that.

Left out, since nothing in `lib/` calls them: `makeMessageRetryHandler`,
`markRetrySuccess`, `shouldRecreateSession`, phone requests.

### Group sender keys

`SenderKeys` has the sender's chain (`own`), the stanzas at the server, and the
receiver's record of states, newest in front and at most `MaxStates`.  Every
group message is sent with the chain as it was before it
(`relayGroupMessage`), and steps its chain past one key that is never used, so
that messages have the iterations 0, 2, 4 and so on.  A stanza is read in two steps, `ReadKey` for the pairwise part
and `ReadGroup` for the group part, and `ReceiverStops` falls between; the
server delivers in any order and again.  Each operation runs under
`groupMutex`, so it is one step.

### Key store

`KeyCache` is `makeCacheableSignalKeyStore`: `lock` is the call whose promise is
`pendingLock`, a call is in its section (`io`) while its reads or writes run,
and they end one by one (`ReadOne`, `WriteOne`).  A write
of a failed `set` goes on after the lock is free (`late`).  `doubt` are the keys
of failed sets that were not set anew.

`KeyTransactions` is `addTransactionCapability`: one context, whoever calls
`transaction()` meanwhile is taken to be nested in it, and every set of the
process goes into it.  `TxCommitFails` and `TxRetry` are the attempts of the
commit.  A set outside of any context is atomic here (its lock is `KeyCache`);
what a get fetched for a context is put into its cache when it comes, over a set
made meanwhile, as the code does.

`AuthFiles` is one file: open the temporary file (named for the millisecond),
write, rename, with failures at each and a crash between any two.

### LID mapping

A call of the store is suspended at every read and between the write of a pair
(`WriteBegins`) and its entry in the cache (`WriteEnds`), so other calls fall
between.  `transacts` says which keys the store was given.  With transactions the
pair goes into the context at once, and whoever owns the context commits.  With
those of `useMultiFileAuthState`, or where another's context is gone already, a file
is written for each direction (`FileWritten`, in either order); the first that
fails ends the call (`FileFails`), and the other may still be written after it.
`told` is the newest mapping whose write came to its end, and `doubt` what the
property excuses, see below.  A read finds what was there when it began.  The
pairs of the instance are a number that changes its LID and a LID that changes its
number.

### Connection and channel

`Connection` has the socket, `hs` (where the handshake is suspended), `query`
(every query's state with its timer), `qr`, `quiet` (ticks of the keep-alive
since something came), `login`, `logout` and `told`, what the application was
told.  A frame of the server is the action that handles it, `EndConnection` is
`end()`, and it may come between any two steps of everything else.  The server
may fall silent for good.

`NoiseHandshake` has both ends: hash, chaining key, key and counters as terms,
so that two ciphertexts under one key and counter can be told.  `finishInit`
derives the keys asynchronously; a frame that is sent before goes out in the
clear, and one that comes before is handed on as it is and not counted; both
set `early`, which `ChannelSound` excuses.  `NoiseFrames` is the receiving half
afterwards: message events of any number of pieces, calls that wait for a
thread (inflated frames) or for their turn, one shared `inBytes` and counter.
`decodeFrame` has no `try`: a frame that does not open (`Broken`; the counter stays,
so nothing after it opens either), one that cannot be decoded (`DecodeThrows`) and a
listener that throws (`OnFrameThrows`) end the call, and whole frames stay in
`inBytes` until the next event.

`PreKeys` has the pairs of the device, of the server and the uploads of either
way (`uploadPreKeys` stores after the server's answer,
`uploadPreKeysToServerIfRequired` before it), with answers that are lost.  Every
upload sends the signed pre-key of creds along (`skey`), which takes the place of
the server's; rotations send a new one and put it into creds with the answer.
Nothing keeps uploads and rotations apart; `sent` and the `at` of a rotation are
their places in the connection, which keeps the order of requests and of answers.

### App-state sync

The server's `log`, the `stored` version with hash and index map, the calls of
`resyncAppState` and `appPatch` with what they have been answered, and the
application's `view`.  The LT hash is a number per value: 1 when it was added
and not subtracted.  A call that throws in a shared transaction may take the
stored state back; one that cannot decode an answer drops the state and begins
again from a snapshot, `MaxAttempts` times.  Two variables are history only:
`overlapped`, and `undone`, that a call told what was old and was rolled back.

### Sending

`DeviceLists` has the two caches (per user, per list of users) and the two maps
of queries in flight, with a clock for their lifetimes.  An answer is named by
the instant at which the server gave it.

`SendPath` takes a relay from `CallRelay` through `Listed`, `SessionsFetched`,
one encryption per device (`Encrypted1`, shared by relays that encrypt the same
bytes for the same device at the same time) to `SendStanza`.  Relays of a chat
queue on `relayMutex`, all relays on `sessionAssertMutex`.

`PlaceholderResend` is the delay of five seconds, the request, and the timeout
of fifteen that clears the entry; timers may be late.  The listener of
`messages.upsert` clears the entry for any message under the id: for the one that
was asked for, and for a placeholder that is emitted again because the stanza came
again and could not be read again (`PlaceholderUpserted`); the caller is told
RESOLVED of either.  `came` and `repeated` are the two, since the message was first
asked for.  `MediaUpload` has the
temporary file with the writes nobody waits for, the hosts one after the other,
and the fetches of the media connection that all uploads share.

### Receiving and what is received

In `Receive` a stanza starts a handler: acknowledge, decode, decrypt part by part
under the mutexes of its author and group, `messages.upsert`, then what the
message says (keys, a vote).  `met` are the pairs of stanzas handled at the same
time, `early` the votes looked at while events were held; the properties say
that those are the only ways to lose something.

`MessageKeys`: one message is sent, read by some devices and referred to by one.
A user has a number and a LID and a chat is carried on in one of the two; a
device has a number within its user.  `Attachments` merges reactions, receipts
and votes as `lib/messages.js` does, while the message is held back, beside it,
or in the application.  A vote names each option once.

`MediaDownload` cuts the body into pieces of any size and follows the byte
positions of what is handed on.

`Codec` writes a node as a sequence of symbols, each of which the reader takes as
a whole; jids, packed strings and the three list sizes are at small widths
(`Byte`, `Wide`, `PackedMax`).  A read is a function of the stream and a place in
it and gives a value and the place behind it, or `Failed` for whatever throws.
The recursion of reader and writer is in recursive functions, not operators: over
nodes, whose children are of lower `Levels`, and over the lists that begin at a
place (`lists` of `Decode`), each of which is read from later ones.  `Inherited`
are the names every object has ("constructor", "toString"): `TOKEN_MAP[str]`
(binary-node.js 849) finds them in the map's prototype, where they have neither
`dict` nor `index`, and what is pushed is the byte 0 of an empty string.

## 3. Runs

| run | instance | shows |
|---|---|---|
| `local` | five parts, see below | `NoJobLost`; `QueueSerialises`, `MutexSerialises`: both implement `SerialExecutor`, so that every task also runs; `NeverCorrupt`, `NewestKept`; `ResendsBounded`; `MappingsFollow` |
| `conversation` | one session, 3 and 2 messages, 1 crash each | `KeysUsedOnce`, `EveryMessageReadable`, `PreKeyOrSession` |
| `crossing` | alice sets up two sessions, with two pre-keys of bob's, bob one with hers; room for 1; 3 and 2 messages | `EncryptReady`; `KeepsRecords`: both sides implement `SessionStore` |
| `backlog` | both sides set up one, 1 and 3 messages | violated: `ReadingKeepsOthersReadable` |
| `event_buffer` | live events: 1 chat, 1 message, 4 events, 2 calls of `buffer()` | `EverythingShows`, `BufferingEnds` |
| `initial_sync` | 1 chat with conditional updates and history, 5 events; 1 contact and 1 group with history, 4 events; history cache limit 0 | `InitialSyncShows` |
| `stale_status` | 1 message and history | violated: `StatusShows` |
| `storage` | cached store, transactions, one file | `GetsSeeLastSet`, `StoreGoesOn`, `AllOrNothing`, `FilesSound` |
| `connection` | one connection, the handshake, pre-keys | `NothingLeft`, `SilenceEnds`, `LoginEnds`, `PublicKeysKnown`, `ChannelSound` |
| `app_state` | 2 calls and another device, 3 versions; 5 for a device that comes back | `PatchesVerify`, `ViewFollows`, `RoundsEnd` |
| `removed_index` | the same, own changes may also remove | violated: `PatchesVerify` |
| `messaging` | thirteen parts, see below | `GroupReadOnce`, `GroupReadable`, `FramesHandedOver`, `ListsSound`, `RelaysApart`, `UnreadOnlyIfOvertaken`, `VotesCounted`, `WrittenComesBack`, `RangeExact`, `UploadsRenewed`, `ResolvedHasCome`, `NewestOfEach`, `KeysMatch` |

Bounds, and why they are enough.

- `local`.  Queue: four jobs of one address, one of another, `_gcLimit` 2, so
  that the collection happens among four jobs with others arriving before, in
  and after it; what depends on 10000 is only when.  Mutex: three sections of
  one key (one runs, one is next, one behind it), two of another.  Record: five
  sessions in room for two make a removal of three at once possible; three
  instants give ties at every place of the order.  Retry: two messages, room for
  one, two answers, lifetimes 1 and 3, six instants.  Mapping: three calls, begun
  in order, the third only looks up; the first may have two pairs and then meets one
  other; with transactions and without.
- `conversation`, `crossing`: two ratchet steps in each direction, a skipped
  message on each chain and a crash at each of the two points; `crossing` goes
  through a removal on both sides.  `MaxJump` 4 for 2000, `Word` 16 for 2^32.
- Events: the collisions of a pending update, an upsert, history and a delete of
  one thing across two flushes need four or five events; distinct things do not
  meet in `ingestEvent` but in `adjustUnreadAfterRead`, which is left out.
- `storage`: three calls (begun in order) on two keys, four keys touched in all,
  one delete, one failure, one eviction; three transactions with two sets, one
  fetch at a time, two attempts of a commit; three saves, two milliseconds, one
  crash.
- `connection`: one query of the application beside those of login and pairing,
  two QR references; three uploads of one key (begun in order), ids up to 3, and
  three rotations, three requests in all; three frames sealed by either end.
- `app_state`: three versions, two attempts and two answers that cannot be
  decoded; the second index changes only at version 2, a snapshot is of the
  newest version or the one before (indices and snapshots are alike otherwise).
  A second initial state is a device with version 4 that may be given an older
  snapshot, up to version 5: what `undone` excuses happens only there.
- `messaging`.  Sender keys: three messages, two chains, room for two states, four
  deliveries.  Frames: seven of two pieces, two of them inflated, one that cannot
  be decoded, one that cannot be opened.  Lists: two
  users, two lists, four calls, lifetimes of two out of seven instants.  Relays:
  two of one chat beside a status, and two devices against one; one of a chat
  beside two of a group.  Receiving: three stanzas of two authors (the first of a
  fixed one, authors being alike), at most one of which meets nobody or is
  broken.  Nodes: one per behaviour, at the bounds of every encoding.  Downloads:
  blocks of two bytes, files of 0, 3, 4 and 7, every range and every cut.
  Uploads: two, two hosts, two pieces, three fetches.  Resends: three requests for
  one message, six ticks.  Attachments: three of two authors.  Records: every
  shape of a session before and after its first answer.  Naming: five devices of
  three users, chats of two and groups, by number or by LID.

Deadlock is not checked: in every instance the bounds on calls, messages or
events let a run come to its end.

### What the violations say

- `backlog`: `doDecryptWhisperMessage` steps the ratchet of each session it
  tries before the MAC shows whether the message is for it, and
  `decryptWhisperMessage` stores the record, with those steps in it, as soon as
  a later session succeeds.  A message of an older session thereby closes the
  receiving chain of the newer one, whose messages on the way can no longer be
  read.  session_cipher.js 245-246 and 174-176 say otherwise.
- `stale_status`: `messages.update` is merged into the history copy of a
  message (event-buffer.js 279) while an older upsert of it waits too, and the
  flush hands over history first, so that the upsert puts the old status back.
- `removed_index`: `encodeSyncdPatch` puts the index back into `indexValueMap`
  (chat-utils.js 153) after `mix()` has deleted it for a REMOVE.  The next SET of
  that index subtracts a value that is no longer in the hash, and no device can
  verify the patch.

### What the properties except

An exception in a property is behaviour of the code that a reader should know.

- `UnreadOnlyIfOvertaken`, `VotesCounted`: the handler of a group message may
  overtake that of the stanza that brings its author's key, and a vote that of
  its poll; the message, or the vote, is then lost for good.
- `GetsSeeLastSet`: after a failed `set` the cache says what the files do not.
- `AllOrNothing`: a set that joins a context after its commit has taken the
  mutations is lost; a commit whose last attempt failed may leave a part of them
  in the store.
- `FilesSound`: two calls in one millisecond share a temporary file; calls that
  overlap may leave the older snapshot.
- `MappingsFollow`: while a pair is being written, store and cache differ.  Two
  calls that write one key at the same time may leave the one's mapping in the
  file and the other's in the cache; a read that was under way when a write of its
  key ended puts the older mapping into the cache; a file or a commit that failed
  leaves cache and store apart, and a pair that the cache knows is not written
  again in this process; looking up a number that has left its LID turns the LID
  back to it.  A key is out of doubt with its next write that nobody disturbs.
- `PublicKeysKnown`: overlapping rotations use one id; the pair before a rotation
  is thrown away at once, with what was handed out of it.  An upload that is sent
  while a rotation is under way carries the signed key from before it; if the
  server takes it after the rotation, it hands out a pair the device has replaced.
- `FramesHandedOver`: behind a call that threw, whole frames wait for the next
  event of the socket; a frame that cannot be decoded, and all from the first that
  cannot be opened, are not handed over.
- `ResolvedHasCome`: RESOLVED may be told of a placeholder that was emitted again,
  see above; only the timeout's clearing of the entry is never taken for an answer.
- `ServerKeysKnown` (in it): overlapping uploads use the same ids.
- `ChannelSound`: see `early` above.
- `RangeExact`: `startByte` without `endByte` yields nothing
  (messages-media.js); the MAC of a download is not looked at.
- `UploadsRenewed`: a fetch that failed leaves the refused authorization in use;
  an upload that fails everywhere leaves its temporary file.
- `NewestOfEach`: a reaction or receipt that reaches the buffer before its
  message is handed over after it, onto what is newer.
- `WrittenComesBack`: an attribute with an empty value writes nothing, so that the
  reader takes what follows in its place; attributes that are no strings are
  counted but not written; device 0 and the hosted servers do not come back, and
  devices from 256 on wrap.
- `KeysMatch`: the sending device's own key of its group message names it by
  number and with its device; a device that knows no LID fails in LID chats.

## 4. Fairness

- `JobQueue` (`JobsSettle`) and `KeyedMutex` (`TasksRun`) assume weak fairness of
  the steps of the executor and of the sections: the promise queue of Node.js
  runs every reaction that is ready, and the tasks themselves (encryptions and
  database calls) come to an end.  A task that never settles blocks its bucket for
  ever in the code too, and there is no timeout.  Submissions are not fair.
- `EventBuffer` assumes that an armed 30 s timer fires and nothing else: neither
  that the server ends the offline phase nor that a buffered function returns.
- `KeyCache` (`CallsGoOn`): a waiting call is resumed when the lock is free, and
  reads and writes of files end.  `KeyTransactions` (`TxGoesOn`): an attempt of a
  commit ends, one way or the other, and a retry's delay passes; not that the
  work of a transaction returns.
- `Connection` (`ConnGoesOn`): its timers fire (connect timeout, keep-alive,
  timeouts of queries) and what it awaits of itself goes on; a send ends, because
  `sendRawMessage` gives up after `connectTimeoutMs`.  Nothing is assumed of the
  server, which is what `SilenceEnds` is about.

All other modules state safety only.

## 5. Proofs

Everything below holds for every value of the constants, under the named
assumptions of the modules.

- `LocalProofs!QueueConsistency`, `NoJobIsLost`, `SerialisesSafely` (`GcLimit`
  positive, `BucketOf` a function into the buckets).  The inductive invariant
  `QueueInv` says where index, limit and array stand to one another and that the
  jobs before the index are just the settled ones of the array; without it
  `NoJobLost` is not inductive, since the collection throws the front of the
  array away.  The refinement goes over the lemmas on `Rest`, the part of the
  array that is still to run: a submission appends to it, a step takes its head
  off, the collection leaves it as it is.
- `LocalProofs!MutexConsistency`, `Exclusion`, `MutexSerialisesSafely`.
  `MutexInv`: in every chain the calls that are in or past their section come
  first, and all but the last of those have left it.  So the settled ones of a
  chain are its first `SettledOf` (`SettledAre`), and what is behind them is the
  line of `SerialExecutor`: a call appends to it, the one that enters is its first,
  and leaving takes that one off.
- `LocalProofs!RemovalNeverFails`, `RemovalSparesTheNewest`,
  `OneSessionOpen` (`ClosedMax` positive, times natural numbers).  What holds a
  record together is `Healthy`: only the newest session may be open, sessions are
  closed in the order they were opened (`ClosedInOrder`), and those left are an
  unbroken run up to the newest.  Then more than `ClosedMax` sessions include a
  closed one, so the removal never throws; and the sessions it takes, the least
  `closed` first whatever it does with ties, spare the `ClosedMax` newest.  Each
  operation is shown to keep `Healthy` by a lemma over the record alone, and the
  state lemmas lift it.
- `LocalProofs!RetryConsistency`, `ResendsAreBounded`, `GivenUpStaysGone`,
  under `UniqueIds` and `MessageTTL <= CounterTTL` (5 and 15 minutes).  The
  bound is not inductive: an answer adds one to `resent` and tests `count`.
  `Counted` ties the two (the counter of a message that is there has all its
  answers and was last counted no earlier than the message came), and the
  lemma `CounterOutlives` turns the order of the lifetimes into "not expired".
  `IndexExact` is what makes giving up reach the right message.
- `ConnectionProofs!ConnectionTyped`, `NothingIsLeft`, for any number of queries
  and references (`MaxRefs` a natural number).  The invariant is the types,
  `NothingLeft` itself, and `CodesCounted`: no more codes were shown than
  references came, which bounds the timer's steps.  `end()` is the step that
  matters, and every step that comes back from an await after it: each is shown
  to find the connection closed, and to leave neither query nor QR timer.
- `SendingProofs!ResolvedRight`, for any messages, calls and delays of
  timers.  The invariant gives every pending entry one owner, first the call that
  waits, then the timeout it armed; so an entry that is gone although nothing
  was upserted under its id was taken away by its own timeout, and no waiting call
  can see it.
- `ReceiveProofs!KeysAgree`, for any users, any devices and either kind of
  chat, under `KeysAssumption` (the two users of a chat between two are two).
  One lemma per place that makes a key: what a device reads of a message
  (`ViewInPair`, `ViewInGroup`), what it makes of a reference (`SameInPair`,
  `SameInGroup`), the same for sender and readers.
- `SendingProofs!UploadsAreRenewed`, for any uploads, hosts, pieces and
  fetches.  The invariant follows an upload from its refusal: the fetch made then
  is the one it waits for (`RenewedRight`), fetches that ended stay as they ended
  (`FetchesKept`), and what was posted was flushed to its end (`FileRight`).
- `SendingProofs!RelaysKeepApart`, for any relays, chats, devices and failures.
  A chat's relays take turns (`TurnsTaken`): while one is under way every earlier
  one of its chat has ended and no later one has begun, so what it puts out comes
  after theirs and with a newer iteration of the group key (`IterationsNew`).
  Relays that wait for one encryption of a device are of different chats with the
  same bytes (`CiphersApart`), which `OutgoingRight` carries over to what was sent.
- `SendingProofs!ListsAreSound`, for any users, calls, evictions, delays and
  failures.  Every wait is a short one: a call awaits only queries that were asked
  before it began, and asks its own once those are answered, so it ends at most two
  timeouts of a query after it began, and no row it gives was older than a
  lifetime then.  Whoever waits, waits for a call that is asking, or shares one
  that still fetches: nobody waits for himself or round in a circle.
- `SendingProofs!GroupsReadOnce`, for any numbers of states, messages and keys
  ahead (`SenderKeysAssumption`).  A distribution message that arrived is spent for
  a group message once its state cannot give that key any more, or is gone; each
  reading spends one that was not, and what is spent stays so.
- `SendingProofs!GroupsAreReadable`, the converse, under the same assumption.  The
  record has the states of the last `MaxStates` distribution messages, so the last
  one for a chain is the state `getState` finds.  Such a state lacks no key
  (`NoneLost`): one that is behind it is kept or was used since its distribution
  message came.  No two messages have the same key (`MessagesApart`, which failed
  sendings and new chains keep), so the message that used it is the one that is
  refused, and was read since.
- `LocalProofs!MappingsAreKept`, for any numbers, LIDs, calls, failed writes
  and restarts, with keys of either kind, under `LidAssumption` (numbers and LIDs
  are told apart).  A key that nobody writes and that is not in doubt has one value
  wherever it is: in the cache, in the context or else the store, and in the hands
  of whoever reads it (`ReadRight`, `ContextRight`).  While a call writes it, only
  that call does (`WritesApart`), and what it has brought there already is what a
  read finds (`WriteRight`), so it is the newest mapping when the call puts it into
  the cache.
- `StorageProofs!FilesAreSound`, for any calls, stamps and crashes.  Nobody knows
  of the success of a call whose data is still in a temporary file (`TmpUnknown`),
  so a rename that comes late undoes nothing anybody relied on; and as long as
  no two calls had one temporary file, each finds there the whole of its own data
  (`Alone`).
- `StorageProofs!TransactionsAreSound`, for any transactions, however they share
  contexts.  The context holds the newest sets of those in it, and a commit has
  taken all of them but those made since it began to write.
- `StorageProofs!GetsAreSound`, for any calls, keys, evictions, failures and late
  writes.  Under the lock of a set nobody reads or fills, so what cache and files
  hold of a key that is not in doubt is what was set last (`CacheNewest`), and a
  key is in doubt from a failed set until a later one succeeds and no write of a
  call that failed is still going on (`LateDoubted`).
- `StorageProofs!WrittenIsRead`, from `SessionsComeBack`, for any session records,
  and `NodesAreRead`, for any dictionaries, any inherited names and nodes of any
  finite depth, width and contents.  Its assumptions are the types of what is
  written and that tokens, inherited names and the empty string are apart
  (`CodecAssumption`, `EntriesAssumption`).  That the recursive functions of
  `Codec` are what their definitions say is proved first: over nodes by the least
  level without a value (`TreesAre`), over lists by the last place without one,
  for a node is read from at least one symbol and depends on no list but later
  ones (`NodeReads`, `NodeLocal`, `ListsAre`).  Then `NodesAreRead` has two halves.
  What can be written comes back: wherever a stream holds what was written for a
  string, an attribute, a child or a node (`Holds`), it is read as that and up to
  its end (`StringComes`, `AttrsCome`, `KidsCome`, `NodeComes`).  What cannot be
  written does not: an empty string leaves no symbol, so the reader takes the next
  one in its place and goes on out of step, and nothing local forbids that it
  finds an equal node after all.  The argument is one about the whole stream.  A
  symbol that frames a JID weighs 0, the byte of an empty string 1, any other 2;
  what is read for a string or a node then weighs no less than what was written
  for it, and as little only when it can be written (`StringPays`, `AttrsPay`,
  `KidsPay`, `NodePays`); and the stream is not heavier than itself (`DecodeIs`).
- `ConnectionProofs!KeysAreKnown`, for any uploads, batches and rotations.  An
  upload that overlaps no other is alone with `nextPreKeyId`, so each later one
  has other ids (`IdsApart`, `PublicOnce`), and the device keeps what it uploaded
  until a message used it (`DeviceRight`).  Of signed keys the server has that
  of the last request it took (`LastTaken`): a rotation, or an upload, which carries
  the key of creds unless a rotation was under way when it was sent
  (`CarriesCurrent`); and answers come in the order of the requests
  (`RequestsInOrder`).
- `ConnectionProofs!FramesAllHandedOver`, for any frames, any cut of the stream and
  any of them broken.  Each frame that was opened and can be decoded is in exactly
  one place - handed over, next in its call, or being inflated (`PlacedOnce`,
  `NoneLost`); the read counter counts those opened, up to the first that is broken
  (`OpenedRight`); only one that is inflated can be overtaken
  (`OvertakenInflated`).  A call goes on until less than a frame is in `inBytes` or
  it throws, so with nobody waiting a whole frame is left only by a call that threw.

- `SignalConversationProofs!ConversationTyped`, `OpenSessionsEncrypt`: every
  session in a record is good (`Good`): it has a sending chain and no other chain
  sends, and every chain was derived from its first root.  An attempt to read,
  even one that throws half-way, goes on from such a session (`AttemptGoesOn`),
  so the open session can always encrypt.
- `SignalConversationProofs!MessageKeysOnce`, for any messages, deliveries and
  crashes, when records keep all their sessions (`MaxSessions` at most the 40
  that are never removed).  No two messages went out with one chain and counter,
  because a sending chain is made from a fresh ratchet key and its counter only
  goes up (`KeyInv`), even over a crash, since the record is saved before the
  message leaves; and a key that was read is neither skipped nor ahead in the
  chain it was read from (`ReadInv`).
- `SignalConversationProofs!PreKeysLast`, under the same hypothesis: a pre-key
  is removed only after the session built with it was saved, and that session is
  found by its base key ever after (`OfferInv`).  With removed sessions an old
  pre-key message that took no one-time pre-key could build its session again;
  the hypothesis is what the two theorems need of the record.
- `SignalConversationProofs!RecordsKept`: the conversation implements
  `SessionStore` on either side.  Each job of a conversation is one job of the
  record; `Nat \subseteq Times` says that no instant is out of bounds.
- `SignalConversationProofs!OnlySkippedAreLost`, `MessagesStayReadable`, where one
  side sets up one session, once, and no counter reaches 2^32 (`OneSession`).  One
  of the two ends leads: it has stepped its ratchet last.  The other has, or can
  still make, the key of every message of the leader it has not read, and the
  leader kept the keys of the chains it closed (`Pair`, in `PairInv`); before the
  called side has its session it could build that pair's end from any message
  (`Calls`).  So a message that was not read can be read unless more than
  `MaxJump` keys would have to be skipped for it, in its chain or in the one that
  its ratchet step closes (`Within`); with `FewMessages` (neither side encrypts more
  than `MaxJump`, what a crash kept back included) that never happens and
  `EveryMessageReadable` holds, whatever is lost, delivered late or out of order.
- `ReceiveProofs!HandlersAreSound`, `UnreadWereOvertaken`, `VotesAreCounted`, for
  any authors and stanzas.  A handler that is not done waits in one queue, once
  (`AcksInTurn`, `WaitsOnce`), and has met all that were in hand when it came or
  came since (`MetInHand`).  A group message is unread because all keys of its
  author came after it, or because a stanza with one was handled beside it
  (`UnreadRight`); what was handled is unread, stored or held back
  (`HandledIsKept`), so a vote that finds no poll has its reason (`VotesRight`).
- `ReceiveProofs!DownloadIsSound`, `RangesAreExact`, for any file, range, block and
  cut of the body (`MediaAssumption`).  `InStep` keeps two counts in
  step: the blocks taken, the rest that is less than a block and the body still to
  come add up to the end of what was asked for, and `bytesFetched` is the blocks
  taken, but for the IV and one the cipher may withhold; what was pushed is a
  function of `bytesFetched` (`Got`).  The rest is the arithmetic of whole blocks:
  the chunks the code asks for begin at or before `startByte` and end after
  `endByte`, and with `AllCame` nothing of the range is missing.
- `ConnectionProofs!TextsAreApart`, for any frames.  Both ends go through the same
  states of hash, chaining key and key (`HandshakeInv`), so what is sealed is one
  of a fixed list of texts, each with its own key and counter; afterwards the
  counter of a reader is that of the writer less what is under way (`InStep`), as
  long as nothing was early.
- `AppStateProofs!HashesAreRight`, `ViewIsFollowing`, `RoundsComeToAnEnd`, for any
  versions, attempts, calls and indices, when own changes set and do not remove
  (`removed_index` shows what a removal does).  Whatever state a device stores,
  asks with or wants back was right at some version of the log (`RightAt`:
  hash, values and version are those of the log), because subtracting the old
  value and adding the new one is exact as long as no two indices have the same
  value (`MixedHash`).  For `ViewFollows`, each index has a version up to which
  the application will have seen it once the call tells what it got
  (`Reached`), at least the stored version and what was told; a snapshot moves it
  forward or leaves it.  The attempt to prove this found what the instance was
  too small to show: `appPatch` that starts again from a snapshot older than its
  version, tells the older values and is then rolled back leaves the application
  behind (chats.js 546 sets `initialVersionMap` back to the snapshot's version).
  `undone` marks it, and `ViewFollows` speaks of all other behaviours.

- `ReceiveProofs!AttachmentsAreSound`, `NewestIsKept`, for any authors, texts and
  options.  An author's newest reaction is beside the message if one of his waits
  there, else in it; his newest receipt is the one beside it put over the one in
  it (`Together`); his votes are in it (`HasNewest`).  `FilteredIs` says what a
  filter leaves of an author, `ReplacedIs` that his entry takes the place of the
  old one, `AllReactionsIs` and `AllReceiptsIs` what a flush makes of a message
  by handing over, one by one, what waited.
- `EventBufferProofs!BufferIsTyped`, `EverythingIsRight`, `SyncIsRight`, for any
  chats, messages, contacts and groups that are apart (`ThingsApart`), any events,
  nested functions and cache limit.  An object is a list of writes, so all three
  are about where a write may be.  `BufferInv`: whatever is held or shown of a
  thing was emitted for it, and nothing but a conditional update is held when
  events are not.  `LiveInv`, of the kinds of event of the live session
  (`Live`: no history, no conditional updates; with them `stale_status` refutes
  it): a chat is held as an upsert or as an update, never both, and what is held
  of it continues what the application has (`ChatLine`); while a message
  is held back whole, its upsert has everything, and else what is held
  continues what is shown, statuses and reactions apart (`MessageLine`); what is
  deleted is held in no other form.  Every write of an event is newer than those
  that are anywhere, so appending keeps the order, and `collectConsolidated`
  joins the parts in that order.  `SyncInv`, for all kinds of events:
  a contact's upserts are in the application, in the history or in the upserts held,
  in that order (`ContactRight`); a write that waited for its chat is shown
  or held with the chat only beside one that makes the chat known, waits in the
  update alone, is superseded, or was refused and is nowhere (`Waiting`).  The
  invariants are about the three parts of `buf` together: none of the
  properties is inductive, since a flush shows what the buffer holds.

What recursive functions compute is proved by the least counterexample
(`LeastOf`, from the well-foundedness of the naturals), since the library's
induction theorems take an operator as a parameter, which the provers cannot
instantiate: so `DecodedRight` of the patches of an answer.

Only model-checked: liveness under fairness (in `QueueSerialises`,
`MutexSerialises`, `BufferingEnds`, `StoreGoesOn`, `SilenceEnds`, `LoginEnds`),
which is out of reach of the provers.  The safety part of every property that a
passing run checks is a theorem.

## 6. Limits of what is shown

- `KeysUsedOnce` is proved for records that keep all their sessions.  Once the
  record has dropped a session that took no one-time pre-key (40 newer sessions
  later), its old pre-key message could set it up again.
- `EveryMessageReadable` is proved for one session; with several it is false
  (`backlog`).
- The runs' bounds on messages and sessions are small, and the 2000 of
  `fillMessageKeys` is `MaxJump` 4, which no message of the instances exceeds;
  the theorems are of any `MaxJump`.
- `EverythingShows` asks for upserts, for updates of chats and messages, and
  for reactions.  Contact updates are excepted (a pending one is lost when its
  contact is upserted, event-buffer.js 229-232), and of several `groups.update`
  of one group in one buffer the first is kept (event-buffer.js 330-337); history
  next to updates is `stale_status`.  `WaitingKept`, in `InitialSyncShows`,
  speaks of the last conditional update only, since line 201 replaces the one
  that waits.
- A message that was deleted is not upserted again under its key.
- `ViewFollows` is checked for calls that do not overlap; for others the rollback
  of a shared transaction takes the stored version back behind what was told.
  Nor does it speak of `undone`, see section 5.
- Where a process stops between the acknowledgement of a stanza and its
  `messages.upsert` (socket.js 1092) the message is lost; `Receive` has no crash.
- `WrittenComesBack` says of a node that cannot be written that it does not come
  back to the last symbol, not that the reader notices: it may throw, or give
  another node.  A text that is an inherited name, a message "constructor" in an
  attribute say, is among them: it is read as the empty string.
- A read of `LidMapping` finds what was there when it began, and what a failed
  attempt of a commit had begun to write is over with the attempt.
- Components that run side by side in one instance do not meet; those that the
  code lets meet are composed inside a module (jobs and records in
  `SignalConversation`, transactions in `LidMapping` and `AppState`, device lists,
  sessions and encryptions in `SendPath`, mutexes and the buffer in `Receive`).

## 7. Not modelled

- Code that nothing in `lib/` calls: the notification, call and offline-queue
  handlers of `messages-recv.js`, `process-message.js` and `history.js`;
  `usync.js`; `makeMessageRetryHandler` with `markRetrySuccess`,
  `shouldRecreateSession` and phone requests; `deleteAllSessions`; the mapping
  of signal-repository.js 289-316, which is written at login and never read.
- Encryptions of a message resent after a retry receipt (socket.js 1179-1207), which
  share the map of those in flight with the relays of `SendPath`; and what an
  unhandled rejection does to the process (messages-send.js 419 makes a promise
  nobody need await).
- A keep-alive timer that starts after `end()` (socket.js 361): it stays armed, and
  every tick finds a closed socket and does nothing.
- Generated code: `signal/WhisperTextProtocol.js`, `proto/`.
- Cryptographic primitives (`signal/crypto.js`, `curve.js`, `keyhelper.js`,
  `numeric_fingerprint.js`, `lib/crypto-utils.js`): taken as perfect.
- Groups, communities, newsletters, business, privacy, profile and presence calls:
  one query each, without state of their own.
- Which protocol message a content becomes, thumbnails, link previews, attributes
  of stanzas, registration payloads, names and constants: data without state.
- Edge routing, dirty bits and the times a login notes in creds: each a single
  assignment that nothing modelled depends on.
- `mergeChats`' counts and the unread adjustment (event-buffer.js 30-38, 360-372):
  arithmetic on the payload of events that `EventBuffer` abstracts.
