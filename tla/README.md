# SecureChat in TLA+

TLA+ models of the parts of SecureChat in which several clients, server
coroutines, Redis commands and database writes interleave: the delivery of a
message from one client's database to another's, the sessions of the signaling
server with their call signals and presence, group calls, and the credentials,
the number and the deletion of an account. Each of the seven modules is checked
by TLC on small instances, and its safety properties are proved, with proofs
checked by TLAPS, for every value of the constants.

Paths below are relative to `src/flutter_securechat/`; `signaling/` stands for
`server_hardened/signaling-server/src/main/kotlin/com/securechat/signaling/`.

## 1. Inventory of the system

The deployed system is a Flutter client and a Kotlin (Ktor) signaling server
with Redis and PostgreSQL, under `src/flutter_securechat`. The repository's root
also holds an earlier generation (the Kotlin modules `app`, `signaling-server`,
`network`, `media`, ... and the Swift client under `ios`), which is not modelled.

| Component | State | Operations | What is hard | What makes it correct |
|---|---|---|---|---|
| ACK queue (`signaling/ConnectionManager.kt`, Lua scripts) | per recipient in Redis: item keys, sorted index, byte ledger, last score | enqueue, ACK, purge, key expiry; the drain's removals, the deletion of an account | four structures kept in step by three scripts and two expiries, and single commands of others on the same keys; a caller's clock that lags; both limits | the ledger counts what is held and indexed; nothing is evicted early; a retry changes nothing; order is that of acceptance |
| Routing and redelivery (same file, `WebSocketRoutes.kt`) | map of sockets under a mutex, the queue above | route, connect, drain, ACK, disconnect | a sender that queues then looks up against a recipient that registers then drains; sockets that replace each other; replies that Redis loses | no lost wake-up; a live socket stays registered and a replaced one is closed; at-least-once custody |
| Sending client (`lib/src/domain`, `network`, `storage`) | message status, receipts, durable outbox | send, first attempt, flush, receipts, retention, stuck-message recovery | use case, flush, receipts and crashes all write the same rows | a sent message is never dropped unconfirmed; a status never goes back |
| Receiving client (`lib/src/incoming`, `crypto`, `chat`, `safety`) | ratchet, sender keys, messages, dedup records, block list | decrypt, store, remember, receipt, ACK, read, block | three separate durable writes and a ratchet that opens a frame once | a tick is honest; a spent frame can still be answered |
| Credentials (`signaling/CredentialState.kt`, `AuthService.kt`, `DeviceReauth.kt`, routes) | epoch and refresh generation in PostgreSQL, a cache per instance, one-shot grace records in Redis | access check, refresh, redemption, reauthentication, logout, deletion, recovery | cached values used after a revocation, lost responses, lost invalidations | a revoked token buys and ends nothing; staleness is bounded; one redemption |
| Group calls (`signaling/GroupCall*.kt`, `WebSocketRoutes.kt`) | calls in memory under one lock | invite, join, hang-up, session clean-up, transfer, purge | handlers suspend between two critical sections with a snapshot in hand | limits; admission; a handler acts on its own call; nobody is left alone in a call |
| Transient queues and call signals (`ConnectionManager.kt`, `WebSocketRoutes.kt`, `MessageTypes.kt`) | per recipient two sorted sets in Redis | queue, trim, drain, purge by ACCEPT and HANGUP, expiry | lookup before queueing, a drain that works from a list, purges command by command, Redis errors half-way | nothing vanishes unexplained; only a race strands a frame; an ended call does not ring again |
| Presence (`ConnectionManager.kt`) | foreground users, subscribers of each target | announce, subscribe, unsubscribe, clean up | check-then-act and clean-ups outside the mutex, sessions that replace each other | presence is what the live sessions asked for |
| One-time codes and registration grants (`OtpService.kt`, `RegistrationGrants.kt`, `AuthService.kt`) | a Redis hash, rows of used grants | request, guess, accept, expire; verify, use, forget | attempts and replacements in any order; a grant verified before and used after its expiry | codes are paced and attempts counted; a grant buys one account while it lasts |
| Directory registry (`UserRegistry.kt`) | rows of `users`, two maps in memory | register, change the number, take over a number, remove, reload | commits first, maps later; decisions on stale maps | the maps agree with the table; an account that was ever reachable keeps its number |
| Account deletion (`AccountDeletion.kt`) | all of the above | one transaction, then isolated purge steps | steps that fail one by one, sockets and senders let in before | what is left of a deleted account fades |
| Prekeys (`signaling/OlmPreKeyStore.kt`) | identity, one-time keys, fallback key | upload, claim | a bundle read by several statements | the identity is part of `Accounts`, the keys are planned |
| Attachments (`signaling/Attachment*.kt`) | files in a directory | write, publish, read, expire | rename against cleanup | planned |
| Client token refresh, signaling connection, calls, group management (`lib/src/auth`, `services`, `media`, `groups`) | tokens, socket, call state machine, membership | see files | single-flight refresh, reconnects, late signalling, reordered control frames | planned |
| Push, OPRF arithmetic, TURN, abuse reports, privacy ciphers, backup, UI, native hosts | - | - | I/O, cryptography, one statement per request | not modelled |

How they interact: a client's send writes the outbox row, then a WebSocket
frame; the server queues the ciphertext in Redis before it looks the recipient
up; every accepted socket drains the queue; the receiving client stores, then
sends an end-to-end receipt (an ordinary frame to the sender, which deletes the
outbox rows) and a transport ACK (to the server, which deletes the queue entry).
HTTP handlers check the credentials that the WebSocket and every other route
require. Group-call frames are checked against the server's call table, which is
also changed when a socket ends.

`PROJECT.json` lists every component with its status, and under `hazards` each
place where this code can go wrong in a way a test would hardly reach.

## 2. Modules

| Module | Lines of code it stands for | EXTENDS / INSTANCE |
|---|---|---|
| `ReliableQueue` | the Lua scripts of `ConnectionManager.kt` and their callers | |
| `AtLeastOnce` | abstract: what the queue of a recipient promises | |
| `Delivery` | `routeMessage`, `addConnection`, `removeConnection`, `deliverReliableMessages`, transport ACKs | extends `ReliableQueue`, instantiates `AtLeastOnce` |
| `EndToEnd` | `SendMessageUseCase`, `OfflineMessageQueue`, `IncomingMessageHandler`, the DAOs they write | |
| `Credentials` | `CredentialState`, `AuthService`, `DeviceReauth`, the authentication routes | |
| `GroupCalls` | `GroupCallSessionStore` and the handlers that change it | |
| `Sessions` | the rest of a WebSocket session: transient queues, routing and purging of call signals, presence, clean-up | |
| `Accounts` | `OtpService`, `RegistrationGrants`, `UserRegistry`, `AccountDeletion`, and the sockets and senders they race with | |
| `*Proofs` | theorems about the module named | extend it and `TLAPS` |
| `MC*` | instances for TLC | extend the module named |

The `map` of `PROJECT.json` gives the source lines of every definition. A
definition called `XyzSomething` with the comment "Faulty variant" is a mutated
`Xyz`: it is used by no specification and is there to show that a property
notices the mistake.

### ReliableQueue and Delivery
A Redis script is atomic, so each is one operator from queue to queue. Payloads
are abstracted to their sizes, the only thing the scripts look at. The index,
order and ledger keys share one deadline (they are always renewed and deleted
together). The other writers of these keys are steps of their own: the drain's
ZREM (`Unlist`) and DEL (`Discard`, for `Corrupt` tokens, envelopes that do not
open), and the deletion of an account, which deletes the items it has listed and
then the keys. They may run at any time here; `Delivery` has the drain in detail
and leaves account deletions out. The caller's clock may lag by `Lag` ticks behind Redis's; scores are
integers of 0.001 ms, the unit of the code's bump. `Delivery` follows one
recipient: every suspension and every Redis round trip of a sender's handler,
a drain or a disconnect is a step boundary; the connections mutex is not held
across I/O. An enqueue may take effect and lose its reply (`RouteQueueFails`):
`routeMessage` then ends without a look-up. `unanswered` is a history variable:
the tokens stored that way and neither routed again nor listed by the drain of
the registered socket since.

### EndToEnd
A message is one frame per recipient; a group message sends each member the
sender key first. "key" stands for that sender-key frame; group-control frames
that create the group are not told apart from it. Each database write is
durable and atomic, the process may die between two. The server is abstract
here: it keeps frames in order until the ACK and may lose them; `Delivery` and
its refinement of `AtLeastOnce` show that the real one does no worse. A
recipient in `env.crowd` receives so many frames of other senders that its dedup
table exceeds 50,000 records: pruning may then delete any of its records, where
the code deletes those that expire first. `env` is
fixed for a behaviour and says which circumstances it may meet, so that a run
explores several scenarios without their product.

### Credentials
One account, several server instances, several concurrent handlers. A SQL
statement, a Redis command and an operation on the cache map are one step each.
Random values are numbered in the order they are drawn (`minted`). Signatures,
JWT expiry and rate limits only refuse requests and are left out. A recovery is
its transaction (`Recover`); the challenge that admits it, and the receipt that
repeats its answer, are not modelled. `revocations`, `dropped`, `born` and
`spent` are history variables.

### GroupCalls
Every store operation takes the store's lock and is one step. A handler that
leaves a call goes through leave, refresh, settle and transfer, with other
handlers in between, holding the snapshot it read first. The order in which
candidates for the coordinator role are tried is left open, `startedAt` is
reduced to whether the call is past its lifetime. Frames to clients are left
out: no handler reads them back.

### Sessions
A session is one coroutine: it registers, drains the two transient queues,
handles one frame at a time and cleans up. `task[s]` is where it stands; each
critical section, Redis command and send is a step, so several sessions of one
user drain, purge and clean up at the same time. A frame is its type, sender and
recipient; `sent` numbers the frames, queues hold the numbers. `call_control`
comes as ACCEPT and as HANGUP, which stands for REJECT and BUSY too. A link that
is "dead" swallows what is sent, a "closed" one refuses it. A queued frame's
`zadd`, trimming and `expire` are one step with three outcomes: all of them, none,
or the first alone. Left out: the limit in bytes (the script trims the oldest
frames, as for the limit in number), last-seen times and presence notices, and
the record of active one-to-one calls, which only a log line reads. `written`,
`dropped`, `raced`, `cancelled`, `want` and `crossed` are history variables:
`raced` marks frames queued for a recipient whose session changed after the
lookup, `crossed` the users whose presence requests overlapped a clean-up.

### Accounts
Requests are handlers with a program counter: a Lua script, a transaction or a
visit to the registry's maps is a step. A visit (removing the entry of the old
token and writing both maps) is a handful of map operations taken as one. Tokens
of numbers are values of `Number`; the random placeholders of accounts without a
number are numbered in the order they are drawn. A row keeps what the take-over
of a number looks at: the Olm identity, the libsignal identity and the recovery
pin. All rows carry the current directory key. The credential check that admits
a request is its first step, whatever happens before the next. Queued messages
are reduced to the item and its index entry, which the purge of a deleted account
removes in two commands. `codes`, `claims`, `overtaken` and `reached` are history
variables; `reached` holds the accounts that have published an Olm identity;
`overtaken` holds the accounts whose row changed again before a request had
cached what it had committed for them, and those whose identifier was registered
again while a deletion had the maps still to visit.

## 3. Runs

| Run | Question | Size |
|---|---|---|
| `reliable_queue` | Do item, index, ledger and order stay in step, at both limits, with a lagging clock and other writers of the keys? | 3 tokens (one corrupt), 2 sizes, limits 2 messages / 3 bytes |
| `delivery` | Can an interleaving of routing, reconnecting, draining, acknowledging and lost replies lose a wake-up, a live or a replaced socket, or custody? | 2 tokens (one corrupt), 2 sockets (one message-only), 2 handlers, 3 routes |
| `delivery_live` | Does a connected recipient get what is queued? | 1 token, 2 sockets, 2 handlers, 2 routes |
| `end_to_end` | Are ticks honest, and is nothing lost or taken back, through crashes, losses, groups, two recipients, blocking, retention, a full dedup table? | 1 message, 5 circumstances |
| `end_to_end_live` | Is a sent message confirmed in the end over lossy links? | 1 message, 1 recipient |
| `end_to_end_crash` | **violation**: can the dedup record always answer a redelivery? | recipient may die |
| `credentials` | Can a revoked token buy or end anything; is a lost rotation redeemed once; is the cache's staleness bounded? | 2 handlers, 2 instances, 3 circumstances |
| `credentials_restore` | **violation**: is a revocation visible at once on its own instance? | 3 handlers, 1 instance |
| `groupcalls` | Are the limits and the admission rules kept, is a lone call ended, and only the handler's own call? | 3 or 4 users, 2 groups, 4 circumstances |
| `groupcalls_orphan` | **violation**: is the coordinator always a participant? | 4 users, two disconnect together |
| `sessions` | Can concurrent drains, purges, lookups and clean-ups lose a frame, strand it, make an ended call ring, or spoil presence? | 3 users, up to 4 sessions, 3 frames, 8 circumstances |
| `accounts` | Are codes paced, grants used once, numbers and registry kept, and does a deleted account fade? | 4 users, 2 numbers, 3 handlers, 6 circumstances |

Why the bounds are enough to meet the interesting cases:
- `reliable_queue`: each of the two limits refuses a payload on its own; time
  reaches twice the TTL, so a token expires and is queued again; `Lag` is one
  tick, so a purge runs with a stale cutoff; the score bound lets several
  ciphertexts share a tick. A drain's ZREM may hit any token, so the keys are
  deleted while payloads are held and written anew around them.
- `delivery`: a drain runs while the same token is acknowledged, expires and is
  queued again by the other handler, and a second socket replaces the first. Each
  of the three routes may lose its reply.
- `end_to_end`: more messages do not interact on the sender except through the
  flush, which handles rows one by one; two recipients, one of
  whom reads, make the aggregated status interesting. Two recipients who both
  read or whose rows are resent by flushes, and retention together with a
  sender that dies, are not explored: the former are too large for TLC, and in
  the latter `NeverSilentlyLost` fails
  (`network_resilience.dart:145`): the sweep deletes the
  row and marks the message FAILED in two writes, and a sender that dies in
  between shows SENT for ever.
- `credentials`: five drawn values give the initial pair and three more, enough
  for a recovery followed by a rotation, or for three rotations. Logout is in
  the circumstance in which the cache ages; it ends an epoch by the same UPDATE.
- `groupcalls`: with one call per user and two participants per call, every
  limit refuses something; two groups make the per-user limit reachable by
  leaving one and joining the other, a fourth member makes a call too large.
  `NoLoneCall` is stated for calls that refuse nobody, which here are those that
  do not require media encryption, and for the first call of the server,
  `instances <= 1`: a handler that was suspended while its group started another
  call takes its user out of the new one and ends nothing, so the new call may be
  left with one participant.
- `sessions`: each circumstance has the sessions and frames of one hazard: an
  offer and its end by the callee, who connects twice while Redis fails; an offer
  and its end by the caller, who may reconnect in between; an accepted call under expiry and
  a restart; message-only and call-capable sessions taking turns; three
  connections around one frame; one frame more than a queue holds; two
  subscribers of one target; two sessions at the subscription limit. More users
  add no interaction: a queue has one recipient and a purge two parties.
- `accounts`: three codes with two attempts and time beyond the code's expiry;
  one grant with two requests and an expiry; two accounts that take each other's
  numbers with two placeholders, enough for a number to come back to its holder;
  a deletion with two directory updates; a deletion with a connecting socket and
  a sender, two rounds of purges; a deletion after which two requests register the
  identifier again. Only one of the two accounts is deleted and
  publishes identities: the model treats them alike.

Symmetry is used for tokens, handlers, and users together with their sessions;
never in a run with a liveness property. `CHECK_DEADLOCK FALSE` is set where
clients may simply stop (everything acknowledged, every socket used, bounds
reached); `reliable_queue` checks deadlock.

### Fairness
- `delivery_live`: weak fairness of the coroutines (route, drain, remove) and
  of the recipient working through its frames. Nothing is assumed of the
  network, of when Redis fails (under an enqueue, a drain or an ACK) or of when
  the recipient dials: what these leave undelivered is named in `Stranded`.
- `end_to_end_live`: weak fairness of the event loops (use case, flush, handler,
  back-off timers). A flush is started by each reconnect and by the periodic
  worker. Strong fairness for a frame that is sent, and for a receipt, to get
  through: the links lose frames, not all of them for ever. Without it no
  retransmission protocol delivers anything.
- `accounts`: weak fairness of handlers that can go on, the credential watch of
  an open socket among them (it looks every second), and of Redis expiry. None
  of Redis's failures, of clients hanging up, of the retention worker or of a
  restart.

### Disagreements shown by runs
1. `end_to_end_crash` (`lib/src/incoming/incoming_message_handler.dart:311`). A
   recipient that dies after the stored ratchet step and before the dedup record
   cannot open the redelivery and never answers; the sender retries for 30 days
   and shows FAILED. `docs/PRIVACY_FIRST_RELIABLE_DELIVERY.md:107-108` promises
   the receipt and the ACK.
2. `credentials_restore` (`signaling/CredentialState.kt:157`). A load that began
   before a logout puts the old snapshot back in the cache after it; the comment
   at line 37 says the effect is immediate within an instance. `BoundedStaleness`
   still holds.
3. `groupcalls_orphan` (`signaling/WebSocketRoutes.kt:318`). A coordinator and
   the member it hands over to disconnect together: the second clean-up compares
   with the coordinator it read at the beginning and appoints nobody, so the call
   keeps a coordinator who has left.

### Other disagreements met while modelling
They are in the models as steps of the code, and properties are scoped around
them; no run is kept for them.
- The drain removes the index entry of a token whose payload it saw missing
  although the sender has queued it again since (`ConnectionManager.kt:1013`,
  `docs/PRIVACY_FIRST_RELIABLE_DELIVERY.md:151`). The item stays until its
  deadline and no drain finds it: the enqueue script returns early for a held
  token (`ConnectionManager.kt:807`), so a retry does not index it again and only
  sends it to a live connection. Such payloads are outside the byte limit too:
  once the index is empty the scripts delete the ledger. `NoLostWakeup`,
  `LedgerCountsHeld` and `BytesBounded` are stated for indexed tokens, and
  `HeldStaysListed` says that nothing else takes an entry away.
- An enqueue that took effect and whose reply Redis lost is treated as a failure
  (`ConnectionManager.kt:616`): `routeMessage` ends without a look-up, and the
  ciphertext waits under a live socket for the sender's retry or the next
  connection. `NoLostWakeup` and `Stranded` name it (`unanswered`).
- The pruning of dedup records deletes live ones beyond 50,000
  (`incoming_message_handler.dart:450`, doc 89), though a sender may still retry
  the frame; it is then rejected like a frame whose recipient died (disagreement
  1 above). `SpentIsRemembered` names it (`Crowded`).
- A refused attachment pointer is rejected so that it comes again, but its
  message key is spent (`incoming_message_handler.dart:344`, comment at 324).
- The frames of a group message are sent on after the sender-key frame failed
  (`network_resilience.dart:103`); the content then cannot be opened (doc, 153).
- A late receipt of one group member sets a FAILED message back to SENT
  (`secure_chat_database.dart:953`, doc 114-115).
- A frame whose session is unusable is acknowledged
  (`incoming_message_handler.dart:618`, doc 154).
- The sender key of a blocked sender is dropped
  (`incoming_message_handler.dart:662`, comment at 658).
- A refresh retried between the UPDATE and the SETEX of a rotation is refused
  (`CredentialState.kt:237`, comment at 248).
- A join refused for missing encryption takes the member out without the
  hang-up's follow-up and may leave one alone (`GroupCallSignaling.kt:34`).
- A call is ended although others joined after the count was read
  (`WebSocketRoutes.kt:586`).
- A reconnect during the clean-up of the old socket takes the user out of the
  call (`WebSocketRoutes.kt:243`, comment in `ConnectionManager.kt:128`).
- A drain that had listed an offer before the HANGUP purged it sends it all the
  same (`ConnectionManager.kt:952`; `WebSocketRoutes.kt:630` says no phantom call
  remains). `CancelledStaysCancelled` leaves out offers that were listed.
- The purge looks at the sender only: a retried HANGUP of one call removes the
  offer of the next (`ConnectionManager.kt:501`).
- A frame other than a ciphertext that is looked up before the recipient
  registers and queued after its drain waits for its next connection
  (`ConnectionManager.kt:287`); `StrandedOnlyByRace` names the case.
- A session that registers and goes online during the clean-up of its
  predecessor loses its foreground state and subscriptions, though the comment at
  `ConnectionManager.kt:128` wants live sessions untouched; a frame of a replaced
  socket that is handled late puts a user who has left back online.
- A subscription made while another handler drops the emptied set is lost
  (`ConnectionManager.kt:176`), and two sessions of a user together exceed the
  subscription limit (`ConnectionManager.kt:161`).
- A user who hides the last-seen time is not announced offline when the
  connection drops (`ConnectionManager.kt:139`; the comment at 195 says that only
  the time is hidden).
- "One code per minute and address" (`OtpService.kt:23`) does not hold after a
  code was accepted or exhausted: the cooldown goes with the hash. `CodesPaced`
  names the case.
- A grant whose request was admitted before its expiry and commits after the
  retention worker has forgotten its use buys a second account
  (`RegistrationGrants.kt:42`; the comment at 17 says it is used up for certain).
  `GrantBuysOneAccount` is stated for the grant's lifetime.
- A directory update whose commit is overtaken, by a deletion, a take-over, or a
  later update that met a token which had come back, writes an outdated entry to
  the registry after them (`UserRegistry.kt:248`): a deleted account exists for
  senders, and updates of an account fail their compare-and-set, until a restart.
  And a registration of an identifier that has just been deleted may enter the
  maps before the deletion clears them: the new account has a row and no entry.
  The attempt to prove `CacheAgrees` found this one.
- A repeated deletion is said to succeed (`HttpRoutes.kt:679`); the account that
  is gone is refused by `requireAuth` first.

## 4. Proofs

All theorems hold for arbitrary constants that satisfy the named assumptions of
the modules: positive TTL and score tick, natural limits, at least one server
instance, an owner for every session, finite sets of users, groups and tokens
where something is counted or summed over them, a unique token for every account
that exists at the start, and so on. The bounds of the models (`MaxTime`,
`MaxScore`, `MaxValue`, ...) are constants too, so the theorems hold however
large they are. Every module proves its types first (`QueueTypes`,
`DeliveryTypes`, `TypeCorrect`, `CredentialTypes`, `CallTypes`, `AccountTypes`):
`TypeOK` together with what a handler must hold before its next step.

- `ReliableQueueProofs`: `LedgerSafe`, `NeverSacrificedSafe`,
  `HeldStaysListedSafe`, `OrderPreservedSafe`, `BytesSafe`, against all writers of the keys. One lemma per script says what it
  returns. `LedgerCountsHeld` is not inductive alone: a purge would
  remove a held token scored before the cutoff, and the expiry of the shared keys
  would strand one that outlives them. `CustodyFacts` (a held token's score is no
  earlier than its acceptance), `CountedFacts` (the keys outlive it) and
  `OrderFacts` (the last score bounds every other) rule this out, and with them `HeldStaysListed` follows: a script or an expiry
  that takes the entry of a token takes its payload too. `BytesSafe`
  says that the payloads held and indexed for a recipient sum to no more than the
  limit. The
  invariant is about the ledger (`LedgerBounded`), which every script only lowers
  except for the write that has been compared with the limit, and `LedgerSafe`
  turns it into the held payloads. The sum of the community modules is a
  recursive function over the set; what the proof needs of it (`SumsFacts`,
  `SumGrows`) is shown by induction, with the induction hypothesis given as a
  set, and needs finitely many tokens (`TokenAssumption`).
- `DeliveryProofs`: `WakeupSafe`, `LiveSessionSafe`, `ForgottenSafe` and
  `DeliveryImplements`. For the wake-up, a token that is
  held and indexed must be *covered* at every stage of the drain of the live
  socket: not yet listed, listed and not yet sent, sent, on its way in a
  handler, or stored by an enqueue whose reply was lost. `ForgottenSafe` needs
  that a socket not yet dialled has no coroutine of its own (`FreshInv`). For the
  refinement, an ACK in flight is for a persisted token
  (`AcksInv`) and the queue's custody facts carry over; each step then maps to a
  step of `AtLeastOnce` or to a stutter.
- `EndToEndProofs`: `HonestTicks`, `StatusNeverFalls`, `RowsAreFreed`,
  `SpentKeysAnswered`, `NothingLostSilently`. A frame that nobody has written is
  nowhere (`Fresh`), and a handler and a flush hold one frame at a time. A receipt
  is traced back to the store (`Backed`): recorded, on its way, owed by the dedup
  record or by a handler, it is for a message that is stored. A spent key is
  answered for (`Covered`) by the dedup record, by a handler that holds the frame
  before the record, or because the sender no longer has the row, where the
  recipient lives and its dedup table is within the cap.
  `NothingLostSilently` carries the same accounting through a running use case,
  which has frames still to write (`Accounted`). It is stated where it holds
  (`Tame`): rows do not age where the sender may die, since the sweep deletes and
  fails in two writes; and for a message with several recipients neither happens,
  since a later receipt of one recipient turns a FAILED message back to SENT. The
  circumstances of the run are of this kind.
- `SessionsProofs`: `NoFrameVanishes`, `NothingStranded`, `CancelledForGood`,
  `PresenceAsAsked`. A frame is in one place (`OnePlace`): in one handler's hands,
  or once in the queue of its recipient and its kind. `NothingStranded` follows
  the drain of the registered session (`Progress`): what it is done with in a
  bucket it could not take, or was looked up before it registered. An offer due
  to a purge is in nobody's hands, so it never gets into a queue again, and as
  long as nothing failed it is off the queues or on the purge's list (`Due`,
  `Doomed`). For presence, requests that overlap are recorded as crossed; for all
  others, what a request found is still so when it writes (`Found`), and a user
  under clean-up has asked for nothing since (`Quiet`).
- `CredentialsProofs`: `EpochSafe`, `StalenessSafe`,
  `RedemptionSafe`, `EndSafe`. The inductive invariant joins: every generation
  belongs to one epoch (so a generation that matches proves the epoch, however
  stale the cache); a cached copy of an ended epoch was begun before it ended (so
  it expires in time); a superseded generation is in one place only (the handler
  that rotated it, Redis, the handler that redeems it, or spent).
- `GroupCallsProofs`: `CapacitySafe`, `AdmissionSafe`,
  `InstanceSafe`, `NobodyLeftAlone`. Capacity and admission are proved together
  with the soundness of the table. Two lemmas carry the proof: a table that
  shrinks stays good, and one that grows by a join or an invitation that passed
  its checks stays good. `NobodyLeftAlone` needs that a call with fewer than two
  participants always has a handler that will end it (`Attended`): the one whose
  leaving made it so, which knows the call by its number, and whose refreshed
  count is below two. Numbers must therefore be of calls that were started
  (`Numbered`), and a join refused for missing encryption, which takes its
  sender out with no handler to follow up, must be of a call that refuses members
  (`Refused`).
- `AccountsProofs`: `CodesSafe`, `GrantSafe`, `NumberSafe`, `RegistryAgrees`.
  Pacing needs that the stored code carries the time and the
  failures of the last one, and that a code that is no longer stored was used up
  or has outlived the cooldown (`Spent`), which is where the assumption
  `COOLDOWN <= OTP_TTL` enters; the code sets 60 seconds and ten minutes. A grant
  that bought an account is recorded as used or over (`Recorded`), whatever the
  retention worker removes. `NumberSafe` is about accounts that have ever
  published an identity (`reached`). The take-over looks at the row of the moment,
  so the invariant (`Guarded`) says that no such row can meet its condition: it
  has an Olm identity, or a recovery has emptied both identities and set the pin,
  and neither a directory update nor another publication undoes that.
  `RegistryAgrees` says of every account that was not overtaken (`Mapped`): what
  a request carries to the maps is what the table has (`Owed`); its entry is its
  token unless a request is about to set it; and an entry under a number it no
  longer holds has a request about to remove it (`Expected`). Tokens must be
  unique in the table, and a placeholder fresh when it is drawn (`OneEach`).

Only model-checked:
- liveness (`EventuallyDelivered`, `EventuallyConfirmed`, `DeletedFades`), which needs fairness
  and ENABLED;
- the three properties that a run shows to be violated.

## 5. What is not modelled, and the plan

Not modelled: the registration lock, recovery challenges, directory key rotation
and the snapshot cache, push tokens; attachments, rate limiter and quota, and the
client components listed below, which are planned. Left out for good: the bytes of envelopes and tokens, cryptography, e-mail and
push, the user interface, the native hosts, the earlier generation of clients and server.

Next, in this order:
1. The client's token refresh composed with `Credentials`: single flight, what
   each refusal does to the stored session; recovery receipts.
2. One-time and fallback prekeys against concurrent bundles.
3. Attachments, group management, the client's call state machine, the rate
   limiter and the directory quota.

Runs are shared by scenarios where possible, as `EndToEnd` does with its
circumstances, so that the number of runs stays the number of questions.
