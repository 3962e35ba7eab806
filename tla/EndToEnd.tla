------------------------------ MODULE EndToEnd ------------------------------
(***************************************************************************)
(* A message from the sender's database to the recipients' databases and   *)
(* the receipt back: SendMessageUseCase and OfflineMessageQueue on the     *)
(* sending client, IncomingMessageHandler on the receiving ones.           *)
(*                                                                         *)
(* A message is one encrypted frame per recipient; a group message sends   *)
(* every member the sender key first, in a frame of its own that carries   *)
(* the same message id.  Each database write (SecureChatDatabase._write)   *)
(* is atomic and durable; between two of them the process may die.  Each   *)
(* handler is a chain of such writes and of sends, so every await is a     *)
(* step boundary.                                                          *)
(*                                                                         *)
(* The server between them is abstract: it keeps a frame, in order, until  *)
(* the ACK and may lose it earlier (time to live, Redis restart).  Module  *)
(* Delivery shows that the real one does no worse.                         *)
(*                                                                         *)
(* _seenMessageIds has no variable: the ratchet opens a frame once, and a  *)
(* message is one frame for each recipient, so a second frame never gets   *)
(* to that test.                                                           *)
(***************************************************************************)
EXTENDS Naturals, Sequences, FiniteSets

CONSTANTS
    Msg, Peer,      \* outgoing messages, recipients
    Circumstances   \* the circumstances a run starts in, see Circumstance

\* What is fixed for a whole behaviour: who gets which message, and what may
\* happen to it on the way.
Circumstance ==
    [to       : [Msg -> (SUBSET Peer) \ {{}}],  \* the receiptRecipients of a message
     grouped  : SUBSET Msg,   \* messages that need the sender key first
     pointer  : SUBSET Msg,   \* messages whose content is an attachment pointer
     unusable : SUBSET Peer,  \* recipients that may have lost the session of a frame
     block    : SUBSET Peer,  \* recipients that may block and unblock the sender
     reads    : SUBSET Peer,  \* recipients that open the chat
     flush    : BOOLEAN,      \* the sender reconnects or runs its worker: rows are resent
     age      : BOOLEAN,      \* outbox entries may reach reliableOutboxRetention
     lose     : BOOLEAN,      \* the server may lose a frame before its ACK
     sender   : BOOLEAN,      \* the sender's process may die
     peers    : SUBSET Peer,  \* recipients whose process may die
     crowd    : SUBSET Peer]  \* recipients that other senders' frames push over
                              \* _maxProcessedDeliveries dedup records

ASSUME EndToEndAssumption == Circumstances \subseteq Circumstance

VARIABLES
    env,       \* the Circumstance of this behaviour; it never changes
    status, deliveredTo, readBy,  \* the sender's row of each message
    outbox,    \* outbox[f]: [st, old], the pending_signals row of a frame
    job,       \* the SendMessageUseCase call
    flush,     \* the running _flush
    confirm,   \* receipts recorded, their outbox rows not yet deleted
    server,    \* frames waiting for their ACK, in order
    got,       \* got[p]: frames written to p's current connection
    rx,        \* rx[p]: p's incoming handler
    ratchet,   \* frames whose one-time message key is used up
    keys,      \* sender-key frames whose key is installed
    stored,    \* <<m, p>>: content of m durable at p
    processed, \* processed[f]: the delivery dedup record of a frame
    receipts,  \* <<kind, m, p>>: receipt frames in flight
    blocked,   \* recipients that currently block the sender
    opened     \* <<m, p>>: marked read at p

messageVars == <<status, deliveredTo, readBy>>
senderVars  == <<status, deliveredTo, readBy, outbox, job, flush, confirm>>
storeVars   == <<keys, stored, processed, blocked, opened>>
handlerVars == <<rx, ratchet, storeVars>>
peerVars    == <<got, rx, ratchet, storeVars>>
vars == <<status, deliveredTo, readBy, outbox, job, flush, confirm, server, got,
          rx, ratchet, keys, stored, processed, receipts, blocked, opened>>

To            == env.to
Grouped       == env.grouped
Pointer       == env.pointer
Unusable      == env.unusable
MayBlock      == env.block
Readers       == env.reads
MayFlush      == env.flush
MayAge        == env.age
MayLose       == env.lose
SenderCrashes == env.sender
PeerCrashes   == env.peers
Crowded       == env.crowd

Key(m, p)     == [msg |-> m, to |-> p, kind |-> "key"]
Content(m, p) == [msg |-> m, to |-> p, kind |-> "content"]

\* The frames of a message: the key distributions and the message itself.
Frames(m) == {Content(m, p) : p \in To[m]}
             \cup (IF m \in Grouped THEN {Key(m, p) : p \in To[m]} ELSE {})

Frame == [msg : Msg, to : Peer, kind : {"key", "content"}]

\* Both the use case and the flush take the key frames of a message before
\* its content frames.
First(f, todo) ==
    /\ f \in todo
    /\ f.kind = "content" => \A g \in todo : g.msg = f.msg => g.kind = "content"

NoRow   == [st |-> "none", old |-> FALSE]
NewRow  == [st |-> "new", old |-> FALSE]
NoJob   == [pc |-> "idle", msg |-> {}, todo |-> {}, cur |-> {}]
NoFlush == [pc |-> "idle", todo |-> {}, cur |-> {}, due |-> {}, old |-> {}]
NoRx    == [pc |-> "idle", frames |-> {}, receipt |-> FALSE]

Init ==
    /\ env \in Circumstances
    /\ status = [m \in Msg |-> "none"]
    /\ deliveredTo = [m \in Msg |-> {}]
    /\ readBy = [m \in Msg |-> {}]
    /\ outbox = [f \in Frame |-> NoRow]
    /\ job = NoJob
    /\ flush = NoFlush
    /\ confirm = {}
    /\ server = <<>>
    /\ got = [p \in Peer |-> {}]
    /\ rx = [p \in Peer |-> NoRx]
    /\ ratchet = {} /\ keys = {} /\ stored = {}
    /\ processed = [f \in Frame |-> "none"]
    /\ receipts = {}
    /\ blocked = {} /\ opened = {}

-----------------------------------------------------------------------------
(* The sender: one use-case call, one flush, one receipt handler.          *)

Queued(f) == \E i \in 1..Len(server) : server[i] = f

\* The server keeps the first copy of a frame and its place.
Arrive(f) == IF Queued(f) THEN server ELSE Append(server, f)

\* What _signaling.send may come to: FALSE, or TRUE with the frame at the
\* server (which offers a frame it already holds to the recipient again), or
\* TRUE with the frame lost in a dying socket.
Reach(f) == server' = Arrive(f) /\ got' = [got EXCEPT ![f.to] = @ \ {f}]

SendOutcome(f, ok) ==
    \/ ok /\ Reach(f)
    \/ UNCHANGED <<server, got>>

\* Faulty variant: a row deleted in the meantime is written again.
MarkedUpserts(row, ok) ==
    [row EXCEPT !.st = IF ok THEN (IF @ = "due" THEN "wait" ELSE "due") ELSE @]

\* markSent and incrementAttempts.  The first resend is due at once, the
\* later ones after resendDelay.  A row that is gone stays gone.
Marked(row, ok) ==
    [row EXCEPT !.st = IF ok THEN CASE @ = "new" -> "due"
                                    [] @ = "due" -> "wait"
                                    [] OTHER -> @
                             ELSE @]

\* call: the plaintext row is written before anything is encrypted.
Compose(m) ==
    /\ job.pc = "idle"
    /\ status[m] = "none"
    /\ status' = [status EXCEPT ![m] = "sending"]
    /\ job' = [pc |-> "put", msg |-> {m}, todo |-> Frames(m), cur |-> {}]
    /\ UNCHANGED <<deliveredTo, readBy, outbox, flush, confirm, server, receipts, peerVars>>

\* sendReliably: the frame is durable before it is sent.
PutOutbox(f) ==
    /\ job.pc = "put"
    /\ First(f, job.todo)
    /\ outbox' = [outbox EXCEPT ![f] = NewRow]
    /\ job' = [job EXCEPT !.pc = "send", !.todo = @ \ {f}, !.cur = {f}]
    /\ UNCHANGED <<messageVars, flush, confirm, server, receipts, peerVars>>

SendFirst(f, ok) ==
    /\ job.pc = "send" /\ f \in job.cur
    /\ SendOutcome(f, ok)
    /\ job' = [job EXCEPT !.pc = IF ok THEN "sent" ELSE "unsent"]
    /\ UNCHANGED <<messageVars, outbox, flush, confirm, receipts, handlerVars>>

\* Faulty variant: a frame the socket took is not kept for the receipt.
MarkFirstDeletes(f) ==
    /\ job.pc \in {"sent", "unsent"} /\ f \in job.cur
    /\ outbox' = [outbox EXCEPT ![f] = IF job.pc = "sent" THEN NoRow ELSE @]
    /\ job' = [job EXCEPT !.pc = "put", !.cur = {}]
    /\ UNCHANGED <<messageVars, flush, confirm, server, receipts, peerVars>>

MarkFirst(f) ==
    /\ job.pc \in {"sent", "unsent"} /\ f \in job.cur
    /\ outbox' = [outbox EXCEPT ![f] = Marked(@, job.pc = "sent")]
    /\ job' = [job EXCEPT !.pc = "put", !.cur = {}]
    /\ UNCHANGED <<messageVars, flush, confirm, server, receipts, peerVars>>

\* Encrypting a frame throws: the rows of the message are deleted, and then
\* the message fails.  Content frames are all encrypted before the first of
\* them is sent.
PrepareFails(m) ==
    /\ job.pc = "put" /\ m \in job.msg
    /\ {Content(m, p) : p \in To[m]} \subseteq job.todo
    /\ outbox' = [f \in Frame |-> IF f.msg = m THEN NoRow ELSE outbox[f]]
    /\ job' = [job EXCEPT !.pc = "abort"]
    /\ UNCHANGED <<messageVars, flush, confirm, server, receipts, peerVars>>

IfSending(m, next) == IF status[m] = "sending" THEN next ELSE status[m]

\* Faulty variant: updateStatus instead of updateStatusIfSending.
FinishUnconditionally(m) ==
    /\ m \in job.msg
    /\ job.pc = "abort" \/ (job.pc = "put" /\ job.todo = {})
    /\ status' = [status EXCEPT ![m] = IF job.pc = "abort" THEN "failed" ELSE "sent"]
    /\ job' = NoJob
    /\ UNCHANGED <<deliveredTo, readBy, outbox, flush, confirm, server, receipts, peerVars>>

\* The last write of the call: sendReliably always returns true, so the
\* message is sent once every frame is in the outbox, or failed above.
Finish(m) ==
    /\ m \in job.msg
    /\ job.pc = "abort" \/ (job.pc = "put" /\ job.todo = {})
    /\ status' = [status EXCEPT ![m] =
                    IfSending(m, IF job.pc = "abort" THEN "failed" ELSE "sent")]
    /\ job' = NoJob
    /\ UNCHANGED <<deliveredTo, readBy, outbox, flush, confirm, server, receipts, peerVars>>

\* StuckMessageRecovery: a message still being sent after 30 seconds fails.
RecoverStuck(m) ==
    /\ status[m] = "sending"
    /\ status' = [status EXCEPT ![m] = "failed"]
    /\ UNCHANGED <<deliveredTo, readBy, outbox, job, flush, confirm, server, receipts, peerVars>>

\* _flush works on a snapshot of the rows; a second call joins the first.
FlushStart ==
    /\ MayFlush
    /\ flush.pc = "idle"
    /\ \E f \in Frame : outbox[f].st # "none"
    /\ flush' = [pc |-> "scan", cur |-> {},
                 todo |-> {f \in Frame : outbox[f].st # "none"},
                 due  |-> {f \in Frame : outbox[f].st \in {"new", "due"}},
                 old  |-> {f \in Frame : outbox[f].old}]
    /\ UNCHANGED <<messageVars, outbox, job, confirm, server, receipts, peerVars>>

\* A row past its retention is deleted; its message fails in a second write.
FlushExpire(f) ==
    /\ flush.pc = "scan"
    /\ First(f, flush.todo) /\ f \in flush.old
    /\ outbox' = [outbox EXCEPT ![f] = NoRow]
    /\ flush' = [flush EXCEPT !.pc = "fail", !.todo = @ \ {f}, !.cur = {f}]
    /\ UNCHANGED <<messageVars, job, confirm, server, receipts, peerVars>>

\* markFailedIfUndelivered.
FlushFail(f) ==
    /\ flush.pc = "fail" /\ f \in flush.cur
    /\ status' = [status EXCEPT ![f.msg] =
                    IF @ \in {"sending", "sent"} THEN "failed" ELSE @]
    /\ flush' = [flush EXCEPT !.pc = "scan", !.cur = {}]
    /\ UNCHANGED <<deliveredTo, readBy, outbox, job, confirm, server, receipts, peerVars>>

FlushSkip(f) ==
    /\ flush.pc = "scan"
    /\ First(f, flush.todo) /\ f \notin flush.old \cup flush.due
    /\ flush' = [flush EXCEPT !.todo = @ \ {f}]
    /\ UNCHANGED <<messageVars, outbox, job, confirm, server, receipts, peerVars>>

FlushSend(f, ok) ==
    /\ flush.pc = "scan"
    /\ First(f, flush.todo) /\ f \in flush.due \ flush.old
    /\ SendOutcome(f, ok)
    /\ flush' = [flush EXCEPT !.pc = IF ok THEN "sent" ELSE "unsent",
                              !.todo = @ \ {f}, !.cur = {f}]
    /\ UNCHANGED <<messageVars, outbox, job, confirm, receipts, handlerVars>>

\* A failed send ends the flush, a successful one goes on to the next row.
FlushMark(f) ==
    /\ flush.pc \in {"sent", "unsent"} /\ f \in flush.cur
    /\ outbox' = [outbox EXCEPT ![f] = Marked(@, flush.pc = "sent")]
    /\ flush' = IF flush.pc = "sent" THEN [flush EXCEPT !.pc = "scan", !.cur = {}] ELSE NoFlush
    /\ UNCHANGED <<messageVars, job, confirm, server, receipts, peerVars>>

FlushEnd ==
    /\ flush.pc = "scan" /\ flush.todo = {}
    /\ flush' = NoFlush
    /\ UNCHANGED <<messageVars, outbox, job, confirm, server, receipts, peerVars>>

\* resendDelay has passed; reliableOutboxRetention has passed.
BackoffOver(f) ==
    /\ outbox[f].st = "wait"
    /\ outbox' = [outbox EXCEPT ![f].st = "due"]
    /\ UNCHANGED <<messageVars, job, flush, confirm, server, receipts, peerVars>>

Age(m) ==
    /\ MayAge
    /\ m \notin job.msg
    /\ \E f \in Frames(m) : outbox[f].st # "none" /\ ~outbox[f].old
    /\ outbox' = [f \in Frame |-> IF f.msg = m /\ outbox[f].st # "none"
                                 THEN [outbox[f] EXCEPT !.old = TRUE] ELSE outbox[f]]
    /\ UNCHANGED <<messageVars, job, flush, confirm, server, receipts, peerVars>>

\* The status shown for a message is computed from who has received and read.
Aggregate(m, delivered, read) ==
    IF To[m] \subseteq read THEN "read"
    ELSE IF To[m] \subseteq delivered THEN "delivered" ELSE "sent"

\* _receipt, recordDeliveryReceipt: a READ counts as DELIVERED when the user
\* does not share read receipts (asRead is FALSE then).
RecordReceipt(kind, m, p, asRead) ==
    /\ <<kind, m, p>> \in receipts
    /\ confirm = {}
    /\ asRead => kind = "read"
    /\ LET read == readBy[m] \cup (IF asRead THEN {p} ELSE {})
           delivered == deliveredTo[m] \cup {p} \cup read
       IN /\ readBy' = [readBy EXCEPT ![m] = read]
          /\ deliveredTo' = [deliveredTo EXCEPT ![m] = delivered]
          /\ status' = [status EXCEPT ![m] = Aggregate(m, delivered, read)]
    /\ confirm' = {<<m, p>>}
    /\ receipts' = receipts \ {<<kind, m, p>>}
    /\ UNCHANGED <<outbox, job, flush, server, peerVars>>

\* deleteDelivered: every row of the message for that recipient goes.
DeleteDelivered(m, p) ==
    /\ <<m, p>> \in confirm
    /\ outbox' = [f \in Frame |-> IF f.msg = m /\ f.to = p THEN NoRow ELSE outbox[f]]
    /\ confirm' = {}
    /\ UNCHANGED <<messageVars, job, flush, server, receipts, peerVars>>

\* A receipt frame is not retained by anyone.
LoseReceipt(r) ==
    /\ r \in receipts
    /\ receipts' = receipts \ {r}
    /\ UNCHANGED <<senderVars, server, peerVars>>

SenderCrash ==
    /\ SenderCrashes
    /\ job' = NoJob /\ flush' = NoFlush /\ confirm' = {}
    /\ UNCHANGED <<messageVars, outbox, server, receipts, peerVars>>

-----------------------------------------------------------------------------
(* The server.                                                             *)

\* A queue holds a frame once.
Without(s, f) ==
    IF \E i \in 1..Len(s) : s[i] = f
    THEN LET i == CHOOSE i \in 1..Len(s) : s[i] = f
         IN  SubSeq(s, 1, i - 1) \o SubSeq(s, i + 1, Len(s))
    ELSE s

ServerLoses(f) ==
    /\ MayLose
    /\ Queued(f)
    /\ server' = Without(server, f)
    /\ UNCHANGED <<senderVars, receipts, peerVars>>

-----------------------------------------------------------------------------
(* A recipient: frames are handled one at a time, in wire order.           *)

\* A frame of the queue reaches the handler, after the ones before it.
Deliver(f) ==
    /\ rx[f.to].pc = "idle"
    /\ \E i \in 1..Len(server) :
          /\ server[i] = f /\ f \notin got[f.to]
          /\ \A j \in 1..(i - 1) : server[j].to = f.to => server[j] \in got[f.to]
    /\ got' = [got EXCEPT ![f.to] = @ \cup {f}]
    /\ rx' = [rx EXCEPT ![f.to] = [pc |-> "lookup", frames |-> {f}, receipt |-> FALSE]]
    /\ UNCHANGED <<senderVars, server, receipts, ratchet, storeVars>>

\* A new connection is offered the queue from its head.
Reconnect(p) ==
    /\ got[p] # {}
    /\ got' = [got EXCEPT ![p] = {}]
    /\ UNCHANGED <<senderVars, server, receipts, rx, ratchet, storeVars>>

\* The handler of f is at pc.
At(f, pc) == rx[f.to].pc = pc /\ f \in rx[f.to].frames

Goto(f, pc) == rx' = [rx EXCEPT ![f.to].pc = pc]

\* _EncryptedProcessingResult.rejected, or the end of the handler.
Return(f) == rx' = [rx EXCEPT ![f.to] = NoRx]

\* processed: true, with or without a receipt.
Processed(f, receipt) ==
    rx' = [rx EXCEPT ![f.to].pc = "remember", ![f.to].receipt = receipt]

\* Faulty variant: a frame seen before only gets its ACK again.
LookupAcksOnly(f) ==
    /\ At(f, "lookup")
    /\ Goto(f, IF processed[f] = "none" THEN "decrypt" ELSE "ack")
    /\ UNCHANGED <<senderVars, server, receipts, got, ratchet, storeVars>>

\* _processedDelivery: a frame seen before gets its receipt and ACK again.
Lookup(f) ==
    /\ At(f, "lookup")
    /\ rx' = [rx EXCEPT ![f.to].pc = CASE processed[f] = "none"    -> "decrypt"
                                       [] processed[f] = "silent"  -> "ack"
                                       [] processed[f] = "receipt" -> "receipt"]
    /\ UNCHANGED <<senderVars, server, receipts, got, ratchet, storeVars>>

\* Faulty variant: a message key already used is taken for a message stored.
DecryptTrustsRatchet(f) ==
    /\ At(f, "decrypt")
    /\ IF f \in ratchet THEN Processed(f, TRUE) ELSE Goto(f, "open")
    /\ ratchet' = ratchet \cup {f}
    /\ UNCHANGED <<senderVars, server, receipts, got, storeVars>>

\* decryptDirect: the advanced ratchet is stored before the plaintext is
\* returned; a message key already used makes it throw.
Decrypt(f) ==
    /\ At(f, "decrypt")
    /\ IF f \in ratchet THEN Return(f) ELSE Goto(f, "open")
    /\ ratchet' = ratchet \cup {f}
    /\ UNCHANGED <<senderVars, server, receipts, got, storeVars>>

\* SignalSessionUnusableException: counted as processed, without a receipt.
DecryptUnusable(f) ==
    /\ At(f, "decrypt")
    /\ f.to \in Unusable /\ f \notin ratchet
    /\ Processed(f, FALSE)
    /\ UNCHANGED <<senderVars, server, receipts, got, ratchet, storeVars>>

\* The inner group envelope does not open without its sender key.
OpenRejected(f) ==
    /\ At(f, "open")
    /\ f.kind = "content" /\ f.msg \in Grouped /\ Key(f.msg, f.to) \notin keys
    /\ Return(f)
    /\ UNCHANGED <<senderVars, server, receipts, got, ratchet, storeVars>>

Opens(f) ==
    /\ At(f, "open")
    /\ (f.kind = "content" /\ f.msg \in Grouped) => Key(f.msg, f.to) \in keys

\* Frames of a blocked sender are dropped, whatever they carry.
DropBlocked(f) ==
    /\ Opens(f)
    /\ f.to \in blocked
    /\ Processed(f, FALSE)
    /\ UNCHANGED <<senderVars, server, receipts, got, ratchet, storeVars>>

InstallKey(f) ==
    /\ Opens(f)
    /\ f.to \notin blocked
    /\ f.kind = "key"
    /\ keys' = keys \cup {f}
    /\ Processed(f, FALSE)
    /\ UNCHANGED <<senderVars, server, receipts, got, ratchet, stored, processed, blocked, opened>>

\* messages.insert, or the pointer file written by acceptBlobPointer.
Store(f) ==
    /\ Opens(f)
    /\ f.to \notin blocked
    /\ f.kind = "content"
    /\ stored' = stored \cup {<<f.msg, f.to>>}
    /\ Processed(f, TRUE)
    /\ UNCHANGED <<senderVars, server, receipts, got, ratchet, keys, processed, blocked, opened>>

\* acceptBlobPointer returns null (closing, or no transport): rejected.
RefusePointer(f) ==
    /\ Opens(f)
    /\ f.to \notin blocked
    /\ f.kind = "content" /\ f.msg \in Pointer
    /\ Return(f)
    /\ UNCHANGED <<senderVars, server, receipts, got, ratchet, storeVars>>

\* Faulty variant: the record keeps the status sent instead of what to answer.
RememberStatus(f) ==
    /\ At(f, "remember")
    /\ processed' = [processed EXCEPT ![f] = IF rx[f.to].receipt THEN "delivered" ELSE "silent"]
    /\ Goto(f, IF rx[f.to].receipt THEN "receipt" ELSE "ack")
    /\ UNCHANGED <<senderVars, server, receipts, got, ratchet, keys, stored, blocked, opened>>

\* Faulty variant: only frames that get a receipt are remembered.
RememberReceipted(f) ==
    /\ At(f, "remember")
    /\ processed' = [processed EXCEPT ![f] = IF rx[f.to].receipt THEN "receipt" ELSE @]
    /\ Goto(f, IF rx[f.to].receipt THEN "receipt" ELSE "ack")
    /\ UNCHANGED <<senderVars, server, receipts, got, ratchet, keys, stored, blocked, opened>>

\* _rememberProcessedDelivery.
Remember(f) ==
    /\ At(f, "remember")
    /\ processed' = [processed EXCEPT ![f] = IF rx[f.to].receipt THEN "receipt" ELSE "silent"]
    /\ Goto(f, IF rx[f.to].receipt THEN "receipt" ELSE "ack")
    /\ UNCHANGED <<senderVars, server, receipts, got, ratchet, keys, stored, blocked, opened>>

\* _sendDeliveredReceipt: without it there is no ACK.
SendReceipt(f, ok) ==
    /\ At(f, "receipt")
    /\ IF ok THEN Goto(f, "ack") ELSE Return(f)
    /\ receipts' = IF ok THEN receipts \cup {<<"delivered", f.msg, f.to>>} ELSE receipts
    /\ UNCHANGED <<senderVars, server, got, ratchet, storeVars>>

\* _sendTransportAck: the last thing done for a frame; it may get lost.
SendAck(f, ok) ==
    /\ At(f, "ack")
    /\ server' = IF ok THEN Without(server, f) ELSE server
    /\ Return(f)
    /\ UNCHANGED <<senderVars, receipts, got, ratchet, storeVars>>

\* The user opens the chat: the row is marked read, then READ is sent once,
\* if that setting is on.
ReadMessage(m, p, ok) ==
    /\ p \in Readers
    /\ <<m, p>> \in stored \ opened
    /\ opened' = opened \cup {<<m, p>>}
    /\ receipts' = IF ok THEN receipts \cup {<<"read", m, p>>} ELSE receipts
    /\ UNCHANGED <<senderVars, server, got, rx, ratchet, keys, stored, processed, blocked>>

\* _pruneProcessedDeliveries, at every start and every 128 records: a record
\* goes when it expires, and until then it outlives the sender's outbox row
\* (both last 30 days, and the record is the younger one); beyond the cap the
\* records next to expire go as well, whatever the sender still holds.
PruneProcessed(f) ==
    /\ processed[f] # "none"
    /\ \/ MayAge /\ (outbox[f].st = "none" \/ outbox[f].old)
       \/ f.to \in Crowded
    /\ processed' = [processed EXCEPT ![f] = "none"]
    /\ UNCHANGED <<senderVars, server, receipts, got, rx, ratchet, keys, stored, blocked, opened>>

ToggleBlock(p) ==
    /\ p \in MayBlock
    /\ blocked' = IF p \in blocked THEN blocked \ {p} ELSE blocked \cup {p}
    /\ UNCHANGED <<senderVars, server, receipts, got, rx, ratchet, keys, stored, processed, opened>>

PeerCrash(p) ==
    /\ p \in PeerCrashes
    /\ rx' = [rx EXCEPT ![p] = NoRx]
    /\ got' = [got EXCEPT ![p] = {}]
    /\ UNCHANGED <<senderVars, server, receipts, ratchet, storeVars>>

-----------------------------------------------------------------------------

UseCase(f) == PutOutbox(f) \/ MarkFirst(f) \/ \E ok \in BOOLEAN : SendFirst(f, ok)

FlushStep(f) ==
    \/ FlushExpire(f) \/ FlushFail(f) \/ FlushSkip(f) \/ FlushMark(f)
    \/ \E ok \in BOOLEAN : FlushSend(f, ok)

Handle(f) ==
    \/ Lookup(f) \/ Decrypt(f) \/ DecryptUnusable(f) \/ OpenRejected(f)
    \/ DropBlocked(f) \/ InstallKey(f) \/ Store(f) \/ RefusePointer(f) \/ Remember(f)
    \/ \E ok \in BOOLEAN : SendReceipt(f, ok) \/ SendAck(f, ok)

Receive(m, p) ==
    \/ DeleteDelivered(m, p)
    \/ \E kind \in {"delivered", "read"}, asRead \in BOOLEAN : RecordReceipt(kind, m, p, asRead)

Step ==
    \/ \E m \in Msg : Compose(m) \/ PrepareFails(m) \/ Finish(m) \/ RecoverStuck(m) \/ Age(m)
    \/ \E f \in Frame : UseCase(f) \/ FlushStep(f) \/ BackoffOver(f)
    \/ FlushStart \/ FlushEnd \/ SenderCrash
    \/ \E m \in Msg, p \in Peer : Receive(m, p)
    \/ \E r \in receipts : LoseReceipt(r)
    \/ \E f \in Frame : ServerLoses(f) \/ Deliver(f) \/ Handle(f) \/ PruneProcessed(f)
    \/ \E m \in Msg, p \in Peer, ok \in BOOLEAN : ReadMessage(m, p, ok)
    \/ \E p \in Peer : Reconnect(p) \/ ToggleBlock(p) \/ PeerCrash(p)

Next == Step /\ UNCHANGED env

Spec == Init /\ [][Next]_<<env, vars>>

\* Event loops run, the flush is started by every reconnect and by the
\* periodic worker, and links lose frames but not for ever: what is sent
\* again and again gets through.
Fairness ==
    /\ \A f \in Frame :
          /\ WF_vars(UseCase(f)) /\ WF_vars(FlushStep(f)) /\ WF_vars(Handle(f))
          /\ WF_vars(BackoffOver(f))
          /\ SF_vars(FlushSend(f, TRUE) /\ Reach(f))
          /\ SF_vars(Deliver(f))
          /\ SF_vars(SendReceipt(f, TRUE))
    /\ WF_vars(FlushStart) /\ WF_vars(FlushEnd)
    /\ \A m \in Msg : WF_vars(Finish(m))
    /\ \A m \in Msg, p \in Peer :
          WF_vars(DeleteDelivered(m, p)) /\ SF_vars(RecordReceipt("delivered", m, p, FALSE))

FairSpec == Spec /\ Fairness

-----------------------------------------------------------------------------
(* Properties.                                                             *)

\* Every variable keeps its type.
TypeOK ==
    /\ env \in Circumstances
    /\ status \in [Msg -> {"none", "sending", "sent", "delivered", "read", "failed"}]
    /\ deliveredTo \in [Msg -> SUBSET Peer] /\ readBy \in [Msg -> SUBSET Peer]
    /\ outbox \in [Frame -> [st : {"none", "new", "due", "wait"}, old : BOOLEAN]]
    /\ job \in [pc : {"idle", "put", "send", "sent", "unsent", "abort"},
                msg : SUBSET Msg, todo : SUBSET Frame, cur : SUBSET Frame]
    /\ flush \in [pc : {"idle", "scan", "sent", "unsent", "fail"}, todo : SUBSET Frame,
                  cur : SUBSET Frame, due : SUBSET Frame, old : SUBSET Frame]
    /\ confirm \in SUBSET (Msg \X Peer)
    /\ server \in Seq(Frame)
    /\ got \in [Peer -> SUBSET Frame]
    /\ rx \in [Peer -> [pc : {"idle", "lookup", "decrypt", "open", "remember", "receipt", "ack"},
                        frames : SUBSET Frame, receipt : BOOLEAN]]
    /\ ratchet \in SUBSET Frame /\ keys \in SUBSET Frame
    /\ stored \in SUBSET (Msg \X Peer)
    /\ processed \in [Frame -> {"none", "silent", "receipt"}]
    /\ receipts \in SUBSET ({"delivered", "read"} \X Msg \X Peer)
    /\ blocked \in SUBSET Peer /\ opened \in SUBSET (Msg \X Peer)

\* A tick is honest: whoever the sender counts as having received a message
\* has it in durable storage, through every crash, retry and reordering.
DeliveredIsStored ==
    \A m \in Msg, p \in Peer : p \in deliveredTo[m] => <<m, p>> \in stored

\* The status never goes back: no late receipt, resend, retention sweep or
\* finishing use case takes a delivered or a read message down.
ReceiptsMonotone ==
    [][\A m \in Msg : /\ status[m] = "delivered" => status'[m] \in {"delivered", "read"}
                      /\ status[m] = "read" => status'[m] = "read"]_vars

\* A message shown as sent is not lost silently: once the use case is over,
\* for every recipient the outbox still holds it, or the recipient has
\* confirmed it, or the flush that dropped it is about to mark it failed.
NeverSilentlyLost ==
    \A m \in Msg : (status[m] = "sent" /\ m \notin job.msg) =>
        \A p \in To[m] : \/ outbox[Content(m, p)].st # "none"
                         \/ p \in deliveredTo[m]
                         \/ flush.pc = "fail" /\ Content(m, p) \in flush.cur

\* A receipt frees the whole outbox of a message for its recipient, the key
\* frames too, and no send or flush still under way brings a row back.  Only
\* a sender that dies between the two writes of a receipt keeps the rows.
ReceiptFreesRows ==
    \A m \in Msg, p \in Peer :
        (~SenderCrashes /\ p \in deliveredTo[m] /\ <<m, p>> \notin confirm) =>
            \A f \in Frames(m) : f.to = p => outbox[f].st = "none"

\* A frame whose message key is spent can be answered as long as the sender
\* retries it: it is being handled, or its dedup record gives a redelivery
\* its receipt and ACK.
Answerable(f) ==
    (outbox[f].st # "none" /\ ~outbox[f].old) =>
        processed[f] # "none" \/ f \in rx[f.to].frames

\* No lost frame, lost receipt, block, unusable session, retention sweep or
\* resend leaves a direct message with a spent key and no dedup record, as
\* long as the recipient's process lives and its dedup table stays within
\* _maxProcessedDeliveries: beyond that the pruning deletes live records.
SpentIsRemembered ==
    \A f \in ratchet :
        (f.to \notin PeerCrashes \cup Crowded /\ f.msg \notin Grouped \cup Pointer)
            => Answerable(f)

\* Thanks to the dedup record the ratchet is never opened twice, and the
\* receipt and the ACK are always sent again.
SpentIsAnswerable == \A f \in ratchet : Answerable(f)

\* A message that left the use case is delivered in the end.
EventuallyConfirmed ==
    \A m \in Msg : status[m] = "sent" ~> status[m] \in {"delivered", "read"}

=============================================================================
