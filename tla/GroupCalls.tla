----------------------------- MODULE GroupCalls -----------------------------
(***************************************************************************)
(* The group calls a signaling server keeps in memory                      *)
(* (GroupCallSessionStore) and the WebSocket handlers that change them:    *)
(* an invitation, a join, a HANGUP and the clean-up of a session that ends *)
(* (WebSocketRoutes, GroupCallSignaling, GroupCallLifecycle).              *)
(*                                                                         *)
(* Each operation of the store runs under one lock and is one step.  A     *)
(* session handles one frame at a time, sessions run concurrently, and a   *)
(* handler lets others run between two calls of the store: it sends frames *)
(* there, and those sends suspend.                                         *)
(*                                                                         *)
(* Left out: the frames sent to clients (best effort, no handler reads     *)
(* them back), and start, addParticipant, isActive and all, which only     *)
(* tests call.                                                             *)
(***************************************************************************)
EXTENDS Integers, FiniteSets

CONSTANTS
    User,             \* accounts
    Session,          \* WebSocket sessions, each opened at most once
    Owner,            \* Owner[s]: the authenticated user of a session
    Capable,          \* sessions opened with the call capability
    Group,            \* group tokens
    CallId,           \* what a client calls a call: its callId and callType
    MediaE2ee,        \* the capability flags clients put in their frames
    Hangers,          \* sessions whose client sends HANGUP
    Droppers,         \* sessions that may end
    MayExpire,        \* calls may outlive MAX_CALL_LIFETIME_MILLIS
    MAX_PARTICIPANTS,
    MAX_INVITED,      \* the 256 of invite
    MAX_CALLS_PER_USER,
    MAX_ACTIVE_CALLS,
    MaxInstances,     \* bound of the model: calls ever started
    NoCall,           \* no entry for a group
    None              \* no session, no candidate

ASSUME OwnerAssumption == Owner \in [Session -> User]
ASSUME SetsAssumption ==
    /\ IsFiniteSet(Group) /\ IsFiniteSet(User)
    /\ Capable \subseteq Session /\ MediaE2ee \subseteq BOOLEAN
    /\ Hangers \subseteq Session /\ Droppers \subseteq Session
    /\ MayExpire \in BOOLEAN
ASSUME LimitAssumption ==
    /\ MAX_PARTICIPANTS \in Nat /\ MAX_PARTICIPANTS >= 2
    /\ MAX_INVITED \in Nat /\ MAX_INVITED >= MAX_PARTICIPANTS
    /\ MAX_CALLS_PER_USER \in Nat \ {0} /\ MAX_ACTIVE_CALLS \in Nat \ {0}
    /\ MaxInstances \in Nat

VARIABLES
    conn,       \* ConnectionManager.connections
    active,     \* active[g]: the call of group g, or None
    task,       \* task[s]: what the handler of a session is doing
    instances   \* instanceIds drawn so far are 1 .. instances

vars == <<conn, active, task, instances>>

\* startedAt is kept as far as it matters: whether the lifetime is over.
ActiveCall ==
    [groupId: Group, callId: CallId, coordinatorId: User,
     participants: SUBSET User, invitedParticipants: SUBSET User,
     joinedParticipants: SUBSET User, requiresMediaE2ee: BOOLEAN,
     mediaE2eeParticipants: SUBSET User, instanceId: Nat, expired: BOOLEAN]

ASSUME NoneAssumption == NoCall \notin ActiveCall /\ None \notin Session

----------------------------------------------------------------------------
(* The store *)

get(g) == IF active[g] # NoCall /\ active[g].expired THEN NoCall ELSE active[g]

\* The table after get(g), which drops the call of g if it is too old.
Got(g) == [active EXCEPT ![g] = get(g)]

purgeExpired == [g \in Group |-> get(g)]

Occupied(calls) == {g \in Group : calls[g] # NoCall}
CallsOf(calls, u) == {g \in Occupied(calls) : u \in calls[g].participants}
callsFor(calls, u) == Cardinality(CallsOf(calls, u))

\* Faulty variant: a coordinator who leaves is not kept on record.
removeParticipantVacant(g, u) ==
    IF get(g) = NoCall \/ u \notin get(g).participants
    THEN Got(g)
    ELSE [active EXCEPT ![g] =
            [get(g) EXCEPT !.participants = @ \ {u},
                           !.joinedParticipants = @ \ {u},
                           !.mediaE2eeParticipants = @ \ {u},
                           !.coordinatorId = IF @ = u THEN None ELSE @]]

removeParticipant(g, u) ==
    IF get(g) = NoCall \/ u \notin get(g).participants
    THEN Got(g)
    ELSE [active EXCEPT ![g] =
            [get(g) EXCEPT !.participants = @ \ {u},
                           !.joinedParticipants = @ \ {u},
                           !.mediaE2eeParticipants = @ \ {u}]]

\* Faulty variant: the call is ended whatever instance it is.
endCallAny(g, i) ==
    [active EXCEPT ![g] = NoCall]

\* end(groupId, expectedInstanceId)
endCall(g, i) ==
    IF active[g] # NoCall /\ active[g].instanceId = i
    THEN [active EXCEPT ![g] = NoCall]
    ELSE active

transferCoordinator(g, u, allowed) ==
    IF /\ get(g) # NoCall
       /\ get(g).coordinatorId # u
       /\ u \in get(g).joinedParticipants
       /\ u \in allowed
    THEN [active EXCEPT ![g] = [get(g) EXCEPT !.coordinatorId = u]]
    ELSE Got(g)

----------------------------------------------------------------------------
(* Handlers.  A hang-up and the clean-up of an ended session walk through  *)
(* the same steps: "leave" (take the next call), "refresh", "settle" and,  *)
(* when a new coordinator was picked, "transfer".                          *)

Steps == {"absent", "open", "evict", "leave", "refresh", "settle",
          "transfer", "unlist", "gone"}

\* What a handler uses of the ActiveCall it read before it suspended.
Snapshot == [groupId: Group, coordinatorId: User, instanceId: Nat]

SnapshotOf(call) == [groupId |-> call.groupId, instanceId |-> call.instanceId,
                     coordinatorId |-> call.coordinatorId]

Task == [pc: Steps, closing: BOOLEAN, todo: SUBSET Snapshot,
         seen: Snapshot \union {NoCall}, remaining: SUBSET User,
         joined: SUBSET User, candidate: User \union {None}]

Idle(pc) == [pc |-> pc, closing |-> FALSE, todo |-> {}, seen |-> NoCall,
             remaining |-> {}, joined |-> {}, candidate |-> None]

\* The for loop over the affected calls; a hang-up is a loop over one.
Continue(t) ==
    IF t.todo # {} THEN [Idle("leave") EXCEPT !.closing = t.closing,
                                              !.todo = t.todo]
                   ELSE Idle(IF t.closing THEN "unlist" ELSE "open")

Init ==
    /\ conn = [u \in User |-> None]
    /\ active = [g \in Group |-> NoCall]
    /\ task = [s \in Session |-> Idle("absent")]
    /\ instances = 0

\* addConnection: a message-only session does not displace a capable one.
addConnection(s) ==
    LET u == Owner[s]
        refused == s \notin Capable /\ conn[u] \in Capable
    IN  /\ task[s].pc = "absent"
        /\ conn' = IF refused THEN conn ELSE [conn EXCEPT ![u] = s]
        /\ task' = [task EXCEPT ![s] = Idle(IF refused THEN "gone" ELSE "open")]
        /\ UNCHANGED <<active, instances>>

----------------------------------------------------------------------------
(* invite *)

NewCall(g, c, u, recipient, e2ee) ==
    [groupId |-> g, callId |-> c, coordinatorId |-> u,
     participants |-> {u, recipient}, invitedParticipants |-> {u, recipient},
     joinedParticipants |-> {u}, requiresMediaE2ee |-> e2ee,
     mediaE2eeParticipants |-> IF e2ee THEN {u} ELSE {},
     instanceId |-> instances + 1, expired |-> FALSE]

Started(g, c, u, recipient, e2ee) ==
    LET calls == purgeExpired
    IN  /\ calls[g] = NoCall
        /\ Cardinality(Occupied(calls)) < MAX_ACTIVE_CALLS
        /\ callsFor(calls, u) < MAX_CALLS_PER_USER
        /\ callsFor(calls, recipient) < MAX_CALLS_PER_USER

SameContext(call, c, coordinator) ==
    call.callId = c /\ call.coordinatorId = coordinator

Invited(g, c, u, recipient, e2ee) ==
    LET calls == purgeExpired
        current == calls[g]
    IN  /\ current # NoCall
        /\ SameContext(current, c, u) /\ current.requiresMediaE2ee = e2ee
        /\ recipient \notin current.participants
        /\ Cardinality(current.participants) < MAX_PARTICIPANTS
        /\ \/ recipient \in current.invitedParticipants
           \/ Cardinality(current.invitedParticipants) < MAX_INVITED
        /\ callsFor(calls, recipient) < MAX_CALLS_PER_USER

InvitedWith(call, recipient) ==
    [call EXCEPT !.participants = @ \union {recipient},
                 !.invitedParticipants = @ \union {recipient}]

invite(s, g, c, recipient, e2ee) ==
    LET u == Owner[s]
        calls == purgeExpired
    IN  /\ task[s].pc = "open" /\ recipient # u
        /\ \/ /\ Started(g, c, u, recipient, e2ee)
              /\ instances < MaxInstances
              /\ active' = [calls EXCEPT ![g] = NewCall(g, c, u, recipient, e2ee)]
              /\ instances' = instances + 1
           \/ /\ Invited(g, c, u, recipient, e2ee)
              /\ active' = [calls EXCEPT ![g] = InvitedWith(calls[g], recipient)]
              /\ UNCHANGED instances
           \/ /\ ~Started(g, c, u, recipient, e2ee)
              /\ ~Invited(g, c, u, recipient, e2ee)
              /\ active' = calls
              /\ UNCHANGED instances
        /\ UNCHANGED <<conn, task>>

----------------------------------------------------------------------------
(* confirmJoin.  The coordinator named in the frame is not the sender. *)

JoinedWith(call, u, e2ee) ==
    [call EXCEPT !.participants = @ \union {u},
                 !.joinedParticipants = @ \union {u},
                 !.mediaE2eeParticipants = IF e2ee THEN @ \union {u} ELSE @ \ {u}]

\* Faulty variant: a re-join does not count the user's calls.
MayJoinUncounted(g, c, coordinator, u) ==
    /\ get(g) # NoCall
    /\ SameContext(get(g), c, coordinator)
    /\ u \in get(g).invitedParticipants
    /\ u \notin get(g).participants =>
          Cardinality(get(g).participants) < MAX_PARTICIPANTS

MayJoin(g, c, coordinator, u) ==
    /\ get(g) # NoCall
    /\ SameContext(get(g), c, coordinator)
    /\ u \in get(g).invitedParticipants
    /\ u \notin get(g).participants =>
          /\ Cardinality(get(g).participants) < MAX_PARTICIPANTS
          /\ callsFor(Got(g), u) < MAX_CALLS_PER_USER

EncryptionRequired(g, e2ee) == ~e2ee /\ get(g).requiresMediaE2ee

\* Faulty variant: a join that does not declare encryption is let in.
confirmJoinUnencrypted(s, g, c, coordinator, e2ee) ==
    /\ task[s].pc = "open" /\ coordinator # Owner[s]
    /\ MayJoin(g, c, coordinator, Owner[s])
    /\ active' = [active EXCEPT ![g] = JoinedWith(get(g), Owner[s], e2ee)]
    /\ UNCHANGED <<conn, instances, task>>

confirmJoin(s, g, c, coordinator, e2ee) ==
    LET u == Owner[s]
    IN  /\ task[s].pc = "open" /\ coordinator # u
        /\ \/ /\ MayJoin(g, c, coordinator, u) /\ ~EncryptionRequired(g, e2ee)
              /\ active' = [active EXCEPT ![g] = JoinedWith(get(g), u, e2ee)]
              /\ UNCHANGED task
           \/ /\ MayJoin(g, c, coordinator, u) /\ EncryptionRequired(g, e2ee)
              /\ active' = Got(g)
              /\ task' = [task EXCEPT ![s] = [Idle("evict") EXCEPT !.seen = SnapshotOf(get(g))]]
           \/ /\ ~MayJoin(g, c, coordinator, u)
              /\ active' = Got(g)
              /\ UNCHANGED task
        /\ UNCHANGED <<conn, instances>>

\* handleGroupCallSignal, once the error frame is sent: the sender is out.
evict(s) ==
    /\ task[s].pc = "evict"
    /\ active' = removeParticipant(task[s].seen.groupId, Owner[s])
    /\ task' = [task EXCEPT ![s] = Idle("open")]
    /\ UNCHANGED <<conn, instances>>

----------------------------------------------------------------------------
(* Leaving *)

hangUp(s, g) ==
    /\ s \in Hangers /\ task[s].pc = "open"
    /\ get(g) # NoCall /\ Owner[s] \in get(g).participants
    /\ active' = Got(g)
    /\ task' = [task EXCEPT ![s] = [Idle("leave") EXCEPT !.todo = {SnapshotOf(get(g))}]]
    /\ UNCHANGED <<conn, instances>>

AffectedCalls(u) ==
    LET calls == purgeExpired
        Affected(g) == u \in calls[g].participants \/ calls[g].coordinatorId = u
    IN  {SnapshotOf(calls[g]) : g \in {h \in Occupied(calls) : Affected(h)}}

\* The finally block: only a capable session still in the map cleans up.
close(s) ==
    LET u == Owner[s]
        cleans == s \in Capable /\ conn[u] = s
    IN  /\ s \in Droppers /\ task[s].pc = "open"
        /\ active' = IF cleans THEN purgeExpired ELSE active
        /\ task' = [task EXCEPT ![s] =
              Continue([Idle("leave") EXCEPT !.closing = TRUE,
                            !.todo = IF cleans THEN AffectedCalls(u) ELSE {}])]
        /\ UNCHANGED <<conn, instances>>

\* removeParticipant: on whatever call the group has by now.
leave(s) ==
    /\ task[s].pc = "leave"
    /\ \E call \in task[s].todo :
          /\ active' = removeParticipant(call.groupId, Owner[s])
          /\ task' = [task EXCEPT ![s].pc = "refresh", ![s].seen = call,
                                  ![s].todo = @ \ {call}]
    /\ UNCHANGED <<conn, instances>>

Refreshed(s, call) ==
    [task[s] EXCEPT !.pc = "settle",
        !.remaining = IF call = NoCall THEN {} ELSE call.participants \ {Owner[s]},
        !.joined = IF call = NoCall THEN {}
                                    ELSE call.joinedParticipants \ {Owner[s]}]

\* get, and the member_left frames to those who remain.
refresh(s) ==
    LET g == task[s].seen.groupId
    IN  /\ task[s].pc = "refresh"
        /\ active' = Got(g)
        /\ task' = [task EXCEPT ![s] = Refreshed(s, get(g))]
        /\ UNCHANGED <<conn, instances>>

Online == {u \in User : conn[u] # None}
Candidates(s) == task[s].joined \intersect Online
CoordinatorLeft(s) == task[s].seen.coordinatorId = Owner[s]
Empty(s) == Cardinality(task[s].remaining) <= 1

\* Faulty variant: a call is over only when nobody is left.
settleNobody(s) ==
    /\ task[s].pc = "settle"
    /\ \/ /\ task[s].remaining = {} \/ (CoordinatorLeft(s) /\ Candidates(s) = {})
          /\ active' = endCall(task[s].seen.groupId, task[s].seen.instanceId)
          /\ task' = [task EXCEPT ![s] = Continue(task[s])]
       \/ /\ task[s].remaining # {} /\ CoordinatorLeft(s)
          /\ \E u \in Candidates(s) :
                task' = [task EXCEPT ![s].pc = "transfer", ![s].candidate = u]
          /\ UNCHANGED active
       \/ /\ task[s].remaining # {} /\ ~CoordinatorLeft(s)
          /\ task' = [task EXCEPT ![s] = Continue(task[s])]
          /\ UNCHANGED active
    /\ UNCHANGED <<conn, instances>>

\* The first joined member still connected takes over; participants keep
\* their order in the code, here any of them may be the first.
settle(s) ==
    /\ task[s].pc = "settle"
    /\ \/ /\ Empty(s) \/ (CoordinatorLeft(s) /\ Candidates(s) = {})
          /\ active' = endCall(task[s].seen.groupId, task[s].seen.instanceId)
          /\ task' = [task EXCEPT ![s] = Continue(task[s])]
       \/ /\ ~Empty(s) /\ CoordinatorLeft(s)
          /\ \E u \in Candidates(s) :
                task' = [task EXCEPT ![s].pc = "transfer", ![s].candidate = u]
          /\ UNCHANGED active
       \/ /\ ~Empty(s) /\ ~CoordinatorLeft(s)
          /\ task' = [task EXCEPT ![s] = Continue(task[s])]
          /\ UNCHANGED active
    /\ UNCHANGED <<conn, instances>>

\* A HANGUP passes no onlineFilter, the clean-up does.
transfer(s) ==
    /\ task[s].pc = "transfer"
    /\ active' = transferCoordinator(task[s].seen.groupId, task[s].candidate,
                                     IF task[s].closing THEN Online ELSE User)
    /\ task' = [task EXCEPT ![s] = Continue(task[s])]
    /\ UNCHANGED <<conn, instances>>

removeConnection(s) ==
    /\ task[s].pc = "unlist"
    /\ conn' = [conn EXCEPT ![Owner[s]] = IF @ = s THEN None ELSE @]
    /\ task' = [task EXCEPT ![s] = Idle("gone")]
    /\ UNCHANGED <<active, instances>>

----------------------------------------------------------------------------
(* Time *)

age(g) ==
    /\ MayExpire /\ active[g] # NoCall /\ ~active[g].expired
    /\ active' = [active EXCEPT ![g].expired = TRUE]
    /\ UNCHANGED <<conn, task, instances>>

\* The 30 s worker.
purge ==
    /\ active' = purgeExpired
    /\ UNCHANGED <<conn, task, instances>>

Frame(s) ==
    \/ \E g \in Group, c \in CallId, u \in User, m \in MediaE2ee :
          invite(s, g, c, u, m) \/ confirmJoin(s, g, c, u, m)
    \/ \E g \in Group : hangUp(s, g)

Handler(s) ==
    \/ evict(s) \/ leave(s) \/ refresh(s) \/ settle(s) \/ transfer(s)
    \/ removeConnection(s)

Next ==
    \/ \E s \in Session : addConnection(s) \/ Frame(s) \/ close(s) \/ Handler(s)
    \/ \E g \in Group : age(g)
    \/ purge

Spec == Init /\ [][Next]_vars

----------------------------------------------------------------------------
(* Properties *)

\* Every variable has its type.
TypeOK ==
    /\ conn \in [User -> Session \union {None}]
    /\ active \in [Group -> ActiveCall \union {NoCall}]
    /\ task \in [Session -> Task]
    /\ instances \in 0 .. MaxInstances

WithinLimits(calls) ==
    /\ \A g \in Occupied(calls) :
          Cardinality(calls[g].participants) <= MAX_PARTICIPANTS
    /\ \A u \in User : callsFor(calls, u) <= MAX_CALLS_PER_USER
    /\ Cardinality(Occupied(calls)) <= MAX_ACTIVE_CALLS

\* MAX_PARTICIPANTS, MAX_CALLS_PER_USER and MAX_ACTIVE_CALLS hold however
\* invitations, joins and re-joins of members who had left are interleaved.
CapacityKept == WithinLimits(active)

ProperlyAdmitted(call) ==
    /\ call.participants \subseteq call.invitedParticipants
    /\ call.joinedParticipants \subseteq call.participants
    /\ call.mediaE2eeParticipants \subseteq call.joinedParticipants
    /\ call.requiresMediaE2ee =>
          call.joinedParticipants \subseteq call.mediaE2eeParticipants

\* Nobody is in a call without having been invited to it, and in a call whose
\* first invitation asked for media encryption everybody who has joined has
\* declared it (confirmJoin, ActiveCall.mediaEndToEndEncrypted).
EncryptedAndInvited == \A g \in Occupied(active) : ProperlyAdmitted(active[g])

\* Handlers that still have work to do on the calls they saw.
Leaving == {s \in Session : task[s].pc \in
              {"evict", "leave", "refresh", "settle", "transfer"}}

\* "1 kisi kalmasi pratik olarak bos call demek": once nobody is in the middle
\* of leaving, no call with fewer than two participants is left over
\* (handleUserDisconnectFromGroupCalls, HANGUP).  It is stated while the first
\* call is the only one: a handler that crosses into the next call of its
\* group takes a member out of it and ends nothing.  And it is stated for calls
\* that refuse nobody: a join refused for the lack of media encryption takes
\* the sender out without the hang-up's follow-up (handleGroupCallSignal), and
\* leaves whoever remains in the call.
RefusesNobody(call) == call.requiresMediaE2ee => FALSE \notin MediaE2ee
NoLoneCall ==
    instances <= 1 /\ Leaving = {} =>
        \A g \in Occupied(active) :
            RefusesNobody(active[g]) => Cardinality(active[g].participants) >= 2

\* "Kalan online uye varsa koordinatorluk ona devredilir": once nobody is in
\* the middle of leaving, a call with a joined member online is coordinated by
\* a joined member, so that somebody can let others in.
CoordinatorJoined ==
    Leaving = {} => \A g \in Occupied(active) :
        active[g].joinedParticipants \intersect Online # {} =>
            active[g].coordinatorId \in active[g].joinedParticipants

\* A handler that ends a call ends the one it saw, never a later call of the
\* same group, and the coordinator it appoints has joined (end,
\* transferCoordinator).
ActsOnItsCall ==
    [][\A g \in Occupied(active), s \in Session :
          task'[s] # task[s] /\ task[s].pc \in {"settle", "transfer"} =>
             /\ active'[g] = NoCall /\ ~active[g].expired =>
                   active[g].instanceId = task[s].seen.instanceId
             /\ active'[g] # NoCall
                   /\ active'[g].coordinatorId # active[g].coordinatorId =>
                   active'[g].coordinatorId \in active'[g].joinedParticipants]_vars
=============================================================================
