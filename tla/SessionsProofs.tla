---------------------------- MODULE SessionsProofs ----------------------------
(***************************************************************************)
(* Proofs about Sessions for any users, sessions and limits: types, that   *)
(* no frame vanishes, what a drain may leave behind, that a call that was  *)
(* ended does not ring again, and that presence is what was asked for.     *)
(***************************************************************************)
EXTENDS Sessions, SequenceTheorems, TLAPS

\* A handler holds a frame from Take to the end of routing it.
Routing == {"list", "purge", "lookup", "send", "queue"}

\* What a task must have before its step: TypeOK alone allows anything.
Ready(s) ==
    /\ task[s].pc \in Routing => task[s].frame # 0
    /\ task[s].pc \notin Routing => task[s].frame = 0
    /\ task[s].pc \in {"drain", "unqueue"} =>
          \A i \in ToSet(task[s].todo) : i \in DOMAIN sent /\ sent[i].to = Owner[s]
    /\ task[s].pc = "unqueue" => task[s].todo # <<>> /\ Head(task[s].todo) \in written
    /\ task[s].pc = "purge" => ToSet(task[s].todo) \subseteq DOMAIN sent
    /\ task[s].pc \in {"list", "purge"} => task[s].plan # <<>>
    /\ task[s].pc = "replace" => task[s].session # None
    /\ task[s].due \subseteq DOMAIN sent
    /\ task[s].pc \in {"add", "dropKey"} /\ task[s].attached => subscribers[task[s].target] # None
    /\ task[s].pc = "new" => ~task[s].drained
AllReady == \A s \in Socket : Ready(s)

\* A frame is in one place: one hand, or one queue of its own kind, once.
OneHand == \A s, x \in Socket : task[s].frame # 0 /\ task[s].frame = task[x].frame => s = x
NotBoth == \A s \in Socket, u \in User : task[s].frame \notin Queued(u)
Once(q) == \A j, k \in DOMAIN q : q[j] = q[k] => j = k
Sorted == \A u \in User, b \in Bucket :
             Once(queue[u][b]) /\ \A i \in ToSet(queue[u][b]) : BucketOf(i) = b

\* A frame queued although the recipient is there could not be written to it.
Refused == \A s \in Socket : task[s].pc = "queue" /\ task[s].session # None =>
              \/ link[task[s].session] = "closed"
              \/ LeftForCalls(task[s].session, task[s].frame)

\* What the drain of s is done with in a bucket, up to the frames not in rest.
Swept(s, b, rest) ==
    \A i \in ToSet(queue[Owner[s]][b]) : i \in raced \/ LeftForCalls(s, i) \/ i \in rest
Progress(s) ==
    /\ task[s].drained => Swept(s, "message", {}) /\ Swept(s, "file", {})
    /\ task[s].pc \in {"drain", "unqueue"} =>
          Swept(s, Buckets[task[s].bucket], ToSet(task[s].todo))
    /\ task[s].pc \in {"fetch", "drain", "unqueue"} /\ task[s].bucket = 2 =>
          Swept(s, "message", {})
Draining ==
    /\ \A s \in Socket : connections[Owner[s]] = s /\ link[s] # "closed" => Progress(s)
    /\ \A s \in Socket : task[s].pc \in {"new", "replace"} => task[s].bucket = 1

\* A frame that is in nobody's hands never gets into a queue again.
AtRest(i) == ~InHands(i) /\ i \in DOMAIN sent /\ sent[i].type = "sdp_offer"
\* The purge still to come, or under way, that removes i.
Doomed(s, i) ==
    \E k \in DOMAIN task[s].plan :
        /\ task[s].plan[k] = <<sent[i].to, sent[i].from>>
        /\ k > 1 \/ task[s].pc = "list" \/ i \in ToSet(task[s].todo)
\* The offers due to a purge are at rest, and a purge that is under way without
\* a failure has them off the queues or still to come.
Cancels(s) == task[s].pc \in {"list", "purge"} /\ task[s].clean
Due(s) ==
    \A i \in task[s].due : /\ AtRest(i)
                           /\ Cancels(s) => i \notin Queued(sent[i].to) \/ Doomed(s, i)
Cancelling == (\A s \in Socket : Due(s)) /\ \A i \in cancelled : AtRest(i)

\* Requests about a target that overlap are recorded as crossed, and so are
\* those of a user during a clean-up of its own.
Nothing == [online |-> FALSE, targets |-> {}]
Apart == \A t \in User : Contested(t, "add") /\ Contested(t, "dropKey") => t \in crossed
\* What a request about an uncrossed target found is still so.
Found == \A s \in Socket : task[s].target \notin crossed =>
            /\ task[s].pc = "add" => task[s].attached
            /\ task[s].pc = "dropKey" /\ task[s].attached => subscribers[task[s].target] = {}
\* A user whose session is being cleaned up has asked for nothing since.
Quiet == \A u \in User \ crossed : Ending(u) => want[u] = Nothing
Hidden == \A s \in Socket : task[s].pc = "cleanup" /\ Owner[s] \notin crossed => Owner[s] \notin foreground
Presence == Apart /\ Found /\ Quiet /\ Hidden /\ PresenceKept

-----------------------------------------------------------------------------
(* Sequences.                                                              *)

LEMMA RemovedIs ==
    ASSUME NEW S, NEW q \in Seq(S), NEW i
    PROVE  /\ Removed(q, i) \in Seq(S)
           /\ \A j \in ToSet(Removed(q, i)) : j \in ToSet(q)
           /\ \A j \in ToSet(q) : j = i \/ j \in ToSet(Removed(q, i))
           /\ Once(q) => Once(Removed(q, i)) /\ i \notin ToSet(Removed(q, i))
<1>1. CASE i \notin ToSet(q)
  BY <1>1 DEF Removed
<1>2. CASE i \in ToSet(q)
  <2> DEFINE k == CHOOSE k \in DOMAIN q : q[k] = i
             left == SubSeq(q, 1, k - 1)
             right == SubSeq(q, k + 1, Len(q))
             r == Removed(q, i)
  <2>1. r = left \o right
    BY <1>2 DEF Removed
  <2>2. k \in 1..Len(q) /\ Len(q) \in Nat /\ q[k] = i
    BY <1>2 DEF ToSet
  <2> HIDE DEF k
  <2>3. left \in Seq(S) /\ Len(left) = k - 1 /\ \A n \in 1..Len(left) : left[n] = q[n]
    BY <2>2
  <2>4. right \in Seq(S) /\ Len(right) = Len(q) - k
        /\ \A n \in 1..Len(right) : right[n] = q[k + n]
    BY <2>2
  <2> HIDE DEF left, right, r
  <2>5. r \in Seq(S) /\ Len(r) = Len(left) + Len(right)
    <3>1. ASSUME NEW a \in Seq(S), NEW b \in Seq(S)
          PROVE  a \o b \in Seq(S) /\ Len(a \o b) = Len(a) + Len(b)
      OBVIOUS
    <3> QED BY <3>1, <2>1, <2>3, <2>4
  <2>6. ASSUME NEW n \in 1..Len(r)
        PROVE  IF n < k THEN r[n] = q[n] ELSE r[n] = q[n + 1]
    <3>1. CASE n < k
      BY <3>1, <2>1, <2>2, <2>3, <2>4, <2>5
    <3>2. CASE n >= k
      <4>1. r[n] = right[n - Len(left)] /\ n - Len(left) \in 1..Len(right)
        BY <3>2, <2>1, <2>2, <2>3, <2>4, <2>5
      <4>2. r[n] = q[k + (n - Len(left))]
        BY <4>1, <2>4
      <4>3. k + (n - Len(left)) = n + 1
        BY <2>2, <2>3
      <4> QED BY <3>2, <4>2, <4>3, <2>2
    <3> QED BY <3>1, <3>2, <2>2
  <2>7. Len(r) = Len(q) - 1 /\ DOMAIN r = 1..Len(r) /\ DOMAIN q = 1..Len(q)
    BY <2>2, <2>3, <2>4, <2>5
  <2>8. ASSUME NEW j \in ToSet(r) PROVE j \in ToSet(q)
    <3>1. PICK n \in 1..Len(r) : r[n] = j
      BY <2>7 DEF ToSet
    <3> QED BY <3>1, <2>2, <2>6, <2>7 DEF ToSet
  <2>9. ASSUME NEW j \in ToSet(q), j # i PROVE j \in ToSet(r)
    <3>1. PICK n \in 1..Len(q) : q[n] = j
      BY <2>7 DEF ToSet
    <3>2. CASE n < k
      BY <3>1, <3>2, <2>2, <2>6, <2>7 DEF ToSet
    <3>3. CASE n > k
      <4>1. n - 1 \in 1..Len(r) /\ r[n - 1] = q[n]
        BY <3>3, <2>2, <2>6, <2>7
      <4> QED BY <4>1, <3>1, <2>7 DEF ToSet
    <3> QED BY <3>1, <3>2, <3>3, <2>2, <2>9
  <2>10. ASSUME Once(q) PROVE Once(r) /\ i \notin ToSet(r)
    <3>1. \A a, b \in 1..Len(q) : q[a] = q[b] => a = b
      BY <2>10, <2>7 DEF Once
    <3>2. \A a, b \in 1..Len(r) : r[a] = r[b] => a = b
      <4> SUFFICES ASSUME NEW a \in 1..Len(r), NEW b \in 1..Len(r), r[a] = r[b] PROVE a = b
        OBVIOUS
      <4> DEFINE x == IF a < k THEN a ELSE a + 1
                 y == IF b < k THEN b ELSE b + 1
      <4>1. x \in 1..Len(q) /\ y \in 1..Len(q) /\ q[x] = r[a] /\ q[y] = r[b]
        BY <2>2, <2>6, <2>7
      <4>2. x = y
        BY <4>1, <3>1
      <4> QED BY <4>2, <2>2
    <3>3. \A a \in 1..Len(r) : r[a] # i
      BY <3>1, <2>2, <2>6, <2>7
    <3> QED BY <3>2, <3>3, <2>7 DEF Once, ToSet
  <2> QED BY <2>5, <2>8, <2>9, <2>10 DEF r
<1> QED BY <1>1, <1>2

LEMMA HeadTail ==
    ASSUME NEW S, NEW q \in Seq(S), q # <<>>
    PROVE  /\ Head(q) \in S /\ Head(q) \in ToSet(q) /\ Tail(q) \in Seq(S)
           /\ \A j \in ToSet(Tail(q)) : j \in ToSet(q)
           /\ \A j \in ToSet(q) : j = Head(q) \/ j \in ToSet(Tail(q))
<1>1. Len(q) \in Nat /\ Len(q) > 0 /\ DOMAIN q = 1..Len(q)
  OBVIOUS
<1>2. Head(q) = q[1] /\ Head(q) \in S /\ Tail(q) \in Seq(S) /\ Len(Tail(q)) = Len(q) - 1
      /\ DOMAIN Tail(q) = 1..(Len(q) - 1)
  BY <1>1
<1>3. \A n \in 1..(Len(q) - 1) : Tail(q)[n] = q[n + 1]
  BY <1>1
<1>4. ASSUME NEW j \in ToSet(q), j # Head(q) PROVE j \in ToSet(Tail(q))
  <2>1. PICK n \in 1..Len(q) : q[n] = j
    BY <1>1 DEF ToSet
  <2>2. n - 1 \in 1..(Len(q) - 1) /\ (n - 1) + 1 = n
    BY <2>1, <1>1, <1>2, <1>4
  <2>3. Tail(q)[n - 1] = j /\ n - 1 \in DOMAIN Tail(q)
    BY <2>1, <2>2, <1>2, <1>3
  <2> QED BY <2>3 DEF ToSet
<1>5. ASSUME NEW j \in ToSet(Tail(q)) PROVE j \in ToSet(q)
  BY <1>1, <1>2, <1>3 DEF ToSet
<1> QED BY <1>1, <1>2, <1>4, <1>5 DEF ToSet

LEMMA ToSetOf ==
    ASSUME NEW S, NEW q \in Seq(S)
    PROVE  ToSet(q) \subseteq S /\ (q = <<>> <=> ToSet(q) = {})
<1>1. Len(q) \in Nat /\ DOMAIN q = 1..Len(q)
  OBVIOUS
<1>2. ToSet(q) \subseteq S
  BY <1>1 DEF ToSet
<1>3. q # <<>> => 1 \in DOMAIN q
  BY <1>1
<1>4. q # <<>> => q[1] \in ToSet(q)
  BY <1>3 DEF ToSet
<1>5. q = <<>> => DOMAIN q = {}
  BY <1>1
<1>6. q = <<>> => ToSet(q) = {}
  BY <1>5 DEF ToSet
<1> QED BY <1>2, <1>4, <1>6

LEMMA Appended ==
    ASSUME NEW S, NEW q \in Seq(S), NEW i \in S
    PROVE  /\ Append(q, i) \in Seq(S)
           /\ \A j \in ToSet(Append(q, i)) : j \in ToSet(q) \/ j = i
           /\ \A j \in ToSet(q) : j \in ToSet(Append(q, i))
           /\ i \in ToSet(Append(q, i))
           /\ Once(q) /\ i \notin ToSet(q) => Once(Append(q, i))
<1> DEFINE r == Append(q, i)
<1>1. Len(q) \in Nat /\ DOMAIN q = 1..Len(q)
  OBVIOUS
<1>2. r \in Seq(S) /\ Len(r) = Len(q) + 1 /\ DOMAIN r = 1..(Len(q) + 1) /\ r[Len(q) + 1] = i
      /\ \A n \in 1..Len(q) : r[n] = q[n]
  BY <1>1
<1> HIDE DEF r
<1>3. (\A j \in ToSet(r) : j \in ToSet(q) \/ j = i) /\ (\A j \in ToSet(q) : j \in ToSet(r))
      /\ i \in ToSet(r)
  BY <1>1, <1>2 DEF ToSet
<1>4. ASSUME Once(q), i \notin ToSet(q) PROVE Once(r)
  BY <1>1, <1>2, <1>4 DEF ToSet, Once
<1> QED BY <1>2, <1>3, <1>4 DEF r

LEMMA Limits ==
    ASSUME NEW S, NEW q \in Seq(S)
    PROVE  /\ Kept(q) \in Seq(S)
           /\ \A j \in ToSet(Kept(q)) : j \in ToSet(q)
           /\ \A j \in ToSet(Trimmed(q)) : j \in ToSet(q)
           /\ \A j \in ToSet(q) : j \in ToSet(Kept(q)) \/ j \in ToSet(Trimmed(q))
           /\ Once(q) => Once(Kept(q))
<1> DEFINE n == IF Len(q) >= OFFLINE_QUEUE_MAX_MESSAGES THEN Len(q) - OFFLINE_QUEUE_MAX_MESSAGES ELSE 0
           t == Trimmed(q)
           r == Kept(q)
<1>1. Len(q) \in Nat /\ DOMAIN q = 1..Len(q)
  OBVIOUS
<1>2. n \in 0..Len(q)
  BY <1>1, LimitAssumption
<1>3. Len(t) = n /\ DOMAIN t = 1..n /\ \A a \in 1..n : t[a] = q[a]
  <2>1. Len(q) - OFFLINE_QUEUE_MAX_MESSAGES \in Int /\ 1 \in Int
        /\ \A a \in 1..(Len(q) - OFFLINE_QUEUE_MAX_MESSAGES) : q[a] \in S
    BY <1>1, LimitAssumption
  <2>2. Len(t) = n /\ t \in Seq(S)
        /\ \A a \in 1..(Len(q) - OFFLINE_QUEUE_MAX_MESSAGES - 1 + 1) : t[a] = q[1 + a - 1]
    BY <2>1, <1>1, SubSeqProperties, LimitAssumption DEF Trimmed
  <2>3. \A a \in 1..n : a \in 1..(Len(q) - OFFLINE_QUEUE_MAX_MESSAGES - 1 + 1) /\ 1 + a - 1 = a
    BY <1>1, LimitAssumption
  <2> QED BY <2>2, <2>3
<1>4. r = SubSeq(q, n + 1, Len(q))
  BY <1>3 DEF Kept
<1> HIDE DEF n, t, r
<1>5. r \in Seq(S) /\ Len(r) = Len(q) - n /\ DOMAIN r = 1..(Len(q) - n)
      /\ \A a \in 1..(Len(q) - n) : r[a] = q[n + a]
  BY <1>1, <1>2, <1>4
<1>6. ASSUME NEW j \in ToSet(q) PROVE j \in ToSet(r) \/ j \in ToSet(t)
  <2>1. PICK a \in 1..Len(q) : q[a] = j
    BY <1>1 DEF ToSet
  <2>2. CASE a <= n
    BY <2>1, <2>2, <1>2, <1>3 DEF ToSet
  <2>3. CASE a > n
    <3>1. a - n \in 1..(Len(q) - n) /\ r[a - n] = q[n + (a - n)]
      BY <2>1, <2>3, <1>1, <1>2, <1>5
    <3>2. n + (a - n) = a
      BY <1>2, <2>1
    <3> QED BY <3>1, <3>2, <2>1, <1>5 DEF ToSet
  <2> QED BY <2>1, <2>2, <2>3, <1>2
<1>7. \A j \in ToSet(t) : j \in ToSet(q)
  BY <1>1, <1>2, <1>3 DEF ToSet
<1>8. \A a \in 1..(Len(q) - n) : n + a \in 1..Len(q)
  BY <1>1, <1>2
<1>9. \A j \in ToSet(r) : j \in ToSet(q)
  BY <1>1, <1>5, <1>8 DEF ToSet
<1>10. ASSUME Once(q) PROVE Once(r)
  <2> SUFFICES ASSUME NEW a \in 1..(Len(q) - n), NEW b \in 1..(Len(q) - n), r[a] = r[b] PROVE a = b
    BY <1>5 DEF Once
  <2>1. n + a = n + b
    BY <1>10, <1>1, <1>5, <1>8 DEF Once
  <2> QED BY <2>1, <1>2
<1> QED BY <1>5, <1>6, <1>7, <1>9, <1>10 DEF r, t

-----------------------------------------------------------------------------
(* Which steps touch what.                                                 *)

DrainStep(s) ==
    \/ Connect(s) \/ ClosePrevious(s) \/ Fetch(s) \/ Discard(s) \/ Leave(s)
    \/ Deliver(s) \/ Unqueue(s) \/ Drained(s) \/ DrainFails(s)
FrameStep(s) ==
    \/ \E type \in Type, to \in User : Take(s, type, to)
    \/ ListSignals(s) \/ RemoveSignal(s) \/ KeepSignal(s) \/ PurgeFails(s) \/ PurgeDone(s)
    \/ Lookup(s) \/ Send(s) \/ Queue(s)
PresenceStep(s) ==
    \/ \E isOnline \in BOOLEAN : handlePresenceUpdate(s, isOnline)
    \/ \E t \in User : Subscribe(s, t) \/ Unsubscribe(s, t)
    \/ Add(s) \/ DropKey(s)
EndStep(s) == End(s) \/ RemoveConnection(s) \/ Forget(s) \/ cleanupSubscriptions(s)

LEMMA DrainLeaves ==
    ASSUME NEW s, DrainStep(s)
    PROVE  UNCHANGED <<presence, sent, old, spoiled, raced, cancelled>> /\ written \subseteq written'
           /\ dropped \subseteq dropped'
<1>1. CASE Connect(s) \/ ClosePrevious(s)
  BY <1>1 DEF Connect, ClosePrevious, frames
<1>2. CASE Fetch(s) \/ Leave(s) \/ Drained(s) \/ DrainFails(s)
  BY <1>2 DEF Fetch, Leave, Drained, DrainFails, frames
<1>3. CASE Discard(s) \/ Deliver(s) \/ Unqueue(s)
  BY <1>3 DEF Discard, Deliver, Unqueue
<1> QED BY <1>1, <1>2, <1>3 DEF DrainStep

LEMMA FrameLeaves ==
    ASSUME NEW s, FrameStep(s)
    PROVE  UNCHANGED <<presence, connections, link, old, spoiled>> /\ written \subseteq written'
           /\ dropped \subseteq dropped' /\ raced \subseteq raced' /\ cancelled \subseteq cancelled'
<1>1. CASE \E type \in Type, to \in User : Take(s, type, to)
  BY <1>1 DEF Take
<1>2. CASE ListSignals(s) \/ RemoveSignal(s) \/ KeepSignal(s) \/ PurgeFails(s) \/ PurgeDone(s)
  BY <1>2 DEF ListSignals, RemoveSignal, KeepSignal, PurgeFails, PurgeDone, frames
<1>3. CASE Lookup(s) \/ Send(s) \/ Queue(s)
  BY <1>3 DEF Lookup, Send, Queue, frames
<1> QED BY <1>1, <1>2, <1>3 DEF FrameStep

LEMMA PresenceLeaves ==
    ASSUME NEW s, PresenceStep(s) PROVE UNCHANGED <<connections, link, frames>>
BY DEF PresenceStep, handlePresenceUpdate, Subscribe, Unsubscribe, Add, DropKey

LEMMA EndLeaves ==
    ASSUME NEW s, EndStep(s) PROVE UNCHANGED frames
BY DEF EndStep, End, RemoveConnection, Forget, cleanupSubscriptions, presence

LEMMA Kinds ==
    Next => \/ \E s \in Socket : DrainStep(s) \/ FrameStep(s) \/ PresenceStep(s) \/ EndStep(s) \/ Lose(s)
            \/ \E i \in DOMAIN sent : Age(i) \/ Spoil(i)
            \/ \E u \in User, b \in Bucket : Expire(u, b)
            \/ Restart
BY DEF Next, Session, DrainStep, FrameStep, PresenceStep, EndStep

-----------------------------------------------------------------------------
(* Types, and what each step finds.                                        *)

LEMMA IdleTyped ==
    ASSUME NEW s \in Socket, NEW d \in BOOLEAN
    PROVE  /\ Idle(s, d) \in Task /\ Idle(s, d).pc = "open" /\ Idle(s, d).frame = 0
           /\ Idle(s, d).due = {} /\ Idle(s, d).drained = d
           /\ Idle(s, d).todo = <<>> /\ Idle(s, d).attached /\ Idle(s, d).target = Owner[s]
           /\ \A pc \in Steps : [Idle(s, d) EXCEPT !.pc = pc] \in Task
<1>1. Owner[s] \in User /\ "open" \in Steps
  BY OwnerAssumption DEF Steps
<1>2. <<>> \in Seq(Nat) /\ <<>> \in Seq(User \X User)
  OBVIOUS
<1>3. Idle(s, d) \in Task
  BY <1>1, <1>2 DEF Idle, Task
<1>4. \A pc \in Steps : [Idle(s, d) EXCEPT !.pc = pc] \in Task
  BY <1>3 DEF Task
<1> QED BY <1>3, <1>4 DEF Idle

LEMMA BucketsAre ==
    /\ Len(Buckets) = 2 /\ Buckets[1] = "message" /\ Buckets[2] = "file"
    /\ \A n \in {1, 2} : Buckets[n] \in Bucket
BY DEF Buckets, Bucket

LEMMA QueueSeq ==
    ASSUME TypeOK, NEW u \in User, NEW b \in Bucket
    PROVE  /\ queue[u][b] \in Seq(DOMAIN sent)
           /\ \A i \in ToSet(queue[u][b]) : i \in DOMAIN sent /\ sent[i].to = u /\ i \in Queued(u)
<1>1. queue[u][b] \in Seq(DOMAIN sent)
  BY DEF TypeOK
<1>2. ToSet(queue[u][b]) \subseteq DOMAIN sent
  BY <1>1, ToSetOf
<1>3. ToSet(queue[u][b]) \subseteq Queued(u)
  BY DEF Queued
<1> QED BY <1>1, <1>2, <1>3 DEF TypeOK

\* Frames are positions in sent, and keep what they are.
LEMMA SentIs ==
    ASSUME TypeOK
    PROVE  /\ DOMAIN sent = 1..Len(sent) /\ Len(sent) \in Nat
           /\ \A i \in DOMAIN sent : i \in Nat /\ sent[i] \in Frame
BY DEF TypeOK

\* A task that a step leaves alone stays ready.
LEMMA StaysReady ==
    ASSUME NEW s \in Socket, Ready(s), task'[s] = task[s],
           DOMAIN sent \subseteq DOMAIN sent', \A i \in DOMAIN sent : sent'[i] = sent[i],
           written \subseteq written',
           task[s].pc \in {"add", "dropKey"} /\ task[s].attached =>
              subscribers'[task[s].target] # None
    PROVE  Ready(s)'
BY DEF Ready

\* In these positions a task needs nothing but empty hands.
LEMMA Plain ==
    ASSUME NEW s \in Socket, task'[s].frame = 0, task'[s].due \subseteq DOMAIN sent',
           task'[s].pc \in {"fetch", "open", "remove", "forget", "cleanup", "gone"}
    PROVE  Ready(s)'
BY DEF Ready, Routing

LEMMA Moves ==
    ASSUME task \in [Socket -> Task], NEW s \in Socket, NEW t \in Task, task' = [task EXCEPT ![s] = t]
    PROVE  /\ task' \in [Socket -> Task] /\ task'[s] = t
           /\ \A x \in Socket \ {s} : task'[x] = task[x]
OBVIOUS

Only(s) == /\ task' \in [Socket -> Task]
           /\ \A x \in Socket \ {s} : task'[x] = task[x]

LEMMA DrainTask ==
    ASSUME TypeOK, AllReady, NEW s \in Socket, DrainStep(s)
    PROVE  /\ Only(s)
           /\ task'[s].frame = 0 /\ task'[s].due \subseteq task[s].due
           /\ task'[s].pc \in {"replace", "fetch", "drain", "unqueue", "open", "gone"}
           /\ Ready(s)'
<1>0. /\ task \in [Socket -> Task] /\ task[s] \in Task /\ Ready(s) /\ Owner[s] \in User
      /\ sent' = sent /\ written \subseteq written' /\ UNCHANGED subscribers
  BY DrainLeaves, OwnerAssumption DEF TypeOK, AllReady, presence
<1>1. task[s].pc \in {"new", "replace", "fetch", "drain", "unqueue"}
  BY DEF DrainStep, Connect, ClosePrevious, Fetch, Discard, Leave, Deliver, Unqueue, Drained, DrainFails
<1>2. task[s].frame = 0 /\ task[s].due \subseteq DOMAIN sent
  BY <1>0, <1>1 DEF Ready, Routing
<1>3. CASE Connect(s)
  <2> DEFINE u == Owner[s]
             current == connections[u]
             gone == [task[s] EXCEPT !.pc = "gone"]
             next == [task[s] EXCEPT !.pc = IF current = None THEN "fetch" ELSE "replace",
                                     !.session = current]
  <2>1. current \in Socket \cup {None}
    BY <1>0 DEF TypeOK
  <2>2. gone \in Task /\ next \in Task
    BY <2>1, <1>0 DEF Task, Steps
  <2>3. task' = [task EXCEPT ![s] = gone] \/ task' = [task EXCEPT ![s] = next]
    BY <1>3, <1>0 DEF Connect, To
  <2>4. Only(s) /\ (task'[s] = gone \/ task'[s] = next)
    BY <2>2, <2>3, <1>0, Moves DEF Only
  <2>5. /\ gone.pc = "gone" /\ gone.frame = 0 /\ gone.due = task[s].due
        /\ next.pc \in {"fetch", "replace"} /\ next.frame = 0 /\ next.due = task[s].due
        /\ next.pc = "replace" => next.session # None
    BY <1>0, <1>2 DEF Task
  <2> HIDE DEF gone, next
  <2>6. Ready(s)'
    BY <2>4, <2>5, <1>0, <1>2, Plain DEF Ready, Routing
  <2> QED BY <2>4, <2>5, <2>6
<1>4. CASE ClosePrevious(s)
  <2> DEFINE next == [task[s] EXCEPT !.pc = "fetch", !.session = None]
  <2>1. next \in Task /\ task' = [task EXCEPT ![s] = next]
    BY <1>4, <1>0 DEF ClosePrevious, Task, Steps
  <2>2. next.pc = "fetch" /\ next.frame = 0 /\ next.due = task[s].due
    BY <1>0, <1>2 DEF Task
  <2> HIDE DEF next
  <2> QED BY <2>1, <2>2, <1>0, <1>2, Moves, Plain DEF Only
<1>5. CASE Fetch(s)
  <2> DEFINE list == queue[Owner[s]][Buckets[task[s].bucket]]
             next == [task[s] EXCEPT !.pc = "drain", !.todo = list,
                                     !.stale = IF task[s].bucket = 1 THEN old ELSE @]
  <2>1. /\ Buckets[task[s].bucket] \in Bucket /\ list \in Seq(DOMAIN sent)
        /\ \A i \in ToSet(list) : i \in DOMAIN sent /\ sent[i].to = Owner[s]
    BY <1>0, BucketsAre, QueueSeq DEF Task
  <2>2. list \in Seq(Nat) /\ old \in SUBSET Nat
    BY <2>1, SentIs DEF TypeOK
  <2> HIDE DEF list
  <2>3. next \in Task /\ task' = [task EXCEPT ![s] = next]
    BY <1>5, <1>0, <2>2 DEF Fetch, list, Task, Steps
  <2>4. next.pc = "drain" /\ next.frame = 0 /\ next.due = task[s].due /\ next.todo = list
    BY <1>0, <1>2 DEF Task
  <2> HIDE DEF next
  <2>5. Only(s) /\ task'[s] = next
    BY <2>3, <1>0, Moves DEF Only
  <2> QED BY <2>1, <2>4, <2>5, <1>0, <1>2 DEF Ready, Routing
<1>6. CASE Discard(s) \/ Leave(s)
  <2> DEFINE next == [task[s] EXCEPT !.todo = Tail(@)]
  <2>1. task[s].pc = "drain" /\ task[s].todo # <<>> /\ task' = [task EXCEPT ![s] = next]
    BY <1>6, <1>0 DEF Discard, Leave
  <2>2. Tail(task[s].todo) \in Seq(Nat) /\ \A i \in ToSet(Tail(task[s].todo)) : i \in ToSet(task[s].todo)
    BY <2>1, <1>0, HeadTail DEF Task
  <2>3. next \in Task /\ next.pc = "drain" /\ next.frame = 0 /\ next.due = task[s].due
        /\ next.todo = Tail(task[s].todo)
    BY <2>1, <2>2, <1>0, <1>2 DEF Task
  <2> HIDE DEF next
  <2>4. Only(s) /\ task'[s] = next
    BY <2>1, <2>3, <1>0, Moves DEF Only
  <2> QED BY <2>1, <2>2, <2>3, <2>4, <1>0, <1>2 DEF Ready, Routing
<1>7. CASE Deliver(s)
  <2> DEFINE next == [task[s] EXCEPT !.pc = "unqueue"]
  <2>1. task[s].pc = "drain" /\ task[s].todo # <<>>
    BY <1>7 DEF Deliver
  <2>2. CASE task' = [task EXCEPT ![s] = next] /\ Head(task[s].todo) \in written'
    <3>1. next \in Task /\ next.pc = "unqueue" /\ next.frame = 0 /\ next.due = task[s].due
          /\ next.todo = task[s].todo
      BY <1>0, <1>2 DEF Task, Steps
    <3> HIDE DEF next
    <3>2. Only(s) /\ task'[s] = next
      BY <2>2, <3>1, <1>0, Moves DEF Only
    <3> QED BY <2>1, <2>2, <3>1, <3>2, <1>0, <1>2 DEF Ready, Routing
  <2>3. CASE task' = [task EXCEPT ![s] = Idle(s, FALSE)]
    BY <2>3, <1>0, IdleTyped, Moves, Plain DEF Only
  <2> QED BY <2>2, <2>3, <1>7, <1>0 DEF Deliver, To
<1>8. CASE Unqueue(s)
  <2> DEFINE next == [task[s] EXCEPT !.pc = "drain", !.todo = Tail(@)]
  <2>1. task[s].pc = "unqueue" /\ task[s].todo # <<>> /\ task' = [task EXCEPT ![s] = next]
    BY <1>8, <1>0 DEF Unqueue, Ready
  <2>2. Tail(task[s].todo) \in Seq(Nat) /\ \A i \in ToSet(Tail(task[s].todo)) : i \in ToSet(task[s].todo)
    BY <2>1, <1>0, HeadTail DEF Task
  <2>3. next \in Task /\ next.pc = "drain" /\ next.frame = 0 /\ next.due = task[s].due
        /\ next.todo = Tail(task[s].todo)
    BY <2>1, <2>2, <1>0, <1>2 DEF Task, Steps
  <2> HIDE DEF next
  <2>4. Only(s) /\ task'[s] = next
    BY <2>1, <2>3, <1>0, Moves DEF Only
  <2> QED BY <2>1, <2>2, <2>3, <2>4, <1>0, <1>2 DEF Ready, Routing
<1>9. CASE Drained(s)
  <2> DEFINE next == [task[s] EXCEPT !.pc = "fetch", !.bucket = 2]
  <2>1. task[s].bucket \in {1, 2}
    BY <1>0 DEF Task
  <2>2. CASE task[s].bucket < Len(Buckets)
    <3>1. next \in Task /\ next.pc = "fetch" /\ next.frame = 0 /\ next.due = task[s].due
      BY <1>0, <1>2 DEF Task, Steps
    <3>2. task[s].bucket + 1 = 2
      BY <2>1, <2>2, BucketsAre
    <3>3. task' = [task EXCEPT ![s] = next]
      BY <2>2, <3>2, <1>9, <1>0 DEF Drained
    <3> HIDE DEF next
    <3> QED BY <3>1, <3>3, <1>0, <1>2, Moves, Plain DEF Only
  <2>3. CASE ~(task[s].bucket < Len(Buckets))
    <3>1. task' = [task EXCEPT ![s] = Idle(s, TRUE)]
      BY <2>3, <1>9, <1>0 DEF Drained
    <3> QED BY <3>1, <1>0, IdleTyped, Moves, Plain DEF Only
  <2> QED BY <2>2, <2>3
<1>10. CASE DrainFails(s)
  <2>1. task' = [task EXCEPT ![s] = Idle(s, FALSE)]
    BY <1>10 DEF DrainFails
  <2> QED BY <2>1, <1>0, IdleTyped, Moves, Plain DEF Only
<1> QED BY <1>3, <1>4, <1>5, <1>6, <1>7, <1>8, <1>9, <1>10 DEF DrainStep

LEMMA PurgesAre ==
    ASSUME NEW f \in Frame
    PROVE  /\ Purges(f) \in Seq(User \X User)
           /\ f.type = "ACCEPT" => Purges(f) = <<<<f.from, f.to>>>>
           /\ f.type = "HANGUP" => Purges(f) = <<<<f.to, f.from>>, <<f.from, f.to>>>>
           /\ f.type \notin {"ACCEPT", "HANGUP"} => Purges(f) = <<>>
<1>1. f.from \in User /\ f.to \in User
  BY DEF Frame
<1>2. <<f.from, f.to>> \in User \X User /\ <<f.to, f.from>> \in User \X User
  BY <1>1
<1>3. CASE f.type = "ACCEPT"
  BY <1>2, <1>3 DEF Purges
<1>4. CASE f.type = "HANGUP"
  BY <1>2, <1>4 DEF Purges
<1>5. CASE f.type \notin {"ACCEPT", "HANGUP"}
  <2>1. Purges(f) = <<>>
    BY <1>5 DEF Purges
  <2> QED BY <2>1, <1>5
<1> QED BY <1>3, <1>4, <1>5

\* A frame is taken up at the end of sent.
LEMMA TakeSent ==
    ASSUME TypeOK, NEW s \in Socket, NEW type \in Type, NEW to \in User, Take(s, type, to)
    PROVE  LET f == [type |-> type, from |-> Owner[s], to |-> to]
           IN  /\ f \in Frame /\ sent' \in Seq(Frame) /\ Len(sent') = Len(sent) + 1
               /\ Len(sent') <= MaxFrames /\ sent'[Len(sent')] = f
               /\ DOMAIN sent' = 1..(Len(sent) + 1)
               /\ DOMAIN sent \subseteq DOMAIN sent'
               /\ \A i \in DOMAIN sent' : i \in DOMAIN sent \/ i = Len(sent')
               /\ \A i \in DOMAIN sent : sent'[i] = sent[i] /\ i # Len(sent')
<1> DEFINE f == [type |-> type, from |-> Owner[s], to |-> to]
<1>1. f \in Frame
  BY OwnerAssumption DEF Frame
<1>2. sent' = Append(sent, f) /\ Len(sent) < MaxFrames
  BY DEF Take
<1>3. sent \in Seq(Frame) /\ Len(sent) \in Nat /\ DOMAIN sent = 1..Len(sent) /\ MaxFrames \in Nat
  BY LimitAssumption DEF TypeOK
<1> HIDE DEF f
<1>4. /\ sent' \in Seq(Frame) /\ Len(sent') = Len(sent) + 1 /\ sent'[Len(sent) + 1] = f
      /\ DOMAIN sent' = 1..(Len(sent) + 1) /\ \A i \in 1..Len(sent) : sent'[i] = sent[i]
  BY <1>1, <1>2, <1>3
<1>5. Len(sent') <= MaxFrames
  BY <1>2, <1>3, <1>4
<1> QED BY <1>1, <1>3, <1>4, <1>5 DEF f

LEMMA SentGrows ==
    ASSUME TypeOK, NEW s \in Socket, FrameStep(s)
    PROVE  /\ sent' \in Seq(Frame) /\ Len(sent') <= MaxFrames
           /\ DOMAIN sent \subseteq DOMAIN sent'
           /\ \A i \in DOMAIN sent : sent'[i] = sent[i]
<1>1. CASE \E type \in Type, to \in User : Take(s, type, to)
  BY <1>1, TakeSent
<1>2. CASE ListSignals(s) \/ RemoveSignal(s) \/ KeepSignal(s) \/ PurgeFails(s) \/ PurgeDone(s)
  BY <1>2 DEF ListSignals, RemoveSignal, KeepSignal, PurgeFails, PurgeDone, frames, TypeOK
<1>3. CASE Lookup(s) \/ Send(s) \/ Queue(s)
  BY <1>3 DEF Lookup, Send, Queue, frames, TypeOK
<1> QED BY <1>1, <1>2, <1>3 DEF FrameStep

\* What a handler holds it has held since it took it up.
LEMMA FrameTask ==
    ASSUME TypeOK, AllReady, NEW s \in Socket, FrameStep(s)
    PROVE  /\ Only(s)
           /\ task[s].pc \in {"open"} \cup Routing /\ task'[s].pc \in {"open"} \cup Routing
           /\ task'[s].frame \in {0} \cup DOMAIN sent'
           /\ task'[s].pc = "send" => task'[s].session # None
           /\ Ready(s)'
<1>0. /\ task \in [Socket -> Task] /\ task[s] \in Task /\ Ready(s) /\ Owner[s] \in User
      /\ task[s].frame \in {0} \cup DOMAIN sent
      /\ DOMAIN sent \subseteq DOMAIN sent' /\ DOMAIN sent \subseteq Nat
      /\ task[s].due \subseteq DOMAIN sent'
  BY SentGrows, SentIs, OwnerAssumption DEF TypeOK, AllReady, Ready
<1>1. CASE \E type \in Type, to \in User : Take(s, type, to)
  <2> PICK type \in Type, to \in User : Take(s, type, to)
    BY <1>1
  <2> DEFINE f == [type |-> type, from |-> Owner[s], to |-> to]
             due == IF type = "HANGUP"
                    THEN {i \in Offers(Owner[s], to) : ~InHands(i)} ELSE {}
             next == [task[s] EXCEPT !.frame = Len(sent'), !.plan = Purges(f),
                                     !.pc = IF Purges(f) = <<>> THEN "lookup" ELSE "list",
                                     !.due = due]
  <2>1. task[s].pc = "open" /\ task' = [task EXCEPT ![s] = next]
    BY <1>0 DEF Take
  <2>2. Purges(f) \in Seq(User \X User)
    BY TakeSent, PurgesAre
  <2>3. due \subseteq DOMAIN sent
    BY DEF Offers
  <2>4. Len(sent') \in Nat /\ Len(sent') # 0 /\ Len(sent') \in DOMAIN sent'
    <3>1. Len(sent') = Len(sent) + 1 /\ DOMAIN sent' = 1..(Len(sent) + 1)
      BY TakeSent
    <3> QED BY <3>1, SentIs
  <2> HIDE DEF f, due
  <2>5. next \in Task /\ next.frame = Len(sent') /\ next.plan = Purges(f) /\ next.due = due
        /\ next.pc = IF Purges(f) = <<>> THEN "lookup" ELSE "list"
    BY <1>0, <2>2, <2>3, <2>4 DEF Task, Steps
  <2> HIDE DEF next
  <2>6. Only(s) /\ task'[s] = next
    BY <2>1, <2>5, <1>0, Moves DEF Only
  <2>7. Ready(s)'
    BY <2>3, <2>4, <2>5, <2>6, <1>0 DEF Ready, Routing
  <2> QED BY <2>1, <2>4, <2>5, <2>6, <2>7 DEF Routing
<1>2. CASE ListSignals(s)
  <2> DEFINE list == queue[Head(task[s].plan)[1]]["message"]
             next == [task[s] EXCEPT !.pc = "purge", !.todo = list]
  <2>1. task[s].pc = "list" /\ task[s].plan # <<>> /\ task[s].frame # 0
    BY <1>2, <1>0 DEF ListSignals, Ready, Routing
  <2>2. Head(task[s].plan) \in User \X User
    BY <2>1, <1>0 DEF Task
  <2>3. Head(task[s].plan)[1] \in User /\ "message" \in Bucket
    BY <2>2 DEF Bucket
  <2>4. list \in Seq(DOMAIN sent)
    BY <2>3, QueueSeq
  <2>5. list \in Seq(Nat) /\ ToSet(list) \subseteq DOMAIN sent
    BY <2>4, <1>0, ToSetOf
  <2> HIDE DEF list
  <2>6. next \in Task /\ next.pc = "purge" /\ next.frame = task[s].frame /\ next.todo = list
        /\ next.plan = task[s].plan /\ next.due = task[s].due
    BY <2>5, <1>0 DEF Task, Steps
  <2>7. task' = [task EXCEPT ![s] = next]
    BY <1>2, <1>0 DEF ListSignals, list
  <2> HIDE DEF next
  <2>8. Only(s) /\ task'[s] = next
    BY <2>6, <2>7, <1>0, Moves DEF Only
  <2>9. Ready(s)'
    BY <2>1, <2>5, <2>6, <2>8, <1>0 DEF Ready, Routing
  <2> QED BY <2>1, <2>6, <2>8, <2>9, <1>0 DEF Routing
<1>3. CASE RemoveSignal(s) \/ KeepSignal(s)
  <2> DEFINE next == [task[s] EXCEPT !.todo = Tail(@)]
  <2>1. task[s].pc = "purge" /\ task[s].todo # <<>> /\ task' = [task EXCEPT ![s] = next]
    BY <1>3, <1>0 DEF RemoveSignal, KeepSignal
  <2>2. Tail(task[s].todo) \in Seq(Nat) /\ \A i \in ToSet(Tail(task[s].todo)) : i \in ToSet(task[s].todo)
    BY <2>1, <1>0, HeadTail DEF Task
  <2>3. next \in Task /\ next.pc = "purge" /\ next.frame = task[s].frame
        /\ next.todo = Tail(task[s].todo) /\ next.plan = task[s].plan /\ next.due = task[s].due
    BY <2>1, <2>2, <1>0 DEF Task
  <2> HIDE DEF next
  <2>4. Only(s) /\ task'[s] = next
    BY <2>1, <2>3, <1>0, Moves DEF Only
  <2>5. Ready(s)'
    BY <2>1, <2>2, <2>3, <2>4, <1>0 DEF Ready, Routing
  <2> QED BY <2>1, <2>3, <2>4, <2>5, <1>0 DEF Routing
<1>4. CASE PurgeFails(s)
  <2> DEFINE next == [task[s] EXCEPT !.pc = "purge", !.todo = <<>>, !.clean = FALSE]
  <2>1. task[s].pc \in {"list", "purge"} /\ task' = [task EXCEPT ![s] = next]
    BY <1>4, <1>0 DEF PurgeFails
  <2>2. <<>> \in Seq(Nat) /\ ToSet(<<>>) = {}
    BY DEF ToSet
  <2>3. next \in Task /\ next.pc = "purge" /\ next.frame = task[s].frame
        /\ next.todo = <<>> /\ next.plan = task[s].plan /\ next.due = task[s].due
    BY <2>2, <1>0 DEF Task, Steps
  <2> HIDE DEF next
  <2>4. Only(s) /\ task'[s] = next
    BY <2>1, <2>3, <1>0, Moves DEF Only
  <2>5. Ready(s)'
    BY <2>1, <2>2, <2>3, <2>4, <1>0 DEF Ready, Routing
  <2> QED BY <2>1, <2>3, <2>4, <2>5, <1>0 DEF Routing
<1>5. CASE PurgeDone(s)
  <2> DEFINE last == Len(task[s].plan) = 1
             next == [task[s] EXCEPT !.pc = IF last THEN "lookup" ELSE "list",
                                     !.plan = Tail(@),
                                     !.due = IF last THEN {} ELSE @]
  <2>1. task[s].pc = "purge" /\ task' = [task EXCEPT ![s] = next] /\ task[s].plan # <<>>
    BY <1>5, <1>0 DEF PurgeDone, Ready
  <2>2. task[s].plan \in Seq(User \X User) /\ Tail(task[s].plan) \in Seq(User \X User)
        /\ (~last => Tail(task[s].plan) # <<>>)
    <3>1. task[s].plan \in Seq(User \X User)
      BY <1>0 DEF Task
    <3>2. ASSUME NEW S, NEW p \in Seq(S), p # <<>>
          PROVE  Tail(p) \in Seq(S) /\ (Len(p) # 1 => Tail(p) # <<>>)
      <4>1. Len(p) \in Nat /\ Len(p) # 0 /\ Len(<<>>) = 0
        BY <3>2
      <4>2. Tail(p) \in Seq(S) /\ Len(Tail(p)) = Len(p) - 1
        BY <3>2, HeadTailProperties
      <4>3. Len(p) # 1 => Len(Tail(p)) # Len(<<>>)
        BY <4>1, <4>2
      <4> QED BY <4>2, <4>3
    <3> QED BY <3>1, <3>2, <2>1
  <2>3. next \in Task /\ next.pc = (IF last THEN "lookup" ELSE "list") /\ next.frame = task[s].frame
        /\ next.plan = Tail(task[s].plan) /\ next.due \subseteq task[s].due
    BY <2>1, <2>2, <1>0 DEF Task, Steps
  <2> HIDE DEF next
  <2>4. Only(s) /\ task'[s] = next
    BY <2>1, <2>3, <1>0, Moves DEF Only
  <2>5. Ready(s)'
    BY <2>1, <2>2, <2>3, <2>4, <1>0 DEF Ready, Routing
  <2> QED BY <2>1, <2>3, <2>4, <2>5, <1>0 DEF Routing
<1>6. CASE Lookup(s)
  <2> DEFINE r == connections[Recipient(s)]
             next == [task[s] EXCEPT !.session = r,
                        !.pc = IF r = None \/ (r \in MessageOnly /\ NeedsCalls(s))
                               THEN "queue" ELSE "send"]
  <2>1. task[s].pc = "lookup" /\ task' = [task EXCEPT ![s] = next] /\ task[s].frame # 0
    BY <1>6, <1>0 DEF Lookup, Ready, Routing
  <2>2. Recipient(s) \in User
    BY <2>1, <1>0, SentIs DEF Recipient, Frame
  <2>3. r \in Socket \cup {None}
    BY <2>2 DEF TypeOK
  <2> HIDE DEF r
  <2>4. next \in Task /\ next.pc \in {"queue", "send"} /\ next.frame = task[s].frame
        /\ (next.pc = "send" => next.session # None) /\ next.due = task[s].due
    BY <2>1, <2>3, <1>0 DEF Task, Steps
  <2> HIDE DEF next
  <2>5. Only(s) /\ task'[s] = next
    BY <2>1, <2>4, <1>0, Moves DEF Only
  <2>6. Ready(s)'
    BY <2>1, <2>4, <2>5, <1>0 DEF Ready, Routing
  <2> QED BY <2>1, <2>4, <2>5, <2>6, <1>0 DEF Routing
<1>7. CASE Send(s)
  <2> DEFINE next == [task[s] EXCEPT !.pc = "queue"]
  <2>1. task[s].pc = "send" /\ task[s].frame # 0
    BY <1>7, <1>0 DEF Send, Ready, Routing
  <2>2. CASE task' = [task EXCEPT ![s] = next]
    <3>1. next \in Task /\ next.pc = "queue" /\ next.frame = task[s].frame /\ next.due = task[s].due
      BY <2>1, <1>0 DEF Task, Steps
    <3> HIDE DEF next
    <3>2. Only(s) /\ task'[s] = next
      BY <2>2, <3>1, <1>0, Moves DEF Only
    <3>3. Ready(s)'
      BY <2>1, <3>1, <3>2, <1>0 DEF Ready, Routing
    <3> QED BY <2>1, <3>1, <3>2, <3>3, <1>0 DEF Routing
  <2>3. CASE task' = Finished(s)
    <3>1. task' = [task EXCEPT ![s] = Idle(s, task[s].drained)] /\ task[s].drained \in BOOLEAN
      BY <2>3, <1>0 DEF Finished, Task
    <3>2. Only(s) /\ task'[s] = Idle(s, task[s].drained)
      BY <3>1, <1>0, IdleTyped, Moves DEF Only
    <3> QED BY <2>1, <3>1, <3>2, IdleTyped, Plain DEF Routing
  <2> QED BY <2>2, <2>3, <1>7, <1>0 DEF Send, To
<1>8. CASE Queue(s)
  <2>1. task[s].pc = "queue" /\ task' = Finished(s)
    BY <1>8 DEF Queue
  <2>2. task' = [task EXCEPT ![s] = Idle(s, task[s].drained)] /\ task[s].drained \in BOOLEAN
    BY <2>1, <1>0 DEF Finished, Task
  <2>3. Only(s) /\ task'[s] = Idle(s, task[s].drained)
    BY <2>2, <1>0, IdleTyped, Moves DEF Only
  <2> QED BY <2>1, <2>2, <2>3, IdleTyped, Plain DEF Routing
<1> QED BY <1>1, <1>2, <1>3, <1>4, <1>5, <1>6, <1>7, <1>8 DEF FrameStep

LEMMA PresenceTask ==
    ASSUME TypeOK, AllReady, NEW s \in Socket, PresenceStep(s)
    PROVE  /\ task' \in [Socket -> Task] /\ task'[s].frame = 0 /\ task[s].frame = 0
           /\ task[s].pc \in {"open", "add", "dropKey"} /\ task'[s].pc \in {"open", "add", "dropKey"}
           /\ task'[s].due \subseteq task[s].due
           /\ \A x \in Socket \ {s} : \/ task'[x] = task[x]
                                      \/ task'[x] = [task[x] EXCEPT !.attached = FALSE]
           /\ subscribers' \in [User -> (SUBSET User) \cup {None}]
           /\ \A x \in Socket : Ready(x)'
<1>0. /\ task \in [Socket -> Task] /\ task[s] \in Task /\ Ready(s) /\ Owner[s] \in User
      /\ UNCHANGED <<sent, written>> /\ subscribers \in [User -> (SUBSET User) \cup {None}]
      /\ task[s].target \in User
  BY PresenceLeaves, OwnerAssumption DEF TypeOK, AllReady, frames, Task
<1>1. task[s].pc \in {"open", "add", "dropKey"}
  BY DEF PresenceStep, handlePresenceUpdate, Subscribe, Unsubscribe, Add, DropKey
<1>2. task[s].frame = 0 /\ task[s].due \subseteq DOMAIN sent /\ task[s].drained \in BOOLEAN
  BY <1>0, <1>1 DEF Ready, Routing, Task
<1>3. \A users \in SUBSET User : None # users
  BY SetsAssumption
<1>4. \* What happens to the sets leaves the tasks of others ready.
      ASSUME Only(s), \A t \in User : subscribers[t] # None => subscribers'[t] # None
      PROVE  \A x \in Socket \ {s} : Ready(x)'
  <2> TAKE x \in Socket \ {s}
  <2>1. task[x] \in Task /\ task[x].target \in User
    BY <1>0 DEF Task
  <2> QED BY <2>1, <1>0, <1>4, StaysReady DEF AllReady, Only, Ready
<1>5. ASSUME NEW isOnline \in BOOLEAN, handlePresenceUpdate(s, isOnline)
      PROVE  UNCHANGED <<task, subscribers>>
  BY <1>5 DEF handlePresenceUpdate
<1>6. CASE UNCHANGED <<task, subscribers>>
  BY <1>0, <1>1, <1>2, <1>4, <1>6, StaysReady DEF Only, AllReady, Ready
<1>7. CASE \E t \in User : Subscribe(s, t)
  <2> PICK t \in User : Subscribe(s, t)
    BY <1>7
  <2> DEFINE next == [task[s] EXCEPT !.pc = "add", !.target = t, !.attached = TRUE]
  <2>1. next \in Task /\ next.pc = "add" /\ next.frame = 0 /\ next.due = task[s].due /\ next.target = t
    BY <1>0, <1>2 DEF Task, Steps
  <2>2. task' = [task EXCEPT ![s] = next]
    BY <1>0 DEF Subscribe
  <2> HIDE DEF next
  <2>3. Only(s) /\ task'[s] = next
    BY <2>1, <2>2, <1>0, Moves DEF Only
  <2>4. Members(t) \in SUBSET User
    BY <1>0 DEF Members
  <2>5. subscribers' = [subscribers EXCEPT ![t] = Members(t)]
    BY DEF Subscribe
  <2>6. /\ subscribers' \in [User -> (SUBSET User) \cup {None}]
        /\ \A x \in User : subscribers[x] # None => subscribers'[x] # None
        /\ subscribers'[t] # None
    BY <2>4, <2>5, <1>0, <1>3
  <2>7. Ready(s)'
    BY <2>1, <2>3, <2>6, <1>0, <1>2 DEF Ready, Routing
  <2> QED BY <2>1, <2>3, <2>6, <2>7, <1>1, <1>2, <1>4 DEF Only
<1>8. CASE \E t \in User : Unsubscribe(s, t)
  <2> PICK t \in User : Unsubscribe(s, t)
    BY <1>8
  <2> DEFINE next == [task[s] EXCEPT !.pc = "dropKey", !.target = t, !.attached = TRUE]
  <2>1. next \in Task /\ next.pc = "dropKey" /\ next.frame = 0 /\ next.due = task[s].due /\ next.target = t
    BY <1>0, <1>2 DEF Task, Steps
  <2>2. task' = [task EXCEPT ![s] = next] \/ UNCHANGED task
    BY <1>0 DEF Unsubscribe
  <2> HIDE DEF next
  <2>3. Only(s) /\ (task'[s] = next \/ (task'[s] = task[s] /\ task[s].pc = "open"))
    <3>1. task[s].pc = "open"
      BY DEF Unsubscribe
    <3> QED BY <2>1, <2>2, <3>1, <1>0, Moves DEF Only
  <2>4. subscribers[t] \in SUBSET User /\ subscribers' = [subscribers EXCEPT ![t] = @ \ {Owner[s]}]
    BY <1>0 DEF Unsubscribe
  <2>5. /\ subscribers' \in [User -> (SUBSET User) \cup {None}]
        /\ \A x \in User : subscribers[x] # None => subscribers'[x] # None
        /\ subscribers'[t] # None
    <3>1. subscribers[t] \ {Owner[s]} \in SUBSET User
      BY <2>4
    <3> QED BY <2>4, <3>1, <1>0, <1>3
  <2>6. Ready(s)'
    BY <2>1, <2>3, <2>5, <1>0, <1>2 DEF Ready, Routing
  <2> QED BY <2>1, <2>3, <2>5, <2>6, <1>1, <1>2, <1>4 DEF Only
<1>9. CASE Add(s)
  <2> DEFINE t == task[s].target
  <2>1. task' = [task EXCEPT ![s] = Idle(s, task[s].drained)]
    BY <1>9 DEF Add, Finished
  <2>2. Only(s) /\ task'[s] = Idle(s, task[s].drained)
    BY <2>1, <1>0, <1>2, IdleTyped, Moves DEF Only
  <2>3. task[s].pc = "add" /\ subscribers' = IF task[s].attached
                          THEN [subscribers EXCEPT ![t] = @ \cup {Owner[s]}] ELSE subscribers
    BY <1>9 DEF Add
  <2>4. task[s].attached => subscribers[t] \in SUBSET User
    BY <2>3, <1>0 DEF Ready
  <2>5. /\ subscribers' \in [User -> (SUBSET User) \cup {None}]
        /\ \A x \in User : subscribers[x] # None => subscribers'[x] # None
    <3>1. task[s].attached => subscribers[t] \cup {Owner[s]} \in SUBSET User
      BY <2>4, <1>0
    <3> HIDE DEF t
    <3> QED BY <2>3, <3>1, <1>0, <1>3
  <2> QED BY <2>1, <2>2, <2>5, <1>1, <1>2, <1>4, IdleTyped, Plain DEF Only
<1>10. CASE DropKey(s)
  <2> DEFINE t == task[s].target
  <2>1. task[s].pc = "dropKey"
    BY <1>10 DEF DropKey
  <2>2. CASE task' = Finished(s) /\ UNCHANGED subscribers
    <3>1. task' = [task EXCEPT ![s] = Idle(s, task[s].drained)]
      BY <2>2 DEF Finished
    <3>2. Only(s) /\ task'[s] = Idle(s, task[s].drained)
      BY <3>1, <1>0, <1>2, IdleTyped, Moves DEF Only
    <3> QED BY <2>2, <3>1, <3>2, <1>0, <1>1, <1>2, <1>4, IdleTyped, Plain DEF Only
  <2>3. CASE /\ subscribers' = [subscribers EXCEPT ![t] = None]
             /\ task' = [x \in Socket |->
                   IF x = s THEN Idle(s, task[s].drained)
                   ELSE IF task[x].pc \in {"add", "dropKey"} /\ task[x].target = t
                        THEN [task[x] EXCEPT !.attached = FALSE] ELSE task[x]]
    <3>1. \A k \in Task : [k EXCEPT !.attached = FALSE] \in Task
      BY DEF Task
    <3>2. task' \in [Socket -> Task] /\ task'[s] = Idle(s, task[s].drained)
      BY <2>3, <3>1, <1>0, <1>2, IdleTyped
    <3>3. subscribers' \in [User -> (SUBSET User) \cup {None}]
          /\ \A x \in User \ {t} : subscribers'[x] = subscribers[x]
      BY <2>3, <1>0
    <3>4. ASSUME NEW x \in Socket \ {s}
          PROVE  \/ task'[x] = task[x] /\ (task[x].pc \in {"add", "dropKey"} => task[x].target # t)
                 \/ task'[x] = [task[x] EXCEPT !.attached = FALSE]
      BY <2>3
    <3>5. ASSUME NEW x \in Socket \ {s} PROVE Ready(x)'
      <4>1. task[x] \in Task /\ task[x].target \in User /\ Ready(x)
        BY <1>0 DEF Task, AllReady
      <4>2. CASE task'[x] = task[x] /\ (task[x].pc \in {"add", "dropKey"} => task[x].target # t)
        BY <4>1, <4>2, <3>3, <1>0, StaysReady DEF Ready
      <4>3. CASE task'[x] = [task[x] EXCEPT !.attached = FALSE]
        <5>1. /\ ~task'[x].attached
              /\ task'[x].pc = task[x].pc /\ task'[x].frame = task[x].frame
              /\ task'[x].todo = task[x].todo /\ task'[x].plan = task[x].plan
              /\ task'[x].session = task[x].session /\ task'[x].due = task[x].due
              /\ task'[x].drained = task[x].drained
          BY <4>1, <4>3 DEF Task
        <5> QED BY <4>1, <5>1, <1>0 DEF Ready
      <4> QED BY <4>2, <4>3, <3>4
    <3>6. Ready(s)'
      BY <3>2, <1>2, IdleTyped, Plain
    <3> QED BY <3>2, <3>3, <3>4, <3>5, <3>6, <1>1, <1>2, IdleTyped
  <2> QED BY <2>2, <2>3, <1>10 DEF DropKey
<1> QED BY <1>5, <1>6, <1>7, <1>8, <1>9, <1>10 DEF PresenceStep

LEMMA EndTask ==
    ASSUME TypeOK, AllReady, NEW s \in Socket, EndStep(s)
    PROVE  /\ Only(s)
           /\ task'[s].frame = 0 /\ task[s].frame = 0
           /\ task'[s].pc \in {"remove", "forget", "cleanup", "gone"}
           /\ task[s].pc \in {"open", "remove", "forget", "cleanup"}
           /\ \A pc \in Steps : task'[s].pc = pc => task'[s] = [task[s] EXCEPT !.pc = pc]
           /\ task'[s].due = task[s].due
           /\ subscribers' \in [User -> (SUBSET User) \cup {None}]
           /\ \A x \in Socket : Ready(x)'
<1>0. /\ task \in [Socket -> Task] /\ task[s] \in Task /\ Ready(s) /\ Owner[s] \in User
      /\ UNCHANGED <<sent, written>> /\ subscribers \in [User -> (SUBSET User) \cup {None}]
  BY EndLeaves, OwnerAssumption DEF TypeOK, AllReady, frames
<1>1. /\ task[s].pc \in {"open", "remove", "forget", "cleanup"}
      /\ \E pc \in {"remove", "forget", "cleanup", "gone"} : task' = To(s, pc)
  BY DEF EndStep, End, RemoveConnection, Forget, cleanupSubscriptions
<1>2. PICK pc \in {"remove", "forget", "cleanup", "gone"} : task' = To(s, pc)
  BY <1>1
<1> DEFINE next == [task[s] EXCEPT !.pc = pc]
<1>3. task[s].frame = 0 /\ task[s].due \subseteq DOMAIN sent
  BY <1>0, <1>1 DEF Ready, Routing
<1>4. next \in Task /\ next.pc = pc /\ next.frame = 0 /\ next.due = task[s].due
  BY <1>0, <1>3 DEF Task, Steps
<1>5. task' = [task EXCEPT ![s] = next]
  BY <1>2, <1>0 DEF To
<1>6. Only(s) /\ task'[s] = next
  BY <1>4, <1>5, <1>0, Moves DEF Only
<1>7. /\ subscribers' \in [User -> (SUBSET User) \cup {None}]
      /\ \A x \in User : subscribers[x] # None => subscribers'[x] # None
  <2>1. CASE UNCHANGED subscribers
    BY <2>1, <1>0
  <2>2. CASE cleanupSubscriptions(s)
    <3>1. \A t \in User : subscribers'[t] = IF subscribers[t] = None THEN None
                                           ELSE subscribers[t] \ {Owner[s]}
      BY <2>2 DEF cleanupSubscriptions
    <3>2. \A t \in User : subscribers[t] # None => subscribers[t] \ {Owner[s]} \in SUBSET User
      BY <1>0
    <3>3. \A t \in User : subscribers'[t] \in (SUBSET User) \cup {None}
                       /\ (subscribers[t] # None => subscribers'[t] # None)
      BY <3>1, <3>2, SetsAssumption
    <3>4. subscribers' = [t \in User |-> subscribers'[t]]
      BY <2>2 DEF cleanupSubscriptions
    <3> QED BY <3>3, <3>4
  <2> QED BY <2>1, <2>2 DEF EndStep, End, RemoveConnection, Forget, presence
<1>8. Ready(s)'
  BY <1>0, <1>3, <1>4, <1>6, Plain
<1>9. ASSUME NEW x \in Socket \ {s} PROVE Ready(x)'
  <2>1. task[x] \in Task /\ task[x].target \in User /\ Ready(x) /\ task'[x] = task[x]
    BY <1>0, <1>6 DEF Task, AllReady, Only
  <2> QED BY <2>1, <1>0, <1>7, StaysReady DEF Ready
<1> QED BY <1>1, <1>3, <1>4, <1>6, <1>7, <1>8, <1>9

LEMMA RestartTask ==
    ASSUME TypeOK, Restart
    PROVE  /\ task' \in [Socket -> Task]
           /\ \A s \in Socket : /\ task[s].pc = "new" => task'[s] = task[s]
                                /\ task[s].pc # "new" => task'[s].pc = "gone" /\ task'[s].frame = 0
                                                         /\ task'[s].due = {} /\ ~task'[s].drained
<1>1. task \in [Socket -> Task] /\ FALSE \in BOOLEAN /\ "gone" \in Steps
  BY DEF TypeOK, Steps
<1>2. \A s \in Socket : task'[s] = IF task[s].pc = "new" THEN task[s]
                                   ELSE [Idle(s, FALSE) EXCEPT !.pc = "gone"]
  BY DEF Restart
<1>3. \A s \in Socket : /\ [Idle(s, FALSE) EXCEPT !.pc = "gone"] \in Task
                        /\ [Idle(s, FALSE) EXCEPT !.pc = "gone"].pc = "gone"
                        /\ [Idle(s, FALSE) EXCEPT !.pc = "gone"].frame = 0
                        /\ [Idle(s, FALSE) EXCEPT !.pc = "gone"].due = {}
                        /\ ~[Idle(s, FALSE) EXCEPT !.pc = "gone"].drained
  BY <1>1, IdleTyped DEF Idle
<1>4. task' = [s \in Socket |-> task'[s]]
  BY DEF Restart
<1>5. \A s \in Socket : task'[s] \in Task
  BY <1>1, <1>2, <1>3
<1> QED BY <1>2, <1>3, <1>4, <1>5

LEMMA ReadyStep ==
    ASSUME TypeOK, AllReady, Next
    PROVE  /\ task' \in [Socket -> Task]
           /\ \A s \in Socket : task'[s].frame \in {0} \cup DOMAIN sent'
           /\ \A s \in Socket : task'[s].pc = "send" => task'[s].session # None
           /\ AllReady'
<1>0. /\ task \in [Socket -> Task]
      /\ \A s \in Socket : /\ Ready(s) /\ task[s].frame \in {0} \cup DOMAIN sent
                           /\ task[s].pc = "send" => task[s].session # None
                           /\ task[s].target \in User
  BY DEF TypeOK, AllReady, Task
<1>1. ASSUME NEW s \in Socket, DrainStep(s)
      PROVE  /\ Only(s) /\ Ready(s)' /\ task'[s].frame = 0 /\ task'[s].pc # "send"
             /\ UNCHANGED <<sent, subscribers>> /\ written \subseteq written'
  BY <1>1, DrainTask, DrainLeaves DEF presence
<1>2. ASSUME NEW s \in Socket, FrameStep(s)
      PROVE  /\ Only(s) /\ Ready(s)' /\ task'[s].frame \in {0} \cup DOMAIN sent'
             /\ task'[s].pc = "send" => task'[s].session # None
             /\ UNCHANGED subscribers /\ written \subseteq written'
             /\ DOMAIN sent \subseteq DOMAIN sent' /\ \A i \in DOMAIN sent : sent'[i] = sent[i]
  BY <1>2, FrameTask, FrameLeaves, SentGrows DEF presence
<1>3. CASE \E s \in Socket : DrainStep(s) \/ FrameStep(s)
  <2> PICK s \in Socket : DrainStep(s) \/ FrameStep(s)
    BY <1>3
  <2>1. /\ Only(s) /\ Ready(s)' /\ task'[s].frame \in {0} \cup DOMAIN sent'
        /\ task'[s].pc = "send" => task'[s].session # None
        /\ UNCHANGED subscribers /\ written \subseteq written'
        /\ DOMAIN sent \subseteq DOMAIN sent' /\ \A i \in DOMAIN sent : sent'[i] = sent[i]
    BY <1>1, <1>2
  <2>2. ASSUME NEW x \in Socket \ {s} PROVE Ready(x)'
    <3>1. Ready(x) /\ task'[x] = task[x]
      BY <2>1, <1>0 DEF Only
    <3> QED BY <2>1, <3>1, StaysReady DEF Ready
  <2>3. AllReady'
    BY <2>1, <2>2 DEF AllReady
  <2> QED BY <2>1, <2>3, <1>0 DEF Only
<1>4. CASE \E s \in Socket : PresenceStep(s)
  <2> PICK s \in Socket : PresenceStep(s)
    BY <1>4
  <2>1. sent' = sent
    BY PresenceLeaves DEF frames
  <2>2. \A k \in Task : /\ [k EXCEPT !.attached = FALSE].pc = k.pc
                        /\ [k EXCEPT !.attached = FALSE].frame = k.frame
                        /\ [k EXCEPT !.attached = FALSE].session = k.session
    BY DEF Task
  <2>3. /\ task' \in [Socket -> Task] /\ task'[s].frame = 0 /\ task'[s].pc # "send"
        /\ \A x \in Socket \ {s} : \/ task'[x] = task[x]
                                   \/ task'[x] = [task[x] EXCEPT !.attached = FALSE]
        /\ \A x \in Socket : Ready(x)'
    BY PresenceTask
  <2>4. ASSUME NEW x \in Socket \ {s}
        PROVE  task'[x].frame = task[x].frame /\ task'[x].pc = task[x].pc
               /\ task'[x].session = task[x].session
    BY <2>2, <2>3, <1>0
  <2> QED BY <2>1, <2>3, <2>4, <1>0 DEF AllReady
<1>5. CASE \E s \in Socket : EndStep(s)
  <2> PICK s \in Socket : EndStep(s)
    BY <1>5
  <2>1. sent' = sent
    BY EndLeaves DEF frames
  <2>2. Only(s) /\ task'[s].frame = 0 /\ task'[s].pc # "send" /\ \A x \in Socket : Ready(x)'
    BY EndTask
  <2> QED BY <2>1, <2>2, <1>0 DEF AllReady, Only
<1>6. CASE UNCHANGED <<task, sent, written, subscribers>>
  BY <1>6, <1>0 DEF AllReady, Ready
<1>7. ASSUME \/ \E s \in Socket : Lose(s)
             \/ \E i \in DOMAIN sent : Age(i) \/ Spoil(i)
             \/ \E u \in User, b \in Bucket : Expire(u, b)
      PROVE  UNCHANGED <<task, sent, written, subscribers>>
  BY <1>7 DEF Lose, Age, Spoil, Expire, frames, presence
<1>8. CASE Restart
  <2>1. task' \in [Socket -> Task] /\ sent' = sent /\ written' = written
    BY <1>8, RestartTask DEF Restart
  <2>2. ASSUME NEW s \in Socket
        PROVE  Ready(s)' /\ task'[s].frame \in {0} \cup DOMAIN sent' /\ task'[s].pc # "send"
    <3>1. CASE task[s].pc = "new"
      BY <3>1, <2>1, <1>0, <1>8, RestartTask DEF Ready, Routing
    <3>2. CASE task[s].pc # "new"
      BY <3>2, <2>1, <1>8, RestartTask, Plain
    <3> QED BY <3>1, <3>2
  <2> QED BY <2>1, <2>2 DEF AllReady
<1> QED BY <1>3, <1>4, <1>5, <1>6, <1>7, <1>8, Kinds

\* Nothing but Take adds a frame, and nothing changes one.
LEMMA SentStep ==
    ASSUME TypeOK, Next
    PROVE  /\ sent' \in Seq(Frame) /\ Len(sent') <= MaxFrames
           /\ DOMAIN sent \subseteq DOMAIN sent'
           /\ \A i \in DOMAIN sent : sent'[i] = sent[i]
           /\ written \subseteq written' /\ dropped \subseteq dropped'
<1>1. ASSUME NEW s \in Socket, DrainStep(s) \/ PresenceStep(s) \/ EndStep(s) \/ Lose(s)
      PROVE  UNCHANGED sent /\ written \subseteq written' /\ dropped \subseteq dropped'
  BY <1>1, DrainLeaves, PresenceLeaves, EndLeaves DEF Lose, frames
<1>2. ASSUME \/ \E i \in DOMAIN sent : Age(i) \/ Spoil(i)
             \/ \E u \in User, b \in Bucket : Expire(u, b)
             \/ Restart
      PROVE  UNCHANGED sent /\ written \subseteq written' /\ dropped \subseteq dropped'
  BY <1>2 DEF Age, Spoil, Expire, Restart
<1>3. CASE UNCHANGED sent /\ written \subseteq written' /\ dropped \subseteq dropped'
  BY <1>3 DEF TypeOK
<1>4. CASE \E s \in Socket : FrameStep(s)
  BY <1>4, SentGrows, FrameLeaves
<1> QED BY <1>1, <1>2, <1>3, <1>4, Kinds

-----------------------------------------------------------------------------
(* What the steps of a handler make of its task.                           *)

LEMMA TakeFields ==
    ASSUME TypeOK, NEW s \in Socket, NEW type \in Type, NEW to \in User, Take(s, type, to)
    PROVE  LET t == task'[s]
               f == [type |-> type, from |-> Owner[s], to |-> to]
           IN  /\ t.frame = Len(sent') /\ t.drained = task[s].drained /\ t.plan = Purges(f)
               /\ t.pc = (IF Purges(f) = <<>> THEN "lookup" ELSE "list")
               /\ t.due = (IF type = "HANGUP" THEN {i \in Offers(Owner[s], to) : ~InHands(i)} ELSE {})
<1> DEFINE f == [type |-> type, from |-> Owner[s], to |-> to]
           due == IF type = "HANGUP" THEN {i \in Offers(Owner[s], to) : ~InHands(i)} ELSE {}
           next == [task[s] EXCEPT !.frame = Len(sent'), !.plan = Purges(f),
                                   !.pc = IF Purges(f) = <<>> THEN "lookup" ELSE "list",
                                   !.due = due]
<1>1. task[s] \in Task /\ task'[s] = next
  BY DEF Take, TypeOK
<1> HIDE DEF f, due
<1>2. /\ next.frame = Len(sent') /\ next.drained = task[s].drained /\ next.plan = Purges(f)
      /\ next.pc = (IF Purges(f) = <<>> THEN "lookup" ELSE "list") /\ next.due = due
  BY <1>1 DEF Task
<1> HIDE DEF next
<1> QED BY <1>1, <1>2 DEF f, due

LEMMA PurgeFields ==
    ASSUME TypeOK, NEW s \in Socket
    PROVE  /\ ListSignals(s) =>
                 /\ task'[s].pc = "purge" /\ task'[s].todo = queue[Head(task[s].plan)[1]]["message"]
                 /\ task'[s].plan = task[s].plan /\ task'[s].due = task[s].due
                 /\ task'[s].clean = task[s].clean
           /\ RemoveSignal(s) \/ KeepSignal(s) =>
                 /\ task'[s].pc = "purge" /\ task[s].pc = "purge" /\ task'[s].todo = Tail(task[s].todo)
                 /\ task'[s].plan = task[s].plan /\ task'[s].due = task[s].due
                 /\ task'[s].clean = task[s].clean
           /\ PurgeFails(s) =>
                 /\ task'[s].pc = "purge" /\ task'[s].due = task[s].due /\ ~task'[s].clean
           /\ PurgeDone(s) =>
                 /\ task'[s].pc = (IF Len(task[s].plan) = 1 THEN "lookup" ELSE "list")
                 /\ task'[s].plan = Tail(task[s].plan)
                 /\ task'[s].due = (IF Len(task[s].plan) = 1 THEN {} ELSE task[s].due)
                 /\ task'[s].clean = task[s].clean
           /\ ListSignals(s) \/ RemoveSignal(s) \/ KeepSignal(s) \/ PurgeFails(s) \/ PurgeDone(s) =>
                 task'[s].drained = task[s].drained /\ task'[s].frame = task[s].frame
<1>0. task \in [Socket -> Task] /\ task[s] \in Task
  BY DEF TypeOK
<1>1. ASSUME ListSignals(s)
      PROVE  task'[s] = [task[s] EXCEPT !.pc = "purge",
                                        !.todo = queue[Head(task[s].plan)[1]]["message"]]
  BY <1>0, <1>1 DEF ListSignals
<1>2. ASSUME RemoveSignal(s) \/ KeepSignal(s)
      PROVE  task'[s] = [task[s] EXCEPT !.todo = Tail(@)] /\ task[s].pc = "purge"
  BY <1>0, <1>2 DEF RemoveSignal, KeepSignal
<1>3. ASSUME PurgeFails(s)
      PROVE  task'[s] = [task[s] EXCEPT !.pc = "purge", !.todo = <<>>, !.clean = FALSE]
  BY <1>0, <1>3 DEF PurgeFails
<1>4. ASSUME PurgeDone(s)
      PROVE  task'[s] = [task[s] EXCEPT !.pc = IF Len(task[s].plan) = 1 THEN "lookup" ELSE "list",
                                        !.plan = Tail(@),
                                        !.due = IF Len(task[s].plan) = 1 THEN {} ELSE @]
  BY <1>0, <1>4 DEF PurgeDone
<1>5. ListSignals(s) =>
        /\ task'[s].pc = "purge" /\ task'[s].todo = queue[Head(task[s].plan)[1]]["message"]
        /\ task'[s].plan = task[s].plan /\ task'[s].due = task[s].due
        /\ task'[s].clean = task[s].clean
        /\ task'[s].drained = task[s].drained /\ task'[s].frame = task[s].frame
  BY <1>0, <1>1 DEF Task
<1>6. RemoveSignal(s) \/ KeepSignal(s) =>
        /\ task'[s].pc = "purge" /\ task[s].pc = "purge" /\ task'[s].todo = Tail(task[s].todo)
        /\ task'[s].plan = task[s].plan /\ task'[s].due = task[s].due
        /\ task'[s].clean = task[s].clean
        /\ task'[s].drained = task[s].drained /\ task'[s].frame = task[s].frame
  BY <1>0, <1>2 DEF Task
<1>7. PurgeFails(s) =>
        /\ task'[s].pc = "purge" /\ task'[s].due = task[s].due /\ ~task'[s].clean
        /\ task'[s].drained = task[s].drained /\ task'[s].frame = task[s].frame
  BY <1>0, <1>3 DEF Task
<1>8. PurgeDone(s) =>
        /\ task'[s].pc = (IF Len(task[s].plan) = 1 THEN "lookup" ELSE "list")
        /\ task'[s].plan = Tail(task[s].plan)
        /\ task'[s].due = (IF Len(task[s].plan) = 1 THEN {} ELSE task[s].due)
        /\ task'[s].clean = task[s].clean
        /\ task'[s].drained = task[s].drained /\ task'[s].frame = task[s].frame
  BY <1>0, <1>4 DEF Task
<1> QED BY <1>5, <1>6, <1>7, <1>8

LEMMA RouteFields ==
    ASSUME TypeOK, NEW s \in Socket
    PROVE  /\ Lookup(s) =>
                 LET r == connections[Recipient(s)]
                 IN  /\ task'[s].session = r
                     /\ task'[s].pc = (IF r = None \/ (r \in MessageOnly /\ NeedsCalls(s))
                                       THEN "queue" ELSE "send")
                     /\ task'[s].frame = task[s].frame
           /\ Send(s) => \/ /\ link[task[s].session] = "closed" /\ task'[s].pc = "queue"
                            /\ task'[s].session = task[s].session /\ task'[s].frame = task[s].frame
                            /\ task'[s].due = task[s].due
                         \/ /\ task[s].frame \in written' /\ task'[s].pc = "open"
                            /\ task'[s].frame = 0 /\ task'[s].due = {}
           /\ Queue(s) => task'[s].pc = "open" /\ task'[s].frame = 0 /\ task'[s].due = {}
           /\ Lookup(s) => task'[s].due = task[s].due
           /\ Lookup(s) \/ Send(s) \/ Queue(s) => task'[s].drained = task[s].drained
<1>0. task \in [Socket -> Task] /\ task[s] \in Task
  BY DEF TypeOK
<1>1. ASSUME Lookup(s)
      PROVE  LET r == connections[Recipient(s)]
             IN  /\ task'[s].session = r
                 /\ task'[s].pc = (IF r = None \/ (r \in MessageOnly /\ NeedsCalls(s))
                                   THEN "queue" ELSE "send")
                 /\ task'[s].frame = task[s].frame /\ task'[s].drained = task[s].drained
                 /\ task'[s].due = task[s].due
  <2> DEFINE r == connections[Recipient(s)]
             pc == IF r = None \/ (r \in MessageOnly /\ NeedsCalls(s)) THEN "queue" ELSE "send"
             next == [task[s] EXCEPT !.session = r, !.pc = pc]
  <2>1. task'[s] = next
    BY <1>0, <1>1 DEF Lookup
  <2> HIDE DEF r, pc
  <2>2. /\ next.session = r /\ next.pc = pc /\ next.frame = task[s].frame
        /\ next.drained = task[s].drained /\ next.due = task[s].due
    BY <1>0 DEF Task
  <2> HIDE DEF next
  <2> QED BY <2>1, <2>2 DEF r, pc
<1>2. LET idle == Idle(s, task[s].drained)
      IN  idle.pc = "open" /\ idle.frame = 0 /\ idle.due = {} /\ idle.drained = task[s].drained
  BY DEF Idle
<1>3. ASSUME Queue(s) PROVE task'[s] = Idle(s, task[s].drained)
  BY <1>0, <1>3 DEF Queue, Finished
<1>4. ASSUME Send(s)
      PROVE  \/ link[task[s].session] = "closed" /\ task'[s] = [task[s] EXCEPT !.pc = "queue"]
             \/ task'[s] = Idle(s, task[s].drained) /\ task[s].frame \in written'
  BY <1>0, <1>4 DEF Send, Finished, To
<1>5. LET next == [task[s] EXCEPT !.pc = "queue"]
      IN  /\ next.pc = "queue" /\ next.session = task[s].session /\ next.frame = task[s].frame
          /\ next.drained = task[s].drained /\ next.due = task[s].due
  BY <1>0 DEF Task
<1>6. Queue(s) => /\ task'[s].pc = "open" /\ task'[s].frame = 0 /\ task'[s].due = {}
                  /\ task'[s].drained = task[s].drained
  BY <1>2, <1>3
<1>7. Send(s) => /\ task'[s].drained = task[s].drained
                 /\ \/ /\ link[task[s].session] = "closed" /\ task'[s].pc = "queue"
                       /\ task'[s].session = task[s].session /\ task'[s].frame = task[s].frame
                       /\ task'[s].due = task[s].due
                    \/ /\ task[s].frame \in written' /\ task'[s].pc = "open"
                       /\ task'[s].frame = 0 /\ task'[s].due = {}
  BY <1>2, <1>4, <1>5
<1> QED BY <1>1, <1>6, <1>7

-----------------------------------------------------------------------------
(* What happens to the queues.                                             *)

\* Only bucket b of u changes, and becomes q.
Becomes(u, b, q) ==
    /\ queue' \in [User -> [Bucket -> Seq(DOMAIN sent')]]
    /\ queue'[u][b] = q
    /\ \A v \in User, c \in Bucket : v # u \/ c # b => queue'[v][c] = queue[v][c]

LEMMA Changed ==
    ASSUME TypeOK, NEW u \in User, NEW b \in Bucket, NEW q \in Seq(DOMAIN sent),
           queue' = [queue EXCEPT ![u][b] = q], sent' = sent
    PROVE  Becomes(u, b, q)
BY DEF TypeOK, Becomes

LEMMA FrameInHand ==
    ASSUME TypeOK, AllReady, NEW s \in Socket, task[s].pc \in Routing
    PROVE  /\ task[s].frame \in DOMAIN sent /\ sent[task[s].frame] \in Frame
           /\ Recipient(s) \in User /\ BucketOf(task[s].frame) \in Bucket
           /\ Recipient(s) = sent[task[s].frame].to
BY SentIs DEF TypeOK, AllReady, Ready, Recipient, BucketOf, Bucket, Frame

\* A frame taken off a queue, with the reason.
LEMMA TakenOff ==
    ASSUME TypeOK, AllReady, NEW s \in Socket, Discard(s) \/ Unqueue(s) \/ RemoveSignal(s)
    PROVE  \E u \in User, b \in Bucket :
              /\ Becomes(u, b, Removed(queue[u][b], Head(task[s].todo)))
              /\ task[s].todo # <<>>
              /\ Head(task[s].todo) \in written' \cup dropped'
<1>0. task[s] \in Task /\ Ready(s) /\ Owner[s] \in User /\ sent' = sent
  BY OwnerAssumption, DrainLeaves DEF TypeOK, AllReady, RemoveSignal, DrainStep
<1> DEFINE i == Head(task[s].todo)
<1>1. CASE Discard(s) \/ Unqueue(s)
  <2> DEFINE u == Owner[s]
             b == Buckets[task[s].bucket]
  <2>1. b \in Bucket
    BY <1>0, BucketsAre DEF Task
  <2>2. queue[u][b] \in Seq(DOMAIN sent)
    BY <2>1, <1>0, QueueSeq
  <2>3. Removed(queue[u][b], i) \in Seq(DOMAIN sent)
    BY <2>2, RemovedIs
  <2>4. queue' = [queue EXCEPT ![u][b] = Removed(queue[u][b], i)]
    BY <1>1, <1>0, <2>1 DEF Discard, Unqueue, Without, TypeOK
  <2>5. i \in written' \cup dropped' /\ task[s].todo # <<>>
    BY <1>1, <1>0 DEF Discard, Unqueue, Ready
  <2> QED BY <2>1, <2>3, <2>4, <2>5, <1>0, Changed
<1>2. CASE RemoveSignal(s)
  <2> DEFINE u == Head(task[s].plan)[1]
             b == "message"
  <2>1. task[s].pc = "purge" /\ task[s].plan # <<>> /\ task[s].plan \in Seq(User \X User)
    BY <1>0, <1>2 DEF RemoveSignal, Ready, Task
  <2>2. Head(task[s].plan) \in User \X User
    BY <2>1
  <2>3. u \in User /\ b \in Bucket
    BY <2>2 DEF Bucket
  <2>4. queue[u][b] \in Seq(DOMAIN sent)
    BY <2>3, QueueSeq
  <2>5. Removed(queue[u][b], i) \in Seq(DOMAIN sent)
    BY <2>4, RemovedIs
  <2>6. queue' = [queue EXCEPT ![u][b] = Removed(queue[u][b], i)]
    BY <1>2, <1>0, <2>3 DEF RemoveSignal, Without, TypeOK
  <2>7. i \in dropped' /\ task[s].todo # <<>>
    BY <1>2 DEF RemoveSignal
  <2> HIDE DEF u, b
  <2> QED BY <2>3, <2>5, <2>6, <2>7, <1>0, Changed
<1> QED BY <1>1, <1>2

\* A frame put into the queue of its recipient, or given up.
LEMMA PutOn ==
    ASSUME TypeOK, AllReady, NEW s \in Socket, Queue(s)
    PROVE  LET i == task[s].frame
               u == Recipient(s)
               b == BucketOf(i)
               longer == Append(queue[u][b], i)
           IN  /\ i \in DOMAIN sent /\ u \in User /\ b \in Bucket /\ sent[i].to = u
               /\ longer \in Seq(DOMAIN sent)
               /\ \/ UNCHANGED queue /\ i \in dropped'
                  \/ Becomes(u, b, Kept(longer)) /\ \A j \in ToSet(Trimmed(longer)) : j \in dropped'
                  \/ Becomes(u, b, longer)
<1> DEFINE i == task[s].frame
           u == Recipient(s)
           b == BucketOf(i)
           longer == Append(queue[u][b], i)
<1>1. task[s].pc \in Routing /\ sent' = sent
  BY DEF Queue, Routing
<1>2. i \in DOMAIN sent /\ u \in User /\ b \in Bucket /\ sent[i].to = u
  BY <1>1, FrameInHand
<1>3. longer \in Seq(DOMAIN sent)
  BY <1>2, QueueSeq, Appended
<1>4. Kept(longer) \in Seq(DOMAIN sent)
  BY <1>3, Limits
<1>5. \/ UNCHANGED queue /\ i \in dropped'
      \/ queue' = [queue EXCEPT ![u][b] = Kept(longer)] /\ \A j \in ToSet(Trimmed(longer)) : j \in dropped'
      \/ queue' = [queue EXCEPT ![u][b] = longer]
  BY DEF Queue
<1> HIDE DEF i, u, b, longer
<1>6. \/ UNCHANGED queue /\ i \in dropped'
      \/ Becomes(u, b, Kept(longer)) /\ \A j \in ToSet(Trimmed(longer)) : j \in dropped'
      \/ Becomes(u, b, longer)
  BY <1>1, <1>2, <1>3, <1>4, <1>5, Changed
<1> QED BY <1>2, <1>3, <1>6 DEF i, u, b, longer

LEMMA QueueChanges ==
    ASSUME Next
    PROVE  \/ UNCHANGED queue
           \/ \E s \in Socket : Discard(s) \/ Unqueue(s) \/ RemoveSignal(s) \/ Queue(s)
           \/ \E u \in User, b \in Bucket : Expire(u, b)
<1>1. ASSUME NEW s \in Socket, DrainStep(s) PROVE UNCHANGED queue \/ Discard(s) \/ Unqueue(s)
  BY <1>1 DEF DrainStep, Connect, ClosePrevious, Fetch, Leave, Deliver, Drained, DrainFails, frames
<1>2. ASSUME NEW s \in Socket, FrameStep(s) PROVE UNCHANGED queue \/ RemoveSignal(s) \/ Queue(s)
  BY <1>2 DEF FrameStep, Take, ListSignals, KeepSignal, PurgeFails, PurgeDone, Lookup, Send, frames
<1>3. ASSUME NEW s \in Socket, PresenceStep(s) \/ EndStep(s) \/ Lose(s) PROVE UNCHANGED queue
  BY <1>3, PresenceLeaves, EndLeaves DEF frames, Lose
<1>4. ASSUME NEW i, Age(i) \/ Spoil(i) PROVE UNCHANGED queue
  BY <1>4 DEF Age, Spoil
<1>5. Restart => UNCHANGED queue
  BY DEF Restart
<1> QED BY <1>1, <1>2, <1>3, <1>4, <1>5, Kinds

\* Frames are only added by queueAndNotify, and only leave a queue when they
\* have been written or for a reason the code names.
LEMMA QueueStep ==
    ASSUME TypeOK, AllReady, Next
    PROVE  /\ queue' \in [User -> [Bucket -> Seq(DOMAIN sent')]]
           /\ \A u \in User, b \in Bucket :
                 /\ \A i \in ToSet(queue'[u][b]) :
                       \/ i \in ToSet(queue[u][b])
                       \/ \E s \in Socket : Queue(s) /\ i = task[s].frame /\ u = Recipient(s) /\ b = BucketOf(i)
                 /\ \A i \in ToSet(queue[u][b]) :
                       i \in ToSet(queue'[u][b]) \/ i \in written' \cup dropped'
                 /\ NotBoth /\ Once(queue[u][b]) => Once(queue'[u][b])
<1>1. CASE UNCHANGED queue
  <2>1. queue \in [User -> [Bucket -> Seq(DOMAIN sent')]]
    <3>1. DOMAIN sent \subseteq DOMAIN sent'
      BY SentStep
    <3>2. ASSUME NEW S, NEW T, S \subseteq T PROVE Seq(S) \subseteq Seq(T)
      BY <3>2
    <3> QED BY <3>1, <3>2 DEF TypeOK
  <2> QED BY <1>1, <2>1
<1>2. CASE \E s \in Socket : Discard(s) \/ Unqueue(s) \/ RemoveSignal(s)
  <2> PICK s \in Socket : Discard(s) \/ Unqueue(s) \/ RemoveSignal(s)
    BY <1>2
  <2> DEFINE i == Head(task[s].todo)
  <2>1. PICK u \in User, b \in Bucket : Becomes(u, b, Removed(queue[u][b], i)) /\ i \in written' \cup dropped'
    BY TakenOff
  <2> HIDE DEF i
  <2>2. queue[u][b] \in Seq(DOMAIN sent)
    BY QueueSeq
  <2> DEFINE q == queue[u][b]
             r == queue'[u][b]
  <2>3. /\ \A j \in ToSet(r) : j \in ToSet(q)
        /\ \A j \in ToSet(q) : j = i \/ j \in ToSet(r)
        /\ Once(q) => Once(r)
    BY <2>1, <2>2, RemovedIs DEF Becomes
  <2> HIDE DEF q, r
  <2> QED BY <2>1, <2>3 DEF q, r, Becomes
<1>3. CASE \E s \in Socket : Queue(s)
  <2> PICK s \in Socket : Queue(s)
    BY <1>3
  <2> DEFINE i == task[s].frame
             u == Recipient(s)
             b == BucketOf(i)
             longer == Append(queue[u][b], i)
  <2>1. CASE UNCHANGED queue
    BY <1>1, <2>1
  <2>2. CASE \/ Becomes(u, b, Kept(longer)) /\ \A j \in ToSet(Trimmed(longer)) : j \in dropped'
             \/ Becomes(u, b, longer)
    <3>1. i \in DOMAIN sent /\ u \in User /\ b \in Bucket /\ longer \in Seq(DOMAIN sent)
          /\ queue[u][b] \in Seq(DOMAIN sent)
      BY PutOn, QueueSeq
    <3>2. NotBoth => i \notin ToSet(queue[u][b])
      BY <3>1 DEF NotBoth, Queued
    <3>3. /\ \A j \in ToSet(longer) : j \in ToSet(queue[u][b]) \/ j = i
          /\ \A j \in ToSet(queue[u][b]) : j \in ToSet(longer)
          /\ NotBoth /\ Once(queue[u][b]) => Once(longer)
      BY <3>1, <3>2, Appended
    <3>4. /\ \A j \in ToSet(Kept(longer)) : j \in ToSet(longer)
          /\ \A j \in ToSet(longer) : j \in ToSet(Kept(longer)) \/ j \in ToSet(Trimmed(longer))
          /\ Once(longer) => Once(Kept(longer))
      BY <3>1, Limits
    <3> HIDE DEF longer
    <3>5. /\ \A j \in ToSet(queue'[u][b]) : j \in ToSet(queue[u][b]) \/ j = i
          /\ \A j \in ToSet(queue[u][b]) : j \in ToSet(queue'[u][b]) \/ j \in written' \cup dropped'
          /\ NotBoth /\ Once(queue[u][b]) => Once(queue'[u][b])
      BY <2>2, <3>3, <3>4 DEF Becomes
    <3>6. \A v \in User, c \in Bucket : v # u \/ c # b => queue'[v][c] = queue[v][c]
      BY <2>2 DEF Becomes
    <3>7. queue' \in [User -> [Bucket -> Seq(DOMAIN sent')]]
      BY <2>2 DEF Becomes
    <3> QED BY <3>5, <3>6, <3>7
  <2> QED BY <2>1, <2>2, PutOn
<1>4. CASE \E u \in User, b \in Bucket : Expire(u, b)
  <2> PICK u \in User, b \in Bucket : Expire(u, b)
    BY <1>4
  <2>1. <<>> \in Seq(DOMAIN sent) /\ ToSet(<<>>) = {} /\ Once(<<>>)
    BY DEF ToSet, Once
  <2>2. queue' = [queue EXCEPT ![u][b] = <<>>] /\ sent' = sent
        /\ \A i \in ToSet(queue[u][b]) : i \in dropped'
    BY DEF Expire
  <2>3. Becomes(u, b, <<>>)
    BY <2>1, <2>2, Changed
  <2> QED BY <2>1, <2>2, <2>3 DEF Becomes
<1> QED BY <1>1, <1>2, <1>3, <1>4, QueueChanges

-----------------------------------------------------------------------------
(* Types.                                                                  *)

LEMMA ConnectionTyped ==
    ASSUME TypeOK, AllReady, Next
    PROVE  /\ connections' \in [User -> Socket \cup {None}]
           /\ \A u \in User : connections'[u] # None => Owner[connections'[u]] = u
           /\ link' \in [Socket -> {"up", "dead", "closed"}]
<1>0. /\ connections \in [User -> Socket \cup {None}]
      /\ \A u \in User : connections[u] # None => Owner[connections[u]] = u
      /\ link \in [Socket -> {"up", "dead", "closed"}] /\ None \notin Socket
      /\ \A s \in Socket : Owner[s] \in User
  BY OwnerAssumption, SetsAssumption DEF TypeOK
<1>1. CASE UNCHANGED <<connections, link>>
  BY <1>0, <1>1
<1>2. ASSUME NEW s \in Socket, Connect(s)
      PROVE  \/ link' = [link EXCEPT ![s] = "closed"] /\ UNCHANGED connections
             \/ connections' = [connections EXCEPT ![Owner[s]] = s] /\ UNCHANGED link
  BY <1>2 DEF Connect
<1>3. ASSUME NEW s \in Socket, RemoveConnection(s)
      PROVE  /\ UNCHANGED connections \/ connections' = [connections EXCEPT ![Owner[s]] = None]
             /\ UNCHANGED link
  BY <1>3 DEF RemoveConnection
<1>4. ASSUME NEW s \in Socket, ClosePrevious(s)
      PROVE  UNCHANGED connections /\ link' = [link EXCEPT ![task[s].session] = "closed"]
  BY <1>4 DEF ClosePrevious
<1>5. ASSUME NEW s \in Socket, End(s) \/ Lose(s)
      PROVE  UNCHANGED connections /\ \E l \in {"dead", "closed"} : link' = [link EXCEPT ![s] = l]
  BY <1>5 DEF End, Lose
<1>6. ASSUME NEW s \in Socket,
             DrainStep(s) \/ FrameStep(s) \/ PresenceStep(s) \/ EndStep(s) \/ Lose(s)
      PROVE  \/ UNCHANGED <<connections, link>> \/ Connect(s) \/ RemoveConnection(s)
             \/ ClosePrevious(s) \/ End(s) \/ Lose(s)
  <2>1. CASE DrainStep(s)
    BY <2>1 DEF DrainStep, Fetch, Discard, Leave, Deliver, Unqueue, Drained, DrainFails
  <2>2. CASE FrameStep(s) \/ PresenceStep(s)
    BY <2>2, FrameLeaves, PresenceLeaves
  <2>3. CASE EndStep(s)
    BY <2>3 DEF EndStep, Forget, cleanupSubscriptions
  <2> QED BY <2>1, <2>2, <2>3, <1>6
<1>7. CASE \E s \in Socket : Connect(s) \/ RemoveConnection(s) \/ ClosePrevious(s) \/ End(s) \/ Lose(s)
  <2> PICK s \in Socket : Connect(s) \/ RemoveConnection(s) \/ ClosePrevious(s) \/ End(s) \/ Lose(s)
    BY <1>7
  <2>1. CASE Connect(s)
    BY <2>1, <1>0, <1>2
  <2>2. CASE RemoveConnection(s)
    BY <2>2, <1>0, <1>3
  <2>3. CASE ClosePrevious(s)
    BY <2>3, <1>0, <1>4
  <2>4. CASE End(s) \/ Lose(s)
    BY <2>4, <1>0, <1>5
  <2> QED BY <2>1, <2>2, <2>3, <2>4
<1>8. CASE Restart
  BY <1>8, <1>0 DEF Restart
<1>9. ASSUME \/ \E i \in DOMAIN sent : Age(i) \/ Spoil(i)
             \/ \E u \in User, b \in Bucket : Expire(u, b)
      PROVE  UNCHANGED <<connections, link>>
  BY <1>9 DEF Age, Spoil, Expire
<1> QED BY <1>1, <1>6, <1>7, <1>8, <1>9, Kinds

LEMMA HistoryTyped ==
    ASSUME TypeOK, AllReady, Next
    PROVE  UNION {old, spoiled, written, dropped, raced, cancelled}' \subseteq DOMAIN sent'
<1>0. /\ old \subseteq DOMAIN sent /\ spoiled \subseteq DOMAIN sent /\ written \subseteq DOMAIN sent
      /\ dropped \subseteq DOMAIN sent /\ raced \subseteq DOMAIN sent /\ cancelled \subseteq DOMAIN sent
      /\ DOMAIN sent \subseteq DOMAIN sent'
  BY SentStep DEF TypeOK
<1>1. ASSUME NEW s \in Socket, task[s].pc \in {"drain", "unqueue", "purge"}, task[s].todo # <<>>
      PROVE  Head(task[s].todo) \in DOMAIN sent
  <2>1. task[s].todo \in Seq(Nat) /\ Ready(s)
    BY DEF TypeOK, AllReady, Task
  <2>2. Head(task[s].todo) \in ToSet(task[s].todo)
    BY <2>1, <1>1, HeadTail
  <2> QED BY <2>1, <2>2, <1>1 DEF Ready
<1>2. CASE \E s \in Socket : DrainStep(s)
  <2> PICK s \in Socket : DrainStep(s)
    BY <1>2
  <2>1. UNCHANGED <<old, spoiled, raced, cancelled>>
    BY DrainLeaves
  <2>2. UNCHANGED <<written, dropped>> \/ Discard(s) \/ Deliver(s)
    BY DEF DrainStep, Connect, ClosePrevious, Fetch, Leave, Unqueue, Drained, DrainFails, frames
  <2>3. written' \subseteq DOMAIN sent /\ dropped' \subseteq DOMAIN sent
    <3>1. CASE Discard(s)
      <4>1. Head(task[s].todo) \in DOMAIN sent
        BY <3>1, <1>1 DEF Discard
      <4> QED BY <4>1, <3>1, <1>0 DEF Discard
    <3>2. CASE Deliver(s)
      <4>1. Head(task[s].todo) \in DOMAIN sent
        BY <3>2, <1>1 DEF Deliver
      <4> QED BY <4>1, <3>2, <1>0 DEF Deliver
    <3> QED BY <2>2, <3>1, <3>2, <1>0
  <2> QED BY <2>1, <2>3, <1>0
<1>3. CASE \E s \in Socket : FrameStep(s)
  <2> PICK s \in Socket : FrameStep(s)
    BY <1>3
  <2>1. UNCHANGED <<old, spoiled>>
    BY FrameLeaves
  <2>2. \/ UNCHANGED <<written, dropped, raced, cancelled>>
        \/ RemoveSignal(s) \/ PurgeDone(s) \/ Send(s) \/ Queue(s)
    BY DEF FrameStep, Take, ListSignals, KeepSignal, PurgeFails, Lookup, frames
  <2>3. CASE RemoveSignal(s)
    BY <2>1, <2>3, <1>0, <1>1 DEF RemoveSignal
  <2>4. CASE PurgeDone(s)
    <3>1. task[s].due \subseteq DOMAIN sent
      BY DEF AllReady, Ready
    <3>2. cancelled' \subseteq cancelled \cup task[s].due
      BY <2>4 DEF PurgeDone
    <3>3. UNCHANGED <<written, dropped, raced>>
      BY <2>4 DEF PurgeDone
    <3> QED BY <2>1, <3>1, <3>2, <3>3, <1>0
  <2>5. CASE Send(s)
    <3>1. task[s].frame \in DOMAIN sent
      BY <2>5, FrameInHand DEF Send, Routing
    <3> QED BY <2>1, <2>5, <3>1, <1>0 DEF Send
  <2>6. CASE Queue(s)
    <3> DEFINE i == task[s].frame
               longer == Append(queue[Recipient(s)][BucketOf(i)], i)
    <3>1. i \in DOMAIN sent /\ Recipient(s) \in User /\ BucketOf(i) \in Bucket
          /\ longer \in Seq(DOMAIN sent)
      BY <2>6, PutOn
    <3>2. \A j \in ToSet(Trimmed(longer)) : j \in DOMAIN sent
      <4> HIDE DEF longer
      <4>1. ToSet(longer) \subseteq DOMAIN sent
        BY <3>1, ToSetOf
      <4>2. \A j \in ToSet(Trimmed(longer)) : j \in ToSet(longer)
        BY <3>1, Limits
      <4> QED BY <4>1, <4>2
    <3>3. raced' \subseteq raced \cup {i} /\ UNCHANGED <<written, cancelled>>
      BY <2>6 DEF Queue
    <3>4. \A j \in dropped' : j \in dropped \/ j = i \/ j \in ToSet(Trimmed(longer))
      BY <2>6 DEF Queue
    <3> HIDE DEF i, longer
    <3> QED BY <2>1, <3>1, <3>2, <3>3, <3>4, <1>0
  <2>7. CASE UNCHANGED <<written, dropped, raced, cancelled>>
    BY <2>1, <2>7, <1>0
  <2> QED BY <2>2, <2>3, <2>4, <2>5, <2>6, <2>7
<1>4. ASSUME NEW s \in Socket, PresenceStep(s) \/ EndStep(s) \/ Lose(s)
      PROVE  UNCHANGED <<old, spoiled, written, dropped, raced, cancelled>>
  BY <1>4, PresenceLeaves, EndLeaves DEF frames, Lose
<1>5. CASE UNCHANGED <<old, spoiled, written, dropped, raced, cancelled>>
  BY <1>5, <1>0
<1>6. CASE \E i \in DOMAIN sent : Age(i) \/ Spoil(i)
  BY <1>6, <1>0 DEF Age, Spoil
<1>7. CASE \E u \in User, b \in Bucket : Expire(u, b)
  <2> PICK u \in User, b \in Bucket : Expire(u, b)
    BY <1>7
  <2>1. \A i \in dropped' : i \in dropped \/ i \in ToSet(queue[u][b])
    BY DEF Expire
  <2>2. UNCHANGED <<old, spoiled, written, raced, cancelled>>
    BY DEF Expire
  <2> QED BY <2>1, <2>2, <1>0, QueueSeq
<1>8. CASE Restart
  BY <1>8, <1>0 DEF Restart
<1> QED BY <1>2, <1>3, <1>4, <1>5, <1>6, <1>7, <1>8, Kinds

LEMMA PresenceTyped ==
    ASSUME TypeOK, AllReady, Next
    PROVE  /\ foreground' \subseteq User
           /\ subscribers' \in [User -> (SUBSET User) \cup {None}]
           /\ want' \in [User -> [online: BOOLEAN, targets: SUBSET User]]
           /\ crossed' \subseteq User
<1>0. /\ foreground \subseteq User /\ subscribers \in [User -> (SUBSET User) \cup {None}]
      /\ want \in [User -> [online: BOOLEAN, targets: SUBSET User]] /\ crossed \subseteq User
      /\ \A s \in Socket : Owner[s] \in User /\ task[s].target \in User
  BY OwnerAssumption DEF TypeOK, Task
<1>1. CASE UNCHANGED presence
  BY <1>1, <1>0 DEF presence
<1>2. ASSUME \/ \E s \in Socket : DrainStep(s) \/ FrameStep(s) \/ Lose(s)
             \/ \E i \in DOMAIN sent : Age(i) \/ Spoil(i)
             \/ \E u \in User, b \in Bucket : Expire(u, b)
      PROVE  UNCHANGED presence
  BY <1>2, DrainLeaves, FrameLeaves DEF Lose, Age, Spoil, Expire, presence
<1>3. [online |-> FALSE, targets |-> {}] \in [online: BOOLEAN, targets: SUBSET User]
  OBVIOUS
<1>4. \A u \in User : Crossing(u) \subseteq User
  BY <1>0 DEF Crossing
<1>5. CASE \E s \in Socket : PresenceStep(s)
  <2> PICK s \in Socket : PresenceStep(s)
    BY <1>5
  <2>1. subscribers' \in [User -> (SUBSET User) \cup {None}]
    BY PresenceTask
  <2> DEFINE u == Owner[s]
  <2>2. u \in User /\ want[u] \in [online: BOOLEAN, targets: SUBSET User]
    BY <1>0
  <2>3. ASSUME NEW isOnline \in BOOLEAN, handlePresenceUpdate(s, isOnline)
        PROVE  foreground' \subseteq User /\ crossed' \subseteq User
               /\ want' \in [User -> [online: BOOLEAN, targets: SUBSET User]]
    BY <2>2, <2>3, <1>0, <1>4 DEF handlePresenceUpdate
  <2>4. ASSUME NEW t \in User, Subscribe(s, t)
        PROVE  foreground' \subseteq User /\ crossed' \subseteq User /\ want' = want
    BY <2>2, <2>4, <1>0 DEF Subscribe
  <2>5. ASSUME NEW t \in User, Unsubscribe(s, t)
        PROVE  foreground' \subseteq User /\ crossed' \subseteq User
               /\ want' \in [User -> [online: BOOLEAN, targets: SUBSET User]]
    <3>1. foreground' = foreground /\ want' = [want EXCEPT ![u].targets = @ \ {t}]
          /\ crossed' \in {Crossing(u), Crossing(u) \cup {t}}
      BY <2>5 DEF Unsubscribe
    <3> QED BY <3>1, <2>2, <1>0, <1>4
  <2>6. ASSUME Add(s)
        PROVE  foreground' \subseteq User /\ crossed' \subseteq User
               /\ want' \in [User -> [online: BOOLEAN, targets: SUBSET User]]
    BY <2>2, <2>6, <1>0, <1>4 DEF Add
  <2>7. ASSUME DropKey(s)
        PROVE  foreground' \subseteq User /\ crossed' \subseteq User /\ want' = want
    BY <2>7, <1>0 DEF DropKey
  <2> QED BY <2>1, <2>3, <2>4, <2>5, <2>6, <2>7, <1>0 DEF PresenceStep
<1>6. CASE \E s \in Socket : EndStep(s)
  <2> PICK s \in Socket : EndStep(s)
    BY <1>6
  <2>1. subscribers' \in [User -> (SUBSET User) \cup {None}]
    BY EndTask
  <2>2. foreground' \subseteq User /\ crossed' \subseteq User
        /\ want' \in [User -> [online: BOOLEAN, targets: SUBSET User]]
    <3>1. CASE RemoveConnection(s)
      <4>1. \/ want' = want
            \/ want' = [want EXCEPT ![Owner[s]] = [online |-> FALSE, targets |-> {}]]
        BY <3>1 DEF RemoveConnection
      <4>2. UNCHANGED <<foreground, crossed>>
        BY <3>1 DEF RemoveConnection
      <4> QED BY <4>1, <4>2, <1>0, <1>3
    <3>2. CASE End(s) \/ Forget(s) \/ cleanupSubscriptions(s)
      BY <3>2, <1>0 DEF End, Forget, cleanupSubscriptions, presence
    <3> QED BY <3>1, <3>2 DEF EndStep
  <2> QED BY <2>1, <2>2
<1>7. CASE Restart
  BY <1>7, <1>3 DEF Restart
<1> QED BY <1>1, <1>2, <1>5, <1>6, <1>7, Kinds

LEMMA TypeStep == TypeOK /\ AllReady /\ Next => TypeOK' /\ AllReady'
<1> SUFFICES ASSUME TypeOK, AllReady, Next PROVE TypeOK' /\ AllReady'
  OBVIOUS
<1>1. \A u \in User : \A i \in Queued(u)' : sent'[i].to = u
  <2> SUFFICES ASSUME NEW u \in User, NEW i \in Queued(u)' PROVE sent'[i].to = u
    OBVIOUS
  <2>1. PICK b \in Bucket : i \in ToSet(queue'[u][b])
    BY DEF Queued
  <2>2. CASE i \in ToSet(queue[u][b])
    BY <2>2, QueueSeq, SentStep
  <2>3. CASE \E s \in Socket : Queue(s) /\ i = task[s].frame /\ u = Recipient(s)
    BY <2>3, PutOn, SentStep
  <2> QED BY <2>1, <2>2, <2>3, QueueStep
<1> QED BY <1>1, ReadyStep, SentStep, QueueStep, ConnectionTyped, HistoryTyped, PresenceTyped DEF TypeOK

LEMMA InitTyped == Init => TypeOK /\ AllReady
<1> SUFFICES ASSUME Init PROVE TypeOK /\ AllReady
  OBVIOUS
<1>1. \A s \in Socket : [Idle(s, FALSE) EXCEPT !.pc = "new"] \in Task
  BY IdleTyped DEF Steps
<1>2. \A s \in Socket : task[s] = [Idle(s, FALSE) EXCEPT !.pc = "new"]
  BY DEF Init
<1>3. \A s \in Socket : /\ task[s].pc = "new" /\ task[s].frame = 0 /\ task[s].due = {}
                        /\ ~task[s].drained
  BY <1>2 DEF Idle
<1>4. task \in [Socket -> Task]
  BY <1>1 DEF Init
<1>5. sent = <<>> /\ sent \in Seq(Frame) /\ Len(sent) <= MaxFrames
  BY LimitAssumption DEF Init
<1>6. queue \in [User -> [Bucket -> Seq(DOMAIN sent)]]
  BY DEF Init
<1>7. \A u \in User : Queued(u) = {}
  BY DEF Init, Queued, ToSet
<1>8. AllReady
  BY <1>3 DEF AllReady, Ready, Routing
<1> QED BY <1>3, <1>4, <1>5, <1>6, <1>7, <1>8 DEF Init, TypeOK

LEMMA TypeStutter == TypeOK /\ AllReady /\ UNCHANGED vars => TypeOK' /\ AllReady'
<1> SUFFICES ASSUME TypeOK, AllReady, UNCHANGED vars PROVE TypeOK' /\ AllReady'
  OBVIOUS
<1>1. UNCHANGED <<connections, link, task, sent, queue, old, spoiled, written, dropped, raced,
                  cancelled, foreground, subscribers, want, crossed>>
  BY DEF vars, frames, presence
<1>2. AllReady'
  BY <1>1 DEF AllReady, Ready
<1>3. TypeOK'
  BY <1>1 DEF TypeOK, Queued
<1> QED BY <1>2, <1>3

\* The types, with what every step relies on: a handler between taking up a
\* frame and routing it has that frame, a drain lists only frames of its user,
\* and the set a subscription is about to be added to is there.
THEOREM TypeCorrect == Spec => []TypeOK
<1>1. TypeOK /\ AllReady /\ [Next]_vars => (TypeOK /\ AllReady)'
  BY TypeStep, TypeStutter
<1> QED BY <1>1, InitTyped, PTL DEF Spec

-----------------------------------------------------------------------------
(* Frames are in one place, and none vanishes.                             *)

\* A frame leaves the hands of its handler written, queued or given up.
Settled(i) == i \in Queued(sent[i].to) \cup written \cup dropped

LEMMA QueueEnds ==
    ASSUME TypeOK, AllReady, NEW s \in Socket, Queue(s)
    PROVE  /\ task[s].frame \in DOMAIN sent /\ task'[s].frame = 0 /\ Only(s)
           /\ \A i \in DOMAIN sent : task[s].frame = i => Settled(i)'
<1>1. task'[s].frame = 0 /\ Only(s)
  <2>1. FrameStep(s) /\ task' = Finished(s)
    BY DEF FrameStep, Queue
  <2>2. Only(s)
    BY <2>1, FrameTask
  <2>3. task'[s] = Idle(s, task[s].drained)
    BY <2>1 DEF Finished, TypeOK
  <2> QED BY <2>2, <2>3 DEF Idle
<1>2. \E u \in User, b \in Bucket, i \in DOMAIN sent :
         LET longer == Append(queue[u][b], i)
         IN  /\ task[s].frame = i /\ sent[i].to = u /\ longer \in Seq(DOMAIN sent)
             /\ \/ UNCHANGED queue /\ i \in dropped'
                \/ Becomes(u, b, Kept(longer)) /\ \A j \in ToSet(Trimmed(longer)) : j \in dropped'
                \/ Becomes(u, b, longer)
  BY PutOn
<1>3. PICK u \in User, b \in Bucket, i \in DOMAIN sent :
         LET longer == Append(queue[u][b], i)
         IN  /\ task[s].frame = i /\ sent[i].to = u /\ longer \in Seq(DOMAIN sent)
             /\ \/ UNCHANGED queue /\ i \in dropped'
                \/ Becomes(u, b, Kept(longer)) /\ \A j \in ToSet(Trimmed(longer)) : j \in dropped'
                \/ Becomes(u, b, longer)
  BY <1>2
<1> DEFINE longer == Append(queue[u][b], i)
<1>4. queue[u][b] \in Seq(DOMAIN sent)
  BY QueueSeq
<1>5. i \in ToSet(longer)
  BY <1>4, Appended
<1> HIDE DEF longer
<1>6. i \in ToSet(Kept(longer)) \/ i \in ToSet(Trimmed(longer))
  BY <1>3, <1>5, Limits DEF longer
<1>7. i \in ToSet(queue'[u][b]) \/ i \in dropped'
  BY <1>3, <1>5, <1>6 DEF Becomes, longer
<1>8. sent'[i].to = u
  BY <1>3 DEF Queue
<1>9. Settled(i)'
  BY <1>7, <1>8 DEF Settled, Queued
<1> QED BY <1>1, <1>3, <1>9

LEMMA HandStep ==
    ASSUME TypeOK, AllReady, Next, NEW s \in Socket
    PROVE  \/ task'[s].frame = task[s].frame
           \/ /\ \E type \in Type, to \in User : Take(s, type, to)
              /\ task'[s].frame = Len(sent')
           \/ /\ task'[s].frame = 0
              /\ \A i \in DOMAIN sent : task[s].frame = i => Settled(i)'
<1>0. task \in [Socket -> Task] /\ task[s] \in Task /\ Ready(s) /\ task[s].frame \in {0} \cup DOMAIN sent
  BY DEF TypeOK, AllReady
<1>1. CASE DrainStep(s)
  <2>1. task[s].pc \notin Routing
    BY <1>1 DEF Routing, DrainStep, Connect, ClosePrevious, Fetch, Discard, Leave, Deliver, Unqueue,
         Drained, DrainFails
  <2> QED BY <2>1, <1>0, <1>1, DrainTask DEF Ready
<1>2. CASE FrameStep(s)
  <2>1. CASE \E type \in Type, to \in User : Take(s, type, to)
    BY <2>1, TakeFields
  <2>2. CASE ListSignals(s) \/ RemoveSignal(s) \/ KeepSignal(s) \/ PurgeFails(s) \/ PurgeDone(s) \/ Lookup(s)
    BY <2>2, PurgeFields, RouteFields
  <2>3. CASE Send(s)
    BY <2>3, RouteFields DEF Settled
  <2>4. CASE Queue(s)
    BY <2>4, QueueEnds
  <2> QED BY <2>1, <2>2, <2>3, <2>4, <1>2 DEF FrameStep
<1>3. CASE PresenceStep(s)
  BY <1>3, PresenceTask
<1>4. CASE EndStep(s)
  BY <1>4, EndTask
<1>5. CASE \E x \in Socket \ {s} : DrainStep(x) \/ FrameStep(x) \/ EndStep(x)
  BY <1>5, DrainTask, FrameTask, EndTask DEF Only
<1>6. CASE \E x \in Socket \ {s} : PresenceStep(x)
  <2>1. [task[s] EXCEPT !.attached = FALSE].frame = task[s].frame
    BY <1>0 DEF Task
  <2> QED BY <2>1, <1>6, PresenceTask
<1>7. ASSUME \/ \E x \in Socket : Lose(x)
             \/ \E i \in DOMAIN sent : Age(i) \/ Spoil(i)
             \/ \E u \in User, b \in Bucket : Expire(u, b)
      PROVE  UNCHANGED task
  BY <1>7 DEF Lose, Age, Spoil, Expire
<1>8. CASE Restart
  <2>1. CASE task[s].pc = "new"
    BY <2>1, <1>8, RestartTask
  <2>2. CASE task[s].pc # "new" /\ task[s].frame \in DOMAIN sent
    <3>1. task[s].frame \in dropped'
      BY <2>2, <1>8 DEF Restart, InHands
    <3> QED BY <3>1, <2>2, <1>8, RestartTask DEF Settled
  <2>3. CASE task[s].pc # "new" /\ task[s].frame = 0
    BY <2>3, <1>8, RestartTask
  <2> QED BY <2>1, <2>2, <2>3, <1>0
<1> QED BY <1>1, <1>2, <1>3, <1>4, <1>5, <1>6, <1>7, <1>8, Kinds

\* While one handler takes a frame up the others keep theirs.
LEMMA TakeAlone ==
    ASSUME TypeOK, AllReady, NEW s \in Socket, NEW type \in Type, NEW to \in User, Take(s, type, to)
    PROVE  Only(s) /\ task'[s].frame = Len(sent') /\ Len(sent') \notin DOMAIN sent /\ UNCHANGED queue
           /\ Len(sent') # 0
<1>1. FrameStep(s)
  BY DEF FrameStep
<1>2. Only(s) /\ UNCHANGED queue
  BY <1>1, FrameTask DEF Take
<1>3. task'[s].frame = Len(sent')
  BY DEF Take, TypeOK, Task
<1>4. Len(sent') \notin DOMAIN sent /\ Len(sent') # 0
  <2>1. Len(sent') = Len(sent) + 1
    BY TakeSent
  <2> QED BY <2>1, SentIs
<1> QED BY <1>2, <1>3, <1>4

OnePlace == OneHand /\ NotBoth /\ Sorted

LEMMA OneHandStep == TypeOK /\ AllReady /\ OneHand /\ Next => OneHand'
<1> SUFFICES ASSUME TypeOK, AllReady, OneHand, Next,
                    NEW s \in Socket, NEW x \in Socket,
                    task'[s].frame # 0, task'[s].frame = task'[x].frame
             PROVE  s = x
  BY DEF OneHand
<1>1. ASSUME NEW y \in Socket PROVE task[y].frame \in {0} \cup DOMAIN sent
  BY DEF TypeOK
<1>2. ASSUME NEW y \in Socket, NEW z \in Socket, NEW type \in Type, NEW to \in User, Take(y, type, to),
             z # y, task'[z].frame = Len(sent')
      PROVE  FALSE
  <2>1. task'[z].frame = task[z].frame /\ Len(sent') \notin DOMAIN sent /\ Len(sent') # 0
    BY <1>2, TakeAlone DEF Only
  <2> QED BY <2>1, <1>1, <1>2
<1> QED BY <1>2, HandStep DEF OneHand

LEMMA NotBothStep == TypeOK /\ AllReady /\ OneHand /\ NotBoth /\ Next => NotBoth'
<1> SUFFICES ASSUME TypeOK, AllReady, OneHand, NotBoth, Next,
                    NEW s \in Socket, NEW u \in User, task'[s].frame \in Queued(u)'
             PROVE  FALSE
  BY DEF NotBoth
<1>1. PICK b \in Bucket : task'[s].frame \in ToSet(queue'[u][b])
  BY DEF Queued
<1>2. CASE task'[s].frame \in ToSet(queue[u][b])
  <2>1. task'[s].frame \in DOMAIN sent /\ task'[s].frame \in Queued(u) /\ task'[s].frame # 0
    BY <1>2, QueueSeq, SentIs
  <2> QED BY <2>1, HandStep, TakeAlone DEF NotBoth
<1>3. CASE \E x \in Socket : Queue(x) /\ task'[s].frame = task[x].frame
  <2> PICK x \in Socket : Queue(x) /\ task'[s].frame = task[x].frame
    BY <1>3
  <2>1. task'[x].frame = 0 /\ Only(x) /\ task[x].frame \in DOMAIN sent /\ task[x].frame # 0
    BY QueueEnds, SentIs
  <2>2. s # x /\ task'[s] = task[s]
    BY <2>1 DEF Only
  <2> QED BY <2>1, <2>2 DEF OneHand
<1> QED BY <1>1, <1>2, <1>3, QueueStep

LEMMA SortedStep == TypeOK /\ AllReady /\ NotBoth /\ Sorted /\ Next => Sorted'
<1> SUFFICES ASSUME TypeOK, AllReady, NotBoth, Sorted, Next, NEW u \in User, NEW b \in Bucket
             PROVE  Once(queue'[u][b]) /\ \A i \in ToSet(queue'[u][b]) : BucketOf(i)' = b
  BY DEF Sorted, Once
<1>1. Once(queue'[u][b])
  BY QueueStep DEF Sorted
<1>2. ASSUME NEW i \in ToSet(queue'[u][b]) PROVE BucketOf(i)' = b
  <2>1. BucketOf(i) = b /\ i \in DOMAIN sent
    <3>1. CASE i \in ToSet(queue[u][b])
      BY <3>1, QueueSeq DEF Sorted
    <3>2. CASE \E s \in Socket : Queue(s) /\ i = task[s].frame /\ b = BucketOf(i)
      BY <3>2, QueueEnds
    <3> QED BY <3>1, <3>2, <1>2, QueueStep
  <2> QED BY <2>1, SentStep DEF BucketOf
<1> QED BY <1>1, <1>2

LEMMA InitOnePlace == Init => OnePlace
<1> SUFFICES ASSUME Init PROVE OnePlace
  OBVIOUS
<1>1. \A s \in Socket : task[s].frame = 0
  BY DEF Init, Idle
<1>2. \A u \in User, b \in Bucket : queue[u][b] = <<>>
  BY DEF Init
<1>3. ToSet(<<>>) = {} /\ Once(<<>>)
  BY DEF ToSet, Once
<1>4. \A u \in User : Queued(u) = {}
  BY <1>2, <1>3 DEF Queued
<1> QED BY <1>1, <1>2, <1>3, <1>4 DEF OnePlace, OneHand, NotBoth, Sorted

LEMMA OnePlaceStep == TypeOK /\ AllReady /\ OnePlace /\ [Next]_vars => OnePlace'
<1>1. OnePlace /\ UNCHANGED vars => OnePlace'
  <2> SUFFICES ASSUME OnePlace, UNCHANGED vars PROVE OnePlace'
    OBVIOUS
  <2>1. UNCHANGED <<task, queue, sent>>
    BY DEF vars, frames
  <2> QED BY <2>1 DEF OnePlace, OneHand, NotBoth, Sorted, Queued, BucketOf, Once
<1> QED BY <1>1, OneHandStep, NotBothStep, SortedStep DEF OnePlace

LEMMA KeptStep == TypeOK /\ AllReady /\ NothingVanishes /\ [Next]_vars => NothingVanishes'
<1> SUFFICES ASSUME TypeOK, AllReady, NothingVanishes, [Next]_vars, NEW i \in DOMAIN sent'
             PROVE  InHands(i)' \/ Settled(i)'
  BY DEF NothingVanishes, Settled
<1>1. CASE UNCHANGED vars
  <2>1. UNCHANGED <<task, queue, sent, written, dropped>>
    BY <1>1 DEF vars, frames
  <2> QED BY <2>1 DEF NothingVanishes, InHands, Queued, Settled
<1>2. CASE Next /\ i \in DOMAIN sent
  <2>0. sent'[i] = sent[i] /\ written \subseteq written' /\ dropped \subseteq dropped'
    BY <1>2, SentStep
  <2>1. CASE i \in written \cup dropped
    BY <2>0, <2>1 DEF Settled
  <2>2. CASE i \in Queued(sent[i].to)
    <3>1. sent[i].to \in User
      BY <1>2, SentIs DEF Frame
    <3>2. PICK b \in Bucket : i \in ToSet(queue[sent[i].to][b])
      BY <2>2 DEF Queued
    <3>3. i \in ToSet(queue'[sent[i].to][b]) \/ i \in written' \cup dropped'
      BY <3>1, <3>2, <1>2, QueueStep
    <3> QED BY <3>3, <2>0 DEF Queued, Settled
  <2>3. CASE \E s \in Socket : task[s].frame = i
    <3> PICK s \in Socket : task[s].frame = i
      BY <2>3
    <3>1. i # 0
      BY <1>2, SentIs
    <3>2. CASE \E type \in Type, to \in User : Take(s, type, to)
      <4>1. Ready(s) /\ task[s].pc = "open"
        BY <3>2 DEF AllReady, Take
      <4> QED BY <4>1, <3>1 DEF Ready, Routing
    <3> QED BY <3>2, <1>2, <2>0, HandStep DEF InHands
  <2> QED BY <2>1, <2>2, <2>3, <1>2 DEF NothingVanishes, InHands
<1>3. CASE Next /\ i \notin DOMAIN sent
  <2>1. sent' # sent
    BY <1>3
  <2>2. \E s \in Socket : \E type \in Type, to \in User : Take(s, type, to)
    <3>1. ASSUME NEW s \in Socket, DrainStep(s) \/ PresenceStep(s) \/ EndStep(s) \/ Lose(s)
          PROVE  UNCHANGED sent
      BY <3>1, DrainLeaves, PresenceLeaves, EndLeaves DEF Lose, frames
    <3>2. ASSUME NEW s \in Socket, FrameStep(s)
          PROVE  UNCHANGED sent \/ \E type \in Type, to \in User : Take(s, type, to)
      BY <3>2 DEF FrameStep, ListSignals, RemoveSignal, KeepSignal, PurgeFails, PurgeDone, Lookup,
           Send, Queue, frames
    <3>3. ASSUME \/ \E j \in DOMAIN sent : Age(j) \/ Spoil(j)
                 \/ \E u \in User, b \in Bucket : Expire(u, b)
                 \/ Restart
          PROVE  UNCHANGED sent
      BY <3>3 DEF Age, Spoil, Expire, Restart
    <3> QED BY <2>1, <3>1, <3>2, <3>3, <1>3, Kinds
  <2>3. PICK s \in Socket : \E type \in Type, to \in User : Take(s, type, to)
    BY <2>2
  <2>4. task'[s].frame = i
    BY <2>3, <1>3, TakeSent, TakeAlone
  <2> QED BY <2>4 DEF InHands
<1> QED BY <1>1, <1>2, <1>3

\* Every frame a handler is done with is queued, written or accounted for,
\* whatever drains and purges run at the same time.
THEOREM NoFrameVanishes == Spec => []NothingVanishes
<1>1. Init => NothingVanishes
  BY DEF Init, NothingVanishes
<1>2. TypeOK /\ AllReady /\ NothingVanishes /\ [Next]_vars => (TypeOK /\ AllReady /\ NothingVanishes)'
  BY TypeStep, TypeStutter, KeptStep
<1> QED BY <1>1, <1>2, InitTyped, PTL DEF Spec

-----------------------------------------------------------------------------
(* What a drain leaves behind.                                             *)

\* A socket that is closed stays closed, and a frame keeps its kind.
LEMMA ClosedStays ==
    ASSUME TypeOK, AllReady, Next, NEW s \in Socket, link[s] = "closed" PROVE link'[s] = "closed"
<1>1. ASSUME NEW x \in Socket,
             DrainStep(x) \/ FrameStep(x) \/ PresenceStep(x) \/ EndStep(x) \/ Lose(x)
      PROVE  link'[s] = "closed"
  <2>1. CASE DrainStep(x)
    BY <2>1 DEF DrainStep, Connect, ClosePrevious, Fetch, Discard, Leave, Deliver, Unqueue, Drained,
         DrainFails, TypeOK
  <2>2. CASE FrameStep(x) \/ PresenceStep(x)
    BY <2>2, FrameLeaves, PresenceLeaves
  <2>3. CASE EndStep(x) \/ Lose(x)
    BY <2>3 DEF EndStep, End, RemoveConnection, Forget, cleanupSubscriptions, Lose, TypeOK
  <2> QED BY <2>1, <2>2, <2>3, <1>1
<1>2. ASSUME \/ \E i \in DOMAIN sent : Age(i) \/ Spoil(i)
             \/ \E u \in User, b \in Bucket : Expire(u, b)
             \/ Restart
      PROVE  link'[s] = "closed"
  BY <1>2 DEF Age, Spoil, Expire, Restart
<1> QED BY <1>1, <1>2, Kinds

LEMMA LeftStays ==
    ASSUME TypeOK, Next, NEW s, NEW i \in DOMAIN sent, LeftForCalls(s, i) PROVE LeftForCalls(s, i)'
BY SentStep DEF LeftForCalls

\* Steps that leave the routing of s alone.
Routed(s) == <<task[s].pc, task[s].session, task[s].frame>>
Drains(s) == <<task[s].pc, task[s].bucket, task[s].todo, task[s].drained>>
Signals(s) == <<task[s].plan, task[s].clean, task[s].due>>

LEMMA OthersStep ==
    ASSUME TypeOK, AllReady, Next, NEW s \in Socket
    PROVE  \/ DrainStep(s) \/ FrameStep(s) \/ PresenceStep(s) \/ EndStep(s) \/ Restart
           \/ UNCHANGED <<Routed(s), Drains(s), Signals(s)>>
<1>0. task[s] \in Task
  BY DEF TypeOK
<1>1. CASE \E x \in Socket \ {s} : DrainStep(x) \/ FrameStep(x) \/ EndStep(x)
  BY <1>1, DrainTask, FrameTask, EndTask DEF Only, Routed, Drains, Signals
<1>2. CASE \E x \in Socket \ {s} : PresenceStep(x)
  <2>1. LET k == [task[s] EXCEPT !.attached = FALSE]
        IN  k.pc = task[s].pc /\ k.session = task[s].session /\ k.frame = task[s].frame
            /\ k.bucket = task[s].bucket /\ k.todo = task[s].todo /\ k.drained = task[s].drained
            /\ k.plan = task[s].plan /\ k.clean = task[s].clean /\ k.due = task[s].due
    BY <1>0 DEF Task
  <2>2. task'[s] = task[s] \/ task'[s] = [task[s] EXCEPT !.attached = FALSE]
    BY <1>2, PresenceTask
  <2> QED BY <2>1, <2>2 DEF Routed, Drains, Signals
<1>3. ASSUME \/ \E x \in Socket : Lose(x)
             \/ \E i \in DOMAIN sent : Age(i) \/ Spoil(i)
             \/ \E u \in User, b \in Bucket : Expire(u, b)
      PROVE  UNCHANGED task
  BY <1>3 DEF Lose, Age, Spoil, Expire
<1> QED BY <1>1, <1>2, <1>3, Kinds DEF Routed, Drains, Signals

LEMMA RefusedStep == TypeOK /\ AllReady /\ Refused /\ Next => Refused'
<1> SUFFICES ASSUME TypeOK, AllReady, Refused, Next, NEW s \in Socket, NEW r, NEW i,
                    task'[s].pc = "queue", r = task'[s].session, r # None, i = task'[s].frame
             PROVE  link'[r] = "closed" \/ LeftForCalls(r, i)'
  BY DEF Refused, LeftForCalls
<1>0. task[s] \in Task /\ task[s].frame \in {0} \cup DOMAIN sent /\ Ready(s)
  BY DEF TypeOK, AllReady
<1>1. CASE UNCHANGED Routed(s)
  <2>1. task[s].session = r /\ task[s].frame = i /\ task[s].pc = "queue"
    BY <1>1 DEF Routed
  <2>2. r \in Socket /\ i \in DOMAIN sent
    BY <2>1, <1>0 DEF Task, Ready, Routing
  <2> QED BY <2>1, <2>2, ClosedStays, LeftStays DEF Refused
<1>2. CASE FrameStep(s)
  <2>1. CASE Lookup(s)
    <3>1. /\ r = connections[Recipient(s)] /\ i = task[s].frame
          /\ r = None \/ (r \in MessageOnly /\ NeedsCalls(s))
      BY <2>1, RouteFields
    <3>2. i \in DOMAIN sent
      BY <2>1, <3>1, FrameInHand DEF Lookup, Routing
    <3>3. LeftForCalls(r, i)
      BY <3>1 DEF LeftForCalls, NeedsCalls
    <3> QED BY <3>2, <3>3, LeftStays
  <2>2. CASE Send(s)
    <3>1. link[r] = "closed" /\ task[s].session = r
      BY <2>2, RouteFields
    <3>2. r \in Socket
      BY <3>1, <1>0 DEF Task
    <3> QED BY <3>1, <3>2, ClosedStays
  <2>3. CASE Queue(s)
    BY <2>3, RouteFields
  <2>4. CASE \E type \in Type, to \in User : Take(s, type, to)
    BY <2>4, TakeFields
  <2>5. CASE ListSignals(s) \/ RemoveSignal(s) \/ KeepSignal(s) \/ PurgeFails(s) \/ PurgeDone(s)
    BY <2>5, PurgeFields
  <2> QED BY <2>1, <2>2, <2>3, <2>4, <2>5, <1>2 DEF FrameStep
<1>3. CASE DrainStep(s) \/ PresenceStep(s) \/ EndStep(s) \/ Restart
  <2>1. Restart => task'[s].pc # "queue"
    BY RestartTask
  <2> QED BY <2>1, <1>3, DrainTask, PresenceTask, EndTask
<1> QED BY <1>1, <1>2, <1>3, OthersStep

\* Another handler adds to the queue of a user that is there only what it could
\* not send, or what it looked up before.
LEMMA SweptStep ==
    ASSUME TypeOK, AllReady, Refused, Next, NEW s \in Socket, NEW b \in Bucket, NEW rest,
           connections[Owner[s]] = s, link[s] # "closed", Swept(s, b, rest)
    PROVE  \A i \in ToSet(queue'[Owner[s]][b]) : i \in raced' \/ LeftForCalls(s, i)' \/ i \in rest
<1> SUFFICES ASSUME NEW i \in ToSet(queue'[Owner[s]][b])
             PROVE  i \in raced' \/ LeftForCalls(s, i)' \/ i \in rest
  OBVIOUS
<1>0. Owner[s] \in User /\ s # None
  BY OwnerAssumption, SetsAssumption
<1>1. CASE i \in ToSet(queue[Owner[s]][b])
  <2>1. i \in DOMAIN sent
    BY <1>0, <1>1, QueueSeq
  <2>2. raced \subseteq raced'
    <3>1. ASSUME NEW x \in Socket, PresenceStep(x) \/ EndStep(x) \/ Lose(x) PROVE raced' = raced
      BY <3>1, PresenceLeaves, EndLeaves DEF Lose, frames
    <3>2. ASSUME \/ \E j \in DOMAIN sent : Age(j) \/ Spoil(j)
                 \/ \E u \in User, c \in Bucket : Expire(u, c)
                 \/ Restart
          PROVE  raced' = raced
      BY <3>2 DEF Age, Spoil, Expire, Restart
    <3> QED BY <3>1, <3>2, DrainLeaves, FrameLeaves, Kinds
  <2> QED BY <1>1, <2>1, <2>2, LeftStays DEF Swept
<1>2. CASE \E x \in Socket : Queue(x) /\ i = task[x].frame /\ Owner[s] = Recipient(x)
  <2> PICK x \in Socket : Queue(x) /\ i = task[x].frame /\ Owner[s] = Recipient(x)
    BY <1>2
  <2>1. CASE task[x].session = s
    <3>1. task[x].pc = "queue" /\ i \in DOMAIN sent
      BY QueueEnds DEF Queue
    <3>2. LeftForCalls(s, i)
      BY <2>1, <3>1, <1>0 DEF Refused
    <3> QED BY <3>1, <3>2, LeftStays
  <2>2. CASE task[x].session # s
    BY <2>2 DEF Queue
  <2> QED BY <2>1, <2>2
<1> QED BY <1>0, <1>1, <1>2, QueueStep

\* Outside of a drain a session does not become drained, and does not drain.
LEMMA NotDraining ==
    ASSUME TypeOK, AllReady, NEW s \in Socket, FrameStep(s) \/ PresenceStep(s) \/ EndStep(s) \/ Restart
    PROVE  \/ UNCHANGED Drains(s)
           \/ /\ task'[s].pc \notin {"new", "replace", "fetch", "drain", "unqueue"}
              /\ task'[s].drained => task[s].drained
<1>0. task[s] \in Task
  BY DEF TypeOK
<1>1. CASE FrameStep(s)
  <2>1. task'[s].drained = task[s].drained
    BY <1>1, TakeFields, PurgeFields, RouteFields DEF FrameStep
  <2> QED BY <2>1, <1>1, FrameTask DEF Routing
<1>2. CASE PresenceStep(s)
  <2>1. task'[s].drained = task[s].drained
    <3>1. CASE \E t \in User : Subscribe(s, t) \/ Unsubscribe(s, t)
      BY <3>1, <1>0 DEF Subscribe, Unsubscribe, Task, TypeOK
    <3>2. CASE Add(s) \/ DropKey(s)
      BY <3>2, <1>0 DEF Add, DropKey, Finished, Idle, Task, TypeOK
    <3>3. CASE \E isOnline \in BOOLEAN : handlePresenceUpdate(s, isOnline)
      BY <3>3 DEF handlePresenceUpdate
    <3> QED BY <3>1, <3>2, <3>3, <1>2 DEF PresenceStep
  <2> QED BY <2>1, <1>2, PresenceTask
<1>3. CASE EndStep(s)
  <2>1. task'[s].pc \in {"remove", "forget", "cleanup", "gone"} /\ task'[s].pc \in Steps
    BY <1>3, EndTask DEF Steps
  <2>2. task'[s] = [task[s] EXCEPT !.pc = task'[s].pc]
    BY <2>1, <1>3, EndTask
  <2> QED BY <2>1, <2>2, <1>0 DEF Task
<1>4. CASE Restart
  BY <1>4, RestartTask DEF Drains
<1> QED BY <1>1, <1>2, <1>3, <1>4

LEMMA DrainFields ==
    ASSUME TypeOK, NEW s \in Socket
    PROVE  LET t == task[s]
               n == task'[s]
           IN  /\ Connect(s) => \/ n.pc = "gone" /\ link'[s] = "closed"
                                \/ /\ n.pc \in {"fetch", "replace"} /\ n.bucket = t.bucket
                                   /\ n.drained = t.drained
               /\ ClosePrevious(s) => n.pc = "fetch" /\ n.bucket = t.bucket /\ n.drained = t.drained
               /\ Fetch(s) => /\ n.pc = "drain" /\ n.todo = queue[Owner[s]][Buckets[t.bucket]]
                              /\ n.bucket = t.bucket /\ n.drained = t.drained
               /\ Discard(s) \/ Leave(s) \/ Unqueue(s) =>
                              /\ n.pc = "drain" /\ n.todo = Tail(t.todo)
                              /\ n.bucket = t.bucket /\ n.drained = t.drained
               /\ Deliver(s) => \/ n.pc = "open" /\ ~n.drained
                                \/ /\ n.pc = "unqueue" /\ n.todo = t.todo
                                   /\ n.bucket = t.bucket /\ n.drained = t.drained
               /\ Drained(s) => \/ t.bucket = 1 /\ n.pc = "fetch" /\ n.bucket = 2 /\ n.drained = t.drained
                                \/ t.bucket = 2 /\ n.pc = "open" /\ n.drained
               /\ DrainFails(s) => n.pc = "open" /\ ~n.drained
<1>0. task \in [Socket -> Task] /\ task[s] \in Task
  BY DEF TypeOK
<1>1. \A pc : LET n == [task[s] EXCEPT !.pc = pc]
              IN  /\ n.pc = pc /\ n.bucket = task[s].bucket /\ n.drained = task[s].drained
                  /\ n.todo = task[s].todo
  BY <1>0 DEF Task
<1>2. \A d : Idle(s, d).pc = "open" /\ Idle(s, d).drained = d
  BY DEF Idle
<1>3. ASSUME Connect(s)
      PROVE  \/ task'[s].pc = "gone" /\ link'[s] = "closed"
             \/ /\ task'[s].pc \in {"fetch", "replace"} /\ task'[s].bucket = task[s].bucket
                /\ task'[s].drained = task[s].drained
  <2>1. CASE task' = To(s, "gone") /\ link' = [link EXCEPT ![s] = "closed"]
    BY <2>1, <1>0, <1>1 DEF To, TypeOK
  <2>2. CASE \E pc \in {"fetch", "replace"} : \E r : task' = [task EXCEPT ![s].pc = pc, ![s].session = r]
    BY <2>2, <1>0 DEF Task
  <2> QED BY <2>1, <2>2, <1>3 DEF Connect
<1>4. ASSUME ClosePrevious(s)
      PROVE  task'[s].pc = "fetch" /\ task'[s].bucket = task[s].bucket
             /\ task'[s].drained = task[s].drained
  BY <1>4, <1>0 DEF ClosePrevious, Task
<1>5. ASSUME Fetch(s)
      PROVE  /\ task'[s].pc = "drain" /\ task'[s].todo = queue[Owner[s]][Buckets[task[s].bucket]]
             /\ task'[s].bucket = task[s].bucket /\ task'[s].drained = task[s].drained
  BY <1>5, <1>0 DEF Fetch, Task
<1>6. ASSUME Discard(s) \/ Leave(s) \/ Unqueue(s)
      PROVE  /\ task'[s].pc = "drain" /\ task'[s].todo = Tail(task[s].todo)
             /\ task'[s].bucket = task[s].bucket /\ task'[s].drained = task[s].drained
  <2>1. CASE Unqueue(s)
    BY <2>1, <1>0 DEF Unqueue, Task
  <2>2. CASE Discard(s) \/ Leave(s)
    BY <2>2, <1>0 DEF Discard, Leave, Task
  <2> QED BY <2>1, <2>2, <1>6
<1>7. ASSUME Deliver(s)
      PROVE  \/ task'[s].pc = "open" /\ ~task'[s].drained
             \/ /\ task'[s].pc = "unqueue" /\ task'[s].todo = task[s].todo
                /\ task'[s].bucket = task[s].bucket /\ task'[s].drained = task[s].drained
  <2>1. task'[s] = Idle(s, FALSE) \/ task'[s] = [task[s] EXCEPT !.pc = "unqueue"]
    BY <1>7, <1>0 DEF Deliver, To
  <2>2. CASE task'[s] = [task[s] EXCEPT !.pc = "unqueue"]
    BY <2>2, <1>0 DEF Task
  <2> QED BY <2>1, <2>2, <1>2
<1>8. ASSUME Drained(s)
      PROVE  \/ /\ task[s].bucket = 1 /\ task'[s].pc = "fetch" /\ task'[s].bucket = 2
                /\ task'[s].drained = task[s].drained
             \/ task[s].bucket = 2 /\ task'[s].pc = "open" /\ task'[s].drained
  <2>1. task[s].bucket \in {1, 2}
    BY <1>0 DEF Task
  <2>2. CASE task[s].bucket = 1
    <3>1. task' = [task EXCEPT ![s].pc = "fetch", ![s].bucket = @ + 1]
      BY <2>2, <1>8, BucketsAre DEF Drained
    <3> QED BY <3>1, <2>2, <1>0 DEF Task
  <2>3. CASE task[s].bucket = 2
    <3>1. task'[s] = Idle(s, TRUE)
      BY <2>3, <1>8, <1>0, BucketsAre DEF Drained
    <3> QED BY <3>1, <2>3, <1>2
  <2> QED BY <2>1, <2>2, <2>3
<1>9. ASSUME DrainFails(s) PROVE task'[s].pc = "open" /\ ~task'[s].drained
  <2>1. task'[s] = Idle(s, FALSE)
    BY <1>9, <1>0 DEF DrainFails
  <2> QED BY <2>1, <1>2
<1> QED BY <1>3, <1>4, <1>5, <1>6, <1>7, <1>8, <1>9

\* Only registering makes a session the current one.
LEMMA StillConnected ==
    ASSUME TypeOK, Next, NEW s \in Socket, ~Connect(s), connections'[Owner[s]] = s
    PROVE  connections[Owner[s]] = s
<1>0. /\ connections \in [User -> Socket \cup {None}] /\ s # None
      /\ \A x \in Socket : Owner[x] \in User
  BY OwnerAssumption, SetsAssumption DEF TypeOK
<1>1. ASSUME NEW x \in Socket, Connect(x) PROVE connections[Owner[s]] = s
  <2>1. x # s
    BY <1>1
  <2>2. UNCHANGED connections \/ connections' = [connections EXCEPT ![Owner[x]] = x]
    BY <1>1 DEF Connect
  <2> QED BY <2>1, <2>2, <1>0
<1>2. ASSUME NEW x \in Socket, RemoveConnection(x) PROVE connections[Owner[s]] = s
  <2>1. UNCHANGED connections \/ connections' = [connections EXCEPT ![Owner[x]] = None]
    BY <1>2 DEF RemoveConnection
  <2> QED BY <2>1, <1>0
<1>3. ASSUME NEW x \in Socket,
             DrainStep(x) \/ FrameStep(x) \/ PresenceStep(x) \/ EndStep(x) \/ Lose(x)
      PROVE  Connect(x) \/ RemoveConnection(x) \/ UNCHANGED connections
  <2>1. CASE DrainStep(x)
    BY <2>1 DEF DrainStep, ClosePrevious, Fetch, Discard, Leave, Deliver, Unqueue, Drained, DrainFails
  <2>2. CASE EndStep(x) \/ Lose(x)
    BY <2>2 DEF EndStep, End, Forget, cleanupSubscriptions, Lose
  <2> QED BY <2>1, <2>2, <1>3, FrameLeaves, PresenceLeaves
<1>4. CASE Restart
  BY <1>4, <1>0 DEF Restart
<1>5. ASSUME \/ \E i \in DOMAIN sent : Age(i) \/ Spoil(i)
             \/ \E u \in User, b \in Bucket : Expire(u, b)
      PROVE  UNCHANGED connections
  BY <1>5 DEF Age, Spoil, Expire
<1> QED BY <1>1, <1>2, <1>3, <1>4, <1>5, Kinds

\* What a removal takes off the list of a drain is off the queue as well.
LEMMA SweepsOn ==
    ASSUME TypeOK, AllReady, Sorted, NEW s \in Socket, Discard(s) \/ Unqueue(s)
    PROVE  \A i \in ToSet(queue'[Owner[s]][Buckets[task[s].bucket]]) :
              i \in ToSet(task[s].todo) => i \in ToSet(Tail(task[s].todo))
<1> DEFINE u == Owner[s]
           b == Buckets[task[s].bucket]
           i == Head(task[s].todo)
<1>1. task[s] \in Task /\ Ready(s) /\ u \in User /\ b \in Bucket
  BY OwnerAssumption, BucketsAre DEF TypeOK, AllReady, Task
<1>2. queue[u][b] \in Seq(DOMAIN sent) /\ Once(queue[u][b])
  BY <1>1, QueueSeq DEF Sorted
<1>3. queue' = Without(u, b, i)
  BY DEF Discard, Unqueue
<1>4. queue'[u][b] = Removed(queue[u][b], i)
  BY <1>1, <1>3 DEF Without, TypeOK
<1>5. i \notin ToSet(queue'[u][b])
  BY <1>2, <1>4, RemovedIs
<1>6. task[s].todo \in Seq(Nat) /\ task[s].todo # <<>>
  BY <1>1 DEF Discard, Unqueue, Ready, Task
<1>7. \A j \in ToSet(task[s].todo) : j = i \/ j \in ToSet(Tail(task[s].todo))
  BY <1>6, HeadTail
<1> QED BY <1>5, <1>7

LEMMA DrainingStep ==
    TypeOK /\ AllReady /\ OnePlace /\ Refused /\ Draining /\ Next => Draining'
<1> SUFFICES ASSUME TypeOK, AllReady, OnePlace, Refused, Draining, Next, NEW s \in Socket
             PROVE  /\ connections'[Owner[s]] = s /\ link'[s] # "closed" => Progress(s)'
                    /\ task'[s].pc \in {"new", "replace"} => task'[s].bucket = 1
  BY DEF Draining
<1>0. task[s] \in Task /\ Ready(s) /\ Owner[s] \in User
      /\ (task[s].pc \in {"new", "replace"} => task[s].bucket = 1)
      /\ "message" \in Bucket /\ "file" \in Bucket
  BY OwnerAssumption DEF TypeOK, AllReady, Draining, Bucket
<1>1. CASE Connect(s)
  <2>1. ~task[s].drained /\ task[s].bucket = 1
    BY <1>0, <1>1 DEF Connect, Ready
  <2> QED BY <2>1, <1>1, DrainFields DEF Progress
<1>2. CASE ~Connect(s)
  <2>1. task'[s].pc \in {"new", "replace"} => task'[s].bucket = 1
    <3>1. DrainStep(s) => task'[s].pc \notin {"new", "replace"}
      BY <1>2, DrainFields DEF DrainStep
    <3> QED BY <3>1, <1>0, OthersStep, NotDraining DEF Drains
  <2>2. ASSUME connections'[Owner[s]] = s, link'[s] # "closed" PROVE Progress(s)'
    <3>1. connections[Owner[s]] = s /\ link[s] # "closed" /\ Progress(s)
      BY <1>2, <2>2, StillConnected, ClosedStays DEF Draining
    <3>2. \A b \in Bucket : \A rest : Swept(s, b, rest) =>
             \A i \in ToSet(queue'[Owner[s]][b]) : i \in raced' \/ LeftForCalls(s, i)' \/ i \in rest
      BY <3>1, SweptStep
    <3>3. Swept(s, "message", {}) => Swept(s, "message", {})'
      BY <3>2, <1>0 DEF Swept
    <3>4. Swept(s, "file", {}) => Swept(s, "file", {})'
      BY <3>2, <1>0 DEF Swept
    <3> DEFINE now == task'[s]
               Clear(b, rest) == \A i \in ToSet(queue'[Owner[s]][b]) :
                                    i \in raced' \/ LeftForCalls(s, i)' \/ i \in rest
    <3>5. ASSUME now.drained => task[s].drained,
                 now.pc \in {"drain", "unqueue"} => Clear(Buckets[now.bucket], ToSet(now.todo)),
                 now.pc \in {"fetch", "drain", "unqueue"} /\ now.bucket = 2 =>
                    Swept(s, "message", {})
          PROVE  Progress(s)'
      BY <3>1, <3>3, <3>4, <3>5 DEF Progress, Swept
    <3>6. CASE /\ task'[s].pc \notin {"new", "replace", "fetch", "drain", "unqueue"}
               /\ task'[s].drained => task[s].drained
      BY <3>5, <3>6
    <3>7. Buckets[task[s].bucket] \in Bucket
      BY <1>0, BucketsAre DEF Task
    <3>8. task[s].pc \in {"drain", "unqueue"} => Clear(Buckets[task[s].bucket], ToSet(task[s].todo))
      BY <3>1, <3>2, <3>7 DEF Progress
    <3> HIDE DEF Clear
    <3>9. CASE UNCHANGED Drains(s)
      BY <3>1, <3>5, <3>8, <3>9 DEF Progress, Drains
    <3>10. CASE ClosePrevious(s)
      <4>1. task[s].bucket = 1 /\ now.pc = "fetch" /\ now.bucket = 1 /\ now.drained = task[s].drained
        BY <3>10, <1>0, DrainFields DEF ClosePrevious
      <4> QED BY <4>1, <3>5
    <3>11. CASE Fetch(s)
      <4>1. /\ task[s].pc = "fetch" /\ now.pc = "drain" /\ now.bucket = task[s].bucket
            /\ now.todo = queue[Owner[s]][Buckets[task[s].bucket]] /\ now.drained = task[s].drained
            /\ UNCHANGED queue
        BY <3>11, DrainFields DEF Fetch, frames
      <4>2. Clear(Buckets[now.bucket], ToSet(now.todo))
        BY <4>1 DEF Clear
      <4> QED BY <4>1, <4>2, <3>1, <3>5 DEF Progress
    <3>12. CASE Discard(s) \/ Unqueue(s)
      <4>1. /\ task[s].pc \in {"drain", "unqueue"} /\ now.pc = "drain" /\ now.bucket = task[s].bucket
            /\ now.todo = Tail(task[s].todo) /\ now.drained = task[s].drained
        BY <3>12, DrainFields DEF Discard, Unqueue
      <4>2. Clear(Buckets[now.bucket], ToSet(now.todo))
        BY <4>1, <3>8, <3>12, SweepsOn DEF Clear, OnePlace
      <4> QED BY <4>1, <4>2, <3>1, <3>5 DEF Progress
    <3>13. CASE Leave(s)
      <4>1. /\ task[s].pc = "drain" /\ now.pc = "drain" /\ now.bucket = task[s].bucket
            /\ now.todo = Tail(task[s].todo) /\ now.drained = task[s].drained
            /\ task[s].todo # <<>> /\ LeftForCalls(s, Head(task[s].todo))
            /\ UNCHANGED sent
        BY <3>13, DrainFields DEF Leave, frames
      <4>2. task[s].todo \in Seq(Nat)
        BY <1>0 DEF Task
      <4>3. \A i \in ToSet(task[s].todo) : i = Head(task[s].todo) \/ i \in ToSet(now.todo)
        BY <4>1, <4>2, HeadTail
      <4>4. \A i : i = Head(task[s].todo) => LeftForCalls(s, i)'
        BY <4>1 DEF LeftForCalls
      <4>5. Clear(Buckets[now.bucket], ToSet(now.todo))
        BY <4>1, <4>3, <4>4, <3>8 DEF Clear
      <4> QED BY <4>1, <4>5, <3>1, <3>5 DEF Progress
    <3>14. CASE Deliver(s)
      <4>1. task[s].pc = "drain"
        BY <3>14 DEF Deliver
      <4>2. CASE now.pc = "open" /\ ~now.drained
        BY <4>2, <3>5
      <4>3. CASE /\ now.pc = "unqueue" /\ now.todo = task[s].todo
                 /\ now.bucket = task[s].bucket /\ now.drained = task[s].drained
        BY <4>1, <4>3, <3>1, <3>5, <3>8 DEF Progress
      <4> QED BY <4>2, <4>3, <3>14, DrainFields
    <3>15. CASE Drained(s)
      <4>1. task[s].pc = "drain" /\ task[s].todo = <<>> /\ UNCHANGED <<queue, raced, sent>>
        BY <3>15 DEF Drained, frames
      <4>2. ToSet(task[s].todo) = {}
        BY <4>1 DEF ToSet
      <4>3. Swept(s, Buckets[task[s].bucket], {})
        BY <4>1, <4>2, <3>1 DEF Progress
      <4>4. CASE /\ task[s].bucket = 1 /\ now.pc = "fetch" /\ now.bucket = 2
                 /\ now.drained = task[s].drained
        BY <4>3, <4>4, <3>5, BucketsAre
      <4>5. CASE task[s].bucket = 2 /\ now.pc = "open" /\ now.drained
        <5>1. Swept(s, "message", {}) /\ Swept(s, "file", {})
          BY <4>1, <4>3, <4>5, <3>1, BucketsAre DEF Progress
        <5> QED BY <5>1, <4>5, <3>3, <3>4 DEF Progress
      <4> QED BY <4>4, <4>5, <3>15, DrainFields
    <3>16. CASE DrainFails(s)
      BY <3>5, <3>16, DrainFields
    <3>17. DrainStep(s) => \/ ClosePrevious(s) \/ Fetch(s) \/ Discard(s) \/ Leave(s)
                           \/ Deliver(s) \/ Unqueue(s) \/ Drained(s) \/ DrainFails(s)
      BY <1>2 DEF DrainStep
    <3> QED BY <3>6, <3>9, <3>10, <3>11, <3>12, <3>13, <3>14, <3>15, <3>16, <3>17, OthersStep, NotDraining
  <2> QED BY <2>1, <2>2
<1> QED BY <1>1, <1>2

LEMMA RefusedStutter == Refused /\ Draining /\ UNCHANGED vars => Refused' /\ Draining'
<1> SUFFICES ASSUME Refused, Draining, UNCHANGED vars PROVE Refused' /\ Draining'
  OBVIOUS
<1>1. UNCHANGED <<connections, link, task, sent, queue, raced>>
  BY DEF vars, frames
<1> QED BY <1>1 DEF Refused, Draining, Progress, Swept, LeftForCalls

\* What a drained session that is up finds in its queue it cannot take, or was
\* looked up too early: the drain has swept both buckets once, each frame queued
\* since could not be sent, and frames are in a queue once.
THEOREM NothingStranded == Spec => []StrandedOnlyByRace
<1> DEFINE I == TypeOK /\ AllReady /\ OnePlace /\ Refused /\ Draining
<1>1. Init => I
  <2> SUFFICES ASSUME Init PROVE I
    OBVIOUS
  <2>1. TypeOK /\ AllReady /\ OnePlace
    BY InitTyped, InitOnePlace
  <2>2. \A s \in Socket : task[s] = [Idle(s, FALSE) EXCEPT !.pc = "new"] /\ connections[Owner[s]] = None
    BY OwnerAssumption DEF Init
  <2>3. \A s \in Socket : s # None
    BY SetsAssumption
  <2>4. \A s \in Socket : task[s].pc = "new" /\ task[s].bucket = 1
    BY <2>2 DEF Idle
  <2> QED BY <2>1, <2>2, <2>3, <2>4 DEF Refused, Draining
<1>2. I /\ [Next]_vars => I'
  BY TypeStep, TypeStutter, OnePlaceStep, RefusedStep, DrainingStep, RefusedStutter
<1>3. I => StrandedOnlyByRace
  <2> SUFFICES ASSUME I, NEW u \in User, connections[u] # None, link[connections[u]] # "closed",
                      task[connections[u]].drained, NEW i \in Queued(u)
               PROVE  i \in raced \/ LeftForCalls(connections[u], i)
    BY DEF StrandedOnlyByRace
  <2> DEFINE s == connections[u]
  <2>1. s \in Socket /\ Owner[s] = u
    BY DEF TypeOK
  <2>2. Progress(s)
    BY <2>1 DEF Draining
  <2>3. PICK b \in Bucket : i \in ToSet(queue[u][b])
    BY DEF Queued
  <2> QED BY <2>1, <2>2, <2>3 DEF Progress, Swept, Bucket
<1> QED BY <1>1, <1>2, <1>3, PTL DEF Spec

-----------------------------------------------------------------------------
(* Calls that were ended.                                                  *)

\* An offer nobody holds is not queued again, and is listed only from a queue.
LEMMA RestStays ==
    ASSUME TypeOK, AllReady, Next, NEW i, AtRest(i)
    PROVE  /\ AtRest(i)'
           /\ \A u \in User : i \in Queued(u)' => i \in Queued(u)
           /\ \A u \in User, b \in Bucket : i \in ToSet(queue'[u][b]) => i \in ToSet(queue[u][b])
<1>0. i \in DOMAIN sent /\ sent[i].type = "sdp_offer" /\ ~InHands(i) /\ i # 0
  BY SentIs DEF AtRest
<1>1. ASSUME NEW s \in Socket, task'[s].frame = i PROVE FALSE
  <2>1. ASSUME NEW type \in Type, NEW to \in User, Take(s, type, to) PROVE Len(sent') \notin DOMAIN sent
    BY <2>1, TakeAlone
  <2> QED BY <2>1, <1>0, <1>1, HandStep DEF InHands
<1>2. AtRest(i)'
  BY <1>0, <1>1, SentStep DEF AtRest, InHands
<1>3. ASSUME NEW u \in User, NEW b \in Bucket, i \in ToSet(queue'[u][b])
      PROVE  i \in ToSet(queue[u][b])
  BY <1>0, <1>3, QueueStep DEF InHands
<1> QED BY <1>2, <1>3 DEF Queued

LEMMA ListedFromQueue ==
    ASSUME TypeOK, AllReady, Next, NEW i \in DOMAIN sent, Listed(i)', ~Listed(i)
    PROVE  i \in Queued(sent[i].to)
<1>1. PICK s \in Socket : task'[s].pc \in {"drain", "unqueue"} /\ i \in ToSet(task'[s].todo)
  BY DEF Listed
<1>2. task[s] \in Task /\ Ready(s) /\ Owner[s] \in User
  BY OwnerAssumption DEF TypeOK, AllReady
<1>3. ~UNCHANGED Drains(s)
  BY <1>1 DEF Listed, Drains
<1>4. DrainStep(s)
  BY <1>1, <1>3, OthersStep, NotDraining
<1>5. Fetch(s) \/ Discard(s) \/ Leave(s) \/ Unqueue(s) \/ Deliver(s)
  BY <1>1, <1>4, DrainFields DEF DrainStep
<1>6. CASE Fetch(s)
  <2>1. Buckets[task[s].bucket] \in Bucket /\ i \in ToSet(queue[Owner[s]][Buckets[task[s].bucket]])
    BY <1>1, <1>2, <1>6, BucketsAre, DrainFields DEF Task
  <2> QED BY <2>1, <1>2, QueueSeq
<1>7. CASE Discard(s) \/ Leave(s) \/ Unqueue(s)
  <2>1. task[s].pc \in {"drain", "unqueue"} /\ task[s].todo # <<>> /\ task[s].todo \in Seq(Nat)
    BY <1>2, <1>7 DEF Discard, Leave, Unqueue, Ready, Task
  <2>2. i \in ToSet(Tail(task[s].todo))
    BY <1>1, <1>7, DrainFields
  <2>3. i \in ToSet(task[s].todo)
    BY <2>1, <2>2, HeadTail
  <2> QED BY <2>1, <2>3 DEF Listed
<1>8. CASE Deliver(s)
  <2>1. task[s].pc = "drain" /\ task'[s].todo = task[s].todo
    BY <1>1, <1>8, DrainFields DEF Deliver
  <2> QED BY <2>1, <1>1 DEF Listed
<1> QED BY <1>5, <1>6, <1>7, <1>8

LEMMA DoomedHead ==
    ASSUME TypeOK, Sorted, NEW s \in Socket, NEW i, AtRest(i), i \in Queued(sent[i].to), Doomed(s, i),
           task[s].pc \in {"list", "purge"}
    PROVE  /\ sent[i].to \in User /\ i \in ToSet(queue[sent[i].to]["message"])
           /\ i \notin ToSet(queue[sent[i].to]["file"])
           /\ \E k \in DOMAIN task[s].plan :
                 /\ k \in 1..Len(task[s].plan) /\ task[s].plan[k] = <<sent[i].to, sent[i].from>>
                 /\ \/ k > 1
                    \/ /\ k = 1 /\ Head(task[s].plan) = <<sent[i].to, sent[i].from>>
                       /\ task[s].pc = "list" \/ i \in ToSet(task[s].todo)
<1>1. i \in DOMAIN sent /\ sent[i].to \in User /\ BucketOf(i) = "message"
  BY SentIs DEF AtRest, BucketOf, Frame
<1>2. i \in ToSet(queue[sent[i].to]["message"]) /\ i \notin ToSet(queue[sent[i].to]["file"])
  BY <1>1 DEF Queued, Bucket, Sorted
<1>3. task[s].plan \in Seq(User \X User)
  BY DEF TypeOK, Task
<1>4. PICK k \in DOMAIN task[s].plan :
        /\ task[s].plan[k] = <<sent[i].to, sent[i].from>>
        /\ k > 1 \/ task[s].pc = "list" \/ i \in ToSet(task[s].todo)
  BY DEF Doomed
<1>5. k \in 1..Len(task[s].plan) /\ (k = 1 => Head(task[s].plan) = task[s].plan[k])
  BY <1>3
<1> QED BY <1>1, <1>2, <1>4, <1>5

LEMMA HangupDue ==
    ASSUME TypeOK, AllReady, Next, NEW s \in Socket, NEW type \in Type, NEW to \in User, Take(s, type, to)
    PROVE  Due(s)'
<1> DEFINE f == [type |-> type, from |-> Owner[s], to |-> to]
<1>1. /\ task'[s].plan = Purges(f) /\ task'[s].pc = (IF Purges(f) = <<>> THEN "lookup" ELSE "list")
      /\ task'[s].due = (IF type = "HANGUP" THEN {i \in Offers(Owner[s], to) : ~InHands(i)} ELSE {})
  BY TakeFields
<1>a. f \in Frame
  BY TakeSent
<1> HIDE DEF f
<1>2. CASE type # "HANGUP"
  BY <1>1, <1>2 DEF Due
<1>3. CASE type = "HANGUP"
  <2>1. Purges(f) = <<<<to, Owner[s]>>, <<Owner[s], to>>>>
    BY <1>3, <1>a, PurgesAre DEF f
  <2>2. task'[s].pc = "list" /\ DOMAIN task'[s].plan = {1, 2}
        /\ task'[s].plan[1] = <<to, Owner[s]>> /\ task'[s].plan[2] = <<Owner[s], to>>
    BY <1>1, <2>1
  <2>3. ASSUME NEW i \in task'[s].due PROVE AtRest(i)' /\ Doomed(s, i)'
    <3>1. i \in Offers(Owner[s], to) /\ ~InHands(i)
      BY <1>1, <1>3
    <3>2. AtRest(i) /\ i \in DOMAIN sent /\ {sent[i].from, sent[i].to} = {Owner[s], to}
      BY <3>1 DEF Offers, AtRest
    <3>3. \/ sent[i].to = to /\ sent[i].from = Owner[s]
          \/ sent[i].to = Owner[s] /\ sent[i].from = to
      BY <3>2
    <3>4. sent'[i] = sent[i]
      BY <3>2, SentStep
    <3>5. \E k \in DOMAIN task'[s].plan : task'[s].plan[k] = <<sent'[i].to, sent'[i].from>>
      BY <2>2, <3>3, <3>4
    <3> QED BY <2>2, <3>2, <3>5, RestStays DEF Doomed
  <2> QED BY <2>3 DEF Due
<1> QED BY <1>2, <1>3

LEMMA PurgeDue ==
    ASSUME TypeOK, AllReady, Sorted, Next, NEW s \in Socket, Due(s),
           ListSignals(s) \/ RemoveSignal(s) \/ KeepSignal(s) \/ PurgeFails(s) \/ PurgeDone(s)
    PROVE  Due(s)'
<1> SUFFICES ASSUME NEW i \in task'[s].due
             PROVE  AtRest(i)' /\ (Cancels(s)' => i \notin Queued(sent[i].to)' \/ Doomed(s, i)')
  BY DEF Due
<1>0. task[s] \in Task /\ Ready(s) /\ task[s].plan \in Seq(User \X User) /\ task[s].todo \in Seq(Nat)
  BY DEF TypeOK, AllReady, Task
<1>1. i \in task[s].due
  BY PurgeFields
<1>2. AtRest(i) /\ AtRest(i)' /\ i \in DOMAIN sent /\ sent'[i] = sent[i] /\ sent[i].to \in User
  BY <1>1, RestStays, SentStep, SentIs DEF Due, AtRest, Frame
<1>3. CASE i \notin Queued(sent[i].to)
  <2>1. \A u \in User : i \in Queued(u)' => i \in Queued(u)
    BY <1>2, RestStays
  <2>2. i \notin Queued(sent[i].to)'
    BY <1>2, <1>3, <2>1 DEF Queued
  <2> QED BY <1>2, <2>2
<1>4. CASE i \in Queued(sent[i].to) /\ Cancels(s)'
  <2> DEFINE pair == <<sent[i].to, sent[i].from>>
  <2>1. ~PurgeFails(s) /\ task[s].clean
    BY <1>4, PurgeFields DEF Cancels
  <2>2. task[s].pc \in {"list", "purge"} /\ task[s].plan # <<>>
    BY <1>0, <2>1 DEF ListSignals, RemoveSignal, KeepSignal, PurgeDone, Ready
  <2>3. Doomed(s, i)
    BY <1>1, <1>4, <2>1, <2>2 DEF Due, Cancels
  <2>4. i \in ToSet(queue[sent[i].to]["message"]) /\ i \notin ToSet(queue[sent[i].to]["file"])
    BY <1>2, <1>4, <2>2, <2>3, DoomedHead
  <2>5. PICK k \in DOMAIN task[s].plan :
                 /\ k \in 1..Len(task[s].plan) /\ task[s].plan[k] = pair
                 /\ \/ k > 1
                    \/ /\ k = 1 /\ Head(task[s].plan) = pair
                       /\ task[s].pc = "list" \/ i \in ToSet(task[s].todo)
    BY <1>2, <1>4, <2>2, <2>3, DoomedHead
  <2>6. ASSUME task'[s].plan = task[s].plan,
               k > 1 \/ task'[s].pc = "list" \/ i \in ToSet(task'[s].todo)
        PROVE  Doomed(s, i)'
    BY <1>2, <2>5, <2>6 DEF Doomed
  <2>7. CASE ListSignals(s)
    <3>1. task'[s].plan = task[s].plan /\ task'[s].todo = queue[Head(task[s].plan)[1]]["message"]
      BY <2>7, PurgeFields
    <3>2. k = 1 => i \in ToSet(task'[s].todo)
      BY <3>1, <2>4, <2>5
    <3> QED BY <1>2, <2>5, <2>6, <3>1, <3>2
  <2>8. CASE RemoveSignal(s) \/ KeepSignal(s)
    <3>1. /\ task[s].pc = "purge" /\ task'[s].plan = task[s].plan /\ task'[s].todo = Tail(task[s].todo)
          /\ task[s].todo # <<>>
      BY <2>8, PurgeFields DEF RemoveSignal, KeepSignal
    <3>2. CASE k > 1 \/ i \in ToSet(Tail(task[s].todo))
      BY <1>2, <2>6, <3>1, <3>2
    <3>3. CASE k = 1 /\ i = Head(task[s].todo)
      <4>1. Purged(s, i)
        BY <1>2, <2>5, <3>1, <3>3 DEF Purged, AtRest, PENDING_CALL
      <4>2. RemoveSignal(s) /\ Head(task[s].plan)[1] = sent[i].to
        BY <2>5, <2>8, <3>1, <3>3, <4>1 DEF KeepSignal
      <4>3. queue' = Without(sent[i].to, "message", i)
        BY <3>3, <4>2 DEF RemoveSignal
      <4>4. queue'[sent[i].to]["message"] = Removed(queue[sent[i].to]["message"], i)
        BY <1>2, <4>3 DEF Without, TypeOK, Bucket
      <4>5. queue[sent[i].to]["message"] \in Seq(DOMAIN sent) /\ Once(queue[sent[i].to]["message"])
        BY <1>2, QueueSeq DEF Sorted, Bucket
      <4>6. i \notin ToSet(queue'[sent[i].to]["message"])
        BY <4>4, <4>5, RemovedIs
      <4>7. i \notin ToSet(queue'[sent[i].to]["file"])
        BY <1>2, <2>4, RestStays DEF Bucket
      <4>8. i \notin Queued(sent[i].to)'
        BY <1>2, <4>6, <4>7 DEF Queued, Bucket
      <4> QED BY <1>2, <4>8
    <3>4. i \in ToSet(task[s].todo) => i = Head(task[s].todo) \/ i \in ToSet(Tail(task[s].todo))
      BY <1>0, <3>1, HeadTail
    <3> QED BY <2>5, <3>1, <3>2, <3>3, <3>4
  <2>9. CASE PurgeDone(s)
    <3>1. /\ task[s].pc = "purge" /\ task[s].todo = <<>> /\ task'[s].plan = Tail(task[s].plan)
          /\ task'[s].pc = "list"
      <4>1. task[s].pc = "purge" /\ task[s].todo = <<>>
        BY <2>9 DEF PurgeDone
      <4>2. task'[s].plan = Tail(task[s].plan) /\ task'[s].pc \in {"lookup", "list"}
        BY <2>9, PurgeFields
      <4>3. task'[s].pc \in {"list", "purge"}
        BY <1>4 DEF Cancels
      <4> QED BY <4>1, <4>2, <4>3
    <3>2. ToSet(task[s].todo) = {}
      BY <3>1 DEF ToSet
    <3>3. k > 1
      BY <2>5, <3>1, <3>2
    <3>4. Len(Tail(task[s].plan)) = Len(task[s].plan) - 1 /\ Len(task[s].plan) \in Nat
          /\ \A j \in 1..Len(Tail(task[s].plan)) : Tail(task[s].plan)[j] = task[s].plan[j + 1]
          /\ DOMAIN Tail(task[s].plan) = 1..Len(Tail(task[s].plan))
      BY <1>0, <2>2, HeadTailProperties
    <3>5. k - 1 \in DOMAIN Tail(task[s].plan) /\ (k - 1) + 1 = k
      BY <2>5, <3>3, <3>4
    <3>6. Tail(task[s].plan)[k - 1] = pair
      BY <2>5, <3>4, <3>5
    <3> QED BY <1>2, <3>1, <3>5, <3>6 DEF Doomed
  <2> QED BY <2>1, <2>7, <2>8, <2>9
<1> QED BY <1>2, <1>3, <1>4

LEMMA DueStep ==
    ASSUME TypeOK, AllReady, Sorted, Next, NEW s \in Socket, Due(s) PROVE Due(s)'
<1>0. task[s] \in Task
  BY DEF TypeOK
<1>1. ASSUME NEW i \in task[s].due
      PROVE  /\ AtRest(i) /\ AtRest(i)' /\ i \in DOMAIN sent /\ sent'[i] = sent[i] /\ sent[i].to \in User
             /\ i \notin Queued(sent[i].to) => i \notin Queued(sent[i].to)'
  <2>1. AtRest(i) /\ i \in DOMAIN sent /\ sent[i].to \in User
    BY SentIs DEF Due, AtRest, Frame
  <2>2. sent'[i] = sent[i]
    BY <2>1, SentStep
  <2> QED BY <2>1, <2>2, RestStays DEF Queued
<1>2. CASE UNCHANGED <<Drains(s), Signals(s)>>
  <2>1. UNCHANGED <<task[s].pc, task[s].todo, task[s].plan, task[s].clean, task[s].due>>
    BY <1>2 DEF Drains, Signals
  <2> QED BY <1>1, <2>1 DEF Due, Cancels, Doomed
<1>3. CASE task'[s].pc \notin {"list", "purge"} /\ task'[s].due \subseteq task[s].due
  BY <1>1, <1>3 DEF Due, Cancels
<1>4. CASE DrainStep(s)
  BY <1>3, <1>4, DrainTask
<1>5. CASE PresenceStep(s)
  BY <1>3, <1>5, PresenceTask
<1>6. CASE EndStep(s)
  BY <1>3, <1>6, EndTask
<1>7. CASE Restart
  <2>1. task[s].pc = "new" => task'[s].pc = "new" /\ task'[s].due = task[s].due
    BY <1>7, RestartTask
  <2>2. task[s].pc # "new" => task'[s].pc = "gone" /\ task'[s].due = {}
    BY <1>7, RestartTask
  <2> QED BY <1>3, <2>1, <2>2
<1>8. CASE FrameStep(s)
  <2>1. Lookup(s) \/ Send(s) \/ Queue(s) =>
          task'[s].pc \notin {"list", "purge"} /\ task'[s].due \subseteq task[s].due
    BY RouteFields
  <2> QED BY <1>3, <1>8, <2>1, HangupDue, PurgeDue DEF FrameStep
<1> QED BY <1>2, <1>4, <1>5, <1>6, <1>7, <1>8, OthersStep

\* The offers of a call whose end has purged both queues.
LEMMA CancelledChanges ==
    ASSUME Next
    PROVE  UNCHANGED cancelled \/ \E s \in Socket : PurgeDone(s)
<1>1. ASSUME NEW s \in Socket, FrameStep(s) PROVE UNCHANGED cancelled \/ PurgeDone(s)
  BY <1>1 DEF FrameStep, Take, ListSignals, RemoveSignal, KeepSignal, PurgeFails, Lookup, Send, Queue,
       frames
<1>2. ASSUME NEW s \in Socket, DrainStep(s) \/ PresenceStep(s) \/ EndStep(s) \/ Lose(s)
      PROVE  UNCHANGED cancelled
  BY <1>2, DrainLeaves, PresenceLeaves, EndLeaves DEF Lose, frames
<1>3. ASSUME \/ \E i \in DOMAIN sent : Age(i) \/ Spoil(i)
             \/ \E u \in User, b \in Bucket : Expire(u, b)
             \/ Restart
      PROVE  UNCHANGED cancelled
  BY <1>3 DEF Age, Spoil, Expire, Restart
<1> QED BY <1>1, <1>2, <1>3, Kinds

LEMMA CancellingStep ==
    TypeOK /\ AllReady /\ Sorted /\ Cancelling /\ CancelledStaysCancelled /\ Next
       => Cancelling' /\ CancelledStaysCancelled'
<1> SUFFICES ASSUME TypeOK, AllReady, Sorted, Cancelling, CancelledStaysCancelled, Next
             PROVE  Cancelling' /\ CancelledStaysCancelled'
  OBVIOUS
<1>1. \A s \in Socket : Due(s)'
  BY DueStep DEF Cancelling
<1>2. ASSUME NEW i, AtRest(i), ~Listed(i), i \notin Queued(sent[i].to)
      PROVE  AtRest(i)' /\ ~Listed(i)' /\ i \notin Queued(sent[i].to)'
  <2>1. i \in DOMAIN sent /\ sent[i].to \in User
    BY <1>2, SentIs DEF AtRest, Frame
  <2>2. sent'[i] = sent[i]
    BY <2>1, SentStep
  <2> QED BY <1>2, <2>1, <2>2, RestStays, ListedFromQueue DEF Queued
<1>3. ASSUME NEW i \in cancelled'
      PROVE  AtRest(i) /\ ~Listed(i) /\ i \notin Queued(sent[i].to)
  <2>1. CASE i \in cancelled
    BY <2>1 DEF Cancelling, CancelledStaysCancelled
  <2>2. CASE i \notin cancelled
    <3>1. PICK s \in Socket : PurgeDone(s)
      BY <2>2, CancelledChanges
    <3>2. /\ Len(task[s].plan) = 1 /\ task[s].clean /\ i \in task[s].due /\ ~Listed(i)
          /\ task[s].pc = "purge" /\ task[s].todo = <<>>
      BY <2>2, <3>1 DEF PurgeDone
    <3>3. AtRest(i) /\ (i \notin Queued(sent[i].to) \/ Doomed(s, i))
      BY <3>2 DEF Cancelling, Due, Cancels
    <3>4. ~(i \in Queued(sent[i].to) /\ Doomed(s, i))
      <4> SUFFICES ASSUME i \in Queued(sent[i].to), Doomed(s, i) PROVE FALSE
        OBVIOUS
      <4>1. \E k \in 1..Len(task[s].plan) : k > 1 \/ task[s].pc = "list" \/ i \in ToSet(task[s].todo)
        BY <3>2, <3>3, DoomedHead
      <4>2. ToSet(task[s].todo) = {}
        BY <3>2 DEF ToSet
      <4> QED BY <3>2, <4>1, <4>2
    <3> QED BY <3>2, <3>3, <3>4
  <2> QED BY <2>1, <2>2
<1>4. \A i \in cancelled' : AtRest(i)' /\ ~Listed(i)' /\ i \notin Queued(sent[i].to)'
  BY <1>2, <1>3
<1>5. Cancelling'
  BY <1>1, <1>4 DEF Cancelling
<1>6. CancelledStaysCancelled'
  BY <1>4 DEF CancelledStaysCancelled
<1> QED BY <1>5, <1>6

\* An offer whose call was ended, by a purge that failed nowhere, is in no queue
\* and on no new list for ever: a frame nobody holds is never queued again, and
\* both purges judged every entry their queue had.
THEOREM CancelledForGood == Spec => []CancelledStaysCancelled
<1> DEFINE I == TypeOK /\ AllReady /\ OnePlace /\ Cancelling /\ CancelledStaysCancelled
<1>1. Init => I
  <2> SUFFICES ASSUME Init PROVE I
    OBVIOUS
  <2>1. TypeOK /\ AllReady /\ OnePlace
    BY InitTyped, InitOnePlace
  <2>2. \A s \in Socket : task[s].due = {}
    BY DEF Init, Idle
  <2>3. cancelled = {}
    BY DEF Init
  <2> QED BY <2>1, <2>2, <2>3 DEF Cancelling, CancelledStaysCancelled, Due
<1>2. Cancelling /\ CancelledStaysCancelled /\ UNCHANGED vars => Cancelling' /\ CancelledStaysCancelled'
  <2> SUFFICES ASSUME Cancelling, CancelledStaysCancelled, UNCHANGED vars
               PROVE  Cancelling' /\ CancelledStaysCancelled'
    OBVIOUS
  <2>1. UNCHANGED <<task, sent, queue, cancelled>>
    BY DEF vars, frames
  <2>2. CancelledStaysCancelled'
    BY <2>1 DEF CancelledStaysCancelled, Listed, Queued
  <2>3. \A i \in cancelled : AtRest(i)'
    BY <2>1 DEF Cancelling, AtRest, InHands
  <2>4. ASSUME NEW s \in Socket, NEW i \in task[s].due
        PROVE  AtRest(i)' /\ (Cancels(s)' => i \notin Queued(sent[i].to)' \/ Doomed(s, i)')
    <3>1. AtRest(i) /\ (Cancels(s) => i \notin Queued(sent[i].to) \/ Doomed(s, i))
      BY <2>4 DEF Cancelling, Due
    <3>2. AtRest(i)' /\ (Cancels(s)' <=> Cancels(s)) /\ (Doomed(s, i)' <=> Doomed(s, i))
      BY <2>1, <3>1 DEF AtRest, InHands, Cancels, Doomed
    <3>3. i \in Queued(sent[i].to)' <=> i \in Queued(sent[i].to)
      BY <2>1 DEF Queued
    <3> QED BY <3>1, <3>2, <3>3
  <2>5. \A s \in Socket : Due(s)'
    BY <2>1, <2>4 DEF Due
  <2> QED BY <2>1, <2>2, <2>3, <2>5 DEF Cancelling
<1>3. I /\ [Next]_vars => I'
  BY <1>2, TypeStep, TypeStutter, OnePlaceStep, CancellingStep DEF OnePlace
<1> QED BY <1>1, <1>3, PTL DEF Spec

-----------------------------------------------------------------------------
(* Presence.                                                               *)

\* Steps that leave requests about presence and clean-ups alone.
Asking == {"add", "dropKey", "forget", "cleanup"}

LEMMA ElsewhereAsked ==
    ASSUME Presence, UNCHANGED presence,
           \A x \in Socket : \/ task'[x] = task[x]
                             \/ task[x].pc \notin Asking /\ task'[x].pc \notin Asking
    PROVE  Presence'
<1>1. UNCHANGED <<foreground, subscribers, want, crossed>>
  BY DEF presence
<1>2. \A x \in Socket : task'[x].pc \in Asking => task'[x] = task[x]
  OBVIOUS
<1>3. \A x \in Socket : task[x].pc \in Asking => task'[x] = task[x]
  OBVIOUS
<1>4. \A u \in User : Ending(u)' <=> Ending(u)
  BY <1>2, <1>3 DEF Ending, Asking
<1>5. Apart'
  BY <1>1, <1>2 DEF Presence, Apart, Contested, Asking
<1>6. Found'
  BY <1>1, <1>2 DEF Presence, Found, Asking
<1>7. Quiet'
  BY <1>1, <1>4 DEF Presence, Quiet
<1>8. Hidden'
  BY <1>1, <1>2 DEF Presence, Hidden, Asking
<1>9. PresenceKept'
  BY <1>1, <1>4 DEF Presence, PresenceKept, Members
<1> QED BY <1>5, <1>6, <1>7, <1>8, <1>9 DEF Presence

LEMMA AskFields ==
    ASSUME TypeOK, NEW s \in Socket
    PROVE  /\ \A t \in User : Subscribe(s, t) =>
                 /\ task'[s].pc = "add" /\ task'[s].target = t /\ task'[s].attached
                 /\ \A x \in Socket \ {s} : task'[x] = task[x]
           /\ \A t \in User : Unsubscribe(s, t) =>
                 \/ /\ task'[s].pc = "dropKey" /\ task'[s].target = t /\ task'[s].attached
                    /\ \A x \in Socket \ {s} : task'[x] = task[x]
                    /\ subscribers'[t] = {}
                    /\ crossed' = IF Contested(t, "add") THEN Crossing(Owner[s]) \union {t}
                                                         ELSE Crossing(Owner[s])
                 \/ task' = task /\ crossed' = Crossing(Owner[s])
           /\ Add(s) => /\ task'[s].pc = "open"
                        /\ \A x \in Socket \ {s} : task'[x] = task[x]
           /\ DropKey(s) => task'[s].pc = "open"
<1>0. task \in [Socket -> Task] /\ task[s] \in Task /\ task[s].drained \in BOOLEAN
  BY DEF TypeOK, Task
<1>1. ASSUME NEW t \in User, Subscribe(s, t)
      PROVE  /\ task'[s].pc = "add" /\ task'[s].target = t /\ task'[s].attached
             /\ \A x \in Socket \ {s} : task'[x] = task[x]
  <2>1. task'[s] = [task[s] EXCEPT !.pc = "add", !.target = t, !.attached = TRUE]
    BY <1>0, <1>1 DEF Subscribe
  <2>2. \A x \in Socket \ {s} : task'[x] = task[x]
    BY <1>0, <1>1 DEF Subscribe
  <2> QED BY <2>1, <2>2, <1>0 DEF Task
<1>2. ASSUME NEW t \in User, Unsubscribe(s, t)
      PROVE  \/ /\ task'[s].pc = "dropKey" /\ task'[s].target = t /\ task'[s].attached
                /\ \A x \in Socket \ {s} : task'[x] = task[x]
                /\ subscribers'[t] = {}
                /\ crossed' = IF Contested(t, "add") THEN Crossing(Owner[s]) \union {t}
                                                     ELSE Crossing(Owner[s])
             \/ task' = task /\ crossed' = Crossing(Owner[s])
  <2>1. CASE subscribers'[t] = {}
    <3>1. task' = [task EXCEPT ![s].pc = "dropKey", ![s].target = t, ![s].attached = TRUE]
          /\ crossed' = IF Contested(t, "add") THEN Crossing(Owner[s]) \union {t} ELSE Crossing(Owner[s])
      BY <1>2, <2>1 DEF Unsubscribe
    <3>2. task'[s] = [task[s] EXCEPT !.pc = "dropKey", !.target = t, !.attached = TRUE]
      BY <1>0, <3>1
    <3>3. \A x \in Socket \ {s} : task'[x] = task[x]
      BY <1>0, <3>1
    <3>4. task'[s].pc = "dropKey" /\ task'[s].target = t /\ task'[s].attached
      BY <3>2, <1>0 DEF Task
    <3> QED BY <2>1, <3>1, <3>3, <3>4
  <2>2. CASE subscribers'[t] # {}
    BY <1>2, <2>2 DEF Unsubscribe
  <2> QED BY <2>1, <2>2
<1>3. ASSUME Add(s) PROVE task'[s].pc = "open" /\ \A x \in Socket \ {s} : task'[x] = task[x]
  BY <1>0, <1>3 DEF Add, Finished, Idle
<1>4. ASSUME DropKey(s) PROVE task'[s].pc = "open"
  BY <1>0, <1>4 DEF DropKey, Finished, Idle
<1> QED BY <1>1, <1>2, <1>3, <1>4

LEMMA CrossingIs ==
    ASSUME NEW u
    PROVE  /\ crossed \subseteq Crossing(u) /\ Crossing(u) \subseteq crossed \union {u}
           /\ Ending(u) => u \in Crossing(u)
BY DEF Crossing

LEMMA UpdateAsked ==
    ASSUME TypeOK, Presence, NEW s \in Socket, NEW isOnline \in BOOLEAN, handlePresenceUpdate(s, isOnline)
    PROVE  Presence'
<1> DEFINE u == Owner[s]
<1>1. u \in User /\ UNCHANGED <<task, subscribers>> /\ crossed' = Crossing(u)
  BY OwnerAssumption DEF handlePresenceUpdate
<1>2. crossed \subseteq crossed' /\ (Ending(u) => u \in crossed')
  BY <1>1, CrossingIs
<1>3. /\ want'[u].online = isOnline /\ \A v \in User \ {u} : want'[v] = want[v]
      /\ \A v \in User : want'[v].targets = want[v].targets
  BY <1>1 DEF handlePresenceUpdate, TypeOK
<1>4. /\ u \in foreground' <=> isOnline
      /\ \A v \in User \ {u} : v \in foreground' <=> v \in foreground
  BY <1>1 DEF handlePresenceUpdate
<1> HIDE DEF u
<1>5. Apart'
  BY <1>1, <1>2 DEF Presence, Apart, Contested
<1>6. Found'
  BY <1>1, <1>2 DEF Presence, Found
<1>7. \A v \in User : Ending(v)' <=> Ending(v)
  BY <1>1 DEF Ending
<1>8. Quiet'
  BY <1>2, <1>3, <1>7 DEF Presence, Quiet
<1>9. Hidden'
  <2> SUFFICES ASSUME NEW x \in Socket, task'[x].pc = "cleanup", Owner[x] \notin crossed'
               PROVE  Owner[x] \notin foreground'
    BY DEF Hidden
  <2>1. Ending(Owner[x]) /\ Owner[x] \in User
    BY <1>1, OwnerAssumption DEF Ending
  <2>2. Owner[x] # u
    BY <1>2, <2>1
  <2> QED BY <1>1, <1>2, <1>4, <2>1, <2>2 DEF Presence, Hidden
<1>10. PresenceKept'
  <2> SUFFICES ASSUME NEW v \in User, v \notin crossed', ~Ending(v)'
               PROVE  /\ v \in foreground' <=> want'[v].online
                      /\ \A t \in User \ crossed' : v \in Members(t)' <=> t \in want'[v].targets
    BY DEF PresenceKept
  <2>1. /\ v \in foreground <=> want[v].online
        /\ \A t \in User \ crossed' : v \in Members(t) <=> t \in want[v].targets
    BY <1>2, <1>7 DEF Presence, PresenceKept
  <2>2. \A t \in User : Members(t)' = Members(t)
    BY <1>1 DEF Members
  <2> QED BY <1>1, <1>3, <1>4, <2>1, <2>2
<1> QED BY <1>5, <1>6, <1>8, <1>9, <1>10 DEF Presence

LEMMA SubscribeAsked ==
    ASSUME TypeOK, Presence, NEW s \in Socket, NEW t \in User, Subscribe(s, t)
    PROVE  Presence'
<1>1. /\ task[s].pc = "open" /\ UNCHANGED <<foreground, want>>
      /\ crossed' = IF Contested(t, "dropKey") THEN crossed \union {t} ELSE crossed
      /\ subscribers' = [subscribers EXCEPT ![t] = Members(t)]
  BY DEF Subscribe
<1>2. /\ task'[s].pc = "add" /\ task'[s].target = t /\ task'[s].attached
      /\ \A x \in Socket \ {s} : task'[x] = task[x]
  BY AskFields
<1>3. crossed \subseteq crossed' /\ (Contested(t, "dropKey") => t \in crossed')
  BY <1>1
<1>4. \A r \in User : /\ Members(r)' = Members(r)
                      /\ r # t => subscribers'[r] = subscribers[r]
  <2>1. subscribers \in [User -> (SUBSET User) \union {None}] /\ Members(t) # None
    BY SetsAssumption DEF TypeOK, Members
  <2>2. subscribers'[t] = Members(t) /\ \A r \in User \ {t} : subscribers'[r] = subscribers[r]
    BY <1>1, <2>1
  <2> QED BY <2>1, <2>2 DEF Members
<1>5. \A v \in User : Ending(v)' <=> Ending(v)
  BY <1>1, <1>2 DEF Ending
<1>6. \A r \in User : Contested(r, "dropKey")' => Contested(r, "dropKey")
  BY <1>2 DEF Contested
<1>7. \A r \in User : Contested(r, "add")' => r = t \/ Contested(r, "add")
  BY <1>2 DEF Contested
<1>8. Apart'
  BY <1>3, <1>6, <1>7 DEF Presence, Apart
<1>9. Found'
  <2> SUFFICES ASSUME NEW x \in Socket, task'[x].target \notin crossed'
               PROVE  /\ task'[x].pc = "add" => task'[x].attached
                      /\ task'[x].pc = "dropKey" /\ task'[x].attached => subscribers'[task'[x].target] = {}
    BY DEF Found
  <2>1. CASE x = s
    BY <1>2, <2>1
  <2>2. CASE x # s
    <3>1. task'[x] = task[x] /\ task[x].target \in User
      BY <1>2, <2>2 DEF TypeOK, Task
    <3>2. task[x].pc = "dropKey" => task[x].target # t
      BY <1>3, <3>1 DEF Contested
    <3>3. task[x].target \notin crossed
      BY <1>3, <3>1
    <3> QED BY <1>4, <3>1, <3>2, <3>3 DEF Presence, Found
  <2> QED BY <2>1, <2>2
<1>10. Quiet'
  BY <1>1, <1>3, <1>5 DEF Presence, Quiet
<1>11. Hidden'
  BY <1>1, <1>2, <1>3 DEF Presence, Hidden
<1>12. PresenceKept'
  BY <1>1, <1>3, <1>4, <1>5 DEF Presence, PresenceKept
<1> QED BY <1>8, <1>9, <1>10, <1>11, <1>12 DEF Presence

LEMMA AddAsked ==
    ASSUME TypeOK, AllReady, Presence, NEW s \in Socket, Add(s)
    PROVE  Presence'
<1> DEFINE u == Owner[s]
<1> PICK t \in User : t = task[s].target
  BY DEF TypeOK, Task
<1>1. /\ u \in User /\ task[s].pc = "add" /\ UNCHANGED foreground /\ crossed' = Crossing(u)
      /\ subscribers' = IF task[s].attached THEN [subscribers EXCEPT ![t] = @ \union {u}] ELSE subscribers
      /\ want' = [want EXCEPT ![u].targets = @ \union {t}]
  BY OwnerAssumption DEF Add, TypeOK, Task
<1>2. task'[s].pc = "open" /\ \A x \in Socket \ {s} : task'[x] = task[x]
  BY AskFields
<1>3. crossed \subseteq crossed' /\ (Ending(u) => u \in crossed')
  BY <1>1, CrossingIs
<1> DEFINE free == t \notin crossed
<1>4. free => task[s].attached
  BY <1>1 DEF Presence, Found
<1>5. /\ want'[u].online = want[u].online /\ want'[u].targets = want[u].targets \union {t}
      /\ \A v \in User \ {u} : want'[v] = want[v]
  BY <1>1 DEF TypeOK
<1>6. \A r \in User \ {t} : subscribers'[r] = subscribers[r]
  BY <1>1 DEF TypeOK
<1>7. free => Members(t)' = Members(t) \union {u}
  <2> SUFFICES ASSUME free PROVE Members(t)' = Members(t) \union {u}
    OBVIOUS
  <2>1. subscribers[t] # None
    BY <1>1, <1>4 DEF AllReady, Ready
  <2>2. subscribers'[t] = subscribers[t] \union {u} /\ subscribers'[t] \in SUBSET User
    BY <1>1, <1>4, <2>1 DEF TypeOK
  <2> QED BY <2>1, <2>2, SetsAssumption DEF Members
<1> HIDE DEF u
<1>8. \A v \in User : Ending(v)' <=> Ending(v)
  BY <1>1, <1>2 DEF Ending
<1>9. Apart'
  BY <1>2, <1>3 DEF Presence, Apart, Contested
<1>10. Found'
  <2> SUFFICES ASSUME NEW x \in Socket, task'[x].target \notin crossed'
               PROVE  /\ task'[x].pc = "add" => task'[x].attached
                      /\ task'[x].pc = "dropKey" /\ task'[x].attached => subscribers'[task'[x].target] = {}
    BY DEF Found
  <2>1. CASE x = s
    BY <1>2, <2>1
  <2>2. CASE x # s
    <3>1. task'[x] = task[x] /\ task[x].target \in User /\ task[x].target \notin crossed
      BY <1>2, <1>3, <2>2 DEF TypeOK, Task
    <3>2. task[x].pc = "dropKey" => task[x].target # t
      BY <1>1, <3>1 DEF Presence, Apart, Contested
    <3> QED BY <1>6, <3>1, <3>2 DEF Presence, Found
  <2> QED BY <2>1, <2>2
<1>11. Quiet'
  BY <1>3, <1>5, <1>8 DEF Presence, Quiet
<1>12. Hidden'
  BY <1>1, <1>2, <1>3 DEF Presence, Hidden
<1>13. PresenceKept'
  <2> SUFFICES ASSUME NEW v \in User, v \notin crossed', ~Ending(v)'
               PROVE  /\ v \in foreground' <=> want'[v].online
                      /\ \A r \in User \ crossed' : v \in Members(r)' <=> r \in want'[v].targets
    BY DEF PresenceKept
  <2>1. /\ v \in foreground <=> want[v].online
        /\ \A r \in User \ crossed' : v \in Members(r) <=> r \in want[v].targets
    BY <1>3, <1>8 DEF Presence, PresenceKept
  <2>2. v \in foreground' <=> want'[v].online
    BY <1>1, <1>5, <2>1
  <2>3. ASSUME NEW r \in User, r \notin crossed'
        PROVE  v \in Members(r)' <=> r \in want'[v].targets
    <3>1. CASE r = t
      BY <1>3, <1>5, <1>7, <2>1, <2>3, <3>1
    <3>2. CASE r # t
      <4>1. Members(r)' = Members(r)
        BY <1>6, <3>2 DEF Members
      <4> QED BY <1>5, <2>1, <2>3, <3>2, <4>1
    <3> QED BY <3>1, <3>2
  <2> QED BY <2>2, <2>3
<1> QED BY <1>9, <1>10, <1>11, <1>12, <1>13 DEF Presence

LEMMA UnsubscribeAsked ==
    ASSUME TypeOK, Presence, NEW s \in Socket, NEW t \in User, Unsubscribe(s, t)
    PROVE  Presence'
<1> DEFINE u == Owner[s]
<1>1. /\ u \in User /\ task[s].pc = "open" /\ UNCHANGED foreground /\ subscribers[t] # None
      /\ subscribers' = [subscribers EXCEPT ![t] = @ \ {u}]
      /\ want' = [want EXCEPT ![u].targets = @ \ {t}]
  BY OwnerAssumption DEF Unsubscribe
<1>2. \/ /\ task'[s].pc = "dropKey" /\ task'[s].target = t /\ task'[s].attached
         /\ \A x \in Socket \ {s} : task'[x] = task[x]
         /\ subscribers'[t] = {}
         /\ crossed' = IF Contested(t, "add") THEN Crossing(u) \union {t} ELSE Crossing(u)
      \/ task' = task /\ crossed' = Crossing(u)
  BY AskFields
<1>3. crossed \subseteq crossed' /\ (Ending(u) => u \in crossed')
  BY <1>2, CrossingIs
<1>4. /\ want'[u].online = want[u].online /\ want'[u].targets = want[u].targets \ {t}
      /\ \A v \in User \ {u} : want'[v] = want[v]
  BY <1>1 DEF TypeOK
<1>5. /\ \A r \in User \ {t} : subscribers'[r] = subscribers[r]
      /\ subscribers'[t] = subscribers[t] \ {u}
  BY <1>1 DEF TypeOK
<1>6. Members(t)' = Members(t) \ {u}
  <2>1. subscribers'[t] \in SUBSET User
    BY <1>1, <1>5 DEF TypeOK
  <2> QED BY <1>1, <1>5, <2>1, SetsAssumption DEF Members
<1> HIDE DEF u
<1>7. \A x \in Socket : task'[x] = task[x] \/ (x = s /\ task'[s].pc = "dropKey")
  BY <1>2
<1>8. \A v \in User : Ending(v)' <=> Ending(v)
  BY <1>1, <1>7 DEF Ending
<1>9. \A r \in User : Contested(r, "add")' => Contested(r, "add")
  BY <1>7 DEF Contested
<1>10. ASSUME NEW r \in User, Contested(r, "dropKey")', Contested(r, "add")'
       PROVE  r \in crossed'
  <2>1. CASE Contested(r, "dropKey")
    BY <1>3, <1>9, <1>10, <2>1 DEF Presence, Apart
  <2>2. CASE ~Contested(r, "dropKey")
    <3>1. task'[s].pc = "dropKey" /\ task'[s].target = r /\ task' # task
      BY <1>7, <1>10, <2>2 DEF Contested
    <3>2. r = t /\ crossed' = IF Contested(t, "add") THEN Crossing(u) \union {t} ELSE Crossing(u)
      BY <1>2, <3>1
    <3> QED BY <1>9, <1>10, <3>2
  <2> QED BY <2>1, <2>2
<1>11. Apart'
  BY <1>10 DEF Apart
<1>12. Found'
  <2> SUFFICES ASSUME NEW x \in Socket, task'[x].target \notin crossed'
               PROVE  /\ task'[x].pc = "add" => task'[x].attached
                      /\ task'[x].pc = "dropKey" /\ task'[x].attached => subscribers'[task'[x].target] = {}
    BY DEF Found
  <2>1. CASE task'[x] = task[x]
    <3>1. task[x].target \in User /\ task[x].target \notin crossed
      BY <1>3, <2>1 DEF TypeOK, Task
    <3>2. task[x].pc = "add" => task[x].attached
      BY <3>1 DEF Presence, Found
    <3>3. task[x].pc = "dropKey" /\ task[x].attached => subscribers[task[x].target] = {}
      BY <3>1 DEF Presence, Found
    <3> QED BY <1>5, <2>1, <3>1, <3>2, <3>3
  <2>2. CASE task'[x] # task[x]
    BY <1>2, <2>2
  <2> QED BY <2>1, <2>2
<1>13. Quiet'
  BY <1>3, <1>4, <1>8 DEF Presence, Quiet
<1>14. Hidden'
  BY <1>1, <1>3, <1>7 DEF Presence, Hidden
<1>15. PresenceKept'
  <2> SUFFICES ASSUME NEW v \in User, v \notin crossed', ~Ending(v)'
               PROVE  /\ v \in foreground' <=> want'[v].online
                      /\ \A r \in User \ crossed' : v \in Members(r)' <=> r \in want'[v].targets
    BY DEF PresenceKept
  <2>1. /\ v \in foreground <=> want[v].online
        /\ \A r \in User \ crossed' : v \in Members(r) <=> r \in want[v].targets
    BY <1>3, <1>8 DEF Presence, PresenceKept
  <2>2. v \in foreground' <=> want'[v].online
    BY <1>1, <1>4, <2>1
  <2>3. ASSUME NEW r \in User, r \notin crossed'
        PROVE  v \in Members(r)' <=> r \in want'[v].targets
    <3>1. CASE r = t
      BY <1>4, <1>6, <2>1, <2>3, <3>1
    <3>2. CASE r # t
      <4>1. Members(r)' = Members(r)
        BY <1>5, <3>2 DEF Members
      <4> QED BY <1>4, <2>1, <2>3, <3>2, <4>1
    <3> QED BY <3>1, <3>2
  <2> QED BY <2>2, <2>3
<1> QED BY <1>11, <1>12, <1>13, <1>14, <1>15 DEF Presence

\* remove(key, set) takes from the map a set that is empty, unless a request
\* was crossed, so nobody is forgotten with it.
LEMMA DropAsked ==
    ASSUME TypeOK, Presence, NEW s \in Socket, DropKey(s)
    PROVE  Presence'
<1> PICK t \in User : t = task[s].target
  BY DEF TypeOK, Task
<1>1. /\ task[s].pc = "dropKey" /\ UNCHANGED <<foreground, want, crossed>>
      /\ task \in [Socket -> Task]
  BY DEF DropKey, TypeOK
<1>2. task'[s].pc = "open"
  BY AskFields
<1>3. \/ UNCHANGED subscribers /\ \A x \in Socket \ {s} : task'[x] = task[x]
      \/ /\ task[s].attached \/ subscribers[t] = {}
         /\ subscribers' = [subscribers EXCEPT ![t] = None]
         /\ \A x \in Socket \ {s} :
               task'[x] = IF task[x].pc \in {"add", "dropKey"} /\ task[x].target = t
                          THEN [task[x] EXCEPT !.attached = FALSE] ELSE task[x]
  BY <1>1 DEF DropKey, Finished
<1>4. ASSUME NEW x \in Socket \ {s}
      PROVE  /\ task'[x].pc = task[x].pc /\ task'[x].target = task[x].target
             /\ \/ task'[x].attached = task[x].attached
                \/ task[x].target = t /\ ~task'[x].attached
  <2> DEFINE lost == [task[x] EXCEPT !.attached = FALSE]
  <2>1. /\ lost.pc = task[x].pc /\ lost.target = task[x].target /\ lost.attached = FALSE
    BY <1>1 DEF Task
  <2>2. task'[x] = task[x] \/ (task[x].target = t /\ task'[x] = lost)
    BY <1>3
  <2> HIDE DEF lost
  <2> QED BY <2>1, <2>2
<1>5. \A v \in User : Ending(v)' <=> Ending(v)
  BY <1>1, <1>2, <1>4 DEF Ending
<1>6. \A r \in User : /\ Contested(r, "add")' => Contested(r, "add")
                      /\ Contested(r, "dropKey")' => Contested(r, "dropKey")
  BY <1>2, <1>4 DEF Contested
<1>7. Contested(t, "dropKey")
  BY <1>1 DEF Contested
<1>8. \A r \in User : r \notin crossed => Members(r)' = Members(r)
  <2>1. CASE UNCHANGED subscribers
    BY <2>1 DEF Members
  <2>2. CASE /\ task[s].attached \/ subscribers[t] = {}
             /\ subscribers' = [subscribers EXCEPT ![t] = None]
    <3>1. t \notin crossed => Members(t) = {}
      BY <1>1, <2>2 DEF Presence, Found, Members
    <3>2. subscribers'[t] = None /\ \A r \in User \ {t} : subscribers'[r] = subscribers[r]
      BY <2>2 DEF TypeOK
    <3> QED BY <3>1, <3>2 DEF Members
  <2> QED BY <1>3, <2>1, <2>2
<1>9. Apart'
  BY <1>1, <1>6 DEF Presence, Apart
<1>10. Found'
  <2> SUFFICES ASSUME NEW x \in Socket, task'[x].target \notin crossed
               PROVE  /\ task'[x].pc = "add" => task'[x].attached
                      /\ task'[x].pc = "dropKey" /\ task'[x].attached => subscribers'[task'[x].target] = {}
    BY <1>1 DEF Found
  <2>1. CASE x = s
    BY <1>2, <2>1
  <2>2. CASE x # s /\ task[x].target # t
    <3>1. task'[x].pc = task[x].pc /\ task'[x].target = task[x].target
          /\ task'[x].attached = task[x].attached
      BY <1>4, <2>2
    <3>2. subscribers'[task[x].target] = subscribers[task[x].target]
      BY <1>3, <2>2 DEF TypeOK, Task
    <3>3. /\ task[x].pc = "add" => task[x].attached
          /\ task[x].pc = "dropKey" /\ task[x].attached => subscribers[task[x].target] = {}
      BY <3>1 DEF Presence, Found
    <3> QED BY <3>1, <3>2, <3>3
  <2>3. CASE x # s /\ task[x].target = t
    <3>1. task'[x].pc = task[x].pc /\ task'[x].target = t /\ t \notin crossed
      BY <1>4, <2>3
    <3>2. task[x].pc # "add"
      BY <1>7, <2>3, <3>1 DEF Presence, Apart, Contested
    <3>3. CASE UNCHANGED subscribers /\ task'[x] = task[x]
      BY <3>1, <3>2, <3>3 DEF Presence, Found
    <3>4. CASE task[x].pc \in {"add", "dropKey"} /\ task'[x] = [task[x] EXCEPT !.attached = FALSE]
      <4>1. ~task'[x].attached
        BY <1>1, <3>4 DEF Task
      <4> QED BY <3>1, <3>2, <4>1
    <3>5. CASE task[x].pc \notin {"add", "dropKey"}
      BY <3>1, <3>5
    <3> QED BY <1>3, <2>3, <3>3, <3>4, <3>5
  <2> QED BY <2>1, <2>2, <2>3
<1>11. Quiet'
  BY <1>1, <1>5 DEF Presence, Quiet
<1>12. Hidden'
  BY <1>1, <1>2, <1>4 DEF Presence, Hidden
<1>13. PresenceKept'
  BY <1>1, <1>5, <1>8 DEF Presence, PresenceKept
<1> QED BY <1>9, <1>10, <1>11, <1>12, <1>13 DEF Presence

\* The end of a session: it is taken off the map, and its user's requests count
\* for nothing from then on; then the user goes to the background; then out of
\* every set.
LEMMA EndAsked ==
    ASSUME TypeOK, AllReady, Presence, NEW s \in Socket, EndStep(s)
    PROVE  Presence'
<1> DEFINE u == Owner[s]
<1>0. /\ u \in User /\ task \in [Socket -> Task]
      /\ subscribers \in [User -> (SUBSET User) \union {None}]
      /\ \A x \in Socket \ {s} : task'[x] = task[x]
  BY EndTask, OwnerAssumption DEF TypeOK, Only
<1>1. CASE End(s) \/ (RemoveConnection(s) /\ task' = To(s, "gone"))
  <2>1. UNCHANGED presence
    BY <1>1, <1>0 DEF End, RemoveConnection, presence, To, Task
  <2>2. task[s].pc \notin Asking /\ task'[s].pc \notin Asking
    <3>1. task' = To(s, "remove") \/ task' = To(s, "gone")
      BY <1>1 DEF End
    <3>2. task[s].pc \in {"open", "remove"}
      BY <1>1 DEF End, RemoveConnection
    <3>3. task'[s].pc \in {"remove", "gone"}
      BY <1>0, <3>1 DEF To, Task
    <3> QED BY <3>2, <3>3 DEF Asking
  <2> QED BY <1>0, <2>1, <2>2, ElsewhereAsked
<1>2. CASE RemoveConnection(s) /\ task' = To(s, "forget")
  <2>1. /\ task[s].pc = "remove" /\ task'[s].pc = "forget" /\ UNCHANGED <<foreground, subscribers, crossed>>
    BY <1>2, <1>0 DEF RemoveConnection, To
  <2>2. want' = [want EXCEPT ![u] = Nothing]
    <3>1. CASE connections[u] = s
      BY <1>2, <3>1 DEF RemoveConnection, Nothing
    <3>2. CASE connections[u] # s
      <4>1. task' = To(s, "gone")
        BY <1>2, <3>2 DEF RemoveConnection
      <4>2. task'[s].pc = "gone"
        BY <1>0, <4>1 DEF To
      <4> QED BY <2>1, <4>2
    <3> QED BY <3>1, <3>2
  <2>3. want'[u] = Nothing /\ \A v \in User \ {u} : want'[v] = want[v]
    BY <1>0, <2>2 DEF TypeOK
  <2> HIDE DEF u
  <2>4. Ending(u)' /\ \A v \in User \ {u} : Ending(v)' <=> Ending(v)
    BY <1>0, <2>1 DEF Ending, u
  <2>5. Apart'
    BY <1>0, <2>1 DEF Presence, Apart, Contested
  <2>6. Found'
    BY <1>0, <2>1 DEF Presence, Found
  <2>7. Quiet'
    BY <2>1, <2>3, <2>4 DEF Presence, Quiet
  <2>8. Hidden'
    BY <1>0, <2>1 DEF Presence, Hidden
  <2>9. PresenceKept'
    BY <2>1, <2>3, <2>4 DEF Presence, PresenceKept, Members
  <2> QED BY <2>5, <2>6, <2>7, <2>8, <2>9 DEF Presence
<1>3. CASE Forget(s)
  <2>1. /\ task[s].pc = "forget" /\ task'[s].pc = "cleanup" /\ UNCHANGED <<subscribers, want, crossed>>
        /\ foreground' = foreground \ {u}
    BY <1>3, <1>0 DEF Forget, To
  <2>2. \A v \in User : (Ending(v)' <=> Ending(v)) /\ (v = u => Ending(v))
    BY <1>0, <2>1 DEF Ending
  <2> HIDE DEF u
  <2>3. Apart'
    BY <1>0, <2>1 DEF Presence, Apart, Contested
  <2>4. Found'
    BY <1>0, <2>1 DEF Presence, Found
  <2>5. Quiet'
    BY <2>1, <2>2 DEF Presence, Quiet
  <2>6. Hidden'
    BY <1>0, <2>1 DEF Presence, Hidden, u
  <2>7. PresenceKept'
    BY <2>1, <2>2 DEF Presence, PresenceKept, Members
  <2> QED BY <2>3, <2>4, <2>5, <2>6, <2>7 DEF Presence
<1>4. CASE cleanupSubscriptions(s)
  <2>1. /\ task[s].pc = "cleanup" /\ task'[s].pc = "gone" /\ UNCHANGED <<foreground, want, crossed>>
        /\ \A t \in User : subscribers'[t] = IF subscribers[t] = None THEN None ELSE subscribers[t] \ {u}
    BY <1>4, <1>0 DEF cleanupSubscriptions, To
  <2>2. Ending(u) /\ \A v \in User : /\ Ending(v)' => Ending(v)
                                     /\ v # u => (Ending(v)' <=> Ending(v))
    BY <1>0, <2>1 DEF Ending
  <2> HIDE DEF u
  <2>3. \A t \in User : Members(t)' = Members(t) \ {u}
    <3> SUFFICES ASSUME NEW t \in User PROVE Members(t)' = Members(t) \ {u}
      OBVIOUS
    <3>1. CASE subscribers[t] = None
      BY <2>1, <3>1 DEF Members
    <3>2. CASE subscribers[t] # None
      <4>1. subscribers'[t] = subscribers[t] \ {u} /\ subscribers[t] \in SUBSET User
        BY <1>0, <2>1, <3>2
      <4>2. subscribers'[t] # None
        BY <4>1, SetsAssumption
      <4> QED BY <3>2, <4>1, <4>2 DEF Members
    <3> QED BY <3>1, <3>2
  <2>4. Apart'
    BY <1>0, <2>1 DEF Presence, Apart, Contested
  <2>5. Found'
    <3>1. \A x \in Socket : task[x].target \in User
      BY <1>0 DEF Task
    <3>2. \A t \in User : subscribers[t] = {} => subscribers'[t] = {}
      BY <2>1, SetsAssumption
    <3> QED BY <1>0, <2>1, <3>1, <3>2 DEF Presence, Found
  <2>6. Quiet'
    BY <2>1, <2>2 DEF Presence, Quiet
  <2>7. Hidden'
    BY <1>0, <2>1 DEF Presence, Hidden
  <2>8. PresenceKept'
    <3>1. u \notin crossed => want[u].online = FALSE /\ want[u].targets = {} /\ u \notin foreground
      BY <1>0, <2>1, <2>2 DEF Presence, Quiet, Hidden, Nothing, u
    <3> SUFFICES ASSUME NEW v \in User, v \notin crossed, ~Ending(v)'
                 PROVE  /\ v \in foreground <=> want[v].online
                        /\ \A t \in User \ crossed : v \in Members(t)' <=> t \in want[v].targets
      BY <2>1 DEF PresenceKept
    <3>2. CASE v = u
      BY <2>3, <3>1, <3>2
    <3>3. CASE v # u
      <4>1. /\ v \in foreground <=> want[v].online
            /\ \A t \in User \ crossed : v \in Members(t) <=> t \in want[v].targets
        BY <2>2, <3>3 DEF Presence, PresenceKept
      <4> QED BY <2>3, <3>3, <4>1
    <3> QED BY <3>2, <3>3
  <2> QED BY <2>4, <2>5, <2>6, <2>7, <2>8 DEF Presence
<1>5. RemoveConnection(s) => task' = To(s, "forget") \/ task' = To(s, "gone")
  BY DEF RemoveConnection
<1> QED BY <1>1, <1>2, <1>3, <1>4, <1>5 DEF EndStep

\* A restart forgets everybody, and what everybody asked for.
LEMMA RestartAsked == TypeOK /\ Restart => Presence'
<1> SUFFICES ASSUME TypeOK, Restart PROVE Presence'
  OBVIOUS
<1>1. \A x \in Socket : task'[x].pc \notin Asking
  BY RestartTask DEF Asking
<1>2. /\ foreground' = {} /\ \A t \in User : subscribers'[t] = None
      /\ \A v \in User : want'[v].online = FALSE /\ want'[v].targets = {}
  BY DEF Restart
<1>3. \A v \in User : ~Ending(v)'
  BY <1>1 DEF Ending, Asking
<1>4. Apart' /\ Found' /\ Hidden'
  BY <1>1 DEF Apart, Found, Hidden, Contested, Asking
<1>5. Quiet'
  BY <1>3 DEF Quiet
<1>6. PresenceKept'
  BY <1>2 DEF PresenceKept, Members
<1> QED BY <1>4, <1>5, <1>6 DEF Presence

LEMMA PresenceHolds == TypeOK /\ AllReady /\ Presence /\ Next => Presence'
<1> SUFFICES ASSUME TypeOK, AllReady, Presence, Next PROVE Presence'
  OBVIOUS
<1>1. ASSUME NEW s \in Socket, DrainStep(s) PROVE Presence'
  <2>1. task[s].pc \notin Asking
    BY <1>1 DEF DrainStep, Connect, ClosePrevious, Fetch, Discard, Leave, Deliver, Unqueue, Drained,
         DrainFails, Asking
  <2>2. UNCHANGED presence /\ Only(s) /\ task'[s].pc \notin Asking
    BY <1>1, DrainLeaves, DrainTask DEF Asking
  <2> QED BY <2>1, <2>2, ElsewhereAsked DEF Only
<1>2. ASSUME NEW s \in Socket, FrameStep(s) PROVE Presence'
  <2>1. task[s].pc \notin Asking
    BY <1>2 DEF FrameStep, Take, ListSignals, RemoveSignal, KeepSignal, PurgeFails, PurgeDone, Lookup,
         Send, Queue, Asking
  <2>2. UNCHANGED presence /\ Only(s) /\ task'[s].pc \notin Asking
    BY <1>2, FrameLeaves, FrameTask DEF Asking, Routing
  <2> QED BY <2>1, <2>2, ElsewhereAsked DEF Only
<1>3. ASSUME NEW s \in Socket, PresenceStep(s) PROVE Presence'
  BY <1>3, UpdateAsked, SubscribeAsked, UnsubscribeAsked, AddAsked, DropAsked DEF PresenceStep
<1>4. ASSUME \/ \E s \in Socket : Lose(s)
             \/ \E i \in DOMAIN sent : Age(i) \/ Spoil(i)
             \/ \E u \in User, b \in Bucket : Expire(u, b)
      PROVE  Presence'
  <2>1. UNCHANGED <<task, presence>>
    BY <1>4 DEF Lose, Age, Spoil, Expire
  <2> QED BY <2>1, ElsewhereAsked
<1> QED BY <1>1, <1>2, <1>3, <1>4, EndAsked, RestartAsked, Kinds

\* Presence and subscriptions are what the sessions of a user asked for, for
\* every user and target none of whose requests overlapped a clean-up or the
\* dropping of an emptied set.  The order of the clean-up matters: off the map
\* first, so that a newer session's requests are recorded as crossed.
THEOREM PresenceAsAsked == Spec => []PresenceKept
<1> DEFINE I == TypeOK /\ AllReady /\ Presence
<1>1. Init => I
  <2> SUFFICES ASSUME Init PROVE I
    OBVIOUS
  <2>1. \A s \in Socket : task[s].pc = "new"
    BY DEF Init, Idle
  <2>2. /\ foreground = {} /\ \A t \in User : subscribers[t] = None
        /\ \A v \in User : want[v].online = FALSE /\ want[v].targets = {}
    BY DEF Init
  <2>3. \A v \in User : ~Ending(v)
    BY <2>1 DEF Ending
  <2>4. Apart /\ Found /\ Hidden /\ Quiet
    BY <2>1, <2>3 DEF Apart, Found, Hidden, Quiet, Contested
  <2>5. PresenceKept
    BY <2>2 DEF PresenceKept, Members
  <2> QED BY <2>4, <2>5, InitTyped DEF Presence
<1>2. Presence /\ UNCHANGED vars => Presence'
  <2>1. UNCHANGED vars => UNCHANGED <<task, presence>>
    BY DEF vars
  <2> QED BY <2>1, ElsewhereAsked
<1>3. I /\ [Next]_vars => I'
  BY <1>2, TypeStep, TypeStutter, PresenceHolds
<1>4. I => PresenceKept
  BY DEF Presence
<1> QED BY <1>1, <1>3, <1>4, PTL DEF Spec
=============================================================================
