-------------------------- MODULE GroupCallsProofs --------------------------
(***************************************************************************)
(* Proofs about GroupCalls for any number of users, sessions, groups and   *)
(* any limits.  Every operation of the store maps a good table of calls to *)
(* a good one: it either shrinks the table (Shrinks) or adds participants  *)
(* to one call after checking the limits (Grows).                          *)
(***************************************************************************)
EXTENDS GroupCalls, FiniteSetTheorems, TLAPS

Table == [Group -> ActiveCall \union {NoCall}]

Sound(calls) ==
    \A g \in Group : calls[g] # NoCall =>
        /\ calls[g] \in ActiveCall
        /\ ProperlyAdmitted(calls[g])

Good(calls) == calls \in Table /\ Sound(calls) /\ WithinLimits(calls)

\* A handler in the middle of a call remembers which one.
TaskInv ==
    \A s \in Session :
        /\ task[s].pc \in {"evict", "refresh", "settle", "transfer"} =>
              task[s].seen \in Snapshot
        /\ task[s].pc = "transfer" => task[s].candidate \in User

CallInv == TypeOK /\ TaskInv /\ Good(active)

----------------------------------------------------------------------------
(* Cardinality *)

\* The groups a table occupies, and those of one user, are finite sets.
LEMMA FiniteGroups ==
    ASSUME NEW calls
    PROVE  /\ IsFiniteSet(Occupied(calls))
           /\ \A u : IsFiniteSet(CallsOf(calls, u))
           /\ Occupied(calls) \subseteq Group
           /\ \A u : CallsOf(calls, u) \subseteq Group
<1>1. Occupied(calls) \subseteq Group
  BY DEF Occupied
<1>2. ASSUME NEW u PROVE CallsOf(calls, u) \subseteq Group
  BY DEF Occupied, CallsOf
<1> QED
  BY <1>1, <1>2, FS_Subset, SetsAssumption

\* A set squeezed into a finite set with one element more.
LEMMA OneMore ==
    ASSUME NEW S, NEW T, IsFiniteSet(S), NEW x, T \subseteq S \union {x}
    PROVE  /\ IsFiniteSet(T)
           /\ Cardinality(S) \in Nat
           /\ Cardinality(T) \in Nat
           /\ Cardinality(T) <= Cardinality(S) + 1
<1>1. /\ IsFiniteSet(S \union {x})
      /\ Cardinality(S \union {x}) \in {Cardinality(S), Cardinality(S) + 1}
  BY FS_AddElement
<1>2. IsFiniteSet(T) /\ Cardinality(T) <= Cardinality(S \union {x})
  BY <1>1, FS_Subset
<1> QED
  BY <1>1, <1>2, FS_CardinalityType

\* A table in which every call is gone or has no participant it did not have.
LEMMA Shrinks ==
    ASSUME NEW a, NEW b, Good(a), b \in Table, Sound(b),
           \A g \in Group : b[g] # NoCall =>
               a[g] # NoCall /\ b[g].participants \subseteq a[g].participants
    PROVE  Good(b)
<1>1. ASSUME NEW g \in Occupied(b)
      PROVE  Cardinality(b[g].participants) <= MAX_PARTICIPANTS
  <2>1. g \in Group /\ a[g] \in ActiveCall /\ g \in Occupied(a)
        /\ b[g].participants \subseteq a[g].participants
    BY DEF Good, Sound, Occupied
  <2>2. a[g].participants \subseteq User
    BY <2>1 DEF ActiveCall
  <2>3. IsFiniteSet(a[g].participants)
    BY <2>2, FS_Subset, SetsAssumption
  <2>4. Cardinality(a[g].participants) <= MAX_PARTICIPANTS
    BY <2>1 DEF Good, WithinLimits
  <2>5. /\ IsFiniteSet(b[g].participants)
        /\ Cardinality(b[g].participants) <= Cardinality(a[g].participants)
    BY <2>1, <2>3, FS_Subset
  <2> QED
    BY <2>3, <2>4, <2>5, FS_CardinalityType, LimitAssumption
<1>2. ASSUME NEW u \in User
      PROVE  callsFor(b, u) <= MAX_CALLS_PER_USER
  <2>1. CallsOf(b, u) \subseteq CallsOf(a, u)
    BY DEF CallsOf, Occupied
  <2>2. Cardinality(CallsOf(b, u)) <= Cardinality(CallsOf(a, u))
        /\ IsFiniteSet(CallsOf(a, u)) /\ IsFiniteSet(CallsOf(b, u))
    BY <2>1, FiniteGroups, FS_Subset
  <2>3. Cardinality(CallsOf(a, u)) <= MAX_CALLS_PER_USER
    BY DEF Good, WithinLimits, callsFor
  <2> QED
    BY <2>2, <2>3, FS_CardinalityType, LimitAssumption DEF callsFor
<1>3. Cardinality(Occupied(b)) <= MAX_ACTIVE_CALLS
  <2>1. Occupied(b) \subseteq Occupied(a)
    BY DEF Occupied
  <2>2. Cardinality(Occupied(b)) <= Cardinality(Occupied(a))
        /\ IsFiniteSet(Occupied(a)) /\ IsFiniteSet(Occupied(b))
    BY <2>1, FiniteGroups, FS_Subset
  <2>3. Cardinality(Occupied(a)) <= MAX_ACTIVE_CALLS
    BY DEF Good, WithinLimits
  <2> QED
    BY <2>2, <2>3, FS_CardinalityType, LimitAssumption
<1> QED
  BY <1>1, <1>2, <1>3 DEF Good, WithinLimits

\* A table that differs in one call, whose new participants all had room.
LEMMA Grows ==
    ASSUME NEW a, NEW b, Good(a), b \in Table, Sound(b),
           NEW g \in Group, \A h \in Group \ {g} : b[h] = a[h],
           b[g] # NoCall,
           Cardinality(b[g].participants) <= MAX_PARTICIPANTS,
           \A u \in User : u \in b[g].participants =>
              \/ a[g] # NoCall /\ u \in a[g].participants
              \/ callsFor(a, u) < MAX_CALLS_PER_USER,
           a[g] # NoCall \/ Cardinality(Occupied(a)) < MAX_ACTIVE_CALLS
    PROVE  Good(b)
<1>1. ASSUME NEW h \in Occupied(b)
      PROVE  Cardinality(b[h].participants) <= MAX_PARTICIPANTS
  <2>1. CASE h = g
    BY <2>1
  <2>2. CASE h # g
    BY <2>2 DEF Good, WithinLimits, Occupied
  <2> QED
    BY <2>1, <2>2
<1>2. ASSUME NEW u \in User
      PROVE  callsFor(b, u) <= MAX_CALLS_PER_USER
  <2>0. Cardinality(CallsOf(a, u)) <= MAX_CALLS_PER_USER
        /\ IsFiniteSet(CallsOf(a, u))
    BY FiniteGroups DEF Good, WithinLimits, callsFor
  <2>1. CASE CallsOf(b, u) \subseteq CallsOf(a, u)
    <3>1. Cardinality(CallsOf(b, u)) <= Cardinality(CallsOf(a, u))
          /\ IsFiniteSet(CallsOf(b, u))
      BY <2>0, <2>1, FS_Subset
    <3> QED
      BY <2>0, <3>1, FS_CardinalityType, LimitAssumption DEF callsFor
  <2>2. CASE ~(CallsOf(b, u) \subseteq CallsOf(a, u))
    <3>1. CallsOf(b, u) \subseteq CallsOf(a, u) \union {g}
      BY DEF CallsOf, Occupied
    <3>2. callsFor(a, u) < MAX_CALLS_PER_USER
      BY <2>2 DEF CallsOf, Occupied
    <3>3. /\ Cardinality(CallsOf(b, u)) <= Cardinality(CallsOf(a, u)) + 1
          /\ Cardinality(CallsOf(a, u)) \in Nat
          /\ Cardinality(CallsOf(b, u)) \in Nat
      BY <2>0, <3>1, OneMore
    <3> QED
      BY <3>2, <3>3, LimitAssumption DEF callsFor
  <2> QED
    BY <2>1, <2>2
<1>3. Cardinality(Occupied(b)) <= MAX_ACTIVE_CALLS
  <2>0. Cardinality(Occupied(a)) <= MAX_ACTIVE_CALLS
        /\ IsFiniteSet(Occupied(a))
    BY FiniteGroups DEF Good, WithinLimits
  <2>1. CASE a[g] # NoCall
    <3>1. Occupied(b) \subseteq Occupied(a)
      BY <2>1 DEF Occupied
    <3>2. Cardinality(Occupied(b)) <= Cardinality(Occupied(a))
          /\ IsFiniteSet(Occupied(b))
      BY <2>0, <3>1, FS_Subset
    <3> QED
      BY <2>0, <3>2, FS_CardinalityType, LimitAssumption
  <2>2. CASE Cardinality(Occupied(a)) < MAX_ACTIVE_CALLS
    <3>1. Occupied(b) \subseteq Occupied(a) \union {g}
      BY DEF Occupied
    <3>2. /\ Cardinality(Occupied(b)) <= Cardinality(Occupied(a)) + 1
          /\ Cardinality(Occupied(a)) \in Nat
          /\ Cardinality(Occupied(b)) \in Nat
      BY <2>0, <3>1, OneMore
    <3> QED
      BY <2>2, <3>2, LimitAssumption
  <2> QED
    BY <2>1, <2>2
<1> QED
  BY <1>1, <1>2, <1>3 DEF Good, WithinLimits

----------------------------------------------------------------------------
(* The operations of the store *)

\* get returns nothing, or the call the table holds.
LEMMA GetFacts ==
    ASSUME Good(active), NEW g \in Group
    PROVE  /\ get(g) \in ActiveCall \union {NoCall}
           /\ get(g) # NoCall => /\ get(g) = active[g]
                                 /\ get(g) \in ActiveCall
                                 /\ ProperlyAdmitted(get(g))
BY DEF get, Good, Table, Sound

\* The get of every operation that begins with one leaves a good table.
LEMMA GotGood ==
    ASSUME Good(active), NEW g \in Group
    PROVE  Good(Got(g))
<1> DEFINE b == Got(g)
<1>1. b \in Table
  BY GetFacts DEF Got, Table, Good
<1>2. Sound(b)
  BY GetFacts DEF Got, Table, Good, Sound
<1>3. \A h \in Group : b[h] # NoCall =>
         active[h] # NoCall /\ b[h].participants \subseteq active[h].participants
  BY GetFacts DEF Got, Table, Good
<1> HIDE DEF b
<1>4. Good(b)
  BY <1>1, <1>2, <1>3, Shrinks
<1> QED
  BY <1>4 DEF b

\* So does the purge of all expired calls.
LEMMA PurgeGood ==
    ASSUME Good(active)
    PROVE  Good(purgeExpired)
<1> DEFINE b == purgeExpired
<1>1. b \in Table
  BY GetFacts DEF purgeExpired, Table
<1>2. Sound(b)
  BY GetFacts DEF purgeExpired, Sound
<1>3. \A h \in Group : b[h] # NoCall =>
         active[h] # NoCall /\ b[h].participants \subseteq active[h].participants
  BY GetFacts DEF purgeExpired
<1> HIDE DEF b
<1>4. Good(b)
  BY <1>1, <1>2, <1>3, Shrinks
<1> QED
  BY <1>4 DEF b

\* A call without one of its participants is as properly admitted as before.
LEMMA WithoutFacts ==
    ASSUME NEW call \in ActiveCall, ProperlyAdmitted(call), NEW u \in User
    PROVE  LET rest == [call EXCEPT !.participants = @ \ {u},
                                    !.joinedParticipants = @ \ {u},
                                    !.mediaE2eeParticipants = @ \ {u}]
           IN  /\ rest \in ActiveCall
               /\ ProperlyAdmitted(rest)
               /\ rest.participants \subseteq call.participants
<1> DEFINE rest == [call EXCEPT !.participants = @ \ {u},
                                !.joinedParticipants = @ \ {u},
                                !.mediaE2eeParticipants = @ \ {u}]
<1>1. /\ rest \in ActiveCall
      /\ rest.participants = call.participants \ {u}
      /\ rest.joinedParticipants = call.joinedParticipants \ {u}
      /\ rest.mediaE2eeParticipants = call.mediaE2eeParticipants \ {u}
      /\ rest.invitedParticipants = call.invitedParticipants
      /\ rest.requiresMediaE2ee = call.requiresMediaE2ee
  BY DEF ActiveCall
<1> HIDE DEF rest
<1>2. ProperlyAdmitted(rest)
  BY <1>1 DEF ProperlyAdmitted
<1>3. rest.participants \subseteq call.participants
  BY <1>1
<1> QED
  BY <1>1, <1>2, <1>3 DEF rest

\* removeParticipant keeps the table good, whoever leaves which call.
LEMMA RemoveGood ==
    ASSUME Good(active), NEW g \in Group, NEW u \in User
    PROVE  Good(removeParticipant(g, u))
<1>1. CASE get(g) = NoCall \/ u \notin get(g).participants
  BY <1>1, GotGood DEF removeParticipant
<1>2. CASE ~(get(g) = NoCall \/ u \notin get(g).participants)
  <2>1. PICK rest : rest = [get(g) EXCEPT !.participants = @ \ {u},
                                   !.joinedParticipants = @ \ {u},
                                   !.mediaE2eeParticipants = @ \ {u}]
    OBVIOUS
  <2>2. /\ rest \in ActiveCall /\ ProperlyAdmitted(rest)
        /\ rest.participants \subseteq active[g].participants
        /\ active[g] # NoCall
    <3>1. get(g) \in ActiveCall /\ ProperlyAdmitted(get(g)) /\ get(g) = active[g]
          /\ active[g] # NoCall
      BY <1>2, GetFacts
    <3> QED
      BY <2>1, <3>1, WithoutFacts
  <2>3. removeParticipant(g, u) = [active EXCEPT ![g] = rest]
    BY <1>2, <2>1 DEF removeParticipant
  <2>4. [active EXCEPT ![g] = rest] \in Table
    BY <2>2 DEF Good, Table
  <2>5. Sound([active EXCEPT ![g] = rest])
    BY <2>2 DEF Good, Table, Sound
  <2>6. \A h \in Group : [active EXCEPT ![g] = rest][h] # NoCall =>
          /\ active[h] # NoCall
          /\ [active EXCEPT ![g] = rest][h].participants
                \subseteq active[h].participants
    BY <2>2 DEF Good, Table
  <2> QED
    BY <2>3, <2>4, <2>5, <2>6, Shrinks
<1> QED
  BY <1>1, <1>2

\* end keeps the table good, whatever instance it is told to expect.
LEMMA EndGood ==
    ASSUME Good(active), NEW g \in Group, NEW i
    PROVE  Good(endCall(g, i))
<1> DEFINE b == endCall(g, i)
<1>1. b \in Table
  BY DEF endCall, Good, Table
<1>2. Sound(b)
  BY DEF endCall, Good, Table, Sound
<1>3. \A h \in Group : b[h] # NoCall =>
         active[h] # NoCall /\ b[h].participants \subseteq active[h].participants
  BY DEF endCall, Good, Table
<1> HIDE DEF b
<1>4. Good(b)
  BY <1>1, <1>2, <1>3, Shrinks
<1> QED
  BY <1>4 DEF b

\* Replacing a call by one that differs in its coordinator or its age.
LEMMA RelabelGood ==
    ASSUME Good(active), NEW g \in Group, active[g] # NoCall,
           NEW call \in ActiveCall,
           call.participants = active[g].participants,
           call.joinedParticipants = active[g].joinedParticipants,
           call.mediaE2eeParticipants = active[g].mediaE2eeParticipants,
           call.invitedParticipants = active[g].invitedParticipants,
           call.requiresMediaE2ee = active[g].requiresMediaE2ee
    PROVE  Good([active EXCEPT ![g] = call])
<1> DEFINE b == [active EXCEPT ![g] = call]
<1>0. call # NoCall /\ ProperlyAdmitted(call)
  BY NoneAssumption DEF Good, Sound, ProperlyAdmitted
<1>1. b \in Table
  BY DEF Good, Table
<1>2. Sound(b)
  BY <1>0 DEF Good, Table, Sound
<1>3. \A h \in Group : b[h] # NoCall =>
         active[h] # NoCall /\ b[h].participants \subseteq active[h].participants
  BY DEF Good, Table
<1> HIDE DEF b
<1>4. Good(b)
  BY <1>1, <1>2, <1>3, Shrinks
<1> QED
  BY <1>4 DEF b

\* transferCoordinator keeps the table good, whoever the candidate is.
LEMMA TransferGood ==
    ASSUME Good(active), NEW g \in Group, NEW u \in User, NEW allowed
    PROVE  Good(transferCoordinator(g, u, allowed))
<1>1. CASE /\ get(g) # NoCall /\ get(g).coordinatorId # u
           /\ u \in get(g).joinedParticipants /\ u \in allowed
  <2>1. get(g) \in ActiveCall /\ get(g) = active[g] /\ active[g] # NoCall
    BY <1>1, GetFacts
  <2>2. PICK call : call = [get(g) EXCEPT !.coordinatorId = u]
    OBVIOUS
  <2>3. /\ call \in ActiveCall
        /\ call.participants = active[g].participants
        /\ call.joinedParticipants = active[g].joinedParticipants
        /\ call.mediaE2eeParticipants = active[g].mediaE2eeParticipants
        /\ call.invitedParticipants = active[g].invitedParticipants
        /\ call.requiresMediaE2ee = active[g].requiresMediaE2ee
    BY <2>1, <2>2 DEF ActiveCall
  <2>4. Good([active EXCEPT ![g] = call])
    BY <2>1, <2>3, RelabelGood
  <2> QED
    BY <1>1, <2>2, <2>4 DEF transferCoordinator
<1>2. CASE ~(/\ get(g) # NoCall /\ get(g).coordinatorId # u
             /\ u \in get(g).joinedParticipants /\ u \in allowed)
  BY <1>2, GotGood DEF transferCoordinator
<1> QED
  BY <1>1, <1>2

\* A call that starts: its two participants had room, and so had the server.
LEMMA StartGood ==
    ASSUME Good(active), NEW g \in Group, NEW c \in CallId, NEW u \in User,
           NEW recipient \in User, NEW m \in BOOLEAN, instances \in Nat,
           Started(g, c, u, recipient, m)
    PROVE  Good([purgeExpired EXCEPT ![g] = NewCall(g, c, u, recipient, m)])
<1>1. PICK a : a = purgeExpired
  OBVIOUS
<1>2. PICK call : call = NewCall(g, c, u, recipient, m)
  OBVIOUS
<1>3. Good(a)
  BY <1>1, PurgeGood
<1>4. /\ call \in ActiveCall
      /\ call.participants = {u, recipient}
      /\ call.invitedParticipants = {u, recipient}
      /\ call.joinedParticipants = {u}
      /\ call.mediaE2eeParticipants = IF m THEN {u} ELSE {}
      /\ call.requiresMediaE2ee = m
  BY <1>2 DEF NewCall, ActiveCall
<1>5. ProperlyAdmitted(call)
  BY <1>4 DEF ProperlyAdmitted
<1>6. call # NoCall
  BY <1>4, NoneAssumption
<1>7. Cardinality(call.participants) <= MAX_PARTICIPANTS
  <2>1. Cardinality({u}) = 1 /\ IsFiniteSet({u})
    BY FS_Singleton
  <2>2. Cardinality({u, recipient}) <= 2 /\ Cardinality({u, recipient}) \in Nat
    BY <2>1, OneMore
  <2> QED
    BY <1>4, <2>2, LimitAssumption
<1> DEFINE b == [a EXCEPT ![g] = call]
<1>8. /\ b \in Table /\ b[g] = call
      /\ \A h \in Group \ {g} : b[h] = a[h]
  BY <1>3, <1>4 DEF Good, Table
<1>9. Sound(b)
  BY <1>3, <1>4, <1>5, <1>8 DEF Good, Sound
<1>10. /\ Cardinality(Occupied(a)) < MAX_ACTIVE_CALLS
       /\ callsFor(a, u) < MAX_CALLS_PER_USER
       /\ callsFor(a, recipient) < MAX_CALLS_PER_USER
  BY <1>1 DEF Started
<1> HIDE DEF b
<1>11. Good(b)
  BY <1>3, <1>4, <1>6, <1>7, <1>8, <1>9, <1>10, Grows
<1> QED
  BY <1>1, <1>2, <1>11 DEF b

\* A call with one participant more, who had room, and room in the call.
LEMMA AddGood ==
    ASSUME NEW a, Good(a), NEW g \in Group, a[g] # NoCall, NEW u \in User,
           NEW call \in ActiveCall, ProperlyAdmitted(call),
           call.participants = a[g].participants \union {u},
           u \notin a[g].participants =>
               /\ Cardinality(a[g].participants) < MAX_PARTICIPANTS
               /\ callsFor(a, u) < MAX_CALLS_PER_USER
    PROVE  Good([a EXCEPT ![g] = call])
<1> DEFINE b == [a EXCEPT ![g] = call]
<1>1. call # NoCall
  BY NoneAssumption
<1>2. /\ b \in Table /\ b[g] = call
      /\ \A h \in Group \ {g} : b[h] = a[h]
  BY DEF Good, Table
<1>3. Sound(b)
  BY <1>2 DEF Good, Sound
<1>4. a[g] \in ActiveCall /\ g \in Occupied(a)
  BY DEF Good, Sound, Occupied
<1>5. a[g].participants \subseteq User
  BY <1>4 DEF ActiveCall
<1>6. IsFiniteSet(a[g].participants)
  BY <1>5, FS_Subset, SetsAssumption
<1>7. Cardinality(a[g].participants) <= MAX_PARTICIPANTS
  BY <1>4 DEF Good, WithinLimits
<1>8. Cardinality(call.participants) <= MAX_PARTICIPANTS
  <2>1. CASE u \in a[g].participants
    <3>1. call.participants = a[g].participants
      BY <2>1
    <3> QED
      BY <3>1, <1>7
  <2>2. CASE u \notin a[g].participants
    <3>1. /\ Cardinality(call.participants) <= Cardinality(a[g].participants) + 1
          /\ Cardinality(call.participants) \in Nat
          /\ Cardinality(a[g].participants) \in Nat
      BY <1>6, OneMore
    <3> QED
      BY <2>2, <3>1, LimitAssumption
  <2> QED
    BY <2>1, <2>2
<1> HIDE DEF b
<1>9. Good(b)
  BY <1>1, <1>2, <1>3, <1>8, Grows
<1> QED
  BY <1>9 DEF b

\* invite into a call that is on: the recipient had room, and so had the call.
LEMMA InviteGood ==
    ASSUME Good(active), NEW g \in Group, NEW c \in CallId, NEW u \in User,
           NEW recipient \in User, NEW m \in BOOLEAN,
           Invited(g, c, u, recipient, m)
    PROVE  Good([purgeExpired EXCEPT ![g] =
                    InvitedWith(purgeExpired[g], recipient)])
<1>1. PICK a : a = purgeExpired
  OBVIOUS
<1>2. Good(a)
  BY <1>1, PurgeGood
<1>3. /\ a[g] # NoCall /\ recipient \notin a[g].participants
      /\ Cardinality(a[g].participants) < MAX_PARTICIPANTS
      /\ callsFor(a, recipient) < MAX_CALLS_PER_USER
  BY <1>1 DEF Invited
<1>4. a[g] \in ActiveCall /\ ProperlyAdmitted(a[g])
  BY <1>2, <1>3 DEF Good, Sound
<1>5. PICK call : call = InvitedWith(a[g], recipient)
  OBVIOUS
<1>6. /\ call \in ActiveCall
      /\ call.participants = a[g].participants \union {recipient}
      /\ call.invitedParticipants = a[g].invitedParticipants \union {recipient}
      /\ call.joinedParticipants = a[g].joinedParticipants
      /\ call.mediaE2eeParticipants = a[g].mediaE2eeParticipants
      /\ call.requiresMediaE2ee = a[g].requiresMediaE2ee
  BY <1>4, <1>5 DEF ActiveCall, InvitedWith
<1>7. ProperlyAdmitted(call)
  BY <1>4, <1>6 DEF ProperlyAdmitted
<1>8. Good([a EXCEPT ![g] = call])
  BY <1>2, <1>3, <1>6, <1>7, AddGood
<1> QED
  BY <1>1, <1>5, <1>8

\* confirmJoin of an invited user, with encryption if the call requires it.
LEMMA JoinGood ==
    ASSUME Good(active), NEW g \in Group, NEW c \in CallId, NEW u \in User,
           NEW coordinator \in User, NEW m \in BOOLEAN,
           MayJoin(g, c, coordinator, u), ~EncryptionRequired(g, m)
    PROVE  Good([active EXCEPT ![g] = JoinedWith(get(g), u, m)])
<1>1. PICK a : a = Got(g)
  OBVIOUS
<1>2. Good(a)
  BY <1>1, GotGood
<1>3. /\ get(g) # NoCall /\ get(g) \in ActiveCall /\ get(g) = active[g]
      /\ ProperlyAdmitted(get(g)) /\ u \in get(g).invitedParticipants
  BY GetFacts DEF MayJoin
<1>4. a[g] = get(g) /\ [active EXCEPT ![g] = JoinedWith(get(g), u, m)]
                        = [a EXCEPT ![g] = JoinedWith(get(g), u, m)]
  BY <1>1 DEF Got, Good, Table
<1>5. u \notin a[g].participants =>
         /\ Cardinality(a[g].participants) < MAX_PARTICIPANTS
         /\ callsFor(a, u) < MAX_CALLS_PER_USER
  BY <1>1, <1>4 DEF MayJoin
<1>6. PICK old : old = get(g)
  OBVIOUS
<1>7. PICK call : call = JoinedWith(old, u, m)
  OBVIOUS
<1>8. /\ call \in ActiveCall
      /\ call.participants = old.participants \union {u}
      /\ call.invitedParticipants = old.invitedParticipants
      /\ call.joinedParticipants = old.joinedParticipants \union {u}
      /\ call.mediaE2eeParticipants = IF m THEN old.mediaE2eeParticipants \union {u}
                                           ELSE old.mediaE2eeParticipants \ {u}
      /\ call.requiresMediaE2ee = old.requiresMediaE2ee
  BY <1>3, <1>6, <1>7 DEF JoinedWith, ActiveCall
<1>9. ProperlyAdmitted(call)
  <2>1. ProperlyAdmitted(old) /\ u \in old.invitedParticipants
        /\ (old.requiresMediaE2ee => m)
    BY <1>3, <1>6 DEF EncryptionRequired
  <2> QED
    BY <1>8, <2>1 DEF ProperlyAdmitted
<1>10. Good([a EXCEPT ![g] = call])
  BY <1>2, <1>3, <1>4, <1>5, <1>6, <1>8, <1>9, AddGood
<1> QED
  BY <1>4, <1>6, <1>7, <1>10

----------------------------------------------------------------------------
(* The handlers *)

\* A handler that finishes or turns to its next call is well typed and idle.
LEMMA IdleType ==
    ASSUME NEW pc \in Steps
    PROVE  /\ Idle(pc) \in Task
           /\ Idle(pc).pc = pc
BY DEF Idle, Task

\* Neither does the loop over the affected calls leave a malformed task.
LEMMA ContinueType ==
    ASSUME NEW t \in Task
    PROVE  /\ Continue(t) \in Task
           /\ Continue(t).pc \in {"leave", "unlist", "open"}
BY DEF Continue, Idle, Task, Steps

\* What a handler remembers of a call is a snapshot.
LEMMA SnapshotType ==
    ASSUME NEW call \in ActiveCall
    PROVE  SnapshotOf(call) \in Snapshot
BY DEF SnapshotOf, Snapshot, ActiveCall

\* One task changes, and its new state is well formed.
LEMMA TaskStep ==
    ASSUME task \in [Session -> Task], TaskInv, NEW s \in Session, NEW t \in Task,
           task' = [task EXCEPT ![s] = t],
           t.pc \in {"evict", "refresh", "settle", "transfer"} => t.seen \in Snapshot,
           t.pc = "transfer" => t.candidate \in User
    PROVE  task' \in [Session -> Task] /\ TaskInv'
BY DEF TaskInv

\* It is enough to show of a step that it leaves a good table and one
\* well-formed task.
LEMMA StepInv ==
    ASSUME CallInv, Good(active'), task' \in [Session -> Task], TaskInv',
           conn' \in [User -> Session \union {None}],
           instances' \in 0 .. MaxInstances
    PROVE  CallInv'
BY DEF CallInv, TypeOK, Good, Table

\* The server starts with an empty table.
LEMMA InitInv ==
    Init => CallInv
<1> SUFFICES ASSUME Init PROVE CallInv
  OBVIOUS
<1>1. TypeOK
  BY IdleType, LimitAssumption DEF Init, TypeOK, Steps
<1>2. TaskInv
  BY IdleType DEF Init, TaskInv, Steps
<1>3. active \in Table /\ Sound(active)
  BY DEF Init, Table, Sound
<1>4. WithinLimits(active)
  <2>1. Occupied(active) = {}
    BY DEF Init, Occupied
  <2>2. \A u : CallsOf(active, u) = {}
    BY <2>1 DEF CallsOf
  <2>3. Cardinality({}) = 0
    BY FS_EmptySet
  <2> QED
    BY <2>1, <2>2, <2>3, LimitAssumption DEF WithinLimits, callsFor
<1> QED
  BY <1>1, <1>2, <1>3, <1>4 DEF CallInv, Good

\* invite and confirmJoin keep the invariant.
LEMMA FrameInv ==
    ASSUME CallInv, NEW s \in Session, NEW g \in Group, NEW c \in CallId,
           NEW u \in User, NEW m \in BOOLEAN,
           invite(s, g, c, u, m) \/ confirmJoin(s, g, c, u, m)
    PROVE  CallInv'
<1>0. /\ Good(active) /\ task \in [Session -> Task] /\ TaskInv
      /\ conn \in [User -> Session \union {None}]
      /\ instances \in Nat /\ instances <= MaxInstances
      /\ Owner[s] \in User
  BY OwnerAssumption, LimitAssumption DEF CallInv, TypeOK
<1>1. CASE invite(s, g, c, u, m)
  <2>1. UNCHANGED <<conn, task>>
    BY <1>1 DEF invite
  <2>2. Good(active') /\ instances' \in 0 .. MaxInstances
    <3>1. CASE /\ Started(g, c, Owner[s], u, m)
               /\ instances < MaxInstances
               /\ active' = [purgeExpired EXCEPT ![g] = NewCall(g, c, Owner[s], u, m)]
               /\ instances' = instances + 1
      <4>1. Good([purgeExpired EXCEPT ![g] = NewCall(g, c, Owner[s], u, m)])
        <5>1. Started(g, c, Owner[s], u, m)
          BY <3>1
        <5>2. Good(active) /\ Owner[s] \in User /\ instances \in Nat
          BY <1>0
        <5> QED
          BY <5>1, <5>2, StartGood, Zenon
      <4>2. instances' \in 0 .. MaxInstances
        BY <1>0, <3>1, LimitAssumption
      <4> QED
        BY <3>1, <4>1, <4>2, Zenon
    <3>2. CASE /\ Invited(g, c, Owner[s], u, m)
               /\ active' = [purgeExpired EXCEPT ![g] = InvitedWith(purgeExpired[g], u)]
               /\ UNCHANGED instances
      <4>1. Good([purgeExpired EXCEPT ![g] = InvitedWith(purgeExpired[g], u)])
        <5>1. Invited(g, c, Owner[s], u, m)
          BY <3>2
        <5>2. Good(active) /\ Owner[s] \in User
          BY <1>0
        <5> QED
          BY <5>1, <5>2, InviteGood, Zenon
      <4>2. instances' \in 0 .. MaxInstances
        BY <1>0, <3>2
      <4> QED
        BY <3>2, <4>1, <4>2, Zenon
    <3>3. CASE active' = purgeExpired /\ UNCHANGED instances
      BY <1>0, <3>3, PurgeGood
    <3> QED
      BY <1>1, <3>1, <3>2, <3>3 DEF invite
  <2>3. TaskInv'
    BY <1>0, <2>1 DEF TaskInv
  <2> QED
    BY <1>0, <2>1, <2>2, <2>3, StepInv
<1>2. CASE confirmJoin(s, g, c, u, m)
  <2>1. UNCHANGED <<conn, instances>>
    BY <1>2 DEF confirmJoin
  <2>2. Good(active')
    BY <1>0, <1>2, JoinGood, GotGood DEF confirmJoin
  <2>3. task' \in [Session -> Task] /\ TaskInv'
    <3>1. CASE UNCHANGED task
      BY <1>0, <3>1 DEF TaskInv
    <3>2. CASE /\ MayJoin(g, c, u, Owner[s])
               /\ task' = [task EXCEPT ![s] =
                             [Idle("evict") EXCEPT !.seen = SnapshotOf(get(g))]]
      <4>1. SnapshotOf(get(g)) \in Snapshot
        BY <1>0, <3>2, GetFacts, SnapshotType DEF MayJoin
      <4>2. PICK t : t = [Idle("evict") EXCEPT !.seen = SnapshotOf(get(g))]
        OBVIOUS
      <4>3. t \in Task /\ t.pc = "evict" /\ t.seen \in Snapshot
        BY <4>1, <4>2 DEF Idle, Task, Steps
      <4> QED
        BY <1>0, <3>2, <4>2, <4>3, TaskStep
    <3> QED
      BY <1>2, <3>1, <3>2 DEF confirmJoin
  <2> QED
    BY <1>0, <2>1, <2>2, <2>3, StepInv DEF CallInv, TypeOK
<1> QED
  BY <1>1, <1>2

\* hangUp and close: the calls to leave are remembered.
LEMMA BeginInv ==
    ASSUME CallInv, NEW s \in Session,
           (\E g \in Group : hangUp(s, g)) \/ close(s)
    PROVE  CallInv'
<1>0. /\ Good(active) /\ task \in [Session -> Task] /\ TaskInv
      /\ conn \in [User -> Session \union {None}]
      /\ instances \in 0 .. MaxInstances
  BY DEF CallInv, TypeOK
<1>1. ASSUME NEW g \in Group, hangUp(s, g)
      PROVE  CallInv'
  <2>1. Good(active') /\ UNCHANGED <<conn, instances>>
    BY <1>0, <1>1, GotGood DEF hangUp
  <2>2. SnapshotOf(get(g)) \in Snapshot
    BY <1>0, <1>1, GetFacts, SnapshotType DEF hangUp
  <2>3. PICK t : t = [Idle("leave") EXCEPT !.todo = {SnapshotOf(get(g))}]
    OBVIOUS
  <2>4. t \in Task /\ t.pc = "leave"
    BY <2>2, <2>3 DEF Idle, Task, Steps
  <2>5. task' = [task EXCEPT ![s] = t]
    BY <1>1, <2>3 DEF hangUp
  <2>6. task' \in [Session -> Task] /\ TaskInv'
    BY <1>0, <2>4, <2>5, TaskStep
  <2> QED
    BY <1>0, <2>1, <2>6, StepInv
<1>2. CASE close(s)
  <2>1. UNCHANGED <<conn, instances>>
    BY <1>2 DEF close
  <2>2. Good(active')
    BY <1>0, <1>2, PurgeGood DEF close
  <2>3. AffectedCalls(Owner[s]) \subseteq Snapshot
    <3>1. Good(purgeExpired)
      BY <1>0, PurgeGood
    <3>2. \A g \in Occupied(purgeExpired) : SnapshotOf(purgeExpired[g]) \in Snapshot
      BY <3>1, SnapshotType DEF Good, Sound, Occupied
    <3> QED
      BY <3>2 DEF AffectedCalls
  <2>4. PICK todo : /\ todo \in SUBSET Snapshot
                    /\ todo = IF s \in Capable /\ conn[Owner[s]] = s
                              THEN AffectedCalls(Owner[s]) ELSE {}
    BY <2>3
  <2>5. PICK t : t = [Idle("leave") EXCEPT !.closing = TRUE, !.todo = todo]
    OBVIOUS
  <2>6. t \in Task
    BY <2>4, <2>5 DEF Idle, Task, Steps
  <2>7. task' = [task EXCEPT ![s] = Continue(t)]
    BY <1>2, <2>4, <2>5, Zenon DEF close
  <2>8. task' \in [Session -> Task] /\ TaskInv'
    BY <1>0, <2>6, <2>7, ContinueType, TaskStep
  <2> QED
    BY <1>0, <2>1, <2>2, <2>8, StepInv
<1> QED
  BY <1>1, <1>2

\* So does every step of a handler that leaves or evicts.
LEMMA HandlerInv ==
    ASSUME CallInv, NEW s \in Session, Handler(s)
    PROVE  CallInv'
<1>0. /\ Good(active) /\ task \in [Session -> Task] /\ TaskInv
      /\ conn \in [User -> Session \union {None}]
      /\ instances \in 0 .. MaxInstances
      /\ Owner[s] \in User /\ task[s] \in Task
  BY OwnerAssumption DEF CallInv, TypeOK
<1>1. task[s].pc \in {"evict", "refresh", "settle", "transfer"} =>
         task[s].seen \in Snapshot /\ task[s].seen.groupId \in Group
  BY <1>0 DEF TaskInv, Snapshot
<1>2. CASE evict(s)
  <2>1. Good(active') /\ UNCHANGED <<conn, instances>>
    BY <1>0, <1>1, <1>2, RemoveGood DEF evict
  <2>2. task' \in [Session -> Task] /\ TaskInv'
    BY <1>0, <1>2, IdleType, TaskStep DEF evict, Steps
  <2> QED
    BY <1>0, <2>1, <2>2, StepInv
<1>3. CASE leave(s)
  <2>1. PICK call \in task[s].todo :
           /\ active' = removeParticipant(call.groupId, Owner[s])
           /\ task' = [task EXCEPT ![s].pc = "refresh", ![s].seen = call,
                                   ![s].todo = @ \ {call}]
    BY <1>3 DEF leave
  <2>2. call \in Snapshot /\ call.groupId \in Group
    BY <1>0, <2>1 DEF Task, Snapshot
  <2>3. Good(active') /\ UNCHANGED <<conn, instances>>
    BY <1>0, <1>3, <2>1, <2>2, RemoveGood DEF leave
  <2>4. PICK t : t = [task[s] EXCEPT !.pc = "refresh", !.seen = call,
                                     !.todo = @ \ {call}]
    OBVIOUS
  <2>5. t \in Task /\ t.pc = "refresh" /\ t.seen \in Snapshot
    BY <1>0, <2>2, <2>4 DEF Task, Steps
  <2>6. task' = [task EXCEPT ![s] = t]
    BY <1>0, <2>1, <2>4
  <2>7. task' \in [Session -> Task] /\ TaskInv'
    BY <1>0, <2>5, <2>6, TaskStep
  <2> QED
    BY <1>0, <2>3, <2>7, StepInv
<1>4. CASE refresh(s)
  <2>1. Good(active') /\ UNCHANGED <<conn, instances>>
    BY <1>0, <1>1, <1>4, GotGood DEF refresh
  <2>2. PICK call : call = get(task[s].seen.groupId)
    OBVIOUS
  <2>3. call \in ActiveCall \union {NoCall}
    BY <1>0, <1>1, <1>4, <2>2, GetFacts DEF refresh
  <2>4. PICK t : t = Refreshed(s, call)
    OBVIOUS
  <2>5. t \in Task /\ t.pc = "settle" /\ t.seen = task[s].seen
    <3>1. PICK r \in SUBSET User, j \in SUBSET User :
             /\ r = IF call = NoCall THEN {} ELSE call.participants \ {Owner[s]}
             /\ j = IF call = NoCall THEN {}
                                     ELSE call.joinedParticipants \ {Owner[s]}
      BY <2>3 DEF ActiveCall
    <3>2. t = [task[s] EXCEPT !.pc = "settle", !.remaining = r, !.joined = j]
      BY <2>4, <3>1 DEF Refreshed
    <3> QED
      BY <1>0, <3>2 DEF Task, Steps
  <2>6. task' = [task EXCEPT ![s] = t] /\ t.seen \in Snapshot
    BY <1>1, <1>4, <2>2, <2>4, <2>5 DEF refresh
  <2>7. task' \in [Session -> Task] /\ TaskInv'
    BY <1>0, <2>5, <2>6, TaskStep
  <2> QED
    BY <1>0, <2>1, <2>7, StepInv
<1>5. CASE settle(s)
  <2>1. UNCHANGED <<conn, instances>>
    BY <1>5 DEF settle
  <2>2. Good(active')
    BY <1>0, <1>1, <1>5, EndGood DEF settle
  <2>3. task' \in [Session -> Task] /\ TaskInv'
    <3>1. CASE task' = [task EXCEPT ![s] = Continue(task[s])]
      BY <1>0, <3>1, ContinueType, TaskStep
    <3>2. CASE \E u \in Candidates(s) :
                  task' = [task EXCEPT ![s].pc = "transfer", ![s].candidate = u]
      <4>1. PICK u \in User :
               task' = [task EXCEPT ![s].pc = "transfer", ![s].candidate = u]
        BY <3>2 DEF Candidates, Online
      <4>2. PICK t : t = [task[s] EXCEPT !.pc = "transfer", !.candidate = u]
        OBVIOUS
      <4>3. t \in Task /\ t.pc = "transfer" /\ t.seen \in Snapshot
            /\ t.candidate \in User
        BY <1>0, <1>1, <1>5, <4>2 DEF Task, Steps, settle
      <4>4. task' = [task EXCEPT ![s] = t]
        BY <1>0, <4>1, <4>2
      <4> QED
        BY <1>0, <4>3, <4>4, TaskStep
    <3> QED
      BY <1>5, <3>1, <3>2 DEF settle
  <2> QED
    BY <1>0, <2>1, <2>2, <2>3, StepInv
<1>6. CASE transfer(s)
  <2>1. UNCHANGED <<conn, instances>>
    BY <1>6 DEF transfer
  <2>2. Good(active')
    <3>1. task[s].candidate \in User
      BY <1>0, <1>6 DEF TaskInv, transfer
    <3> QED
      BY <1>0, <1>1, <1>6, <3>1, TransferGood DEF transfer
  <2>3. task' \in [Session -> Task] /\ TaskInv'
    BY <1>0, <1>6, ContinueType, TaskStep DEF transfer
  <2> QED
    BY <1>0, <2>1, <2>2, <2>3, StepInv
<1>7. CASE removeConnection(s)
  <2>1. UNCHANGED <<active, instances>> /\ conn' \in [User -> Session \union {None}]
    BY <1>0, <1>7 DEF removeConnection
  <2>2. task' \in [Session -> Task] /\ TaskInv'
    BY <1>0, <1>7, IdleType, TaskStep DEF removeConnection, Steps
  <2>3. Good(active')
    BY <1>0, <2>1
  <2> QED
    BY <1>0, <2>1, <2>2, <2>3, StepInv
<1> QED
  BY <1>2, <1>3, <1>4, <1>5, <1>6, <1>7 DEF Handler

\* So does every step of the server.
LEMMA NextInv ==
    ASSUME CallInv, Next
    PROVE  CallInv'
<1>0. /\ Good(active) /\ task \in [Session -> Task] /\ TaskInv
      /\ conn \in [User -> Session \union {None}]
      /\ instances \in 0 .. MaxInstances
  BY DEF CallInv, TypeOK
<1>1. ASSUME NEW s \in Session, addConnection(s)
      PROVE  CallInv'
  <2>1. UNCHANGED <<active, instances>> /\ conn' \in [User -> Session \union {None}]
    BY <1>0, <1>1, OwnerAssumption DEF addConnection
  <2>2. PICK pc \in {"gone", "open"} : task' = [task EXCEPT ![s] = Idle(pc)]
    BY <1>1 DEF addConnection
  <2>3. task' \in [Session -> Task] /\ TaskInv'
    BY <1>0, <2>2, IdleType, TaskStep DEF Steps
  <2>4. Good(active')
    BY <1>0, <2>1
  <2> QED
    BY <1>0, <2>1, <2>3, <2>4, StepInv
<1>2. ASSUME NEW s \in Session, Frame(s)
      PROVE  CallInv'
  BY <1>2, FrameInv, BeginInv, SetsAssumption DEF Frame
<1>3. ASSUME NEW s \in Session, close(s)
      PROVE  CallInv'
  BY <1>3, BeginInv
<1>4. ASSUME NEW s \in Session, Handler(s)
      PROVE  CallInv'
  BY <1>4, HandlerInv
<1>5. ASSUME NEW g \in Group, age(g)
      PROVE  CallInv'
  <2>1. active[g] # NoCall /\ active[g] \in ActiveCall /\ active \in Table
    BY <1>0, <1>5 DEF age, Good, Sound
  <2>2. PICK call : call = [active[g] EXCEPT !.expired = TRUE]
    OBVIOUS
  <2>3. /\ call \in ActiveCall
        /\ call.participants = active[g].participants
        /\ call.joinedParticipants = active[g].joinedParticipants
        /\ call.mediaE2eeParticipants = active[g].mediaE2eeParticipants
        /\ call.invitedParticipants = active[g].invitedParticipants
        /\ call.requiresMediaE2ee = active[g].requiresMediaE2ee
    BY <2>1, <2>2 DEF ActiveCall
  <2>4. active' = [active EXCEPT ![g] = call]
    BY <1>5, <2>1, <2>2 DEF age, Table
  <2>5. Good(active')
    BY <1>0, <2>1, <2>3, <2>4, RelabelGood
  <2>6. UNCHANGED <<conn, task, instances>> /\ TaskInv'
    BY <1>0, <1>5 DEF age, TaskInv
  <2> QED
    BY <1>0, <2>5, <2>6, StepInv
<1>6. CASE purge
  <2>1. Good(active')
    BY <1>0, <1>6, PurgeGood DEF purge
  <2>2. UNCHANGED <<conn, task, instances>> /\ TaskInv'
    BY <1>0, <1>6 DEF purge, TaskInv
  <2> QED
    BY <1>0, <2>1, <2>2, StepInv
<1> QED
  BY <1>1, <1>2, <1>3, <1>4, <1>5, <1>6 DEF Next

----------------------------------------------------------------------------
(* Theorems *)

\* The inductive invariant: types, handlers that remember the call they act
\* on, and a table of properly admitted calls within the limits.
THEOREM CallInvariant == Spec => []CallInv
<1>1. CallInv /\ [Next]_vars => CallInv'
  <2> SUFFICES ASSUME CallInv, [Next]_vars PROVE CallInv'
    OBVIOUS
  <2>1. CASE Next
    BY <2>1, NextInv
  <2>2. CASE UNCHANGED vars
    <3>1. /\ Good(active') /\ task' \in [Session -> Task] /\ TaskInv'
          /\ conn' \in [User -> Session \union {None}]
          /\ instances' \in 0 .. MaxInstances
      BY <2>2 DEF vars, CallInv, TypeOK, TaskInv
    <3> QED
      BY <3>1, StepInv
  <2> QED
    BY <2>1, <2>2
<1> QED
  BY InitInv, <1>1, PTL DEF Spec

\* The handlers keep every variable well typed.
THEOREM CallTypes == Spec => []TypeOK
<1>1. CallInv => TypeOK
  BY DEF CallInv
<1> QED
  BY CallInvariant, <1>1, PTL

\* For every setting of the limits: invite and confirmJoin never let a call,
\* a user or the server past them.
THEOREM CapacitySafe == Spec => []CapacityKept
<1>1. CallInv => CapacityKept
  BY DEF CallInv, Good, CapacityKept
<1> QED
  BY CallInvariant, <1>1, PTL

\* In a call that asked for media encryption everybody who joined declared
\* it, and nobody is in a call uninvited.
THEOREM AdmissionSafe == Spec => []EncryptedAndInvited
<1>1. CallInv => EncryptedAndInvited
  BY DEF CallInv, Good, Sound, EncryptedAndInvited, Occupied
<1> QED
  BY CallInvariant, <1>1, PTL

\* A leaving handler ends no later call of the group, and appoints a
\* coordinator who has joined.
THEOREM InstanceSafe == Spec => ActsOnItsCall
<1> DEFINE A(g, s) ==
      task'[s] # task[s] /\ task[s].pc \in {"settle", "transfer"} =>
         /\ active'[g] = NoCall /\ ~active[g].expired =>
               active[g].instanceId = task[s].seen.instanceId
         /\ active'[g] # NoCall
               /\ active'[g].coordinatorId # active[g].coordinatorId =>
               active'[g].coordinatorId \in active'[g].joinedParticipants
<1>1. ASSUME CallInv, Next, NEW g \in Occupied(active), NEW s \in Session
      PROVE  A(g, s)
  <2> SUFFICES ASSUME task'[s] # task[s], task[s].pc \in {"settle", "transfer"}
               PROVE  /\ active'[g] = NoCall /\ ~active[g].expired =>
                            active[g].instanceId = task[s].seen.instanceId
                      /\ active'[g] # NoCall
                            /\ active'[g].coordinatorId # active[g].coordinatorId =>
                            active'[g].coordinatorId \in active'[g].joinedParticipants
    OBVIOUS
  <2>0. /\ Good(active) /\ task \in [Session -> Task] /\ active \in Table
        /\ g \in Group /\ active[g] # NoCall /\ active[g] \in ActiveCall
        /\ task[s].seen \in Snapshot /\ task[s].seen.groupId \in Group
    BY <1>1 DEF CallInv, TypeOK, Good, Sound, Occupied, TaskInv, Snapshot
  <2>1. settle(s) \/ transfer(s)
    <3>0. ASSUME NEW t \in Session, Frame(t)
          PROVE  task[t].pc = "open"
                 /\ (task' = task \/ \E x : task' = [task EXCEPT ![t] = x])
      BY <3>0 DEF Frame, invite, confirmJoin, hangUp
    <3>1. ASSUME NEW t \in Session, addConnection(t) \/ Frame(t) \/ close(t) \/ Handler(t)
          PROVE  settle(s) \/ transfer(s)
      <4>1. CASE t = s
        <5>1. task[t].pc \in {"settle", "transfer"}
          BY <4>1
        <5>2. ~addConnection(t) /\ ~Frame(t) /\ ~close(t)
          BY <3>0, <5>1 DEF addConnection, close
        <5>3. ~evict(t) /\ ~leave(t) /\ ~refresh(t) /\ ~removeConnection(t)
          BY <5>1 DEF evict, leave, refresh, removeConnection
        <5> QED
          BY <3>1, <4>1, <5>2, <5>3 DEF Handler
      <4>2. CASE t # s
        <5>1. CASE Frame(t)
          BY <2>0, <3>0, <4>2, <5>1
        <5>2. CASE addConnection(t) \/ close(t)
          <6>1. \E x : task' = [task EXCEPT ![t] = x]
            BY <5>2 DEF addConnection, close
          <6> QED
            BY <2>0, <4>2, <6>1
        <5>3. CASE evict(t) \/ refresh(t) \/ transfer(t) \/ removeConnection(t)
          <6>1. \E x : task' = [task EXCEPT ![t] = x]
            BY <5>3 DEF evict, refresh, transfer, removeConnection
          <6> QED
            BY <2>0, <4>2, <6>1
        <5>4. CASE leave(t)
          BY <2>0, <4>2, <5>4 DEF leave
        <5>5. CASE settle(t)
          BY <2>0, <4>2, <5>5 DEF settle
        <5> QED
          BY <3>1, <5>1, <5>2, <5>3, <5>4, <5>5 DEF Handler
      <4> QED
        BY <4>1, <4>2
    <3>2. ASSUME (\E h \in Group : age(h)) \/ purge
          PROVE  FALSE
      BY <3>2 DEF age, purge
    <3> QED
      BY <1>1, <3>1, <3>2 DEF Next
  <2>2. CASE settle(s)
    <3>1. active' = active \/ active' = endCall(task[s].seen.groupId,
                                                task[s].seen.instanceId)
      BY <2>2 DEF settle
    <3> QED
      BY <2>0, <3>1, NoneAssumption DEF endCall, Table
  <2>3. CASE transfer(s)
    <3> DEFINE h == task[s].seen.groupId
               u == task[s].candidate
               allowed == IF task[s].closing THEN Online ELSE User
    <3>1. h \in Group /\ active' = transferCoordinator(h, u, allowed)
      BY <2>0, <2>3 DEF transfer
    <3> HIDE DEF h, u, allowed
    <3>2. CASE /\ get(h) # NoCall /\ get(h).coordinatorId # u
               /\ u \in get(h).joinedParticipants /\ u \in allowed
      <4>1. get(h) = active[h] /\ active[h] \in ActiveCall
        BY <2>0, <3>1, <3>2, GetFacts
      <4>2. PICK call : call = [active[h] EXCEPT !.coordinatorId = u]
        OBVIOUS
      <4>3. active' = [active EXCEPT ![h] = call]
        BY <3>1, <3>2, <4>1, <4>2 DEF transferCoordinator
      <4>4. /\ call.coordinatorId = u /\ u \in active[h].joinedParticipants
            /\ call.joinedParticipants = active[h].joinedParticipants
        BY <3>2, <4>1, <4>2 DEF ActiveCall
      <4>5. call # NoCall
        <5>1. [active[h] EXCEPT !.coordinatorId = u] \in
                 [groupId: Group, callId: CallId, coordinatorId: User,
                  participants: SUBSET User, invitedParticipants: SUBSET User,
                  joinedParticipants: SUBSET User, requiresMediaE2ee: BOOLEAN,
                  mediaE2eeParticipants: SUBSET User, instanceId: Nat,
                  expired: BOOLEAN]
          BY <3>2, <4>1 DEF ActiveCall
        <5> QED
          BY <5>1, <4>2, NoneAssumption DEF ActiveCall
      <4> QED
        BY <2>0, <4>3, <4>4, <4>5 DEF Table
    <3>3. CASE ~(/\ get(h) # NoCall /\ get(h).coordinatorId # u
                 /\ u \in get(h).joinedParticipants /\ u \in allowed)
      <4>1. active' = Got(h)
        BY <3>1, <3>3 DEF transferCoordinator
      <4> QED
        BY <2>0, <3>1, <4>1, GetFacts DEF Got, get, Table
    <3> QED
      BY <3>2, <3>3
  <2> QED
    BY <2>1, <2>2, <2>3
<1>2. CallInv /\ [Next]_vars =>
         [\A g \in Occupied(active), s \in Session : A(g, s)]_vars
  <2> HIDE DEF A
  <2> QED
    BY <1>1
<1> QED
  BY CallInvariant, <1>2, PTL DEF Spec, ActsOnItsCall

----------------------------------------------------------------------------
(* Nobody is left alone in a call.  While the first call is the only one,  *)
(* a call that a handler takes down to one participant has that handler to *)
(* end it: the handler knows the call by its number.                       *)

\* The calls that were started, and what handlers remember of them, are
\* numbered.
Numbered ==
    /\ \A g \in Group : active[g] # NoCall =>
          active[g].groupId = g /\ active[g].instanceId \in 1 .. instances
    /\ \A s \in Session :
          /\ \A call \in task[s].todo : call.instanceId \in 1 .. instances
          /\ task[s].pc \in {"evict", "refresh", "settle"} =>
                task[s].seen.instanceId \in 1 .. instances

\* Only a call that refuses members has a handler about to put one out.
Refused ==
    \A s \in Session, g \in Group :
        instances <= 1 /\ task[s].pc = "evict" /\ task[s].seen.groupId = g
            /\ active[g] # NoCall => ~RefusesNobody(active[g])

\* A handler that will end the call of g.
Ends(s, g) ==
    /\ task[s].pc = "refresh" \/ (task[s].pc = "settle" /\ Empty(s))
    /\ task[s].seen.groupId = g
    /\ task[s].seen.instanceId = active[g].instanceId

Attended ==
    instances <= 1 =>
        \A g \in Group : active[g] # NoCall /\ RefusesNobody(active[g]) =>
            \/ Cardinality(active[g].participants) >= 2
            \/ \E s \in Session : Ends(s, g)

LoneInv == Numbered /\ Refused /\ Attended

\* What a step makes of the call of g: the same call, the same call with
\* nobody taken out, or one that it starts.
Same(g) ==
    /\ active[g] # NoCall
    /\ active'[g].groupId = active[g].groupId
    /\ active'[g].instanceId = active[g].instanceId
    /\ active'[g].requiresMediaE2ee = active[g].requiresMediaE2ee
Kept(g) == Same(g) /\ active[g].participants \subseteq active'[g].participants
Begun(g) ==
    /\ instances' = instances + 1
    /\ active'[g].groupId = g /\ active'[g].instanceId = instances'
    /\ Cardinality(active'[g].participants) >= 2

\* A step of session t, or of none if t is not a session.
StepOf(t) ==
    /\ instances' \in {instances, instances + 1}
    /\ \A s \in Session \ {t} : task'[s] = task[s]

\* The numbers stay right: a step keeps calls or starts one, and its handler
\* remembers calls that were started.
LEMMA NumberedStep ==
    ASSUME Numbered, instances \in Nat, NEW t, StepOf(t),
           \A g \in Group : active'[g] # NoCall => Same(g) \/ Begun(g),
           t \in Session =>
              /\ \A call \in task'[t].todo : call.instanceId \in 1 .. instances
              /\ task'[t].pc \in {"evict", "refresh", "settle"} =>
                    task'[t].seen.instanceId \in 1 .. instances
    PROVE  Numbered'
<1>1. instances' \in Nat /\ instances <= instances'
  BY DEF StepOf
<1>2. \A i : i \in 1 .. instances => i \in 1 .. instances'
  BY <1>1
<1>3. ASSUME NEW g \in Group, active'[g] # NoCall
      PROVE  active'[g].groupId = g /\ active'[g].instanceId \in 1 .. instances'
  <2>1. CASE Same(g)
    <3>1. active[g].groupId = g /\ active[g].instanceId \in 1 .. instances
      BY <2>1 DEF Same, Numbered
    <3> QED
      BY <2>1, <3>1, <1>2 DEF Same
  <2>2. CASE Begun(g)
    BY <2>2, <1>1 DEF Begun
  <2> QED
    BY <1>3, <2>1, <2>2
<1>4. ASSUME NEW s \in Session
      PROVE  /\ \A call \in task'[s].todo : call.instanceId \in 1 .. instances'
             /\ task'[s].pc \in {"evict", "refresh", "settle"} =>
                   task'[s].seen.instanceId \in 1 .. instances'
  <2>1. CASE s = t
    BY <1>2, <2>1
  <2>2. CASE s # t
    <3>1. task'[s] = task[s]
      BY <2>2 DEF StepOf
    <3>2. /\ \A call \in task[s].todo : call.instanceId \in 1 .. instances
          /\ task[s].pc \in {"evict", "refresh", "settle"} =>
                task[s].seen.instanceId \in 1 .. instances
      BY DEF Numbered
    <3> QED
      BY <1>2, <3>1, <3>2
  <2> QED
    BY <2>1, <2>2
<1> QED
  BY <1>3, <1>4 DEF Numbered

\* Nobody is put out of a call that refuses nobody: when the first call
\* starts, no handler remembers a call.
LEMMA RefusedStep ==
    ASSUME Numbered, Refused, instances \in Nat, NEW t, StepOf(t),
           \A g \in Group : active'[g] # NoCall => Same(g) \/ Begun(g),
           t \in Session /\ task'[t].pc = "evict" =>
              /\ instances' = instances
              /\ \A g \in Group :
                    task'[t].seen.groupId = g /\ active'[g] # NoCall =>
                       ~RefusesNobody(active'[g])
    PROVE  Refused'
<1> SUFFICES ASSUME NEW s \in Session, NEW g \in Group, instances' <= 1,
                    task'[s].pc = "evict", task'[s].seen.groupId = g,
                    active'[g] # NoCall
             PROVE  ~RefusesNobody(active'[g])
  BY DEF Refused, RefusesNobody
<1>1. CASE s = t
  BY <1>1
<1>2. CASE s # t
  <2>1. task'[s] = task[s]
    BY <1>2 DEF StepOf
  <2>2. task[s].seen.instanceId \in 1 .. instances
    BY <2>1 DEF Numbered
  <2>3. instances = 1 /\ instances' = 1
    BY <2>2 DEF StepOf
  <2>4. Same(g)
    BY <2>3 DEF Begun
  <2>5. ~RefusesNobody(active[g])
    BY <2>1, <2>3, <2>4 DEF Refused, Same
  <2> QED
    BY <2>4, <2>5 DEF Same, RefusesNobody
<1> QED
  BY <1>1, <1>2

\* A call stays attended: nobody is taken out of it, or it has just begun, or
\* the handler of the step will end it.
LEMMA AttendedStep ==
    ASSUME CallInv, CallInv', Attended, NEW t, StepOf(t),
           \A g \in Group :
              instances' <= 1 /\ active'[g] # NoCall /\ RefusesNobody(active'[g]) =>
                 \/ Cardinality(active'[g].participants) >= 2
                 \/ t \in Session /\ Ends(t, g)'
                 \/ Kept(g) /\ ~(t \in Session /\ Ends(t, g))
    PROVE  Attended'
<1> SUFFICES ASSUME instances' <= 1, NEW g \in Group, active'[g] # NoCall,
                    RefusesNobody(active'[g]),
                    ~(Cardinality(active'[g].participants) >= 2)
             PROVE  \E s \in Session : Ends(s, g)'
  BY DEF Attended, RefusesNobody
<1>1. CASE t \in Session /\ Ends(t, g)'
  BY <1>1
<1>2. CASE Kept(g) /\ ~(t \in Session /\ Ends(t, g))
  <2>1. instances <= 1
    BY DEF StepOf, CallInv, TypeOK
  <2>2. RefusesNobody(active[g]) /\ active[g] # NoCall
    BY <1>2 DEF Kept, Same, RefusesNobody
  <2>3. ~(Cardinality(active[g].participants) >= 2)
    <3>1. active'[g].participants \subseteq User
      BY DEF CallInv, Good, Sound, ActiveCall
    <3>2. IsFiniteSet(active'[g].participants)
      BY <3>1, FS_Subset, SetsAssumption
    <3>3. /\ IsFiniteSet(active[g].participants)
          /\ Cardinality(active[g].participants) <= Cardinality(active'[g].participants)
      BY <1>2, <3>2, FS_Subset DEF Kept
    <3> QED
      BY <3>2, <3>3, FS_CardinalityType
  <2>4. PICK s \in Session : Ends(s, g)
    BY <2>1, <2>2, <2>3 DEF Attended
  <2>5. task'[s] = task[s]
    BY <1>2, <2>4 DEF StepOf
  <2>6. Ends(s, g)'
    BY <1>2, <2>4, <2>5 DEF Ends, Empty, Kept, Same
  <2> QED
    BY <2>6
<1> QED
  BY <1>1, <1>2

\* What get and the purge of expired calls leave is as it was.
LEMMA GetKept ==
    ASSUME Good(active), NEW h \in Group,
           active' = Got(h) \/ active' = purgeExpired
    PROVE  \A g \in Group : active'[g] # NoCall => Kept(g)
BY GetFacts DEF Got, purgeExpired, Good, Table, Kept, Same

\* removeParticipant takes a participant out of one call.
LEMMA RemoveKept ==
    ASSUME Good(active), NEW h \in Group, NEW u \in User,
           active' = removeParticipant(h, u)
    PROVE  /\ \A g \in Group : active'[g] # NoCall => Same(g)
           /\ \A g \in Group \ {h} : active'[g] # NoCall => Kept(g)
<1>1. CASE get(h) = NoCall \/ u \notin get(h).participants
  <2>1. active' = Got(h)
    BY <1>1 DEF removeParticipant
  <2> QED
    BY <2>1, GetKept DEF Kept
<1>2. CASE ~(get(h) = NoCall \/ u \notin get(h).participants)
  <2>1. active[h] # NoCall /\ get(h) = active[h] /\ active[h] \in ActiveCall
    BY <1>2, GetFacts
  <2>2. PICK rest : rest = [active[h] EXCEPT !.participants = @ \ {u},
                                   !.joinedParticipants = @ \ {u},
                                   !.mediaE2eeParticipants = @ \ {u}]
    OBVIOUS
  <2>3. /\ rest.groupId = active[h].groupId
        /\ rest.instanceId = active[h].instanceId
        /\ rest.requiresMediaE2ee = active[h].requiresMediaE2ee
    BY <2>1, <2>2 DEF ActiveCall
  <2>4. active' = [active EXCEPT ![h] = rest]
    BY <1>2, <2>1, <2>2 DEF removeParticipant
  <2>5. \A g \in Group \ {h} : active'[g] = active[g]
    BY <2>4 DEF Good, Table
  <2>6. active'[h] = rest
    BY <2>4 DEF Good, Table
  <2> QED
    BY <2>1, <2>3, <2>5, <2>6 DEF Kept, Same
<1> QED
  BY <1>1, <1>2

\* transferCoordinator keeps every call it leaves.
LEMMA TransferKept ==
    ASSUME Good(active), NEW h \in Group, NEW u \in User, NEW allowed,
           active' = transferCoordinator(h, u, allowed)
    PROVE  \A g \in Group : active'[g] # NoCall => Kept(g)
<1>1. CASE active' = Got(h)
  BY <1>1, GetKept
<1>2. CASE get(h) # NoCall /\ active' = [active EXCEPT ![h] = [get(h) EXCEPT !.coordinatorId = u]]
  <2>1. active[h] # NoCall /\ get(h) = active[h] /\ active[h] \in ActiveCall
    BY <1>2, GetFacts
  <2>2. PICK call : call = [active[h] EXCEPT !.coordinatorId = u]
    OBVIOUS
  <2>3. /\ call.groupId = active[h].groupId
        /\ call.instanceId = active[h].instanceId
        /\ call.requiresMediaE2ee = active[h].requiresMediaE2ee
        /\ call.participants = active[h].participants
    BY <2>1, <2>2 DEF ActiveCall
  <2>4. \A g \in Group : active'[g] = IF g = h THEN call ELSE active[g]
    BY <1>2, <2>1, <2>2 DEF Good, Table
  <2> QED
    BY <2>1, <2>3, <2>4 DEF Kept, Same
<1> QED
  BY <1>1, <1>2 DEF transferCoordinator

\* A step that keeps every call it leaves, and whose handler is not one that
\* would have ended a call.
LEMMA QuietStep ==
    ASSUME CallInv, CallInv', LoneInv, NEW t, StepOf(t), instances' = instances,
           \A g \in Group : active'[g] # NoCall => Kept(g),
           t \in Session =>
              /\ task[t].pc \notin {"refresh", "settle"}
              /\ \A call \in task'[t].todo : call.instanceId \in 1 .. instances
              /\ task'[t].pc \in {"evict", "refresh", "settle"} =>
                    task'[t].seen.instanceId \in 1 .. instances
              /\ task'[t].pc = "evict" =>
                    \A g \in Group :
                       task'[t].seen.groupId = g /\ active'[g] # NoCall =>
                          ~RefusesNobody(active'[g])
    PROVE  LoneInv'
<1>0. instances \in Nat /\ Numbered /\ Refused /\ Attended
  BY LimitAssumption DEF CallInv, TypeOK, LoneInv
<1>1. \A g \in Group : active'[g] # NoCall => Same(g) \/ Begun(g)
  BY DEF Kept
<1>2. Numbered'
  BY <1>0, <1>1, NumberedStep
<1>3. Refused'
  BY <1>0, <1>1, RefusedStep
<1>4. \A g \in Group : ~(t \in Session /\ Ends(t, g))
  BY DEF Ends
<1>5. Attended'
  BY <1>0, <1>4, AttendedStep
<1> QED
  BY <1>2, <1>3, <1>5 DEF LoneInv

\* The snapshot of a call has its number.
LEMMA SnapshotNumber ==
    ASSUME Numbered, NEW g \in Group, active[g] # NoCall
    PROVE  /\ SnapshotOf(active[g]).instanceId \in 1 .. instances
           /\ SnapshotOf(active[g]).groupId = g
BY DEF Numbered, SnapshotOf

\* A handler that is idle, or turns to its next call, remembers nothing new.
LEMMA IdleNumbers ==
    ASSUME NEW pc
    PROVE  Idle(pc).todo = {} /\ Idle(pc).pc = pc
BY DEF Idle

LEMMA ContinueNumbers ==
    ASSUME NEW t
    PROVE  /\ \A call \in Continue(t).todo : call \in t.todo
           /\ Continue(t).pc \in {"leave", "unlist", "open"}
BY DEF Continue, Idle

\* A call that starts has two participants.
LEMMA StartLone ==
    ASSUME CallInv, CallInv', LoneInv, NEW g \in Group, NEW c, NEW u \in User,
           NEW recipient \in User, NEW m \in BOOLEAN, recipient # u,
           active' = [purgeExpired EXCEPT ![g] = NewCall(g, c, u, recipient, m)],
           instances' = instances + 1, UNCHANGED task
    PROVE  LoneInv'
<1>0. /\ instances \in Nat /\ Numbered /\ Refused /\ Attended
      /\ Good(active) /\ Good(purgeExpired)
  BY LimitAssumption, PurgeGood DEF CallInv, TypeOK, LoneInv
<1>1. active'[g] = NewCall(g, c, u, recipient, m)
  BY <1>0 DEF Good, Table
<1>2. Begun(g)
  <2>1. /\ active'[g].groupId = g /\ active'[g].instanceId = instances + 1
        /\ active'[g].participants = {u, recipient}
    BY <1>1 DEF NewCall
  <2>2. Cardinality({u, recipient}) = 2
    <3>1. Cardinality({u}) = 1 /\ IsFiniteSet({u})
      BY FS_Singleton
    <3>2. Cardinality({u} \union {recipient}) = Cardinality({u}) + 1
      BY <3>1, FS_AddElement
    <3>3. {u} \union {recipient} = {u, recipient}
      OBVIOUS
    <3> QED
      BY <3>1, <3>2, <3>3
  <2> QED
    BY <2>1, <2>2 DEF Begun
<1>3. \A h \in Group \ {g} : active'[h] # NoCall => Kept(h)
  BY <1>0, GetFacts DEF purgeExpired, Kept, Same
<1>4. \A h \in Group : active'[h] # NoCall => Same(h) \/ Begun(h)
  BY <1>2, <1>3 DEF Kept
<1>5. PICK t : t \notin Session
  BY NoneAssumption
<1>6. StepOf(t)
  BY <1>0 DEF StepOf
<1>7. Numbered'
  BY <1>0, <1>4, <1>5, <1>6, NumberedStep
<1>8. Refused'
  BY <1>0, <1>4, <1>5, <1>6, RefusedStep
<1>9. Attended'
  <2>1. Cardinality(active'[g].participants) >= 2
    BY <1>2 DEF Begun
  <2> QED
    BY <1>0, <1>3, <1>5, <1>6, <2>1, AttendedStep
<1> QED
  BY <1>7, <1>8, <1>9 DEF LoneInv

\* invite takes nobody out of a call.
LEMMA InviteLone ==
    ASSUME CallInv, CallInv', LoneInv, NEW s \in Session, NEW g \in Group,
           NEW c \in CallId, NEW u \in User, NEW m \in MediaE2ee,
           invite(s, g, c, u, m)
    PROVE  LoneInv'
<1>0. /\ Good(active) /\ Good(purgeExpired) /\ Owner[s] \in User /\ m \in BOOLEAN
      /\ u # Owner[s] /\ UNCHANGED task
  BY PurgeGood, OwnerAssumption, SetsAssumption DEF CallInv, invite
<1>1. PICK t : t \notin Session
  BY NoneAssumption
<1>2. CASE active' = purgeExpired /\ UNCHANGED instances
  <2>1. \A h \in Group : active'[h] # NoCall => Kept(h)
    BY <1>0, <1>2, GetKept
  <2>2. StepOf(t) /\ instances' = instances
    BY <1>0, <1>2 DEF StepOf
  <2> QED
    BY <1>1, <2>1, <2>2, QuietStep
<1>3. CASE /\ active' = [purgeExpired EXCEPT ![g] = NewCall(g, c, Owner[s], u, m)]
           /\ instances' = instances + 1
  BY <1>0, <1>3, StartLone
<1>4. CASE /\ Invited(g, c, Owner[s], u, m) /\ UNCHANGED instances
           /\ active' = [purgeExpired EXCEPT ![g] = InvitedWith(purgeExpired[g], u)]
  <2>1. purgeExpired[g] = get(g) /\ get(g) # NoCall
    BY <1>4 DEF Invited, purgeExpired
  <2>2. get(g) = active[g] /\ active[g] \in ActiveCall /\ active[g] # NoCall
    BY <1>0, <2>1, GetFacts
  <2>3. PICK call : call = InvitedWith(active[g], u)
    OBVIOUS
  <2>4. /\ call.groupId = active[g].groupId
        /\ call.instanceId = active[g].instanceId
        /\ call.requiresMediaE2ee = active[g].requiresMediaE2ee
        /\ active[g].participants \subseteq call.participants
    BY <2>2, <2>3 DEF InvitedWith, ActiveCall
  <2>5. active'[g] = call
    BY <1>0, <1>4, <2>1, <2>2, <2>3 DEF Good, Table
  <2>6. \A h \in Group \ {g} : active'[h] = get(h)
    BY <1>0, <1>4 DEF purgeExpired
  <2>7. \A h \in Group : active'[h] # NoCall => Kept(h)
    BY <1>0, <2>2, <2>4, <2>5, <2>6, GetFacts DEF Kept, Same
  <2>8. StepOf(t) /\ instances' = instances
    BY <1>0, <1>4 DEF StepOf
  <2> QED
    BY <1>1, <2>7, <2>8, QuietStep
<1> QED
  BY <1>2, <1>3, <1>4 DEF invite

\* confirmJoin takes nobody out of a call, and its handler will put the
\* sender out only of a call that refuses it.
LEMMA JoinLone ==
    ASSUME CallInv, CallInv', LoneInv, NEW s \in Session, NEW g \in Group,
           NEW c \in CallId, NEW u \in User, NEW m \in MediaE2ee,
           confirmJoin(s, g, c, u, m)
    PROVE  LoneInv'
<1>0. /\ Good(active) /\ task \in [Session -> Task] /\ Numbered
      /\ task[s].pc = "open" /\ instances' = instances /\ instances \in Nat
      /\ m \in BOOLEAN
  BY LimitAssumption, SetsAssumption DEF CallInv, TypeOK, LoneInv, confirmJoin
<1>1. \A call \in task[s].todo : call.instanceId \in 1 .. instances
  BY <1>0 DEF Numbered
<1>2. CASE UNCHANGED task
  <2>1. \A h \in Group : active'[h] # NoCall => Kept(h)
    <3>1. CASE active' = Got(g)
      BY <1>0, <3>1, GetKept
    <3>2. CASE /\ MayJoin(g, c, u, Owner[s])
               /\ active' = [active EXCEPT ![g] = JoinedWith(get(g), Owner[s], m)]
      <4>1. get(g) = active[g] /\ active[g] \in ActiveCall /\ active[g] # NoCall
        BY <1>0, <3>2, GetFacts DEF MayJoin
      <4>2. PICK call : call = JoinedWith(active[g], Owner[s], m)
        OBVIOUS
      <4>3. /\ call.groupId = active[g].groupId
            /\ call.instanceId = active[g].instanceId
            /\ call.requiresMediaE2ee = active[g].requiresMediaE2ee
            /\ active[g].participants \subseteq call.participants
        BY <4>1, <4>2 DEF JoinedWith, ActiveCall
      <4>4. \A h \in Group : active'[h] = IF h = g THEN call ELSE active[h]
        BY <1>0, <3>2, <4>1, <4>2 DEF Good, Table
      <4> QED
        BY <4>1, <4>3, <4>4 DEF Kept, Same
    <3> QED
      BY <3>1, <3>2 DEF confirmJoin
  <2>2. PICK t : t \notin Session
    BY NoneAssumption
  <2>3. StepOf(t)
    BY <1>0, <1>2 DEF StepOf
  <2> QED
    BY <1>0, <2>1, <2>2, <2>3, QuietStep
<1>3. CASE /\ MayJoin(g, c, u, Owner[s]) /\ EncryptionRequired(g, m)
           /\ active' = Got(g)
           /\ task' = [task EXCEPT ![s] =
                         [Idle("evict") EXCEPT !.seen = SnapshotOf(get(g))]]
  <2>1. \A h \in Group : active'[h] # NoCall => Kept(h)
    BY <1>0, <1>3, GetKept
  <2>2. get(g) = active[g] /\ active[g] # NoCall
    BY <1>0, <1>3, GetFacts DEF MayJoin
  <2>3. StepOf(s)
    BY <1>0, <1>3 DEF StepOf
  <2>4. PICK call : call = SnapshotOf(active[g])
    OBVIOUS
  <2>5. call.instanceId \in 1 .. instances /\ call.groupId = g
    BY <1>0, <2>2, <2>4, SnapshotNumber
  <2>6. task'[s].todo = {} /\ task'[s].seen = call
    BY <1>0, <1>3, <2>2, <2>4 DEF Idle
  <2>7. ASSUME active'[g] # NoCall
        PROVE  ~RefusesNobody(active'[g])
    <3>1. active'[g].requiresMediaE2ee = active[g].requiresMediaE2ee
      BY <2>1, <2>7 DEF Kept, Same
    <3>2. active[g].requiresMediaE2ee /\ ~m
      BY <1>3, <2>2 DEF EncryptionRequired
    <3>3. m = FALSE
      BY <1>0, <3>2
    <3> QED
      BY <3>1, <3>2, <3>3 DEF RefusesNobody
  <2> QED
    BY <1>0, <2>1, <2>3, <2>5, <2>6, <2>7, QuietStep
<1> QED
  BY <1>2, <1>3 DEF confirmJoin

\* hangUp and close remember calls that were started.
LEMMA BeginLone ==
    ASSUME CallInv, CallInv', LoneInv, NEW s \in Session,
           (\E g \in Group : hangUp(s, g)) \/ close(s)
    PROVE  LoneInv'
<1>0. /\ Good(active) /\ task \in [Session -> Task] /\ Numbered
      /\ task[s].pc = "open" /\ instances' = instances
  BY DEF CallInv, TypeOK, LoneInv, hangUp, close
<1>1. ASSUME NEW g \in Group, hangUp(s, g)
      PROVE  LoneInv'
  <2>1. \A h \in Group : active'[h] # NoCall => Kept(h)
    BY <1>0, <1>1, GetKept DEF hangUp
  <2>2. get(g) = active[g] /\ active[g] # NoCall
    BY <1>0, <1>1, GetFacts DEF hangUp
  <2>3. StepOf(s)
    BY <1>0, <1>1 DEF StepOf, hangUp
  <2>4. task'[s].todo = {SnapshotOf(active[g])} /\ task'[s].pc = "leave"
    BY <1>0, <1>1, <2>2 DEF hangUp, Idle
  <2> QED
    BY <1>0, <2>1, <2>2, <2>3, <2>4, SnapshotNumber, QuietStep
<1>2. CASE close(s)
  <2>1. \A h \in Group : active'[h] # NoCall => Kept(h)
    <3>1. CASE active' = purgeExpired
      BY <1>0, <3>1, GetKept
    <3>2. CASE active' = active
      BY <3>2 DEF Kept, Same
    <3> QED
      BY <1>2, <3>1, <3>2 DEF close
  <2>2. StepOf(s)
    BY <1>0, <1>2 DEF StepOf, close
  <2>3. \A call \in AffectedCalls(Owner[s]) : call.instanceId \in 1 .. instances
    <3>1. \A h \in Occupied(purgeExpired) :
             h \in Group /\ purgeExpired[h] = active[h] /\ active[h] # NoCall
      BY <1>0, GetFacts DEF Occupied, purgeExpired
    <3>2. \A h \in Occupied(purgeExpired) :
             SnapshotOf(purgeExpired[h]).instanceId \in 1 .. instances
      BY <1>0, <3>1, SnapshotNumber
    <3> QED
      BY <3>2 DEF AffectedCalls
  <2>4. PICK todo : todo = IF s \in Capable /\ conn[Owner[s]] = s
                           THEN AffectedCalls(Owner[s]) ELSE {}
    OBVIOUS
  <2>5. PICK t : t = [Idle("leave") EXCEPT !.closing = TRUE, !.todo = todo]
    OBVIOUS
  <2>6. t.todo = todo
    BY <2>5 DEF Idle
  <2>7. task' = [task EXCEPT ![s] = Continue(t)]
    BY <1>2, <2>4, <2>5, Zenon DEF close
  <2>8. task'[s] = Continue(t)
    BY <1>0, <2>7
  <2>9. \A call \in todo : call.instanceId \in 1 .. instances
    BY <2>3, <2>4
  <2> QED
    BY <1>0, <2>1, <2>2, <2>6, <2>8, <2>9, ContinueNumbers, QuietStep
<1> QED
  BY <1>1, <1>2

\* What the invariants say of the handler of one session.
LEMMA HandlerFacts ==
    ASSUME CallInv, LoneInv, NEW s \in Session
    PROVE  /\ Good(active) /\ task \in [Session -> Task] /\ instances \in Nat
           /\ Numbered /\ Refused /\ Attended
           /\ Owner[s] \in User /\ task[s] \in Task
           /\ task[s].pc \in {"evict", "refresh", "settle", "transfer"} =>
                 task[s].seen.groupId \in Group
BY LimitAssumption, OwnerAssumption DEF CallInv, TypeOK, TaskInv, Snapshot, LoneInv

\* evict puts nobody out of a call that refuses nobody.
LEMMA EvictLone ==
    ASSUME CallInv, CallInv', LoneInv, NEW s \in Session, evict(s)
    PROVE  LoneInv'
<1>0. /\ Good(active) /\ task \in [Session -> Task] /\ instances \in Nat
      /\ Numbered /\ Refused /\ Attended
      /\ task[s].pc = "evict" /\ instances' = instances /\ Owner[s] \in User
  BY HandlerFacts DEF evict
<1>1. PICK h \in Group : h = task[s].seen.groupId
  BY <1>0, HandlerFacts
<1>2. active' = removeParticipant(h, Owner[s])
  BY <1>1 DEF evict
<1>3. /\ \A g \in Group : active'[g] # NoCall => Same(g)
      /\ \A g \in Group \ {h} : active'[g] # NoCall => Kept(g)
  BY <1>0, <1>2, RemoveKept
<1>4. StepOf(s)
  BY <1>0 DEF StepOf, evict
<1>5. task'[s].todo = {} /\ task'[s].pc = "open"
  BY <1>0 DEF evict, Idle
<1>6. Numbered'
  BY <1>0, <1>3, <1>4, <1>5, NumberedStep
<1>7. Refused'
  BY <1>0, <1>3, <1>4, <1>5, RefusedStep
<1>8. ASSUME instances' <= 1, active'[h] # NoCall
      PROVE  ~RefusesNobody(active'[h])
  <2>1. active[h] # NoCall /\ ~RefusesNobody(active[h])
    BY <1>0, <1>1, <1>3, <1>8 DEF Refused, Same
  <2> QED
    BY <1>3, <1>8, <2>1 DEF Same, RefusesNobody
<1>9. \A g \in Group : ~Ends(s, g)
  BY <1>0 DEF Ends
<1>10. Attended'
  BY <1>0, <1>3, <1>4, <1>8, <1>9, AttendedStep
<1> QED
  BY <1>6, <1>7, <1>10 DEF LoneInv

\* leave: whoever is left in the call, this handler will look at it.
LEMMA LeaveLone ==
    ASSUME CallInv, CallInv', LoneInv, NEW s \in Session, leave(s)
    PROVE  LoneInv'
<1>0. /\ Good(active) /\ task \in [Session -> Task] /\ instances \in Nat
      /\ Numbered /\ Refused /\ Attended
      /\ task[s].pc = "leave" /\ instances' = instances
      /\ Owner[s] \in User /\ task[s] \in Task
  BY HandlerFacts DEF leave
<1>1. PICK call \in task[s].todo :
         /\ active' = removeParticipant(call.groupId, Owner[s])
         /\ task' = [task EXCEPT ![s].pc = "refresh", ![s].seen = call,
                                 ![s].todo = @ \ {call}]
  BY Zenon DEF leave
<1>2. call.groupId \in Group /\ call.instanceId \in 1 .. instances
  <2>1. call \in Snapshot
    BY <1>0 DEF Task
  <2>2. call.instanceId \in 1 .. instances
    BY <1>0 DEF Numbered
  <2> QED
    BY <2>1, <2>2 DEF Snapshot
<1>3. /\ \A g \in Group : active'[g] # NoCall => Same(g)
      /\ \A g \in Group \ {call.groupId} : active'[g] # NoCall => Kept(g)
  BY <1>0, <1>1, <1>2, RemoveKept
<1>4. StepOf(s)
  BY <1>0, <1>1 DEF StepOf
<1>5. /\ task'[s].todo = task[s].todo \ {call} /\ task'[s].pc = "refresh"
      /\ task'[s].seen = call
  BY <1>0, <1>1 DEF Task
<1>6. Numbered'
  BY <1>0, <1>2, <1>3, <1>4, <1>5, NumberedStep DEF Numbered
<1>7. Refused'
  BY <1>0, <1>3, <1>4, <1>5, RefusedStep
<1>8. ASSUME instances' <= 1, active'[call.groupId] # NoCall
      PROVE  Ends(s, call.groupId)'
  <2>1. active'[call.groupId].instanceId \in 1 .. instances
    BY <1>0, <1>2, <1>6, <1>8 DEF Numbered
  <2>2. call.instanceId = active'[call.groupId].instanceId
    BY <1>0, <1>2, <1>8, <2>1
  <2> QED
    BY <1>5, <2>2 DEF Ends
<1>9. \A g \in Group : ~Ends(s, g)
  BY <1>0 DEF Ends
<1>10. Attended'
  BY <1>0, <1>3, <1>4, <1>8, <1>9, AttendedStep
<1> QED
  BY <1>6, <1>7, <1>10 DEF LoneInv

\* refresh: a handler that sees at most one member left will end the call.
LEMMA RefreshLone ==
    ASSUME CallInv, CallInv', LoneInv, NEW s \in Session, refresh(s)
    PROVE  LoneInv'
<1>0. /\ Good(active) /\ task \in [Session -> Task] /\ instances \in Nat
      /\ Numbered /\ Refused /\ Attended
      /\ task[s].pc = "refresh" /\ instances' = instances /\ task[s] \in Task
  BY HandlerFacts DEF refresh
<1>1. PICK h \in Group : h = task[s].seen.groupId
  BY <1>0, HandlerFacts
<1>2. \A g \in Group : active'[g] # NoCall => Kept(g)
  BY <1>0, <1>1, GetKept DEF refresh
<1>3. StepOf(s)
  BY <1>0 DEF StepOf, refresh
<1>4. PICK t : t = Refreshed(s, get(h))
  OBVIOUS
<1>5. task'[s] = t
  BY <1>0, <1>1, <1>4 DEF refresh
<1>6. /\ t.todo = task[s].todo /\ t.pc = "settle" /\ t.seen = task[s].seen
      /\ t.remaining = IF get(h) = NoCall THEN {} ELSE get(h).participants \ {Owner[s]}
  BY <1>0, <1>4 DEF Refreshed, Task
<1>7. Numbered'
  BY <1>0, <1>2, <1>3, <1>5, <1>6, NumberedStep DEF Numbered, Kept
<1>8. Refused'
  BY <1>0, <1>2, <1>3, <1>5, <1>6, RefusedStep DEF Kept
<1>9. ASSUME NEW g \in Group, active'[g] # NoCall, Ends(s, g)
      PROVE  Cardinality(active'[g].participants) >= 2 \/ Ends(s, g)'
  <2> SUFFICES ASSUME ~(Cardinality(active'[g].participants) >= 2)
               PROVE  Ends(s, g)'
    OBVIOUS
  <2>1. g = h
    BY <1>1, <1>9 DEF Ends
  <2>2. active' = Got(h)
    BY <1>1 DEF refresh
  <2>3. active'[h] = get(h) /\ get(h) # NoCall
    BY <1>0, <1>9, <2>1, <2>2 DEF Got, Good, Table
  <2>4. t.remaining \subseteq active'[h].participants
    BY <1>6, <2>3
  <2>5. active'[h].participants \subseteq User
    BY <1>9, <2>1 DEF CallInv, Good, Sound, ActiveCall
  <2>6. IsFiniteSet(active'[h].participants)
    BY <2>5, FS_Subset, SetsAssumption
  <2>7. /\ IsFiniteSet(t.remaining)
        /\ Cardinality(t.remaining) <= Cardinality(active'[h].participants)
    BY <2>4, <2>6, FS_Subset
  <2>8. Cardinality(t.remaining) <= 1
    BY <2>1, <2>6, <2>7, FS_CardinalityType
  <2>9. task[s].seen.instanceId = active'[g].instanceId
    BY <1>2, <1>9 DEF Ends, Kept, Same
  <2> QED
    BY <1>1, <1>5, <1>6, <2>1, <2>8, <2>9 DEF Ends, Empty
<1>10. Attended'
  BY <1>0, <1>2, <1>3, <1>9, AttendedStep
<1> QED
  BY <1>7, <1>8, <1>10 DEF LoneInv

\* settle: the handler that will end a call ends it.
LEMMA SettleLone ==
    ASSUME CallInv, CallInv', LoneInv, NEW s \in Session, settle(s)
    PROVE  LoneInv'
<1>0. /\ Good(active) /\ task \in [Session -> Task] /\ instances \in Nat
      /\ Numbered /\ Refused /\ Attended
      /\ task[s].pc = "settle" /\ instances' = instances /\ task[s] \in Task
  BY HandlerFacts DEF settle
<1>1. PICK h \in Group : h = task[s].seen.groupId
  BY <1>0, HandlerFacts
<1>2. active' = active \/ active' = endCall(h, task[s].seen.instanceId)
  BY <1>1 DEF settle
<1>3. \A g \in Group : active'[g] # NoCall => Kept(g)
  BY <1>0, <1>2 DEF endCall, Kept, Same, Good, Table
<1>4. StepOf(s)
  <2>1. task' = [task EXCEPT ![s] = Continue(task[s])]
        \/ \E u \in Candidates(s) :
              task' = [task EXCEPT ![s].pc = "transfer", ![s].candidate = u]
    BY DEF settle
  <2> QED
    BY <1>0, <2>1 DEF StepOf
<1>5. /\ \A call \in task'[s].todo : call \in task[s].todo
      /\ task'[s].pc \notin {"evict", "refresh", "settle"}
  <2>1. CASE task' = [task EXCEPT ![s] = Continue(task[s])]
    <3>1. task'[s] = Continue(task[s])
      BY <1>0, <2>1
    <3> QED
      BY <3>1, ContinueNumbers
  <2>2. CASE \E u \in Candidates(s) :
                task' = [task EXCEPT ![s].pc = "transfer", ![s].candidate = u]
    BY <1>0, <2>2 DEF Task
  <2> QED
    BY <2>1, <2>2 DEF settle
<1>6. Numbered'
  BY <1>0, <1>3, <1>4, <1>5, NumberedStep DEF Numbered, Kept
<1>7. Refused'
  BY <1>0, <1>3, <1>4, <1>5, RefusedStep DEF Kept
<1>8. ASSUME NEW g \in Group, active'[g] # NoCall
      PROVE  ~Ends(s, g)
  <2> SUFFICES ASSUME Ends(s, g) PROVE FALSE
    OBVIOUS
  <2>1. g = h /\ Empty(s) /\ task[s].seen.instanceId = active[g].instanceId
    BY <1>0, <1>1 DEF Ends
  <2>2. active' = endCall(h, task[s].seen.instanceId)
    BY <1>1, <2>1 DEF settle
  <2>3. active[g] # NoCall
    BY <1>3, <1>8 DEF Kept, Same
  <2> QED
    BY <1>0, <1>8, <2>1, <2>2, <2>3 DEF endCall, Good, Table
<1>9. Attended'
  BY <1>0, <1>3, <1>4, <1>8, AttendedStep
<1> QED
  BY <1>6, <1>7, <1>9 DEF LoneInv

\* The steps of a session that touch no participant.
LEMMA OtherLone ==
    ASSUME CallInv, CallInv', LoneInv, NEW s \in Session,
           addConnection(s) \/ transfer(s) \/ removeConnection(s)
    PROVE  LoneInv'
<1>0. /\ Good(active) /\ task \in [Session -> Task] /\ Numbered
      /\ task[s] \in Task
  BY HandlerFacts
<1>1. /\ task[s].pc \in {"absent", "transfer", "unlist"}
      /\ instances' = instances
  BY DEF addConnection, transfer, removeConnection
<1>2. PICK t : /\ task' = [task EXCEPT ![s] = t]
               /\ (\E pc \in {"gone", "open"} : t = Idle(pc)) \/ t = Continue(task[s])
  BY DEF addConnection, transfer, removeConnection
<1>3. task'[s] = t /\ StepOf(s)
  BY <1>0, <1>1, <1>2 DEF StepOf
<1>4. /\ \A call \in t.todo : call \in task[s].todo
      /\ t.pc \notin {"evict", "refresh", "settle"}
  <2>1. CASE t = Continue(task[s])
    BY <2>1, ContinueNumbers
  <2>2. CASE \E pc \in {"gone", "open"} : t = Idle(pc)
    BY <2>2, IdleNumbers
  <2> QED
    BY <1>2, <2>1, <2>2
<1>5. \A call \in t.todo : call.instanceId \in 1 .. instances
  BY <1>0, <1>4 DEF Numbered
<1>6. \A g \in Group : active'[g] # NoCall => Kept(g)
  <2>1. CASE active' = active
    BY <2>1 DEF Kept, Same
  <2>2. CASE transfer(s)
    <3>1. task[s].seen.groupId \in Group
      BY <2>2, HandlerFacts DEF transfer
    <3>2. task[s].candidate \in User
      BY <2>2 DEF CallInv, TaskInv, transfer
    <3> QED
      BY <1>0, <2>2, <3>1, <3>2, TransferKept DEF transfer
  <2> QED
    BY <2>1, <2>2 DEF addConnection, removeConnection
<1> QED
  BY <1>1, <1>3, <1>4, <1>5, <1>6, QuietStep

\* Time takes nobody out of a call.
LEMMA TimeLone ==
    ASSUME CallInv, CallInv', LoneInv,
           (\E g \in Group : age(g)) \/ purge \/ UNCHANGED vars
    PROVE  LoneInv'
<1>0. /\ Good(active) /\ instances' = instances /\ UNCHANGED task
  BY DEF CallInv, age, purge, vars
<1>1. PICK t : t \notin Session
  BY NoneAssumption
<1>2. StepOf(t)
  BY <1>0 DEF StepOf
<1>3. \A h \in Group : active'[h] # NoCall => Kept(h)
  <2>1. ASSUME NEW g \in Group, age(g)
        PROVE  \A h \in Group : active'[h] # NoCall => Kept(h)
    <3>1. active[g] # NoCall /\ active[g] \in ActiveCall
      BY <1>0, <2>1 DEF age, Good, Sound
    <3>2. PICK call : call = [active[g] EXCEPT !.expired = TRUE]
      OBVIOUS
    <3>3. /\ call.groupId = active[g].groupId
          /\ call.instanceId = active[g].instanceId
          /\ call.requiresMediaE2ee = active[g].requiresMediaE2ee
          /\ call.participants = active[g].participants
      BY <3>1, <3>2 DEF ActiveCall
    <3>4. \A h \in Group : active'[h] = IF h = g THEN call ELSE active[h]
      BY <1>0, <2>1, <3>2 DEF age, Good, Table
    <3> QED
      BY <3>1, <3>3, <3>4 DEF Kept, Same
  <2>2. CASE active' = purgeExpired
    BY <1>0, <2>2, GetKept
  <2>3. CASE active' = active
    BY <2>3 DEF Kept, Same
  <2> QED
    BY <2>1, <2>2, <2>3 DEF purge, vars
<1> QED
  BY <1>0, <1>1, <1>2, <1>3, QuietStep

\* Every step of the server keeps the calls attended.
LEMMA LoneNext ==
    ASSUME CallInv, CallInv', LoneInv, [Next]_vars
    PROVE  LoneInv'
<1>1. ASSUME NEW s \in Session, Frame(s) \/ close(s)
      PROVE  LoneInv'
  BY <1>1, InviteLone, JoinLone, BeginLone DEF Frame
<1>2. ASSUME NEW s \in Session, addConnection(s) \/ Handler(s)
      PROVE  LoneInv'
  BY <1>2, EvictLone, LeaveLone, RefreshLone, SettleLone, OtherLone DEF Handler
<1>3. CASE (\E g \in Group : age(g)) \/ purge \/ UNCHANGED vars
  BY <1>3, TimeLone
<1> QED
  BY <1>1, <1>2, <1>3 DEF Next

\* The server starts without a call.
LEMMA LoneInit ==
    Init => LoneInv
<1> SUFFICES ASSUME Init PROVE LoneInv
  OBVIOUS
<1>1. \A s \in Session : task[s].todo = {} /\ task[s].pc = "absent"
  BY IdleNumbers DEF Init
<1>2. \A g \in Group : active[g] = NoCall
  BY DEF Init
<1> QED
  BY <1>1, <1>2 DEF LoneInv, Numbered, Refused, Attended

\* While the first call is the only one, and once nobody is in the middle of
\* leaving, no call that refuses nobody is left with fewer than two
\* participants (HANGUP, handleUserDisconnectFromGroupCalls).
THEOREM NobodyLeftAlone == Spec => []NoLoneCall
<1>1. CallInv /\ CallInv' /\ LoneInv /\ [Next]_vars => LoneInv'
  BY LoneNext
<1>2. LoneInv => NoLoneCall
  <2> SUFFICES ASSUME LoneInv, instances <= 1, Leaving = {},
                      NEW g \in Occupied(active), RefusesNobody(active[g])
               PROVE  Cardinality(active[g].participants) >= 2
    BY DEF NoLoneCall
  <2>1. \A s \in Session : ~Ends(s, g)
    BY DEF Leaving, Ends
  <2>2. g \in Group /\ active[g] # NoCall
    BY DEF Occupied
  <2> QED
    BY <2>1, <2>2 DEF LoneInv, Attended
<1> QED
  BY CallInvariant, LoneInit, <1>1, <1>2, PTL DEF Spec

=============================================================================
