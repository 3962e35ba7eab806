------------------------- MODULE CredentialsProofs -------------------------
(***************************************************************************)
(* What Credentials promises for any number of instances, handlers and     *)
(* random values, any cache TTL and any pattern of failures.               *)
(***************************************************************************)
EXTENDS Credentials, TLAPS

(***************************************************************************)
(* Types alone: the part of TypeOK that is inductive by itself.            *)
(***************************************************************************)
Types ==
    /\ row \in Pair
    /\ minted \in Nat
    /\ cache \in [Instance -> SUBSET CachedSnapshot]
    /\ grace \subseteq Rotation
    /\ inbox \subseteq Instance
    /\ req \in [Request -> Handler]
    /\ held \subseteq Pair
    /\ now \in Nat
    /\ revocations \subseteq CachedSnapshot
    /\ dropped \subseteq Instance \X Nat
    /\ born \subseteq Pair
    /\ spent \subseteq Nat

(***************************************************************************)
(* Every generation belongs to one epoch.  A pair of values the row has    *)
(* held stays on record in born; fresh values keep born a function of the  *)
(* generation; and all that handlers and Redis carry is on record.         *)
(***************************************************************************)
OnRecord(e, g) == [epoch |-> e, gen |-> g] \in born

\* Both generations were drawn in the same epoch.
SameEra(g, h) == \E e \in Nat : OnRecord(e, g) /\ OnRecord(e, h)

BornFacts ==
    /\ row = Absent \/ row \in born
    /\ held \subseteq born
    /\ \A p \in born : p.epoch \in 1 .. minted /\ p.gen \in 1 .. minted
    /\ \A p, q \in born : p.gen = q.gen => p.epoch = q.epoch
    /\ \A g \in grace : SameEra(g.gen, g.next)

\* A handler's own state: which kinds reach which step, and what it carries.
EraOf(q) ==
    /\ q.pc # "idle" => q.tok \in born
    /\ q.pc \in {"load", "store"} => q.kind # "recover"
    /\ q.pc \in {"rotate", "remember"} => q.kind \in {"refresh", "reauth"} /\ OnRecord(q.tok.epoch, q.gen)
    /\ q.pc = "remember" => q.pair \in born /\ q.pair.epoch = q.tok.epoch
    /\ q.pc = "redeem" => q.kind = "refresh"
    /\ q.pc = "sign" => q.kind = "reauth"
    /\ q.pc = "reread" /\ q.kind = "refresh" => SameEra(q.tok.gen, q.gen)
    /\ q.pc \in {"revoke", "delete", "forget", "publish"} => q.kind \notin {"refresh", "reauth"}
    /\ q.out # "none" => q.pc \in {"forget", "publish", "answered"}
    /\ q.out = "issued" => q.pair \in born
    /\ q.out = "issued" /\ q.kind \in {"refresh", "reauth"} => q.pair.epoch = q.tok.epoch

EraInv == BornFacts /\ \A r \in Request : EraOf(req[r])

(***************************************************************************)
(* A copy of an epoch was loaded while the epoch was current, so its time  *)
(* stamp is no later than the revocation.                                  *)
(***************************************************************************)
Predates(epoch, t) == \A v \in revocations : v.epoch = epoch => t <= v.at

StaleOf(q) ==
    /\ q.from <= now
    /\ q.pc = "store" => Predates(q.pair.epoch, q.from)
    /\ q.out = "accepted" => \A v \in revocations : v.epoch = q.tok.epoch => q.from < v.at + TTL

StaleInv ==
    /\ row.epoch <= minted
    /\ \A v \in revocations : v.epoch \in 1 .. minted /\ v.epoch # row.epoch /\ v.at <= now
    /\ \A i \in Instance : \A c \in cache[i] : c.at <= now /\ Predates(c.epoch, c.at)
    /\ \A r \in Request : StaleOf(req[r])

(***************************************************************************)
(* A superseded generation is in one place at a time: with the handler     *)
(* that rotated it, on record in Redis, with the handler that redeemed it, *)
(* or spent.  It is never current again.                                   *)
(***************************************************************************)
Remembers(r, g) == req[r].pc = "remember" /\ req[r].gen = g
Rereads(r, g)   == req[r].pc = "reread" /\ req[r].kind = "refresh" /\ req[r].tok.gen = g
Busy(r, g)      == Remembers(r, g) \/ Rereads(r, g)

Superseded(g) == g # row.gen /\ g \in 1 .. minted

OnceInv ==
    /\ row.gen <= minted
    /\ \A g \in grace : Superseded(g.gen) /\ g.gen \notin spent /\ g.gen < g.next
    /\ \A g, h \in grace : g.gen = h.gen => g = h
    /\ \A g \in spent : Superseded(g)
    /\ \A r \in Request, g \in Nat : Busy(r, g) =>
          Superseded(g) /\ g \notin spent /\ \A h \in grace : h.gen # g
    /\ \A r, s \in Request, g \in Nat : Busy(r, g) /\ Busy(s, g) => r = s
    /\ \A r \in Request : req[r].pc = "remember" => req[r].gen < req[r].pair.gen

\* The map holds one value per account.
OneCopy == \A i \in Instance : \A c, d \in cache[i] : c = d

----------------------------------------------------------------------------
(***************************************************************************)
(* Type correctness                                                        *)
(***************************************************************************)

\* A handler that starts on an instance is well typed, idle or not.
LEMMA BeginType ==
    /\ \A i \in Instance : Begin(i) \in Handler
    /\ Idle \in Handler
<1>1. \A i \in Instance : Begin(i) \in Handler
  BY DEF Begin, Handler, PC, Kinds, Out, Pair, Absent
<1>2. (CHOOSE i \in Instance : TRUE) \in Instance
  BY InstanceAssumption
<1> QED  BY <1>1, <1>2 DEF Idle

\* A verdict changes a handler's step, outcome and carried values only.
LEMMA VerdictType ==
    ASSUME NEW q \in Handler, NEW e \in Nat
    PROVE  Verdict(q, e) \in Handler
<1>1. CASE e # 0 /\ q.tok.epoch = e
  <2>1. q.tok.gen \in Nat /\ Absent \in Pair
    BY DEF Handler, Pair, Absent
  <2>2. CASE q.kind = "access"
    BY <1>1, <2>1, <2>2 DEF Verdict, Handler, PC, Out
  <2>3. CASE q.kind = "refresh"
    BY <1>1, <2>1, <2>3 DEF Verdict, Handler, PC, Out
  <2>4. CASE q.kind = "reauth"
    BY <1>1, <2>1, <2>4 DEF Verdict, Handler, PC, Out
  <2>5. CASE q.kind = "logout"
    BY <1>1, <2>1, <2>5 DEF Verdict, Handler, PC, Out
  <2>6. CASE q.kind \notin {"access", "refresh", "reauth", "logout"}
    BY <1>1, <2>1, <2>6 DEF Verdict, Handler, PC, Out
  <2> QED  BY <2>2, <2>3, <2>4, <2>5, <2>6
<1>2. CASE ~(e # 0 /\ q.tok.epoch = e)
  BY <1>2 DEF Verdict, Handler, PC, Out, Pair, Absent
<1> QED  BY <1>1, <1>2

\* Replacing one handler by a well typed one.
LEMMA BecomeType ==
    ASSUME req \in [Request -> Handler], NEW r \in Request, NEW q \in Handler, Become(r, q)
    PROVE  req' \in [Request -> Handler]
BY DEF Become

\* Dropping the cached copy of an instance keeps the cache's type.
LEMMA ForgetType ==
    ASSUME cache \in [Instance -> SUBSET CachedSnapshot], NEW i \in Instance, Forget(i)
    PROVE  cache' \in [Instance -> SUBSET CachedSnapshot]
BY DEF Forget

LEMMA TypesInit == Init => Types
<1> SUFFICES ASSUME Init PROVE Types  OBVIOUS
<1>1. req \in [Request -> Handler]
  BY BeginType DEF Init
<1> QED  BY <1>1 DEF Init, Types, Pair

LEMMA TypesNext == Types /\ [Next]_vars => Types'
<1> SUFFICES ASSUME Types, [Next]_vars PROVE Types'  OBVIOUS
<1> USE DEF Types
<1>0. ASSUME NEW r \in Request
      PROVE  /\ req[r] \in Handler /\ req[r].on \in Instance
             /\ req[r].tok \in Pair /\ req[r].tok.gen \in Nat /\ req[r].tok.epoch \in Nat
             /\ req[r].pair \in Pair /\ req[r].pair.gen \in Nat /\ req[r].pair.epoch \in Nat
             /\ req[r].gen \in Nat /\ req[r].from \in Nat
             /\ row.epoch \in Nat /\ row.gen \in Nat
  BY <1>0 DEF Handler, Pair
<1>1. ASSUME NEW r \in Request, NEW o \in Out, Answer(r, o)
      PROVE  req' \in [Request -> Handler]
  <2>1. [req[r] EXCEPT !.pc = "answered", !.out = o, !.pair = Absent, !.gen = 0] \in Handler
    BY <1>0, <1>1 DEF Handler, PC, Pair, Absent
  <2> QED  BY <2>1, <1>1, BecomeType DEF Answer
<1>2. ASSUME NEW r \in Request, NEW p \in Pair, Issue(r, p)
      PROVE  req' \in [Request -> Handler]
  <2>1. [req[r] EXCEPT !.pc = "answered", !.out = "issued", !.pair = p] \in Handler
    BY <1>0, <1>2 DEF Handler, PC, Out
  <2> QED  BY <2>1, <1>2, BecomeType DEF Issue
<1>3. ASSUME NEW r \in Request, NEW pc \in PC, Goto(r, pc)
      PROVE  req' \in [Request -> Handler]
  <2>1. [req[r] EXCEPT !.pc = pc] \in Handler
    BY <1>0, <1>3 DEF Handler
  <2> QED  BY <2>1, <1>3, BecomeType DEF Goto
<1>4. ASSUME NEW r \in Request, Load(r) PROVE Types'
  <2>1. [req[r] EXCEPT !.pc = "store", !.pair = row] \in Handler
    BY <1>0, <1>4 DEF Handler, PC
  <2> QED  BY <2>1, <1>4, BecomeType DEF Load, history
<1>5. ASSUME NEW r \in Request, Store(r) PROVE Types'
  <2>1. Verdict(req[r], req[r].pair.epoch) \in Handler
    BY <1>0, VerdictType
  <2>2. cache' \in [Instance -> SUBSET CachedSnapshot]
    BY <1>0, <1>5 DEF Store, CachedSnapshot
  <2> QED  BY <2>1, <2>2, <1>5, BecomeType DEF Store, history
<1>6. ASSUME NEW r \in Request, Rotate(r) PROVE Types'
  <2>1. cache' \in [Instance -> SUBSET CachedSnapshot]
    BY <1>0, <1>6, ForgetType DEF Rotate
  <2>2. CASE Rotated(r)
    <3>1. row' \in Pair /\ minted' \in Nat
      BY <1>0, <2>2 DEF Rotated, Pair
    <3>2. [req[r] EXCEPT !.pc = "remember", !.pair = row'] \in Handler
      BY <1>0, <3>1 DEF Handler, PC
    <3>3. [gen |-> req[r].gen, next |-> minted + 1] \in Rotation
      BY <1>0 DEF Rotation
    <3> QED  BY <2>1, <2>2, <3>1, <3>2, <3>3, <1>6, BecomeType DEF Rotate, Rotated
  <2>3. CASE NotRotated(r)
    <3>1. req' \in [Request -> Handler]
      BY <2>3, <1>1, <1>3 DEF NotRotated, PC, Out
    <3> QED  BY <2>1, <2>3, <3>1, <1>6 DEF Rotate, NotRotated
  <2> QED  BY <2>2, <2>3, <1>6 DEF Rotate
<1>7. ASSUME NEW r \in Request, Remember(r) PROVE Types'
  <2>1. req' \in [Request -> Handler]
    BY <1>0, <1>2, <1>7 DEF Remember
  <2>2. [gen |-> req[r].gen, next |-> req[r].pair.gen] \in Rotation
    BY <1>0 DEF Rotation
  <2> QED  BY <2>1, <2>2, <1>7 DEF Remember
<1>8. ASSUME NEW r \in Request, Redeem(r) PROVE Types'
  <2>1. CASE \E g \in grace :
            /\ g.gen = req[r].tok.gen
            /\ grace' = grace \ {g}
            /\ Become(r, [req[r] EXCEPT !.pc = "reread", !.gen = g.next])
            /\ Forget(req[r].on)
    <3>1. PICK g \in grace :
            /\ g.gen = req[r].tok.gen
            /\ grace' = grace \ {g}
            /\ Become(r, [req[r] EXCEPT !.pc = "reread", !.gen = g.next])
            /\ Forget(req[r].on)
      BY <2>1
    <3>2. [req[r] EXCEPT !.pc = "reread", !.gen = g.next] \in Handler
      BY <1>0 DEF Handler, PC, Rotation
    <3>3. req' \in [Request -> Handler] /\ cache' \in [Instance -> SUBSET CachedSnapshot]
      BY <1>0, <3>1, <3>2, BecomeType, ForgetType
    <3> QED  BY <3>1, <3>3, <1>8 DEF Redeem
  <2>2. CASE Answer(r, "rejected") /\ UNCHANGED <<grace, cache>>
    <3>1. req' \in [Request -> Handler]
      BY <2>2, <1>1 DEF Out
    <3> QED  BY <2>2, <3>1, <1>8 DEF Redeem
  <2> QED  BY <2>1, <2>2, <1>8 DEF Redeem
<1>9. ASSUME NEW r \in Request, RedeemCheck(r) PROVE Types'
  <2>1. req' \in [Request -> Handler]
    BY <1>0, <1>1, <1>2, <1>9 DEF RedeemCheck, Out
  <2> QED  BY <2>1, <1>0, <1>9 DEF RedeemCheck
<1>10. ASSUME NEW r \in Request, Sign(r) PROVE Types'
  <2>1. req' \in [Request -> Handler]
    BY <1>0, <1>1, <1>3, <1>10 DEF Sign, Out, PC
  <2> QED  BY <2>1, <1>0, <1>10, ForgetType DEF Sign, history
<1>11. ASSUME NEW r \in Request, ReauthCheck(r) PROVE Types'
  <2>1. [req[r] EXCEPT !.pc = "rotate", !.gen = row.gen] \in Handler
    BY <1>0 DEF Handler, PC
  <2>2. req' \in [Request -> Handler]
    BY <2>1, <1>1, <1>11, BecomeType DEF ReauthCheck, Out
  <2> QED  BY <2>2, <1>11 DEF ReauthCheck, history
<1>12. /\ [epoch |-> minted + 1, gen |-> minted + 2] \in Pair
       /\ Absent \in Pair /\ minted + 2 \in Nat /\ Revocation \in CachedSnapshot
  BY DEF Pair, Absent, Revocation, CachedSnapshot
<1>13. ASSUME NEW r \in Request, NEW o \in Out
       PROVE  [req[r] EXCEPT !.pc = "forget", !.out = o] \in Handler
  BY <1>0, <1>13 DEF Handler, PC
<1>14. ASSUME NEW r \in Request, RotateEpoch(r) PROVE Types'
  <2>1. req' \in [Request -> Handler]
    BY <1>13, <1>14, BecomeType DEF RotateEpoch, Out
  <2> QED  BY <2>1, <1>12, <1>14 DEF RotateEpoch, NewRow
<1>15. ASSUME NEW r \in Request, DeleteAccount(r) PROVE Types'
  <2>1. req' \in [Request -> Handler]
    BY <1>1, <1>13, <1>15, BecomeType DEF DeleteAccount, Out
  <2> QED  BY <2>1, <1>12, <1>15 DEF DeleteAccount
<1>16. ASSUME NEW r \in Request, NEW i \in Instance, Recover(r, i) PROVE Types'
  <2>1. Begin(i) \in Handler /\ row' \in Pair /\ row \in Pair
    BY <1>12, <1>16, BeginType DEF Recover, NewRow
  <2>2. [Begin(i) EXCEPT !.pc = "forget", !.kind = "recover", !.tok = row,
                         !.from = now, !.pair = row', !.out = "issued"] \in Handler
    BY <2>1 DEF Handler, PC, Kinds, Out
  <2>3. req' \in [Request -> Handler]
    BY <2>2, <1>16, BecomeType DEF Recover
  <2> QED  BY <2>3, <1>12, <1>16 DEF Recover, NewRow
<1>17. ASSUME NEW r \in Request, Invalidate(r) PROVE Types'
  <2>1. req' \in [Request -> Handler]
    BY <1>3, <1>17 DEF Invalidate, PC
  <2> QED  BY <2>1, <1>0, <1>17, ForgetType DEF Invalidate
<1>18. ASSUME NEW r \in Request, Broadcast(r) PROVE Types'
  <2>1. req' \in [Request -> Handler]
    BY <1>3, <1>18 DEF Broadcast, PC
  <2> QED  BY <2>1, <1>18 DEF Broadcast, history
<1>19. ASSUME NEW r \in Request, Unavailable(r) PROVE Types'
  <2>1. req' \in [Request -> Handler]
    BY <1>1, <1>19 DEF Unavailable, Out
  <2> QED  BY <2>1, <1>19 DEF Unavailable, history
<1>20. ASSUME NEW r \in Request, Reply(r) PROVE Types'
  <2>1. req' \in [Request -> Handler]
    BY <1>20, BeginType, BecomeType DEF Reply
  <2>2. held' \subseteq Pair
    BY <1>0, <1>20 DEF Reply
  <2> QED  BY <2>1, <2>2, <1>20 DEF Reply, history
<1>21. ASSUME NEW r \in Request, NEW k \in Kind, NEW i \in Instance, NEW t \in held, Arrive(r, k, i, t)
       PROVE  Types'
  <2> DEFINE late == k = "access" /\ <<i, t.epoch>> \in dropped
             q == [Begin(i) EXCEPT !.pc = "load", !.kind = k, !.tok = t, !.from = now, !.late = late]
  <2>1. Begin(i) \in Handler /\ k \in Kinds /\ t \in Pair
    BY BeginType, KindAssumption
  <2>2. q \in Handler
    <3>1. late \in BOOLEAN
      OBVIOUS
    <3> HIDE DEF late
    <3> QED  BY <2>1, <3>1 DEF Handler, PC
  <2>3. \A c \in cache[i] : Verdict(q, c.epoch) \in Handler
    <3> HIDE DEF q
    <3>1. \A c \in cache[i] : c.epoch \in Nat
      BY DEF CachedSnapshot
    <3> QED  BY <2>2, <3>1, VerdictType
  <2>4. Become(r, q) \/ \E c \in cache[i] : Become(r, Verdict(q, c.epoch))
    BY <1>21 DEF Arrive
  <2>5. req' \in [Request -> Handler]
    <3> HIDE DEF q
    <3> QED  BY <2>2, <2>3, <2>4, BecomeType
  <2> QED  BY <2>5, <1>21 DEF Arrive, history
<1>22. ASSUME NEW i \in Instance, OnMessage(i) \/ Evict(i) PROVE Types'
  BY <1>22, ForgetType DEF OnMessage, Evict, history
<1>23. ASSUME NEW i \in Instance, Crash(i) PROVE Types'
  <2>1. req' \in [Request -> Handler]
    BY <1>23, BeginType DEF Crash
  <2> QED  BY <2>1, <1>23 DEF Crash
<1>24. ASSUME NEW g \in grace, GraceExpires(g) PROVE Types'
  BY <1>24 DEF GraceExpires
<1>25. CASE Tick
  BY <1>25 DEF Tick, history
<1>26. CASE UNCHANGED vars
  BY <1>26 DEF vars
<1>27. ASSUME NEW r \in Request, Handle(r) PROVE Types'
  BY <1>27, <1>4, <1>5, <1>6, <1>7, <1>8, <1>9, <1>10, <1>11, <1>14, <1>15, <1>17, <1>18,
     <1>19, <1>20 DEF Handle
<1> QED  BY <1>16, <1>21, <1>22, <1>23, <1>24, <1>25, <1>26, <1>27 DEF Next

----------------------------------------------------------------------------
(***************************************************************************)
(* No tokens across a revocation                                           *)
(***************************************************************************)

\* What is on record stays on record.
LEMMA EraKept ==
    ASSUME NEW s \in Request, EraOf(req[s]), req'[s] = req[s], born \subseteq born'
    PROVE  EraOf(req[s])'
BY DEF EraOf, SameEra, OnRecord

\* A step of one handler only has to account for that handler.
LEMMA EraStep ==
    ASSUME Types, EraInv, NEW r \in Request, NEW q \in Handler, Become(r, q),
           born \subseteq born', BornFacts', EraOf(req[r])'
    PROVE  EraInv'
<1>1. \A s \in Request : s # r => req'[s] = req[s]
  BY DEF Become, Types
<1> QED  BY <1>1, EraKept DEF EraInv

\* The row, the record and Redis are untouched.
LEMMA BornSame ==
    ASSUME BornFacts, UNCHANGED <<row, minted, born>>, held' \subseteq born, grace' \subseteq grace
    PROVE  BornFacts'
BY DEF BornFacts, SameEra, OnRecord

\* A fresh pair joins the record.
LEMMA BornFresh ==
    ASSUME Types, BornFacts, NEW e \in Nat, NEW g \in Nat, NEW m \in Nat,
           row' = [epoch |-> e, gen |-> g], born' = born \cup {row'}, minted' = m,
           e \in 1 .. m, g \in (minted + 1) .. m, UNCHANGED <<held, grace>>
    PROVE  BornFacts' /\ born \subseteq born'
<1>1. minted <= m /\ minted \in Nat
  BY DEF Types
<1>2. \A p \in born' : p.epoch \in 1 .. m /\ p.gen \in 1 .. m
  <2>1. \A p \in born : p.epoch \in 1 .. minted /\ p.gen \in 1 .. minted
    BY DEF BornFacts
  <2> QED  BY <2>1, <1>1
<1>3. \A p, q \in born' : p.gen = q.gen => p.epoch = q.epoch
  <2>1. \A p \in born : p.gen # g
    BY <1>1 DEF BornFacts, Types, Pair
  <2> QED  BY <2>1 DEF BornFacts
<1>4. \A h \in grace' : SameEra(h.gen, h.next)'
  BY DEF BornFacts, SameEra, OnRecord
<1> QED  BY <1>2, <1>3, <1>4 DEF BornFacts

\* A verdict on a token that is on record.
LEMMA VerdictEra ==
    ASSUME NEW q \in Handler, NEW e \in Nat, q.tok \in born, q.out = "none",
           q.kind # "recover"
    PROVE  EraOf(Verdict(q, e))
<1>1. CASE e # 0 /\ q.tok.epoch = e
  <2>1. OnRecord(q.tok.epoch, q.tok.gen)
    BY DEF OnRecord, Handler, Pair
  <2>2. CASE q.kind = "access"
    BY <1>1, <2>1, <2>2 DEF Verdict, Handler, EraOf, Absent
  <2>3. CASE q.kind = "refresh"
    BY <1>1, <2>1, <2>3 DEF Verdict, Handler, EraOf, Absent
  <2>4. CASE q.kind = "reauth"
    BY <1>1, <2>1, <2>4 DEF Verdict, Handler, EraOf, Absent
  <2>5. CASE q.kind = "logout"
    BY <1>1, <2>1, <2>5 DEF Verdict, Handler, EraOf, Absent
  <2>6. CASE q.kind = "delete"
    BY <1>1, <2>1, <2>6 DEF Verdict, Handler, EraOf, Absent
  <2> QED  BY <2>2, <2>3, <2>4, <2>5, <2>6 DEF Handler, Kinds
<1>2. CASE ~(e # 0 /\ q.tok.epoch = e)
  BY <1>2 DEF Verdict, Handler, EraOf
<1> QED  BY <1>1, <1>2

\* A handler whose new state accounts for itself.
LEMMA EraMoved ==
    ASSUME Types, EraInv, NEW r \in Request, NEW q \in Handler, Become(r, q), EraOf(q),
           born \subseteq born', BornFacts'
    PROVE  EraInv'
<1>1. req'[r] = q
  BY DEF Become, Types
<1>2. EraOf(req[r])'
  BY <1>1 DEF EraOf, SameEra, OnRecord
<1> QED  BY <1>2, EraStep

\* A handler that answers without tokens accounts for itself.
LEMMA EraAnswer ==
    ASSUME Types, EraInv, NEW r \in Request, NEW o \in Out \ {"issued"}, Answer(r, o),
           req[r].pc # "idle", born \subseteq born', BornFacts'
    PROVE  EraInv'
<1> DEFINE q == [req[r] EXCEPT !.pc = "answered", !.out = o, !.pair = Absent, !.gen = 0]
<1>1. req[r] \in Handler /\ EraOf(req[r])
  BY DEF Types, EraInv
<1>2. q \in Handler /\ EraOf(q)
  BY <1>1 DEF Handler, PC, Pair, Absent, EraOf
<1>3. Become(r, q)
  BY DEF Answer
<1> HIDE DEF q
<1> QED  BY <1>2, <1>3, EraMoved

LEMMA EraInit == Init => EraInv
<1> SUFFICES ASSUME Init PROVE EraInv  OBVIOUS
<1>1. BornFacts
  BY DEF Init, BornFacts, Absent
<1>2. \A r \in Request : req[r] = Idle
  BY DEF Init
<1>3. EraOf(Idle)
  BY DEF EraOf, Idle, Begin
<1> QED  BY <1>1, <1>2, <1>3 DEF EraInv

LEMMA EraNext == Types /\ Types' /\ EraInv /\ [Next]_vars => EraInv'
<1> SUFFICES ASSUME Types, Types', EraInv, [Next]_vars PROVE EraInv'  OBVIOUS
<1>0. /\ BornFacts /\ held \subseteq born /\ req \in [Request -> Handler]
      /\ \A r \in Request : req[r] \in Handler /\ EraOf(req[r])
  BY DEF EraInv, Types, BornFacts
<1>1. ASSUME UNCHANGED <<row, minted, born, held>>, grace' \subseteq grace
      PROVE  BornFacts' /\ born \subseteq born'
  BY <1>0, <1>1, BornSame
<1>2. ASSUME NEW r \in Request, Load(r) PROVE EraInv'
  <2> DEFINE q == [req[r] EXCEPT !.pc = "store", !.pair = row]
  <2>1. q \in Handler
    BY <1>0 DEF Handler, PC, Types
  <2>2. EraOf(q)
    BY <1>0, <1>2 DEF EraOf, Handler, Load
  <2>3. Become(r, q)
    BY <1>2 DEF Load
  <2> HIDE DEF q
  <2> QED  BY <2>1, <2>2, <2>3, <1>1, <1>2, EraMoved DEF Load, history
<1>3. ASSUME NEW r \in Request, Store(r) PROVE EraInv'
  <2>1. /\ req[r] \in Handler /\ req[r].pair.epoch \in Nat /\ req[r].tok \in born
        /\ req[r].out = "none" /\ req[r].kind # "recover"
    BY <1>0, <1>3 DEF EraOf, Store, Handler, Pair, Out
  <2>2. Verdict(req[r], req[r].pair.epoch) \in Handler /\ EraOf(Verdict(req[r], req[r].pair.epoch))
    BY <2>1, VerdictType, VerdictEra
  <2> QED  BY <2>2, <1>1, <1>3, EraMoved DEF Store, history
<1>4. ASSUME NEW r \in Request, NEW k \in Kind, NEW i \in Instance, NEW t \in held, Arrive(r, k, i, t)
      PROVE  EraInv'
  <2> DEFINE late == k = "access" /\ <<i, t.epoch>> \in dropped
             q == [Begin(i) EXCEPT !.pc = "load", !.kind = k, !.tok = t, !.from = now, !.late = late]
  <2>1. q \in Handler
    <3>1. late \in BOOLEAN /\ t \in Pair /\ now \in Nat /\ k \in Kinds
      BY KindAssumption DEF Types
    <3> HIDE DEF late
    <3> QED  BY <3>1, BeginType DEF Handler, PC
  <2>2. q.tok \in born /\ q.out = "none" /\ q.kind # "recover" /\ q.pc = "load"
    BY <1>0, <1>4 DEF Begin, Arrive
  <2>3. EraOf(q)
    <3> HIDE DEF q
    <3> QED  BY <2>2 DEF EraOf
  <2>4. \A c \in cache[i] : Verdict(q, c.epoch) \in Handler /\ EraOf(Verdict(q, c.epoch))
    <3> HIDE DEF q
    <3>1. \A c \in cache[i] : c.epoch \in Nat
      BY DEF CachedSnapshot, Types
    <3> QED  BY <2>1, <2>2, <3>1, VerdictType, VerdictEra
  <2>5. Become(r, q) \/ \E c \in cache[i] : Become(r, Verdict(q, c.epoch))
    BY <1>4 DEF Arrive
  <2>6. BornFacts' /\ born \subseteq born'
    BY <1>1, <1>4 DEF Arrive, history
  <2> HIDE DEF q
  <2> QED  BY <2>1, <2>3, <2>4, <2>5, <2>6, EraMoved
<1>5. ASSUME NEW r \in Request, Rotate(r) PROVE EraInv'
  <2>1. /\ req[r] \in Handler /\ req[r].kind \in {"refresh", "reauth"} /\ req[r].out = "none"
        /\ OnRecord(req[r].tok.epoch, req[r].gen) /\ req[r].tok \in born
    BY <1>0, <1>5 DEF EraOf, Rotate, Handler, Out
  <2>2. CASE Rotated(r)
    <3> DEFINE q == [req[r] EXCEPT !.pc = "remember", !.pair = row']
    <3>1. row \in born /\ row.gen = req[r].gen /\ row.epoch = req[r].tok.epoch
      <4>1. row \in born /\ row.gen = req[r].gen
        BY <1>0, <2>2 DEF Rotated, BornFacts
      <4>2. [epoch |-> req[r].tok.epoch, gen |-> req[r].gen] \in born
        BY <2>1 DEF OnRecord
      <4> QED  BY <4>1, <4>2, <1>0 DEF BornFacts
    <3>2. /\ row' = [epoch |-> row.epoch, gen |-> minted + 1] /\ born' = born \cup {row'}
          /\ minted' = minted + 1 /\ row.epoch \in 1 .. (minted + 1) /\ minted \in Nat
          /\ UNCHANGED <<held, grace>>
      BY <1>0, <1>5, <2>2, <3>1 DEF Rotated, Rotate, Types, Pair, BornFacts
    <3>3. BornFacts' /\ born \subseteq born'
      BY <1>0, <3>2, BornFresh
    <3>4. q \in Handler
      BY <2>1 DEF Handler, PC, Types
    <3>5. Become(r, q) /\ row' \in born' /\ row'.epoch = req[r].tok.epoch
      BY <2>2, <3>1, <3>2 DEF Rotated
    <3>6. req'[r] = q
      BY <3>5 DEF Become, Types
    <3>7. EraOf(req[r])'
      BY <2>1, <3>3, <3>5, <3>6 DEF EraOf, OnRecord, Handler
    <3> HIDE DEF q
    <3> QED  BY <3>3, <3>4, <3>5, <3>7, EraStep
  <2>3. CASE NotRotated(r)
    <3>1. BornFacts' /\ born \subseteq born'
      BY <1>1, <1>5, <2>3 DEF Rotate, NotRotated
    <3>2. CASE req[r].kind = "refresh"
      <4> DEFINE q == [req[r] EXCEPT !.pc = "redeem"]
      <4>1. q \in Handler /\ EraOf(q) /\ Become(r, q)
        BY <2>1, <2>3, <3>2 DEF Handler, PC, EraOf, NotRotated, Goto
      <4> HIDE DEF q
      <4> QED  BY <4>1, <3>1, EraMoved
    <3>3. CASE req[r].kind # "refresh"
      BY <2>3, <3>1, <3>3, <1>5, EraAnswer DEF NotRotated, Rotate, Out
    <3> QED  BY <3>2, <3>3
  <2> QED  BY <2>2, <2>3, <1>5 DEF Rotate
<1>6. ASSUME NEW r \in Request, Remember(r) PROVE EraInv'
  <2> DEFINE q == [req[r] EXCEPT !.pc = "answered", !.out = "issued", !.pair = req[r].pair]
  <2>1. /\ req[r] \in Handler /\ OnRecord(req[r].tok.epoch, req[r].gen) /\ req[r].tok \in born
        /\ req[r].pair \in born /\ req[r].pair.epoch = req[r].tok.epoch
    BY <1>0, <1>6 DEF EraOf, Remember, Handler
  <2>2. q \in Handler /\ EraOf(q) /\ Become(r, q)
    BY <2>1, <1>6 DEF Handler, PC, Out, EraOf, Remember, Issue
  <2>3. SameEra(req[r].gen, req[r].pair.gen)
    BY <2>1 DEF SameEra, OnRecord, Handler, Pair
  <2>4. UNCHANGED <<row, minted, born, held>>
    BY <1>6 DEF Remember
  <2>5. \A g \in grace' : SameEra(g.gen, g.next)
    BY <1>0, <1>6, <2>3 DEF Remember, BornFacts
  <2>6. BornFacts' /\ born \subseteq born'
    BY <1>0, <2>4, <2>5 DEF BornFacts, SameEra, OnRecord
  <2> HIDE DEF q
  <2> QED  BY <2>2, <2>6, EraMoved
<1>7. ASSUME NEW r \in Request, Redeem(r) PROVE EraInv'
  <2>1. req[r] \in Handler /\ EraOf(req[r]) /\ req[r].tok \in born /\ req[r].kind = "refresh" /\ req[r].out = "none"
    BY <1>0, <1>7 DEF EraOf, Redeem, Handler, Out
  <2>2. BornFacts' /\ born \subseteq born'
    BY <1>1, <1>7 DEF Redeem
  <2>3. ASSUME NEW g \in grace, g.gen = req[r].tok.gen,
               Become(r, [req[r] EXCEPT !.pc = "reread", !.gen = g.next])
        PROVE  EraInv'
    <3> DEFINE q == [req[r] EXCEPT !.pc = "reread", !.gen = g.next]
    <3>1. SameEra(req[r].tok.gen, g.next)
      BY <1>0, <2>3 DEF BornFacts
    <3>2. q \in Handler
      BY <2>1 DEF Handler, PC, Types, Rotation
    <3>3. EraOf(q)
      BY <2>1, <3>1 DEF EraOf, Handler
    <3> HIDE DEF q
    <3> QED  BY <2>2, <2>3, <3>2, <3>3, EraMoved DEF q
  <2>4. CASE Answer(r, "rejected")
    BY <2>2, <2>4, <1>7, EraAnswer DEF Redeem, Out
  <2> QED  BY <2>3, <2>4, <1>7 DEF Redeem
<1>8. ASSUME NEW r \in Request, RedeemCheck(r) PROVE EraInv'
  <2>1. /\ req[r] \in Handler /\ EraOf(req[r]) /\ req[r].tok \in born /\ req[r].kind = "refresh"
        /\ SameEra(req[r].tok.gen, req[r].gen)
    BY <1>0, <1>8 DEF EraOf, RedeemCheck
  <2>2. BornFacts' /\ born \subseteq born'
    BY <1>1, <1>8 DEF RedeemCheck
  <2>3. CASE row # Absent /\ row.gen = req[r].gen /\ Issue(r, row)
    <3> DEFINE q == [req[r] EXCEPT !.pc = "answered", !.out = "issued", !.pair = row]
    <3>1. row \in born
      BY <1>0, <2>3 DEF BornFacts
    <3>2. PICK e \in Nat : OnRecord(e, req[r].tok.gen) /\ OnRecord(e, req[r].gen)
      BY <2>1 DEF SameEra
    <3>3. req[r].tok.epoch = e /\ row.epoch = e
      BY <1>0, <2>1, <2>3, <3>1, <3>2 DEF BornFacts, OnRecord
    <3>4. q \in Handler
      BY <2>1 DEF Handler, PC, Out, Types
    <3>5. EraOf(q) /\ Become(r, q)
      BY <2>1, <2>3, <3>1, <3>3 DEF EraOf, Handler, Issue
    <3> HIDE DEF q
    <3> QED  BY <2>2, <3>4, <3>5, EraMoved
  <2>4. CASE Answer(r, "rejected")
    BY <2>2, <2>4, <1>8, EraAnswer DEF RedeemCheck, Out
  <2> QED  BY <2>3, <2>4, <1>8 DEF RedeemCheck
<1>9. ASSUME NEW r \in Request, Sign(r) PROVE EraInv'
  <2>1. req[r] \in Handler /\ EraOf(req[r]) /\ req[r].kind = "reauth" /\ req[r].tok \in born /\ req[r].out = "none"
    BY <1>0, <1>9 DEF EraOf, Sign, Handler, Out
  <2>2. BornFacts' /\ born \subseteq born'
    BY <1>1, <1>9 DEF Sign, history
  <2>3. CASE Goto(r, "reread")
    <3> DEFINE q == [req[r] EXCEPT !.pc = "reread"]
    <3>1. q \in Handler /\ EraOf(q) /\ Become(r, q)
      BY <2>1, <2>3 DEF Handler, PC, EraOf, Goto
    <3> HIDE DEF q
    <3> QED  BY <2>2, <3>1, EraMoved
  <2>4. CASE Answer(r, "rejected")
    BY <2>2, <2>4, <1>9, EraAnswer DEF Sign, Out
  <2> QED  BY <2>3, <2>4, <1>9 DEF Sign
<1>10. ASSUME NEW r \in Request, ReauthCheck(r) PROVE EraInv'
  <2>1. req[r] \in Handler /\ EraOf(req[r]) /\ req[r].kind = "reauth" /\ req[r].tok \in born /\ req[r].out = "none"
    BY <1>0, <1>10 DEF EraOf, ReauthCheck, Handler, Out
  <2>2. BornFacts' /\ born \subseteq born'
    BY <1>1, <1>10 DEF ReauthCheck, history
  <2>3. CASE row # Absent /\ row.epoch = req[r].tok.epoch
             /\ Become(r, [req[r] EXCEPT !.pc = "rotate", !.gen = row.gen])
    <3> DEFINE q == [req[r] EXCEPT !.pc = "rotate", !.gen = row.gen]
    <3>1. OnRecord(req[r].tok.epoch, row.gen)
      BY <1>0, <2>3 DEF BornFacts, OnRecord, Types, Pair
    <3>2. q \in Handler
      BY <2>1 DEF Handler, PC, Types, Pair
    <3>3. EraOf(q)
      BY <2>1, <3>1 DEF EraOf, Handler
    <3> HIDE DEF q
    <3> QED  BY <2>2, <2>3, <3>2, <3>3, EraMoved DEF q
  <2>4. CASE Answer(r, "rejected")
    BY <2>2, <2>4, <1>10, EraAnswer DEF ReauthCheck, Out
  <2> QED  BY <2>3, <2>4, <1>10 DEF ReauthCheck
<1>11. ASSUME NewRow([epoch |-> minted + 1, gen |-> minted + 2]), UNCHANGED <<held, grace>>
       PROVE  BornFacts' /\ born \subseteq born'
  <2>1. minted \in Nat
    BY DEF Types
  <2> QED  BY <1>0, <1>11, <2>1, BornFresh DEF NewRow
<1>12. ASSUME NEW r \in Request, NEW o \in {"done", "unavailable"}, req[r].pc \in {"revoke", "delete"},
              Become(r, [req[r] EXCEPT !.pc = "forget", !.out = o]), BornFacts', born \subseteq born'
       PROVE  EraInv'
  <2> DEFINE q == [req[r] EXCEPT !.pc = "forget", !.out = o]
  <2>1. q \in Handler /\ EraOf(q)
    BY <1>0, <1>12 DEF Handler, PC, Out, EraOf
  <2> HIDE DEF q
  <2> QED  BY <1>12, <2>1, EraMoved DEF q
<1>13. ASSUME NEW r \in Request, RotateEpoch(r) PROVE EraInv'
  <2>1. BornFacts' /\ born \subseteq born'
    BY <1>1, <1>11, <1>13 DEF RotateEpoch
  <2> QED  BY <2>1, <1>12, <1>13 DEF RotateEpoch
<1>14. ASSUME NEW r \in Request, DeleteAccount(r) PROVE EraInv'
  <2>1. BornFacts' /\ born \subseteq born'
    BY <1>0, <1>14 DEF DeleteAccount, BornFacts, SameEra, OnRecord
  <2>2. CASE Answer(r, "unavailable")
    BY <2>1, <2>2, <1>14, EraAnswer DEF DeleteAccount, Out
  <2>3. CASE Become(r, [req[r] EXCEPT !.pc = "forget", !.out = "done"])
    BY <2>1, <2>3, <1>12, <1>14 DEF DeleteAccount
  <2> QED  BY <2>2, <2>3, <1>14 DEF DeleteAccount
<1>15. ASSUME NEW r \in Request, NEW i \in Instance, Recover(r, i) PROVE EraInv'
  <2> DEFINE q == [Begin(i) EXCEPT !.pc = "forget", !.kind = "recover", !.tok = row,
                                  !.from = now, !.pair = row', !.out = "issued"]
  <2>1. BornFacts' /\ born \subseteq born' /\ row \in born' /\ row' \in born'
    BY <1>0, <1>11, <1>15 DEF Recover, NewRow, BornFacts
  <2>2. q \in Handler
    <3>1. Begin(i) \in Handler /\ row \in Pair /\ row' \in Pair /\ now \in Nat
      BY BeginType DEF Types
    <3> QED  BY <3>1 DEF Handler, PC, Kinds, Out
  <2>3. Become(r, q)
    BY <1>15 DEF Recover
  <2>4. req'[r] = q
    BY <2>3 DEF Become, Types
  <2>5. EraOf(req[r])'
    BY <2>1, <2>4 DEF EraOf, Begin
  <2> HIDE DEF q
  <2> QED  BY <2>1, <2>2, <2>3, <2>5, EraStep
<1>16. ASSUME NEW r \in Request, Invalidate(r) \/ Broadcast(r) PROVE EraInv'
  <2>1. BornFacts' /\ born \subseteq born'
    BY <1>1, <1>16 DEF Invalidate, Broadcast, history
  <2>2. PICK pc \in {"publish", "answered"} : Goto(r, pc)
    BY <1>16 DEF Invalidate, Broadcast
  <2> DEFINE q == [req[r] EXCEPT !.pc = pc]
  <2>3. q \in Handler /\ EraOf(q) /\ Become(r, q)
    BY <1>0, <1>16, <2>2 DEF Handler, PC, EraOf, Goto, Invalidate, Broadcast
  <2> HIDE DEF q
  <2> QED  BY <2>1, <2>3, EraMoved
<1>17. ASSUME NEW r \in Request, Unavailable(r) PROVE EraInv'
  <2>1. BornFacts' /\ born \subseteq born'
    BY <1>1, <1>17 DEF Unavailable, history
  <2> QED  BY <2>1, <1>17, EraAnswer DEF Unavailable, Out
<1>18. EraOf(Idle) /\ Idle \in Handler
  BY BeginType DEF EraOf, Idle, Begin
<1>19. ASSUME NEW r \in Request, Reply(r) PROVE EraInv'
  <2>1. held' \subseteq born
    BY <1>0, <1>19 DEF Reply, EraOf
  <2>2. BornFacts' /\ born \subseteq born'
    BY <1>0, <1>19, <2>1, BornSame DEF Reply, history
  <2> QED  BY <2>2, <1>18, <1>19, EraMoved DEF Reply
<1>20. ASSUME NEW i \in Instance, Crash(i) PROVE EraInv'
  <2>1. BornFacts' /\ born \subseteq born' /\ born' = born
    BY <1>1, <1>20 DEF Crash
  <2>2. ASSUME NEW s \in Request PROVE EraOf(req[s])'
    <3>1. CASE req'[s] = req[s]
      BY <1>0, <2>1, <3>1, EraKept
    <3>2. CASE req'[s] = Idle
      BY <1>18, <2>1, <3>2 DEF EraOf, SameEra, OnRecord
    <3> QED  BY <3>1, <3>2, <1>20 DEF Crash
  <2> QED  BY <2>1, <2>2 DEF EraInv
<1>21. ASSUME UNCHANGED <<row, minted, born, held, req>>, grace' \subseteq grace PROVE EraInv'
  BY <1>0, <1>1, <1>21, EraKept DEF EraInv
<1>22. ASSUME NEW i \in Instance, OnMessage(i) \/ Evict(i) PROVE EraInv'
  BY <1>21, <1>22 DEF OnMessage, Evict, history
<1>23. ASSUME NEW g \in grace, GraceExpires(g) PROVE EraInv'
  BY <1>21, <1>23 DEF GraceExpires
<1>24. CASE Tick \/ UNCHANGED vars
  BY <1>21, <1>24 DEF Tick, vars, history
<1>25. ASSUME NEW r \in Request, Handle(r) PROVE EraInv'
  BY <1>25, <1>2, <1>3, <1>5, <1>6, <1>7, <1>8, <1>9, <1>10, <1>13, <1>14, <1>16, <1>17, <1>19
  DEF Handle
<1> QED  BY <1>4, <1>15, <1>20, <1>22, <1>23, <1>24, <1>25 DEF Next

----------------------------------------------------------------------------
(***************************************************************************)
(* Bounded staleness                                                       *)
(***************************************************************************)

\* A verdict accepts only the epoch it was given, and keeps the start time.
LEMMA VerdictStale ==
    ASSUME NEW q \in Handler, NEW e \in Nat, q.out # "accepted", q.from <= now,
           \A v \in revocations : v.epoch = e => q.from < v.at + TTL
    PROVE  StaleOf(Verdict(q, e))
<1>1. CASE e # 0 /\ q.tok.epoch = e
  <2>1. /\ Verdict(q, e).pc # "store" /\ Verdict(q, e).from = q.from
        /\ Verdict(q, e).tok.epoch = e
    <3>1. CASE q.kind = "access"
      BY <1>1, <3>1 DEF Verdict, Handler
    <3>2. CASE q.kind = "refresh"
      BY <1>1, <3>2 DEF Verdict, Handler
    <3>3. CASE q.kind = "reauth"
      BY <1>1, <3>3 DEF Verdict, Handler
    <3>4. CASE q.kind = "logout"
      BY <1>1, <3>4 DEF Verdict, Handler
    <3>5. CASE q.kind \notin {"access", "refresh", "reauth", "logout"}
      BY <1>1, <3>5 DEF Verdict, Handler
    <3> QED  BY <3>1, <3>2, <3>3, <3>4, <3>5
  <2> HIDE DEF Verdict
  <2> QED  BY <2>1 DEF StaleOf
<1>2. CASE ~(e # 0 /\ q.tok.epoch = e)
  BY <1>2 DEF Verdict, Handler, StaleOf
<1> QED  BY <1>1, <1>2

\* Time passes and epochs end: what predates their end still does.
LEMMA StaleKept ==
    ASSUME Types, Types', StaleInv, NEW s \in Request, req'[s] = req[s], now <= now',
           revocations' \subseteq revocations \cup {[epoch |-> row.epoch, at |-> now]}
    PROVE  StaleOf(req[s])'
<1>1. StaleOf(req[s]) /\ req[s] \in Handler /\ req[s].from \in Nat /\ now \in Nat /\ now' \in Nat /\ TTL \in Nat \ {0}
  BY TtlAssumption DEF StaleInv, Types, Handler
<1>2. req'[s].from <= now'
  BY <1>1 DEF StaleOf
<1>3. ASSUME req[s].pc = "store", NEW v \in revocations', v.epoch = req[s].pair.epoch
      PROVE  req[s].from <= v.at
  BY <1>1, <1>3 DEF StaleOf, Predates
<1>4. ASSUME req[s].out = "accepted", NEW v \in revocations', v.epoch = req[s].tok.epoch
      PROVE  req[s].from < v.at + TTL
  BY <1>1, <1>4 DEF StaleOf
<1> QED  BY <1>2, <1>3, <1>4 DEF StaleOf, Predates

\* The same for the cached copies an instance keeps.
LEMMA CacheKept ==
    ASSUME Types, Types', StaleInv, now <= now',
           revocations' \subseteq revocations \cup {[epoch |-> row.epoch, at |-> now]},
           \A i \in Instance : cache'[i] \subseteq cache[i]
    PROVE  (\A i \in Instance : \A c \in cache[i] : c.at <= now /\ Predates(c.epoch, c.at))'
<1> SUFFICES ASSUME NEW i \in Instance, NEW c \in cache'[i]
             PROVE  c.at <= now' /\ \A v \in revocations' : v.epoch = c.epoch => c.at <= v.at
  BY DEF Predates
<1>1. c \in cache[i] /\ c \in CachedSnapshot /\ c.at \in Nat /\ now \in Nat /\ now' \in Nat
  BY DEF Types, CachedSnapshot
<1> QED  BY <1>1 DEF StaleInv, Predates

\* A handler's step that changes neither the clock nor what has ended.
LEMMA StaleStep ==
    ASSUME Types, Types', StaleInv, NEW r \in Request, NEW q \in Handler, Become(r, q),
           UNCHANGED <<now, revocations>>, row'.epoch = row.epoch, minted <= minted',
           StaleOf(q), \A i \in Instance : cache'[i] \subseteq cache[i]
    PROVE  StaleInv'
<1>1. req'[r] = q /\ \A s \in Request : s # r => req'[s] = req[s]
  BY DEF Become, Types
<1>2. now <= now' /\ minted \in Nat /\ minted' \in Nat /\ row.epoch \in Nat
  BY DEF Types, Pair
<1>3. StaleOf(req[r])'
  BY <1>1 DEF StaleOf, Predates
<1>4. \A s \in Request : StaleOf(req[s])'
  <2>1. \A s \in Request : s # r => StaleOf(req[s])'
    BY <1>1, <1>2, StaleKept
  <2> QED  BY <1>3, <2>1
<1>5. (\A i \in Instance : \A c \in cache[i] : c.at <= now /\ Predates(c.epoch, c.at))'
  BY <1>2, CacheKept
<1>6. row'.epoch <= minted'
  BY <1>2 DEF StaleInv
<1>7. \A v \in revocations' : v.epoch \in 1 .. minted' /\ v.epoch # row'.epoch /\ v.at <= now'
  BY <1>2 DEF StaleInv, Types, CachedSnapshot
<1> QED  BY <1>4, <1>5, <1>6, <1>7 DEF StaleInv

\* A handler's step that ends the current epoch.
LEMMA StaleRevoke ==
    ASSUME Types, Types', StaleInv, NEW r \in Request, NEW q \in Handler, Become(r, q),
           UNCHANGED <<now, cache>>, row.epoch # 0, row'.epoch = 0 \/ row'.epoch = minted + 1,
           row'.epoch <= minted', minted <= minted',
           revocations' = revocations \cup {Revocation},
           q.from <= now, q.pc # "store", q.out # "accepted"
    PROVE  StaleInv'
<1>1. req'[r] = q /\ \A s \in Request : s # r => req'[s] = req[s]
  BY DEF Become, Types
<1>2. now <= now' /\ minted \in Nat /\ minted' \in Nat /\ row.epoch \in Nat
  BY DEF Types, Pair
<1>3. StaleOf(req[r])'
  BY <1>1 DEF StaleOf
<1>4. \A s \in Request : StaleOf(req[s])'
  <2>1. \A s \in Request : s # r => StaleOf(req[s])'
    BY <1>1, <1>2, StaleKept DEF Revocation
  <2> QED  BY <1>3, <2>1
<1>5. (\A i \in Instance : \A c \in cache[i] : c.at <= now /\ Predates(c.epoch, c.at))'
  BY <1>2, CacheKept DEF Revocation
<1>6. \A v \in revocations' : v.epoch \in 1 .. minted' /\ v.epoch # row'.epoch /\ v.at <= now'
  <2>1. ASSUME NEW v \in revocations PROVE v.epoch \in 1 .. minted' /\ v.epoch # row'.epoch /\ v.at <= now'
    <3>1. v.epoch \in 1 .. minted /\ v.at <= now
      BY <2>1 DEF StaleInv
    <3> QED  BY <3>1, <1>2
  <2>2. Revocation.epoch \in 1 .. minted' /\ Revocation.epoch # row'.epoch /\ Revocation.at <= now'
    BY <1>2 DEF Revocation, StaleInv, Types
  <2> QED  BY <2>1, <2>2
<1> QED  BY <1>4, <1>5, <1>6 DEF StaleInv

LEMMA StaleInit == Init => StaleInv
<1> SUFFICES ASSUME Init PROVE StaleInv  OBVIOUS
<1>1. StaleOf(Idle)
  BY DEF Init, StaleOf, Idle, Begin
<1> QED  BY <1>1 DEF Init, StaleInv

LEMMA StaleNext == Types /\ Types' /\ EraInv /\ StaleInv /\ [Next]_vars => StaleInv'
<1> SUFFICES ASSUME Types, Types', EraInv, StaleInv, [Next]_vars PROVE StaleInv'  OBVIOUS
<1>0. /\ now \in Nat /\ minted \in Nat /\ row \in Pair /\ row.epoch \in Nat /\ TTL \in Nat \ {0}
      /\ \A r \in Request : req[r] \in Handler /\ StaleOf(req[r]) /\ req[r].from \in Nat /\ req[r].from <= now
      /\ \A i \in Instance : \A c \in cache[i] : c \in CachedSnapshot /\ c.epoch \in Nat /\ c.at \in Nat
      /\ revocations \subseteq CachedSnapshot /\ \A v \in revocations : v.at \in Nat
  BY TtlAssumption DEF Types, Pair, Handler, StaleInv, StaleOf, CachedSnapshot
<1>1. ASSUME NEW i \in Instance, Forget(i) PROVE \A j \in Instance : cache'[j] \subseteq cache[j]
  BY <1>1 DEF Forget, Types
<1>2. ASSUME NEW r \in Request, NEW o \in Out \ {"accepted"}, Answer(r, o),
             UNCHANGED <<now, revocations, row, minted>>, \A i \in Instance : cache'[i] \subseteq cache[i]
      PROVE  StaleInv'
  <2> DEFINE q == [req[r] EXCEPT !.pc = "answered", !.out = o, !.pair = Absent, !.gen = 0]
  <2>1. q \in Handler /\ Become(r, q) /\ StaleOf(q)
    BY <1>0, <1>2 DEF Handler, PC, Pair, Absent, Answer, StaleOf
  <2> HIDE DEF q
  <2> QED  BY <2>1, <1>0, <1>2, StaleStep
<1>3. ASSUME NEW r \in Request, NEW p \in Pair, Issue(r, p),
             UNCHANGED <<now, revocations, row, minted>>, \A i \in Instance : cache'[i] \subseteq cache[i]
      PROVE  StaleInv'
  <2> DEFINE q == [req[r] EXCEPT !.pc = "answered", !.out = "issued", !.pair = p]
  <2>1. q \in Handler /\ Become(r, q) /\ StaleOf(q)
    BY <1>0, <1>3 DEF Handler, PC, Out, Issue, StaleOf
  <2> HIDE DEF q
  <2> QED  BY <2>1, <1>0, <1>3, StaleStep
<1>4. ASSUME NEW r \in Request, NEW pc \in PC \ {"store"}, Goto(r, pc), req[r].pc # "store",
             UNCHANGED <<now, revocations, row, minted>>, \A i \in Instance : cache'[i] \subseteq cache[i]
      PROVE  StaleInv'
  <2> DEFINE q == [req[r] EXCEPT !.pc = pc]
  <2>1. q \in Handler /\ Become(r, q) /\ StaleOf(q)
    BY <1>0, <1>4 DEF Handler, Goto, StaleOf
  <2> HIDE DEF q
  <2> QED  BY <2>1, <1>0, <1>4, StaleStep
<1>5. ASSUME NEW r \in Request, Load(r) PROVE StaleInv'
  <2> DEFINE q == [req[r] EXCEPT !.pc = "store", !.pair = row]
  <2>1. q \in Handler /\ Become(r, q)
    BY <1>0, <1>5 DEF Handler, PC, Load
  <2>2. Predates(row.epoch, req[r].from)
    BY DEF StaleInv, Predates
  <2>3. StaleOf(q)
    BY <1>0, <2>2 DEF StaleOf, Handler
  <2> HIDE DEF q
  <2> QED  BY <2>1, <2>3, <1>0, <1>5, StaleStep DEF Load, history
<1>6. ASSUME NEW r \in Request, Store(r) PROVE StaleInv'
  <2> DEFINE e == req[r].pair.epoch
             q == Verdict(req[r], e)
             c == [epoch |-> e, at |-> req[r].from]
  <2>1. e \in Nat /\ Predates(e, req[r].from) /\ req[r].on \in Instance
    BY <1>0, <1>6 DEF Handler, Pair, Store, StaleOf
  <2>2. req[r].out = "none"
    BY <1>6 DEF Store, EraInv, EraOf
  <2>3. \A v \in revocations : v.epoch = e => req[r].from < v.at + TTL
    BY <1>0, <2>1 DEF Predates
  <2>4. q \in Handler
    BY <1>0, <2>1, VerdictType
  <2>5. req'[r] = q /\ \A s \in Request : s # r => req'[s] = req[s]
    BY <1>6 DEF Store, Become, Types
  <2>6. UNCHANGED <<now, revocations, row, minted>>
    BY <1>6 DEF Store, history
  <2>7. StaleOf(q)
    BY <1>0, <2>1, <2>2, <2>3, VerdictStale
  <2>8. \A s \in Request : StaleOf(req[s])'
    <3> HIDE DEF q, e
    <3>1. StaleOf(req[r])'
      BY <2>5, <2>6, <2>7 DEF StaleOf, Predates
    <3>2. \A s \in Request : s # r => StaleOf(req[s])'
      BY <1>0, <2>5, <2>6, StaleKept
    <3> QED  BY <3>1, <3>2
  <2>9. \A i \in Instance : cache'[i] \subseteq cache[i] \cup {c}
    BY <1>6 DEF Store, Types
  <2>10. c.at <= now /\ Predates(c.epoch, c.at)
    BY <1>0, <2>1
  <2>11. (\A i \in Instance : \A d \in cache[i] : d.at <= now /\ Predates(d.epoch, d.at))'
    <3> HIDE DEF c, e
    <3> QED  BY <2>6, <2>9, <2>10 DEF StaleInv, Predates
  <2> QED  BY <2>6, <2>8, <2>11 DEF StaleInv
<1>7. ASSUME NEW r \in Request, NEW k \in Kind, NEW i \in Instance, NEW t \in held, Arrive(r, k, i, t)
      PROVE  StaleInv'
  <2> DEFINE late == k = "access" /\ <<i, t.epoch>> \in dropped
             q == [Begin(i) EXCEPT !.pc = "load", !.kind = k, !.tok = t, !.from = now, !.late = late]
  <2>1. q \in Handler
    <3>1. late \in BOOLEAN /\ t \in Pair /\ now \in Nat /\ k \in Kinds
      BY KindAssumption DEF Types
    <3> HIDE DEF late
    <3> QED  BY <3>1, BeginType DEF Handler, PC
  <2>2. q.from = now /\ q.out = "none" /\ q.pc = "load"
    BY DEF Begin
  <2>3. StaleOf(q)
    <3> HIDE DEF q
    <3> QED  BY <1>0, <2>2 DEF StaleOf
  <2>4. ASSUME NEW c \in cache[i], Fresh(c, now)
        PROVE  Verdict(q, c.epoch) \in Handler /\ StaleOf(Verdict(q, c.epoch))
    <3>1. \A v \in revocations : v.epoch = c.epoch => now < v.at + TTL
      BY <1>0, <2>4 DEF Fresh, StaleInv, Predates
    <3>2. c.epoch \in Nat /\ q.out # "accepted" /\ q.from <= now
      BY <1>0, <2>2
    <3> HIDE DEF q
    <3>3. Verdict(q, c.epoch) \in Handler
      BY <2>1, <3>2, VerdictType
    <3> QED  BY <2>1, <2>2, <3>1, <3>2, <3>3, VerdictStale
  <2>5. Become(r, q) \/ \E c \in cache[i] : Fresh(c, now) /\ Become(r, Verdict(q, c.epoch))
    BY <1>7 DEF Arrive
  <2>6. UNCHANGED <<now, revocations, row, minted, cache>> /\ minted <= minted'
    BY <1>0, <1>7 DEF Arrive, history
  <2> HIDE DEF q
  <2> QED  BY <2>1, <2>3, <2>4, <2>5, <2>6, StaleStep
<1>8. ASSUME NEW r \in Request, Rotate(r) PROVE StaleInv'
  <2>1. \A i \in Instance : cache'[i] \subseteq cache[i]
    BY <1>0, <1>1, <1>8 DEF Rotate, Handler
  <2>2. CASE Rotated(r)
    <3> DEFINE q == [req[r] EXCEPT !.pc = "remember", !.pair = row']
    <3>1. row' \in Pair
      BY DEF Types
    <3>2. q \in Handler /\ Become(r, q) /\ StaleOf(q)
      BY <1>0, <2>2, <3>1 DEF Handler, PC, Rotated, StaleOf
    <3>3. row'.epoch = row.epoch /\ minted <= minted' /\ UNCHANGED <<now, revocations>>
      BY <1>0, <1>8, <2>2 DEF Rotated, Rotate, Pair
    <3> HIDE DEF q
    <3> QED  BY <2>1, <3>2, <3>3, StaleStep
  <2>3. CASE NotRotated(r)
    BY <1>2, <1>4, <1>8, <2>1, <2>3 DEF NotRotated, Rotate, Out, PC
  <2> QED  BY <2>2, <2>3, <1>8 DEF Rotate
<1>9. ASSUME NEW r \in Request, Remember(r) PROVE StaleInv'
  BY <1>0, <1>3, <1>9 DEF Remember, Handler
<1>10. ASSUME NEW r \in Request, Redeem(r) PROVE StaleInv'
  <2>1. UNCHANGED <<now, revocations, row, minted>>
    BY <1>10 DEF Redeem
  <2>2. ASSUME NEW g \in grace, Become(r, [req[r] EXCEPT !.pc = "reread", !.gen = g.next]), Forget(req[r].on)
        PROVE  StaleInv'
    <3> DEFINE q == [req[r] EXCEPT !.pc = "reread", !.gen = g.next]
    <3>1. q \in Handler /\ StaleOf(q)
      BY <1>0 DEF Handler, PC, Types, Rotation, StaleOf
    <3>2. \A i \in Instance : cache'[i] \subseteq cache[i]
      BY <1>0, <1>1, <2>2 DEF Handler
    <3> HIDE DEF q
    <3> QED  BY <1>0, <2>1, <2>2, <3>1, <3>2, StaleStep DEF q
  <2>3. CASE Answer(r, "rejected") /\ UNCHANGED cache
    BY <1>2, <2>1, <2>3 DEF Out
  <2> QED  BY <2>2, <2>3, <1>10 DEF Redeem
<1>11. ASSUME NEW r \in Request, RedeemCheck(r) PROVE StaleInv'
  BY <1>0, <1>2, <1>3, <1>11 DEF RedeemCheck, Out
<1>12. ASSUME NEW r \in Request, Sign(r) PROVE StaleInv'
  <2>1. UNCHANGED <<now, revocations, row, minted>> /\ \A i \in Instance : cache'[i] \subseteq cache[i]
    BY <1>0, <1>1, <1>12 DEF Sign, Handler, history
  <2> QED  BY <2>1, <1>2, <1>4, <1>12 DEF Sign, Out, PC
<1>13. ASSUME NEW r \in Request, ReauthCheck(r) PROVE StaleInv'
  <2> DEFINE q == [req[r] EXCEPT !.pc = "rotate", !.gen = row.gen]
  <2>1. q \in Handler /\ StaleOf(q)
    BY <1>0 DEF Handler, PC, Pair, StaleOf
  <2>2. UNCHANGED <<now, revocations, row, minted, cache>>
    BY <1>13 DEF ReauthCheck, history
  <2>3. Answer(r, "rejected") \/ Become(r, q)
    BY <1>13 DEF ReauthCheck
  <2> HIDE DEF q
  <2> QED  BY <1>0, <2>1, <2>2, <2>3, <1>2, StaleStep DEF Out
<1> DEFINE Ended(r, o) == [req[r] EXCEPT !.pc = "forget", !.out = o]
<1>14. ASSUME NEW r \in Request, NEW o \in {"done", "unavailable"}
       PROVE  /\ Ended(r, o) \in Handler /\ StaleOf(Ended(r, o)) /\ Ended(r, o).from <= now
              /\ Ended(r, o).pc # "store" /\ Ended(r, o).out # "accepted"
  BY <1>0, <1>14 DEF Handler, PC, Out, StaleOf
<1>15. ASSUME NEW r \in Request, RotateEpoch(r) PROVE StaleInv'
  <2>1. CASE /\ row.epoch = req[r].tok.epoch
             /\ NewRow([epoch |-> minted + 1, gen |-> minted + 2])
             /\ revocations' = revocations \cup {Revocation}
             /\ Become(r, Ended(r, "done"))
    <3>1. row'.epoch = minted + 1 /\ row'.epoch <= minted' /\ minted <= minted'
      BY <1>0, <2>1 DEF NewRow
    <3>2. row.epoch # 0
      BY <2>1, <1>15 DEF RotateEpoch, EraInv, EraOf, BornFacts
    <3>3. UNCHANGED <<now, cache>>
      BY <1>15 DEF RotateEpoch
    <3> HIDE DEF Ended
    <3> QED  BY <2>1, <3>1, <3>2, <3>3, <1>14, StaleRevoke
  <2>2. CASE /\ Become(r, Ended(r, "unavailable"))
             /\ UNCHANGED <<row, minted, revocations, born>>
    <3>1. UNCHANGED <<now, cache, row, minted, revocations>> /\ minted <= minted'
      BY <1>0, <2>2, <1>15 DEF RotateEpoch
    <3> HIDE DEF Ended
    <3> QED  BY <2>2, <3>1, <1>14, StaleStep
  <2> QED  BY <2>1, <2>2, <1>15 DEF RotateEpoch
<1>16. ASSUME NEW r \in Request, DeleteAccount(r) PROVE StaleInv'
  <2>1. CASE /\ row # Absent /\ row.epoch = req[r].tok.epoch
             /\ row' = Absent
             /\ revocations' = revocations \cup {Revocation}
             /\ Become(r, Ended(r, "done"))
    <3>1. row'.epoch = 0 /\ row'.epoch <= minted' /\ minted <= minted' /\ UNCHANGED <<now, cache>>
      BY <1>0, <2>1, <1>16 DEF DeleteAccount, Absent
    <3>2. row.epoch # 0
      BY <2>1 DEF EraInv, BornFacts
    <3> HIDE DEF Ended
    <3> QED  BY <2>1, <3>1, <3>2, <1>14, StaleRevoke
  <2>2. CASE /\ Become(r, Ended(r, "done"))
             /\ UNCHANGED <<row, revocations>>
    <3>1. UNCHANGED <<now, cache, row, minted, revocations>> /\ minted <= minted'
      BY <1>0, <2>2, <1>16 DEF DeleteAccount
    <3> HIDE DEF Ended
    <3> QED  BY <2>2, <3>1, <1>14, StaleStep
  <2>3. CASE Answer(r, "unavailable") /\ UNCHANGED <<row, revocations>>
    BY <2>3, <1>2, <1>16 DEF DeleteAccount, Out
  <2> QED  BY <2>1, <2>2, <2>3, <1>16 DEF DeleteAccount
<1>17. ASSUME NEW r \in Request, NEW i \in Instance, Recover(r, i) PROVE StaleInv'
  <2> DEFINE q == [Begin(i) EXCEPT !.pc = "forget", !.kind = "recover", !.tok = row,
                                  !.from = now, !.pair = row', !.out = "issued"]
  <2>1. q \in Handler
    <3>1. Begin(i) \in Handler /\ row \in Pair /\ row' \in Pair /\ now \in Nat
      BY BeginType DEF Types
    <3> QED  BY <3>1 DEF Handler, PC, Kinds, Out
  <2>2. q.from <= now /\ q.pc # "store" /\ q.out # "accepted"
    BY <1>0 DEF Begin
  <2>3. Become(r, q) /\ UNCHANGED <<now, cache>> /\ revocations' = revocations \cup {Revocation}
    BY <1>17 DEF Recover
  <2>4. row'.epoch = minted + 1 /\ row'.epoch <= minted' /\ minted <= minted'
    BY <1>0, <1>17 DEF Recover, NewRow
  <2>5. row.epoch # 0
    BY <1>17 DEF Recover, EraInv, BornFacts
  <2> HIDE DEF q
  <2> QED  BY <2>1, <2>2, <2>3, <2>4, <2>5, StaleRevoke
<1>18. ASSUME NEW r \in Request, Invalidate(r) PROVE StaleInv'
  <2>1. UNCHANGED <<now, revocations, row, minted>> /\ \A i \in Instance : cache'[i] \subseteq cache[i]
    BY <1>0, <1>1, <1>18 DEF Invalidate, Handler
  <2> QED  BY <2>1, <1>4, <1>18 DEF Invalidate, PC
<1>19. ASSUME NEW r \in Request, Broadcast(r) PROVE StaleInv'
  BY <1>4, <1>19 DEF Broadcast, PC, history
<1>20. ASSUME NEW r \in Request, Unavailable(r) PROVE StaleInv'
  BY <1>2, <1>20 DEF Unavailable, Out, history
<1>21. StaleOf(Idle) /\ Idle \in Handler
  BY <1>0, BeginType DEF StaleOf, Idle, Begin
<1>22. ASSUME NEW r \in Request, Reply(r) PROVE StaleInv'
  <2>1. UNCHANGED <<now, revocations, row, minted, cache>> /\ minted <= minted'
    BY <1>0, <1>22 DEF Reply, history
  <2> QED  BY <2>1, <1>21, <1>22, StaleStep DEF Reply
<1>23. ASSUME UNCHANGED <<revocations, row, minted>>, now <= now',
              \A i \in Instance : cache'[i] \subseteq cache[i],
              \A s \in Request : req'[s] = req[s] \/ req'[s] = Idle
       PROVE  StaleInv'
  <2>1. \A s \in Request : StaleOf(req[s])'
    <3> SUFFICES ASSUME NEW s \in Request PROVE StaleOf(req[s])'
      OBVIOUS
    <3>1. CASE req'[s] = req[s]
      BY <1>23, <3>1, StaleKept
    <3>2. CASE req'[s] = Idle
      BY <3>2, <1>23, <1>0 DEF StaleOf, Idle, Begin, Types
    <3> QED  BY <3>1, <3>2, <1>23
  <2>2. (\A i \in Instance : \A c \in cache[i] : c.at <= now /\ Predates(c.epoch, c.at))'
    BY <1>23, CacheKept
  <2>3. \A v \in revocations' : v.epoch \in 1 .. minted' /\ v.epoch # row'.epoch /\ v.at <= now'
    BY <1>0, <1>23 DEF StaleInv, Types
  <2> QED  BY <2>1, <2>2, <2>3, <1>23 DEF StaleInv
<1>24. ASSUME NEW i \in Instance, OnMessage(i) \/ Evict(i) PROVE StaleInv'
  BY <1>0, <1>1, <1>23, <1>24 DEF OnMessage, Evict, history
<1>25. ASSUME NEW i \in Instance, Crash(i) PROVE StaleInv'
  BY <1>0, <1>23, <1>25 DEF Crash, Types
<1>26. ASSUME NEW g \in grace, GraceExpires(g) PROVE StaleInv'
  BY <1>0, <1>23, <1>26 DEF GraceExpires
<1>27. CASE Tick \/ UNCHANGED vars
  BY <1>0, <1>23, <1>27 DEF Tick, vars, history
<1>28. ASSUME NEW r \in Request, Handle(r) PROVE StaleInv'
  BY <1>28, <1>5, <1>6, <1>8, <1>9, <1>10, <1>11, <1>12, <1>13, <1>15, <1>16, <1>18, <1>19,
     <1>20, <1>22 DEF Handle
<1> QED  BY <1>7, <1>17, <1>24, <1>25, <1>26, <1>27, <1>28 DEF Next

----------------------------------------------------------------------------
(***************************************************************************)
(* A lost rotation is redeemed once                                        *)
(***************************************************************************)

\* A superseded generation stays superseded when the row moves on to a fresh
\* generation, or goes.
LEMMA SupersededKept ==
    ASSUME Types, Types', NEW g \in Nat, Superseded(g), minted <= minted',
           row'.gen = row.gen \/ row'.gen = 0 \/ row'.gen > minted
    PROVE  Superseded(g)'
BY DEF Superseded, Types, Pair

\* Steps after which nobody is busy with a generation it was not busy with,
\* nothing new is on record in Redis and nothing new is spent.
LEMMA OnceKept ==
    ASSUME Types, Types', OnceInv, minted <= minted', row'.gen <= minted',
           row'.gen = row.gen \/ row'.gen = 0 \/ row'.gen > minted,
           grace' \subseteq grace, spent' = spent,
           \A s \in Request, g \in Nat : Busy(s, g)' => Busy(s, g),
           \A s \in Request : req'[s].pc = "remember" => req'[s] = req[s]
    PROVE  OnceInv'
<1>0. /\ \A g \in grace : g.gen \in Nat
      /\ spent \subseteq Nat
  BY DEF Types, Rotation
<1>1. \A g \in grace' : Superseded(g.gen)' /\ g.gen \notin spent' /\ g.gen < g.next
  BY <1>0, SupersededKept DEF OnceInv
<1>2. \A g, h \in grace' : g.gen = h.gen => g = h
  BY DEF OnceInv
<1>3. \A g \in spent' : Superseded(g)'
  BY <1>0, SupersededKept DEF OnceInv
<1>4. \A s \in Request, g \in Nat : Busy(s, g)' =>
          Superseded(g)' /\ g \notin spent' /\ \A h \in grace' : h.gen # g
  BY SupersededKept DEF OnceInv
<1>5. \A r, s \in Request, g \in Nat : Busy(r, g)' /\ Busy(s, g)' => r = s
  BY DEF OnceInv
<1>6. \A r \in Request : req'[r].pc = "remember" => req'[r].gen < req'[r].pair.gen
  BY DEF OnceInv
<1> QED  BY <1>1, <1>2, <1>3, <1>4, <1>5, <1>6 DEF OnceInv

\* A step of a handler that ends up busy with nothing.
LEMMA OnceStep ==
    ASSUME Types, Types', OnceInv, NEW r \in Request, NEW q \in Handler, Become(r, q),
           q.pc # "remember", q.pc # "reread" \/ q.kind # "refresh",
           minted <= minted', row'.gen <= minted',
           row'.gen = row.gen \/ row'.gen = 0 \/ row'.gen > minted,
           grace' \subseteq grace, spent' = spent
    PROVE  OnceInv'
<1>1. req'[r] = q /\ \A s \in Request : s # r => req'[s] = req[s]
  BY DEF Become, Types
<1>2. \A s \in Request, g \in Nat : Busy(s, g)' => Busy(s, g)
  BY <1>1 DEF Busy, Remembers, Rereads
<1>3. \A s \in Request : req'[s].pc = "remember" => req'[s] = req[s]
  BY <1>1
<1> QED  BY <1>2, <1>3, OnceKept

LEMMA OnceInit == Init => OnceInv
<1> SUFFICES ASSUME Init PROVE OnceInv  OBVIOUS
<1>1. \A r \in Request : req[r].pc = "idle"
  BY DEF Init, Idle, Begin
<1>2. \A r \in Request, g \in Nat : ~Busy(r, g)
  BY <1>1 DEF Busy, Remembers, Rereads
<1> QED  BY <1>1, <1>2 DEF Init, OnceInv

\* A verdict leaves the handler at a step where it is busy with nothing.
LEMMA VerdictIdle ==
    ASSUME NEW q \in Handler, NEW e \in Nat
    PROVE  Verdict(q, e).pc \notin {"remember", "reread"}
<1>1. CASE e # 0 /\ q.tok.epoch = e
  <2>1. CASE q.kind = "access"
    BY <1>1, <2>1 DEF Verdict, Handler
  <2>2. CASE q.kind = "refresh"
    BY <1>1, <2>2 DEF Verdict, Handler
  <2>3. CASE q.kind = "reauth"
    BY <1>1, <2>3 DEF Verdict, Handler
  <2>4. CASE q.kind = "logout"
    BY <1>1, <2>4 DEF Verdict, Handler
  <2>5. CASE q.kind \notin {"access", "refresh", "reauth", "logout"}
    BY <1>1, <2>5 DEF Verdict, Handler
  <2> QED  BY <2>1, <2>2, <2>3, <2>4, <2>5
<1>2. CASE ~(e # 0 /\ q.tok.epoch = e)
  BY <1>2 DEF Verdict, Handler
<1> QED  BY <1>1, <1>2

LEMMA OnceNext == Types /\ Types' /\ EraInv /\ OnceInv /\ [Next]_vars => OnceInv'
<1> SUFFICES ASSUME Types, Types', EraInv, OnceInv, [Next]_vars PROVE OnceInv'  OBVIOUS
<1>0. /\ minted \in Nat /\ minted' \in Nat /\ row.gen \in Nat /\ row.gen <= minted /\ row \in Pair /\ row' \in Pair
      /\ \A r \in Request : req[r] \in Handler /\ req'[r] \in Handler /\ EraOf(req[r])
      /\ \A r \in Request : req[r].tok.gen \in Nat /\ req[r].gen \in Nat
  BY DEF Types, Pair, Handler, OnceInv, EraInv
<1> DEFINE Quiet == UNCHANGED <<row, minted, spent>> /\ grace' \subseteq grace
<1>1. ASSUME Quiet, NEW r \in Request, NEW q \in Handler, Become(r, q), q.pc # "remember",
             q.pc # "reread" \/ q.kind # "refresh"
      PROVE  OnceInv'
  BY <1>0, <1>1, OnceStep
<1>2. ASSUME Quiet, NEW r \in Request, NEW o \in Out, Answer(r, o) PROVE OnceInv'
  <2> DEFINE q == [req[r] EXCEPT !.pc = "answered", !.out = o, !.pair = Absent, !.gen = 0]
  <2>1. q \in Handler /\ Become(r, q) /\ q.pc = "answered"
    BY <1>0, <1>2 DEF Handler, PC, Pair, Absent, Answer
  <2> HIDE DEF q, Quiet
  <2> QED  BY <2>1, <1>1, <1>2
<1>3. ASSUME Quiet, NEW r \in Request, NEW pc \in PC \ {"remember", "reread"}, Goto(r, pc) PROVE OnceInv'
  <2> DEFINE q == [req[r] EXCEPT !.pc = pc]
  <2>1. q \in Handler /\ Become(r, q) /\ q.pc = pc
    BY <1>0, <1>3 DEF Handler, Goto
  <2> HIDE DEF q, Quiet
  <2> QED  BY <2>1, <1>1, <1>3
<1>4. ASSUME NEW r \in Request, Load(r) PROVE OnceInv'
  <2> DEFINE q == [req[r] EXCEPT !.pc = "store", !.pair = row]
  <2>1. q \in Handler /\ Become(r, q) /\ q.pc = "store" /\ Quiet
    BY <1>0, <1>4 DEF Handler, PC, Load, history
  <2> HIDE DEF q, Quiet
  <2> QED  BY <2>1, <1>1
<1>5. ASSUME NEW r \in Request, Store(r) PROVE OnceInv'
  <2>1. req[r].pair.epoch \in Nat /\ Quiet
    BY <1>0, <1>5 DEF Handler, Pair, Store, history
  <2>2. Become(r, Verdict(req[r], req[r].pair.epoch))
    BY <1>5 DEF Store
  <2> HIDE DEF Quiet
  <2> QED  BY <2>1, <2>2, <1>0, <1>1, VerdictType, VerdictIdle
<1>6. ASSUME NEW r \in Request, NEW k \in Kind, NEW i \in Instance, NEW t \in held, Arrive(r, k, i, t)
      PROVE  OnceInv'
  <2> DEFINE late == k = "access" /\ <<i, t.epoch>> \in dropped
             q == [Begin(i) EXCEPT !.pc = "load", !.kind = k, !.tok = t, !.from = now, !.late = late]
  <2>1. q \in Handler /\ q.pc = "load"
    <3>1. late \in BOOLEAN /\ t \in Pair /\ now \in Nat /\ k \in Kinds
      BY KindAssumption DEF Types
    <3> HIDE DEF late
    <3> QED  BY <3>1, BeginType DEF Handler, PC, Begin
  <2>2. \A c \in cache[i] : c.epoch \in Nat
    BY DEF CachedSnapshot, Types
  <2>3. Become(r, q) \/ \E c \in cache[i] : Become(r, Verdict(q, c.epoch))
    BY <1>6 DEF Arrive
  <2>4. Quiet
    BY <1>6 DEF Arrive, history
  <2> HIDE DEF q, Quiet
  <2> QED  BY <2>1, <2>2, <2>3, <2>4, <1>1, VerdictType, VerdictIdle
<1>7. ASSUME NEW r \in Request, Rotate(r) PROVE OnceInv'
  <2>1. CASE Rotated(r)
    <3>0. PICK g \in Nat : g = req[r].gen
      BY <1>0
    <3>1. g = row.gen /\ g \in 1 .. minted
      BY <3>0, <1>0, <1>7, <2>1 DEF Rotated, Rotate, EraInv, EraOf, OnRecord, BornFacts
    <3>2. minted' = minted + 1 /\ row'.gen = minted + 1 /\ UNCHANGED <<grace, spent>>
      BY <1>0, <1>7, <2>1 DEF Rotated, Rotate, Pair
    <3>3. req'[r] = [req[r] EXCEPT !.pc = "remember", !.pair = row'] /\ \A s \in Request : s # r => req'[s] = req[s]
      BY <2>1 DEF Rotated, Become, Types
    <3>4. req'[r].pc = "remember" /\ req'[r].gen = g /\ req'[r].pair.gen = minted + 1
      BY <1>0, <3>0, <3>2, <3>3 DEF Handler
    <3>5. \A s \in Request, h \in Nat : Busy(s, h)' => (s # r /\ Busy(s, h)) \/ (s = r /\ h = g)
      BY <3>3, <3>4 DEF Busy, Remembers, Rereads
    <3>6. \A h \in Nat : Superseded(h) => Superseded(h)' /\ h # g
      BY <1>0, <3>1, <3>2 DEF Superseded
    <3>7. Superseded(g)' /\ g \in Nat
      BY <1>0, <3>1, <3>2 DEF Superseded
    <3>8. /\ \A h \in grace : h.gen \in Nat /\ Superseded(h.gen)
          /\ \A h \in spent : h \in Nat /\ Superseded(h)
          /\ \A s \in Request, h \in Nat : Busy(s, h) => Superseded(h)
      BY DEF OnceInv, Types, Rotation
    <3>9. /\ \A h \in grace' : Superseded(h.gen)' /\ h.gen \notin spent' /\ h.gen < h.next
          /\ \A h, j \in grace' : h.gen = j.gen => h = j
          /\ \A h \in spent' : Superseded(h)'
      BY <3>2, <3>6, <3>8 DEF OnceInv
    <3>10. \A s \in Request, h \in Nat : Busy(s, h)' =>
              Superseded(h)' /\ h \notin spent' /\ \A j \in grace' : j.gen # h
      <4> SUFFICES ASSUME NEW s \in Request, NEW h \in Nat, Busy(s, h)'
                   PROVE  Superseded(h)' /\ h \notin spent' /\ \A j \in grace' : j.gen # h
        OBVIOUS
      <4>1. CASE s # r /\ Busy(s, h)
        BY <4>1, <3>2, <3>6, <3>8 DEF OnceInv
      <4>2. CASE h = g
        BY <4>2, <3>2, <3>6, <3>7, <3>8
      <4> QED  BY <4>1, <4>2, <3>5
    <3>11. \A s, u \in Request, h \in Nat : Busy(s, h)' /\ Busy(u, h)' => s = u
      <4> QED  BY <3>5, <3>6, <3>8 DEF OnceInv
    <3>12. \A s \in Request : req'[s].pc = "remember" => req'[s].gen < req'[s].pair.gen
      <4>1. \A s \in Request : s # r /\ req'[s].pc = "remember" => req'[s].gen < req'[s].pair.gen
        BY <3>3 DEF OnceInv
      <4>2. req'[r].gen < req'[r].pair.gen
        BY <1>0, <3>1, <3>4
      <4> QED  BY <4>1, <4>2
    <3> QED  BY <3>2, <3>9, <3>10, <3>11, <3>12, <1>0 DEF OnceInv
  <2>2. CASE NotRotated(r)
    <3>1. Quiet
      BY <1>7, <2>2 DEF Rotate, NotRotated
    <3>2. Goto(r, "redeem") \/ Answer(r, "rejected")
      BY <2>2 DEF NotRotated
    <3> HIDE DEF Quiet
    <3> QED  BY <3>1, <3>2, <1>2, <1>3 DEF PC, Out
  <2> QED  BY <2>1, <2>2, <1>7 DEF Rotate
<1>8. ASSUME NEW r \in Request, Remember(r) PROVE OnceInv'
  <2>0. PICK g \in Nat : g = req[r].gen
    BY <1>0
  <2>1. Remembers(r, g) /\ Busy(r, g) /\ g < req[r].pair.gen
    BY <2>0, <1>8 DEF Remember, Remembers, Busy, OnceInv
  <2>2. UNCHANGED <<row, minted, spent>> /\ req'[r].pc = "answered" /\ \A s \in Request : s # r => req'[s] = req[s]
    BY <1>8 DEF Remember, Issue, Become, Types
  <2>3. \A s \in Request, h \in Nat : Busy(s, h)' => s # r /\ Busy(s, h)
    BY <2>2 DEF Busy, Remembers, Rereads
  <2>4. \A s \in Request, h \in Nat : Busy(s, h)' => h # g
    BY <2>1, <2>3 DEF OnceInv
  <2>5. \A h \in Nat : Superseded(h)' <=> Superseded(h)
    BY <2>2 DEF Superseded
  <2>6. \A h \in grace' : h \in grace \/ (h = [gen |-> g, next |-> req[r].pair.gen])
    BY <2>0, <1>8 DEF Remember
  <2>7. Superseded(g) /\ g \notin spent /\ \A h \in grace : h.gen # g
    BY <2>1 DEF OnceInv
  <2>8. \A h \in grace' : Superseded(h.gen)' /\ h.gen \notin spent' /\ h.gen < h.next
    <3> SUFFICES ASSUME NEW h \in grace' PROVE Superseded(h.gen)' /\ h.gen \notin spent' /\ h.gen < h.next
      OBVIOUS
    <3>1. CASE h \in grace
      <4>1. h.gen \in Nat
        BY <3>1 DEF Types, Rotation
      <4> QED  BY <3>1, <4>1, <2>2, <2>5 DEF OnceInv
    <3>2. CASE h = [gen |-> g, next |-> req[r].pair.gen]
      <4>1. h.gen = g /\ h.next = req[r].pair.gen
        BY <3>2
      <4> QED  BY <4>1, <2>1, <2>2, <2>5, <2>7
    <3> QED  BY <3>1, <3>2, <2>6
  <2>9. \A h, j \in grace' : h.gen = j.gen => h = j
    BY <2>6, <2>7 DEF OnceInv
  <2>10. \A s \in Request, h \in Nat : Busy(s, h)' =>
              Superseded(h)' /\ h \notin spent' /\ \A j \in grace' : j.gen # h
    BY <2>2, <2>3, <2>4, <2>5, <2>6 DEF OnceInv
  <2>11. \A s, u \in Request, h \in Nat : Busy(s, h)' /\ Busy(u, h)' => s = u
    BY <2>3 DEF OnceInv
  <2>12. \A s \in Request : req'[s].pc = "remember" => req'[s].gen < req'[s].pair.gen
    BY <2>2 DEF OnceInv
  <2>13. \A h \in spent' : Superseded(h)'
    BY <2>2, <2>5 DEF OnceInv, Types
  <2> QED  BY <2>2, <2>8, <2>9, <2>10, <2>11, <2>12, <2>13 DEF OnceInv
<1>9. ASSUME NEW r \in Request, Redeem(r) PROVE OnceInv'
  <2>1. UNCHANGED <<row, minted, spent>>
    BY <1>9 DEF Redeem
  <2>2. ASSUME NEW g \in grace, g.gen = req[r].tok.gen, grace' = grace \ {g},
               Become(r, [req[r] EXCEPT !.pc = "reread", !.gen = g.next])
        PROVE  OnceInv'
    <3>1. req'[r] = [req[r] EXCEPT !.pc = "reread", !.gen = g.next] /\ \A s \in Request : s # r => req'[s] = req[s]
      BY <2>2 DEF Become, Types
    <3>2. req'[r].pc = "reread" /\ req'[r].tok.gen = g.gen
      BY <1>0, <2>2, <3>1 DEF Handler
    <3>3. \A s \in Request, h \in Nat : Busy(s, h)' => (s # r /\ Busy(s, h)) \/ (s = r /\ h = g.gen)
      BY <3>1, <3>2 DEF Busy, Remembers, Rereads
    <3>4. \A h \in Nat : Superseded(h)' <=> Superseded(h)
      BY <2>1 DEF Superseded
    <3>5. g.gen \in Nat /\ Superseded(g.gen) /\ g.gen \notin spent
      BY DEF OnceInv, Types, Rotation
    <3>6. \A h \in grace' : h.gen # g.gen /\ h \in grace /\ h.gen \in Nat
      BY <2>2 DEF OnceInv, Types, Rotation
    <3>7. \A h \in grace' : Superseded(h.gen)' /\ h.gen \notin spent' /\ h.gen < h.next
      BY <2>1, <3>4, <3>6 DEF OnceInv
    <3>8. \A s \in Request, h \in Nat : Busy(s, h)' =>
              Superseded(h)' /\ h \notin spent' /\ \A j \in grace' : j.gen # h
      <4> SUFFICES ASSUME NEW s \in Request, NEW h \in Nat, Busy(s, h)'
                   PROVE  Superseded(h)' /\ h \notin spent' /\ \A j \in grace' : j.gen # h
        OBVIOUS
      <4>1. CASE Busy(s, h)
        BY <4>1, <2>1, <3>4, <3>6 DEF OnceInv
      <4>2. CASE h = g.gen
        BY <4>2, <2>1, <3>4, <3>5, <3>6
      <4> QED  BY <4>1, <4>2, <3>3
    <3>9. \A s, u \in Request, h \in Nat : Busy(s, h)' /\ Busy(u, h)' => s = u
      BY <3>3 DEF OnceInv
    <3>10. \A s \in Request : req'[s].pc = "remember" => req'[s].gen < req'[s].pair.gen
      BY <3>1, <3>2 DEF OnceInv
    <3>11. \A h \in spent' : Superseded(h)'
      BY <2>1, <3>4 DEF OnceInv, Types
    <3>12. \A h, j \in grace' : h.gen = j.gen => h = j
      BY <3>6 DEF OnceInv
    <3> QED  BY <2>1, <3>7, <3>8, <3>9, <3>10, <3>11, <3>12 DEF OnceInv
  <2>3. CASE Answer(r, "rejected") /\ UNCHANGED grace
    <3>1. Quiet
      BY <2>1, <2>3
    <3> HIDE DEF Quiet
    <3> QED  BY <2>3, <3>1, <1>2 DEF Out
  <2> QED  BY <2>2, <2>3, <1>9 DEF Redeem
<1>10. ASSUME NEW r \in Request, RedeemCheck(r) PROVE OnceInv'
  <2>1. CASE Answer(r, "rejected") /\ UNCHANGED spent
    <3>1. Quiet
      BY <2>1, <1>10 DEF RedeemCheck
    <3> HIDE DEF Quiet
    <3> QED  BY <2>1, <3>1, <1>2 DEF Out
  <2>2. CASE Issue(r, row) /\ spent' = spent \cup {req[r].tok.gen}
    <3>0. PICK g \in Nat : g = req[r].tok.gen
      BY <1>0
    <3>1. Busy(r, g) /\ UNCHANGED <<row, minted, grace>>
      BY <3>0, <1>10 DEF RedeemCheck, Busy, Rereads
    <3>2. req'[r].pc = "answered" /\ \A s \in Request : s # r => req'[s] = req[s]
      BY <2>2 DEF Issue, Become, Types
    <3>3. \A s \in Request, h \in Nat : Busy(s, h)' => s # r /\ Busy(s, h)
      BY <3>2 DEF Busy, Remembers, Rereads
    <3>4. \A s \in Request, h \in Nat : Busy(s, h)' => h # g
      BY <3>1, <3>3 DEF OnceInv
    <3>5. \A h \in Nat : Superseded(h)' <=> Superseded(h)
      BY <3>1 DEF Superseded
    <3>6. Superseded(g) /\ \A h \in grace : h.gen # g
      BY <3>1 DEF OnceInv
    <3>7. \A h \in grace' : Superseded(h.gen)' /\ h.gen \notin spent' /\ h.gen < h.next
      <4>1. \A h \in grace : h.gen \in Nat
        BY DEF Types, Rotation
      <4> QED  BY <4>1, <2>2, <3>0, <3>1, <3>5, <3>6 DEF OnceInv
    <3>8. \A s \in Request, h \in Nat : Busy(s, h)' =>
              Superseded(h)' /\ h \notin spent' /\ \A j \in grace' : j.gen # h
      BY <2>2, <3>0, <3>1, <3>3, <3>4, <3>5 DEF OnceInv
    <3>9. \A s, u \in Request, h \in Nat : Busy(s, h)' /\ Busy(u, h)' => s = u
      BY <3>3 DEF OnceInv
    <3>10. \A s \in Request : req'[s].pc = "remember" => req'[s].gen < req'[s].pair.gen
      BY <3>2 DEF OnceInv
    <3>11. \A h \in spent' : Superseded(h)'
      BY <2>2, <3>0, <3>5, <3>6 DEF OnceInv, Types
    <3> QED  BY <3>1, <3>7, <3>8, <3>9, <3>10, <3>11 DEF OnceInv
  <2> QED  BY <2>1, <2>2, <1>10 DEF RedeemCheck
<1>11. ASSUME NEW r \in Request, Sign(r) PROVE OnceInv'
  <2>1. Quiet /\ req[r].kind = "reauth"
    BY <1>0, <1>11 DEF Sign, EraOf, history
  <2> DEFINE q == [req[r] EXCEPT !.pc = "reread"]
  <2>2. q \in Handler /\ q.pc = "reread" /\ q.kind = "reauth"
    BY <1>0, <2>1 DEF Handler, PC
  <2>3. Become(r, q) \/ Answer(r, "rejected")
    BY <1>11 DEF Sign, Goto
  <2> HIDE DEF q, Quiet
  <2> QED  BY <2>1, <2>2, <2>3, <1>1, <1>2 DEF Out
<1>12. ASSUME NEW r \in Request, ReauthCheck(r) PROVE OnceInv'
  <2> DEFINE q == [req[r] EXCEPT !.pc = "rotate", !.gen = row.gen]
  <2>1. q \in Handler /\ q.pc = "rotate" /\ Quiet
    BY <1>0, <1>12 DEF Handler, PC, ReauthCheck, history
  <2>2. Become(r, q) \/ Answer(r, "rejected")
    BY <1>12 DEF ReauthCheck
  <2> HIDE DEF q, Quiet
  <2> QED  BY <2>1, <2>2, <1>1, <1>2 DEF Out
<1> DEFINE Ended(r, o) == [req[r] EXCEPT !.pc = "forget", !.out = o]
<1>13. ASSUME NEW r \in Request, NEW o \in {"done", "unavailable"}
       PROVE  Ended(r, o) \in Handler /\ Ended(r, o).pc = "forget"
  BY <1>0, <1>13 DEF Handler, PC, Out
<1>14. ASSUME NEW r \in Request, NEW q \in Handler, Become(r, q), q.pc = "forget",
              UNCHANGED <<grace, spent>>,
              \/ row' = Absent /\ minted' = minted
              \/ NewRow([epoch |-> minted + 1, gen |-> minted + 2])
       PROVE  OnceInv'
  <2>1. minted <= minted' /\ row'.gen <= minted' /\ (row'.gen = 0 \/ row'.gen > minted)
    BY <1>0, <1>14 DEF NewRow, Absent
  <2> QED  BY <1>14, <2>1, OnceStep
<1>15. ASSUME NEW r \in Request, RotateEpoch(r) PROVE OnceInv'
  <2>1. CASE NewRow([epoch |-> minted + 1, gen |-> minted + 2]) /\ Become(r, Ended(r, "done"))
    <3>1. UNCHANGED <<grace, spent>>
      BY <1>15 DEF RotateEpoch
    <3> HIDE DEF Ended
    <3> QED  BY <2>1, <3>1, <1>13, <1>14
  <2>2. CASE Become(r, Ended(r, "unavailable")) /\ UNCHANGED <<row, minted>>
    <3>1. Quiet
      BY <1>15, <2>2 DEF RotateEpoch
    <3> HIDE DEF Ended, Quiet
    <3> QED  BY <2>2, <3>1, <1>1, <1>13
  <2> QED  BY <2>1, <2>2, <1>15 DEF RotateEpoch
<1>16. ASSUME NEW r \in Request, DeleteAccount(r) PROVE OnceInv'
  <2>0. UNCHANGED <<grace, spent, minted>>
    BY <1>16 DEF DeleteAccount
  <2>1. CASE row' = Absent /\ Become(r, Ended(r, "done"))
    <3> HIDE DEF Ended
    <3> QED  BY <2>0, <2>1, <1>13, <1>14
  <2>2. CASE Become(r, Ended(r, "done")) /\ UNCHANGED row
    <3>1. Quiet
      BY <2>0, <2>2
    <3> HIDE DEF Ended, Quiet
    <3> QED  BY <2>2, <3>1, <1>1, <1>13
  <2>3. CASE Answer(r, "unavailable") /\ UNCHANGED row
    <3>1. Quiet
      BY <2>0, <2>3
    <3> HIDE DEF Quiet
    <3> QED  BY <2>3, <3>1, <1>2 DEF Out
  <2> QED  BY <2>1, <2>2, <2>3, <1>16 DEF DeleteAccount
<1>17. ASSUME NEW r \in Request, NEW i \in Instance, Recover(r, i) PROVE OnceInv'
  <2> DEFINE q == [Begin(i) EXCEPT !.pc = "forget", !.kind = "recover", !.tok = row,
                                  !.from = now, !.pair = row', !.out = "issued"]
  <2>1. q \in Handler
    <3>1. Begin(i) \in Handler /\ row \in Pair /\ row' \in Pair /\ now \in Nat
      BY BeginType DEF Types
    <3> QED  BY <3>1 DEF Handler, PC, Kinds, Out
  <2>2. q.pc = "forget"
    BY DEF Begin
  <2>3. Become(r, q) /\ UNCHANGED <<grace, spent>> /\ NewRow([epoch |-> minted + 1, gen |-> minted + 2])
    BY <1>17 DEF Recover
  <2> HIDE DEF q
  <2> QED  BY <2>1, <2>2, <2>3, <1>14
<1>18. ASSUME NEW r \in Request, Invalidate(r) \/ Broadcast(r) PROVE OnceInv'
  <2>1. Quiet /\ (Goto(r, "publish") \/ Goto(r, "answered"))
    BY <1>18 DEF Invalidate, Broadcast, history
  <2> HIDE DEF Quiet
  <2> QED  BY <2>1, <1>3 DEF PC
<1>19. ASSUME NEW r \in Request, Unavailable(r) PROVE OnceInv'
  <2>1. Quiet /\ \E o \in Out : Answer(r, o)
    BY <1>19 DEF Unavailable, Out, history
  <2> HIDE DEF Quiet
  <2> QED  BY <2>1, <1>2
<1>20. ASSUME NEW r \in Request, Reply(r) PROVE OnceInv'
  <2>1. Quiet /\ Become(r, Idle) /\ Idle.pc = "idle"
    BY <1>20 DEF Reply, history, Idle, Begin
  <2> HIDE DEF Quiet
  <2> QED  BY <2>1, <1>1, BeginType
<1>21. ASSUME Quiet, \A s \in Request : req'[s] = req[s] \/ req'[s] = Idle PROVE OnceInv'
  <2>1. Idle.pc = "idle"
    BY DEF Idle, Begin
  <2>2. \A s \in Request, g \in Nat : Busy(s, g)' => Busy(s, g)
    BY <1>21, <2>1 DEF Busy, Remembers, Rereads
  <2>3. \A s \in Request : req'[s].pc = "remember" => req'[s] = req[s]
    BY <1>21, <2>1
  <2> QED  BY <1>0, <1>21, <2>2, <2>3, OnceKept
<1>22. ASSUME NEW i \in Instance, OnMessage(i) \/ Evict(i) \/ Crash(i) PROVE OnceInv'
  <2>1. Quiet /\ \A s \in Request : req'[s] = req[s] \/ req'[s] = Idle
    BY <1>22 DEF OnMessage, Evict, Crash, history
  <2> QED  BY <2>1, <1>21
<1>23. ASSUME NEW g \in grace, GraceExpires(g) PROVE OnceInv'
  BY <1>21, <1>23 DEF GraceExpires
<1>24. CASE Tick \/ UNCHANGED vars
  BY <1>21, <1>24 DEF Tick, vars, history
<1>25. ASSUME NEW r \in Request, Handle(r) PROVE OnceInv'
  BY <1>25, <1>4, <1>5, <1>7, <1>8, <1>9, <1>10, <1>11, <1>12, <1>15, <1>16, <1>18, <1>19, <1>20
  DEF Handle
<1> QED  BY <1>6, <1>17, <1>22, <1>23, <1>24, <1>25 DEF Next

LEMMA OneCopyNext == Types /\ OneCopy /\ [Next]_vars => OneCopy'
<1> SUFFICES ASSUME Types, OneCopy, [Next]_vars PROVE OneCopy'  OBVIOUS
<1>1. ASSUME NEW i \in Instance, Forget(i) PROVE OneCopy'
  BY <1>1 DEF Forget, OneCopy, Types
<1>2. ASSUME NEW r \in Request, Store(r) PROVE OneCopy'
  BY <1>2 DEF Store, OneCopy, Types
<1>3. ASSUME UNCHANGED cache PROVE OneCopy'
  BY <1>3 DEF OneCopy
<1>4. \A r \in Request : req[r].on \in Instance
  BY DEF Types, Handler
<1>5. ASSUME NEW r \in Request, Handle(r) PROVE OneCopy'
  BY <1>1, <1>2, <1>3, <1>4, <1>5
  DEF Handle, Load, Rotate, Remember, Redeem, RedeemCheck, Sign, ReauthCheck, RotateEpoch,
      DeleteAccount, Invalidate, Broadcast, Unavailable, Reply
<1>6. ASSUME NEW i \in Instance, OnMessage(i) \/ Evict(i) \/ Crash(i) PROVE OneCopy'
  BY <1>1, <1>6 DEF OnMessage, Evict, Crash, Forget
<1>7. ASSUME NEW r \in Request, NEW i \in Instance, Recover(r, i) PROVE OneCopy'
  BY <1>3, <1>7 DEF Recover
<1>8. ASSUME NEW r \in Request, NEW k \in Kind, NEW i \in Instance, NEW t \in held, Arrive(r, k, i, t)
      PROVE  OneCopy'
  BY <1>3, <1>8 DEF Arrive
<1>9. ASSUME NEW g \in grace, GraceExpires(g) PROVE OneCopy'
  BY <1>3, <1>9 DEF GraceExpires
<1>10. CASE Tick \/ UNCHANGED vars
  BY <1>3, <1>10 DEF Tick, vars
<1> QED  BY <1>5, <1>6, <1>7, <1>8, <1>9, <1>10 DEF Next

----------------------------------------------------------------------------
(***************************************************************************)
(* The theorems                                                            *)
(***************************************************************************)
CredentialInv == Types /\ EraInv /\ StaleInv /\ OnceInv /\ OneCopy

\* The invariant the other theorems rest on: types, one epoch per generation,
\* copies that predate a revocation, one place per superseded generation.
THEOREM CredentialInvariant == Spec => []CredentialInv
<1>1. Init => CredentialInv
  <2>1. Init => OneCopy
    BY DEF Init, OneCopy
  <2> QED  BY <2>1, TypesInit, EraInit, StaleInit, OnceInit DEF CredentialInv
<1>2. CredentialInv /\ [Next]_vars => CredentialInv'
  BY TypesNext, EraNext, StaleNext, OnceNext, OneCopyNext DEF CredentialInv
<1> QED  BY <1>1, <1>2, PTL DEF Spec

\* The state of the credential store is well typed: in particular one copy per
\* instance and one later successor per superseded generation.
THEOREM CredentialTypes == Spec => []TypeOK
<1>1. CredentialInv => TypeOK
  BY DEF CredentialInv, Types, OnceInv, OneCopy, TypeOK
<1> QED  BY <1>1, CredentialInvariant, PTL

\* No refresh and no device reauthentication turns a token of one epoch into
\* tokens of another, whatever runs between its check and its rotation.
THEOREM EpochSafe == Spec => []NoIssueAcrossRevoke
<1>1. CredentialInv => NoIssueAcrossRevoke
  BY DEF CredentialInv, EraInv, EraOf, NoIssueAcrossRevoke
<1> QED  BY <1>1, CredentialInvariant, PTL

\* No access check that begins a cache TTL after its epoch ended is accepted,
\* on any instance, with any message lost and any load in flight.
THEOREM StalenessSafe == Spec => []BoundedStaleness
<1>1. CredentialInv => BoundedStaleness
  BY DEF CredentialInv, StaleInv, StaleOf, BoundedStaleness
<1> QED  BY <1>1, CredentialInvariant, PTL

\* However often and however concurrently a superseded token is presented, its
\* lost rotation is answered once.
THEOREM RedemptionSafe == Spec => RedeemedOnce
<1>1. CredentialInv => \A r \in Request : Redeems(r) => req[r].tok.gen \notin spent
  <2> SUFFICES ASSUME CredentialInv, NEW r \in Request, Redeems(r) PROVE req[r].tok.gen \notin spent
    OBVIOUS
  <2>1. req[r].tok.gen \in Nat
    BY DEF CredentialInv, Types, Handler, Pair
  <2> QED  BY <2>1 DEF CredentialInv, OnceInv, Busy, Rereads, Redeems
<1>2. CredentialInv /\ [Next]_vars => [\A r \in Request : Redeems(r) => req[r].tok.gen \notin spent]_vars
  BY <1>1
<1> QED  BY <1>2, CredentialInvariant, PTL DEF RedeemedOnce, Spec

\* A handler changes only its own state: when it makes the row change, it is
\* the one whose state changes.
LEMMA OwnStep ==
    ASSUME Types, Next, row' # row, NEW r \in Request, req[r].pc \in {"revoke", "delete"}, req'[r] # req[r]
    PROVE  RotateEpoch(r) \/ DeleteAccount(r)
<1>1. ASSUME NEW s \in Request, NEW q, Become(s, q) PROVE s = r
  BY <1>1 DEF Become, Types
<1>2. ASSUME NEW s \in Request, Handle(s) PROVE RotateEpoch(r) \/ DeleteAccount(r)
  <2>1. Rotate(s) \/ RotateEpoch(s) \/ DeleteAccount(s)
    BY <1>2 DEF Handle, Load, Store, Remember, Redeem, RedeemCheck, Sign, ReauthCheck,
                Invalidate, Broadcast, Unavailable, Reply
  <2>2. \E q : Become(s, q)
    BY <2>1 DEF Rotate, Rotated, NotRotated, RotateEpoch, DeleteAccount, Goto, Answer
  <2>3. s = r
    BY <1>1, <2>2
  <2> QED  BY <2>1, <2>3 DEF Rotate
<1>3. ASSUME NEW s \in Request, NEW i \in Instance, Recover(s, i) PROVE FALSE
  <2>1. s = r
    BY <1>1, <1>3 DEF Recover
  <2> QED  BY <2>1, <1>3 DEF Recover
<1> QED  BY <1>2, <1>3 DEF Next, Arrive, OnMessage, Evict, Crash, GraceExpires, Tick

\* A logout or a deletion that was let in on a stale copy of the epoch ends no
\* other epoch.
THEOREM EndSafe == Spec => SupersededEndsNothing
<1>1. CredentialInv /\ [Next]_vars => [\A r \in Request : Ends(r) => row.epoch = req[r].tok.epoch]_vars
  <2> SUFFICES ASSUME CredentialInv, Next, NEW r \in Request, Ends(r)
               PROVE  row.epoch = req[r].tok.epoch
    OBVIOUS
  <2>1. RotateEpoch(r) \/ DeleteAccount(r)
    BY OwnStep DEF CredentialInv, Ends
  <2> QED  BY <2>1 DEF RotateEpoch, DeleteAccount, Ends
<1> QED  BY <1>1, CredentialInvariant, PTL DEF SupersededEndsNothing, Spec
=============================================================================
