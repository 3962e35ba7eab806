--------------------------- MODULE AccountsProofs ---------------------------
(***************************************************************************)
(* Proofs about Accounts for any users, numbers, handlers and limits:      *)
(* types, the pacing of codes, the single use of grants, that a number is  *)
(* not taken from an account that has published an identity, and that the  *)
(* registry agrees with the table whenever nobody is about to change it.   *)
(***************************************************************************)
EXTENDS Accounts, TLAPS

CodeTypes ==
    /\ now \in 0 .. MaxTime
    /\ codes \in Seq([at: Nat, wrong: Nat,
                      fate: {"open", "accepted", "exhausted", "expired", "replaced"}])
    /\ otp = None \/ /\ otp \in [code: DOMAIN codes, attempts: 0 .. MAX_ATTEMPTS - 1, createdAt: Nat]
                     /\ codes[otp.code].fate = "open" /\ otp.code = Len(codes)
GrantTypes ==
    /\ grants \in Seq(Nat) /\ used \subseteq DOMAIN grants
    /\ claims \subseteq [user: User, grant: DOMAIN grants, at: Nat]
DirTypes ==
    /\ row \in [User -> Row \union {None}]
    /\ pending \in 0 .. MaxPending
    /\ byUser \in [User -> Token \union {None}]
    /\ byToken \in [Number -> User \union {None}]
    /\ overtaken \subseteq User
CopyTypes ==
    /\ socket \in [User -> Handler \union {None}]
    /\ items \in [User -> SUBSET Frame] /\ index \in [User -> SUBSET Frame]

\* What a task must have before its step: TypeOK alone allows None.
Ready(t) ==
    /\ t.pc # "idle" => t.user \in User
    /\ t.pc = "claim" => t.grant \in DOMAIN grants
    /\ t.pc \in {"replace", "reclaim", "cacheOwner", "cacheOwn"} => t.number \in Token
    /\ t.pc \in {"reclaim", "cacheOwner"} => t.owner \in User
    /\ t.pc = "cacheOwner" => t.released \in Token
    /\ t.pc = "enqueue" => t.frame \in Frame
TaskTypes == task \in [Handler -> Task] /\ \A h \in Handler : Ready(task[h])

Typed == CodeTypes /\ GrantTypes /\ DirTypes /\ CopyTypes /\ TaskTypes

LEMMA TypedIsTypeOK == Typed /\ reached \subseteq User => TypeOK
BY DEF Typed, TypeOK, CodeTypes, GrantTypes, DirTypes, CopyTypes, TaskTypes

LEMMA IdleTask == Idle \in Task /\ Ready(Idle)
BY DEF Idle, Task, Ready, Steps

LEMMA Holder ==
    ASSUME NEW t PROVE HolderOf(t) \in User \union {None}
<1>1. CASE \E u \in User : TokenOf(u) = t
  BY <1>1 DEF HolderOf
<1>2. CASE ~\E u \in User : TokenOf(u) = t
  BY <1>2 DEF HolderOf
<1> QED BY <1>1, <1>2

LEMMA TokenTyped ==
    ASSUME DirTypes, NEW u \in User
    PROVE  /\ TokenOf(u) \in Token \union {None}
           /\ row[u] # None => row[u] \in Row /\ TokenOf(u) = row[u].token
BY DEF DirTypes, TokenOf, Row

\* One task changes; the grants do not.
LEMMA TaskChanges ==
    ASSUME TaskTypes, NEW h \in Handler, NEW t \in Task, Ready(t), grants' = grants,
           task' = [task EXCEPT ![h] = t]
    PROVE  TaskTypes'
BY DEF TaskTypes, Ready

LEMMA DoneTyped ==
    ASSUME TaskTypes, NEW h \in Handler, Done(h), grants' = grants PROVE TaskTypes'
BY IdleTask, TaskChanges DEF Done

LEMMA InitTyped == Init => Typed
<1> SUFFICES ASSUME Init PROVE Typed
  OBVIOUS
<1>1. CodeTypes
  BY LimitAssumption DEF Init, CodeTypes
<1>2. GrantTypes
  BY DEF Init, GrantTypes
<1>3. DirTypes
  <2>1. row \in [User -> Row \union {None}]
    BY ExistingAssumption DEF Init, Row, Token
  <2>2. \A u \in User : TokenOf(u) \in Token \union {None}
    BY <2>1 DEF TokenOf, Row
  <2>3. \A n \in Number : HolderOf(n) \in User \union {None}
    BY Holder
  <2> QED BY <2>1, <2>2, <2>3, LimitAssumption DEF Init, DirTypes
<1>4. CopyTypes
  BY DEF Init, CopyTypes
<1>5. TaskTypes
  BY IdleTask DEF Init, TaskTypes
<1> QED BY <1>1, <1>2, <1>3, <1>4, <1>5 DEF Typed

Code == [at: Nat, wrong: Nat,
         fate: {"open", "accepted", "exhausted", "expired", "replaced"}]

LEMMA SeqExcept ==
    ASSUME NEW S, NEW s \in Seq(S), NEW i \in DOMAIN s, NEW x \in S
    PROVE  /\ [s EXCEPT ![i] = x] \in Seq(S)
           /\ Len([s EXCEPT ![i] = x]) = Len(s)
           /\ DOMAIN [s EXCEPT ![i] = x] = DOMAIN s
OBVIOUS

LEMMA PutTyped ==
    ASSUME NEW s \in Seq(Code), NEW i \in DOMAIN s,
           NEW fate \in {"open", "accepted", "exhausted", "expired", "replaced"}
    PROVE  /\ Put(s, i, fate) \in Seq(Code)
           /\ Len(Put(s, i, fate)) = Len(s)
           /\ DOMAIN Put(s, i, fate) = DOMAIN s
<1>1. s[i] \in Code
  OBVIOUS
<1>2. [s[i] EXCEPT !.fate = fate] \in Code
  BY <1>1 DEF Code
<1>3. Put(s, i, fate) = [s EXCEPT ![i] = [s[i] EXCEPT !.fate = fate]]
  BY DEF Put
<1> QED BY <1>2, <1>3, SeqExcept

LEMMA TypedStep == Typed /\ [Next]_vars => Typed'
<1> SUFFICES ASSUME Typed, [Next]_vars PROVE Typed'
  OBVIOUS
<1> USE DEF Typed
<1>1. ASSUME generateOtp PROVE Typed'
  <2> USE <1>1
  <2>1. CodeTypes'
    <3>1. now \in Nat /\ Len(codes) + 1 \in Nat
      BY LimitAssumption DEF CodeTypes
    <3> DEFINE base == IF otp = None THEN codes ELSE Put(codes, otp.code, "replaced")
               new == [at |-> now, fate |-> "open", wrong |-> 0]
    <3>2. base \in Seq(Code) /\ Len(base) = Len(codes)
      BY PutTyped DEF CodeTypes, Code
    <3>3. codes' = Append(base, new) /\ new \in Code
      BY <3>1 DEF generateOtp, Code
    <3>4. codes' \in Seq(Code) /\ DOMAIN codes' = 1 .. Len(codes) + 1
          /\ Len(codes') = Len(codes) + 1 /\ codes'[Len(codes) + 1] = new
      <4> HIDE DEF base, new
      <4> QED BY <3>2, <3>3
    <3>5. otp' \in [code: DOMAIN codes', attempts: 0 .. MAX_ATTEMPTS - 1, createdAt: Nat]
          /\ otp'.code = Len(codes) + 1
      BY <3>1, <3>4, LimitAssumption DEF generateOtp
    <3> QED BY <3>4, <3>5 DEF generateOtp, CodeTypes, Code
  <2>2. GrantTypes'
    BY DEF generateOtp, codeVars, GrantTypes
  <2>3. DirTypes'
    BY DEF generateOtp, dirVars, DirTypes
  <2>4. CopyTypes'
    BY DEF generateOtp, copyVars, CopyTypes
  <2>5. TaskTypes'
    BY DEF generateOtp, codeVars, TaskTypes, Ready
  <2> QED BY <2>1, <2>2, <2>3, <2>4, <2>5
<1>2. ASSUME verifyRight PROVE Typed'
  <2> USE <1>2
  <2>1. CodeTypes'
    <3>1. otp.code \in DOMAIN codes /\ otp' = None /\ codes' = Put(codes, otp.code, "accepted")
      BY DEF verifyRight, CodeTypes
    <3>2. codes' \in Seq(Code)
      BY <3>1, PutTyped DEF CodeTypes, Code
    <3> QED BY <3>1, <3>2 DEF CodeTypes, Code, verifyRight
  <2>2. GrantTypes'
    <3>1. now + REGISTRATION_TOKEN_TTL \in Nat
      BY LimitAssumption DEF CodeTypes
    <3>2. grants' \in Seq(Nat) /\ DOMAIN grants \subseteq DOMAIN grants'
      BY <3>1 DEF verifyRight, GrantTypes
    <3> QED BY <3>2 DEF verifyRight, GrantTypes
  <2>3. DirTypes'
    BY DEF verifyRight, dirVars, DirTypes
  <2>4. CopyTypes'
    BY DEF verifyRight, copyVars, CopyTypes
  <2>5. TaskTypes'
    <3>0. now + REGISTRATION_TOKEN_TTL \in Nat
      BY LimitAssumption DEF CodeTypes
    <3>1. DOMAIN grants \subseteq DOMAIN grants'
      BY <3>0 DEF verifyRight, GrantTypes
    <3> QED BY <3>1 DEF verifyRight, TaskTypes, Ready
  <2> QED BY <2>1, <2>2, <2>3, <2>4, <2>5
<1>3. ASSUME verifyWrong PROVE Typed'
  <2> USE <1>3
  <2>1. CodeTypes'
    <3> DEFINE last == otp.attempts + 1 >= MAX_ATTEMPTS
               c == [codes[otp.code] EXCEPT !.wrong = @ + 1, !.fate = IF last THEN "exhausted" ELSE @]
    <3>1. otp \in [code: DOMAIN codes, attempts: 0 .. MAX_ATTEMPTS - 1, createdAt: Nat]
          /\ codes[otp.code].fate = "open" /\ otp.code = Len(codes)
      BY DEF verifyWrong, CodeTypes
    <3>0. codes \in Seq(Code)
      BY DEF CodeTypes, Code
    <3>2. codes[otp.code] \in Code
      BY <3>0, <3>1
    <3>3. c \in Code /\ (~last => c.fate = "open")
      <4> HIDE DEF last
      <4>1. codes[otp.code].wrong + 1 \in Nat
        BY <3>2 DEF Code
      <4> QED BY <3>1, <3>2, <4>1 DEF Code
    <3>4. codes' = [codes EXCEPT ![otp.code] = c]
      BY <3>0, <3>1 DEF verifyWrong
    <3>5. codes' \in Seq(Code) /\ DOMAIN codes' = DOMAIN codes /\ Len(codes') = Len(codes)
          /\ codes'[otp.code] = c
      <4> HIDE DEF c
      <4> QED BY <3>1, <3>3, <3>4, SeqExcept DEF CodeTypes, Code
    <3>6. otp' = None \/ (/\ otp' \in [code: DOMAIN codes, attempts: 0 .. MAX_ATTEMPTS - 1, createdAt: Nat]
                          /\ otp'.code = otp.code /\ ~last)
      <4>1. otp' = IF last THEN None ELSE [otp EXCEPT !.attempts = @ + 1]
        BY DEF verifyWrong
      <4>2. CASE last
        BY <4>1, <4>2
      <4>3. CASE ~last
        <5>1. otp.attempts + 1 \in 0 .. MAX_ATTEMPTS - 1
          BY <3>1, <4>3, LimitAssumption
        <5>2. otp' = [otp EXCEPT !.attempts = otp.attempts + 1]
          BY <3>1, <4>1, <4>3
        <5> HIDE DEF last
        <5> QED BY <3>1, <4>3, <5>1, <5>2
      <4> QED BY <4>2, <4>3
    <3> HIDE DEF last, c
    <3> QED BY <3>1, <3>3, <3>5, <3>6 DEF verifyWrong, CodeTypes, Code
  <2>2. GrantTypes'
    BY DEF verifyWrong, codeVars, GrantTypes
  <2>3. DirTypes'
    BY DEF verifyWrong, dirVars, DirTypes
  <2>4. CopyTypes'
    BY DEF verifyWrong, copyVars, CopyTypes
  <2>5. TaskTypes'
    BY DEF verifyWrong, codeVars, TaskTypes, Ready
  <2> QED BY <2>1, <2>2, <2>3, <2>4, <2>5
<1>4. ASSUME OtpExpires PROVE Typed'
  <2> USE <1>4
  <2>1. CodeTypes'
    <3>1. otp.code \in DOMAIN codes /\ otp' = None /\ codes' = Put(codes, otp.code, "expired")
      BY DEF OtpExpires, CodeTypes
    <3>2. codes' \in Seq(Code)
      BY <3>1, PutTyped DEF CodeTypes, Code
    <3> QED BY <3>1, <3>2 DEF CodeTypes, Code, OtpExpires
  <2>2. GrantTypes'
    BY DEF OtpExpires, codeVars, GrantTypes
  <2>3. DirTypes'
    BY DEF OtpExpires, dirVars, DirTypes
  <2>4. CopyTypes'
    BY DEF OtpExpires, copyVars, CopyTypes
  <2>5. TaskTypes'
    BY DEF OtpExpires, codeVars, TaskTypes, Ready
  <2> QED BY <2>1, <2>2, <2>3, <2>4, <2>5
<1>5. ASSUME purgeExpired PROVE Typed'
  <2> USE <1>5
  <2>1. CodeTypes'
    BY DEF purgeExpired, codeVars, CodeTypes
  <2>2. GrantTypes'
    BY DEF purgeExpired, codeVars, GrantTypes
  <2>3. DirTypes'
    BY DEF purgeExpired, dirVars, DirTypes
  <2>4. CopyTypes'
    BY DEF purgeExpired, copyVars, CopyTypes
  <2>5. TaskTypes'
    BY DEF purgeExpired, codeVars, TaskTypes, Ready
  <2> QED BY <2>1, <2>2, <2>3, <2>4, <2>5
<1>6. ASSUME Tick PROVE Typed'
  <2> USE <1>6
  <2>1. CodeTypes'
    BY LimitAssumption DEF Tick, codeVars, CodeTypes
  <2>2. GrantTypes'
    BY DEF Tick, codeVars, GrantTypes
  <2>3. DirTypes'
    BY DEF Tick, dirVars, DirTypes
  <2>4. CopyTypes'
    BY DEF Tick, copyVars, CopyTypes
  <2>5. TaskTypes'
    BY DEF Tick, codeVars, TaskTypes, Ready
  <2> QED BY <2>1, <2>2, <2>3, <2>4, <2>5
<1>7. ASSUME Restart PROVE Typed'
  <2> USE <1>7
  <2>1. CodeTypes'
    BY DEF Restart, codeVars, CodeTypes
  <2>2. GrantTypes'
    BY DEF Restart, codeVars, GrantTypes
  <2>3. DirTypes'
    BY TokenTyped, Holder DEF Restart, DirTypes
  <2>4. CopyTypes'
    BY DEF Restart, copyVars, CopyTypes
  <2>5. TaskTypes'
    BY IdleTask DEF Restart, codeVars, TaskTypes, Ready
  <2> QED BY <2>1, <2>2, <2>3, <2>4, <2>5
<1>8. ASSUME NEW u \in User, setIdentity(u) PROVE Typed'
  <2> USE <1>8
  <2>1. CodeTypes'
    BY DEF setIdentity, codeVars, CodeTypes
  <2>2. GrantTypes'
    BY DEF setIdentity, codeVars, GrantTypes
  <2>3. DirTypes'
    BY TokenTyped DEF setIdentity, DirTypes, Row
  <2>4. CopyTypes'
    BY DEF setIdentity, copyVars, CopyTypes
  <2>5. TaskTypes'
    BY DEF setIdentity, codeVars, TaskTypes, Ready
  <2> QED BY <2>1, <2>2, <2>3, <2>4, <2>5
<1>9. ASSUME NEW u \in User, recover(u) PROVE Typed'
  <2> USE <1>9
  <2>1. CodeTypes'
    BY DEF recover, codeVars, CodeTypes
  <2>2. GrantTypes'
    BY DEF recover, codeVars, GrantTypes
  <2>3. DirTypes'
    BY TokenTyped DEF recover, DirTypes, Row
  <2>4. CopyTypes'
    BY DEF recover, copyVars, CopyTypes
  <2>5. TaskTypes'
    BY DEF recover, codeVars, TaskTypes, Ready
  <2> QED BY <2>1, <2>2, <2>3, <2>4, <2>5
<1>10. ASSUME NEW u \in User, Lapse(u) PROVE Typed'
  <2> USE <1>10
  <2>1. CodeTypes'
    BY DEF Lapse, codeVars, CodeTypes
  <2>2. GrantTypes'
    BY DEF Lapse, codeVars, GrantTypes
  <2>3. DirTypes'
    BY DEF Lapse, dirVars, DirTypes
  <2>4. CopyTypes'
    BY DEF Lapse, copyVars, CopyTypes
  <2>5. TaskTypes'
    BY DEF Lapse, codeVars, TaskTypes, Ready
  <2> QED BY <2>1, <2>2, <2>3, <2>4, <2>5
<1>11. ASSUME NEW h \in Handler, NEW g \in DOMAIN grants, NEW u \in User, Register(h, g, u) PROVE Typed'
  <2> USE <1>11
  <2>1. CodeTypes'
    BY DEF Register, codeVars, CodeTypes
  <2>2. GrantTypes'
    BY DEF Register, codeVars, GrantTypes
  <2>3. DirTypes'
    BY DEF Register, dirVars, DirTypes
  <2>4. CopyTypes'
    BY DEF Register, copyVars, CopyTypes
  <2>5. TaskTypes'
    <3>0. g \in Nat
      BY DEF GrantTypes
    <3> DEFINE t == [Idle EXCEPT !.pc = "claim", !.grant = g, !.user = u]
    <3>1. t \in Task /\ Ready(t)
      BY <3>0, IdleTask DEF Register, Idle, Task, Ready, Steps, Token, GrantTypes
    <3>2. task' = [task EXCEPT ![h] = t] /\ grants' = grants
      BY DEF Register, codeVars
    <3> HIDE DEF t
    <3> QED BY <3>1, <3>2, TaskChanges
  <2> QED BY <2>1, <2>2, <2>3, <2>4, <2>5
<1>12. ASSUME NEW h \in Handler, NEW u \in User, NEW n \in Number, UpdateToken(h, u, n) PROVE Typed'
  <2> USE <1>12
  <2>1. CodeTypes'
    BY DEF UpdateToken, codeVars, CodeTypes
  <2>2. GrantTypes'
    BY DEF UpdateToken, codeVars, GrantTypes
  <2>3. DirTypes'
    BY DEF UpdateToken, dirVars, DirTypes
  <2>4. CopyTypes'
    BY DEF UpdateToken, copyVars, CopyTypes
  <2>5. TaskTypes'
    <3> DEFINE current == IF byUser[u] # None THEN byUser[u] ELSE TokenOf(u)
               owner == IF byToken[n] # None THEN byToken[n] ELSE HolderOf(n)
               t == [Idle EXCEPT !.pc = IF owner \in {None, u} THEN "replace" ELSE "reclaim",
                           !.user = u, !.number = n, !.old = current,
                           !.owner = IF owner = u THEN None ELSE owner]
    <3>1. current \in Token \union {None} /\ owner \in User \union {None}
      BY TokenTyped, Holder DEF DirTypes
    <3>2. t \in Task /\ Ready(t)
      <4> HIDE DEF current, owner
      <4> QED BY <3>1 DEF Idle, Task, Ready, Steps, Token
    <3>3. task' = [task EXCEPT ![h] = t] /\ grants' = grants
      BY DEF UpdateToken, codeVars
    <3> HIDE DEF t
    <3> QED BY <3>2, <3>3, TaskChanges
  <2> QED BY <2>1, <2>2, <2>3, <2>4, <2>5
<1>13. ASSUME NEW h \in Handler, NEW u \in User, Delete(h, u) PROVE Typed'
  <2> USE <1>13
  <2>1. CodeTypes'
    BY DEF Delete, codeVars, CodeTypes
  <2>2. GrantTypes'
    BY DEF Delete, codeVars, GrantTypes
  <2>3. DirTypes'
    BY DEF Delete, dirVars, DirTypes
  <2>4. CopyTypes'
    BY DEF Delete, copyVars, CopyTypes
  <2>5. TaskTypes'
    <3> DEFINE t == [Idle EXCEPT !.pc = "delete", !.user = u]
    <3>1. t \in Task /\ Ready(t)
      BY IdleTask DEF Delete, Idle, Task, Ready, Steps, Token, GrantTypes
    <3>2. task' = [task EXCEPT ![h] = t] /\ grants' = grants
      BY DEF Delete, codeVars
    <3> HIDE DEF t
    <3> QED BY <3>1, <3>2, TaskChanges
  <2> QED BY <2>1, <2>2, <2>3, <2>4, <2>5
<1>14. ASSUME NEW h \in Handler, NEW u \in User, Dial(h, u) PROVE Typed'
  <2> USE <1>14
  <2>1. CodeTypes'
    BY DEF Dial, codeVars, CodeTypes
  <2>2. GrantTypes'
    BY DEF Dial, codeVars, GrantTypes
  <2>3. DirTypes'
    BY DEF Dial, dirVars, DirTypes
  <2>4. CopyTypes'
    BY DEF Dial, copyVars, CopyTypes
  <2>5. TaskTypes'
    <3> DEFINE t == [Idle EXCEPT !.pc = "connect", !.user = u]
    <3>1. t \in Task /\ Ready(t)
      BY IdleTask DEF Dial, Idle, Task, Ready, Steps, Token, GrantTypes
    <3>2. task' = [task EXCEPT ![h] = t] /\ grants' = grants
      BY DEF Dial, codeVars
    <3> HIDE DEF t
    <3> QED BY <3>1, <3>2, TaskChanges
  <2> QED BY <2>1, <2>2, <2>3, <2>4, <2>5
<1>15. ASSUME NEW h \in Handler, NEW u \in User, NEW f \in Frame, Route(h, u, f) PROVE Typed'
  <2> USE <1>15
  <2>1. CodeTypes'
    BY DEF Route, codeVars, CodeTypes
  <2>2. GrantTypes'
    BY DEF Route, codeVars, GrantTypes
  <2>3. DirTypes'
    BY DEF Route, dirVars, DirTypes
  <2>4. CopyTypes'
    BY DEF Route, copyVars, CopyTypes
  <2>5. TaskTypes'
    <3> DEFINE t == [Idle EXCEPT !.pc = "enqueue", !.user = u, !.frame = f]
    <3>1. t \in Task /\ Ready(t)
      BY IdleTask DEF Route, Idle, Task, Ready, Steps, Token, GrantTypes
    <3>2. task' = [task EXCEPT ![h] = t] /\ grants' = grants
      BY DEF Route, codeVars
    <3> HIDE DEF t
    <3> QED BY <3>1, <3>2, TaskChanges
  <2> QED BY <2>1, <2>2, <2>3, <2>4, <2>5
<1>16. ASSUME NEW h \in Handler, claimAccount(h) PROVE Typed'
  <2> USE <1>16
  <2>1. CodeTypes'
    BY DEF claimAccount, codeVars, CodeTypes
  <2>2. GrantTypes'
    <3>0. task[h] \in Task /\ Ready(task[h])
      BY DEF TaskTypes
    <3>1. task[h].user \in User /\ task[h].grant \in DOMAIN grants /\ now \in Nat
      BY <3>0 DEF claimAccount, Ready, CodeTypes
    <3> QED BY <3>1 DEF claimAccount, codeVars, GrantTypes
  <2>3. DirTypes'
    <3>0. task[h] \in Task /\ Ready(task[h])
      BY DEF TaskTypes
    <3>1. task[h].user \in User /\ pending + 1 \in 1 .. MaxPending
      BY <3>0, LimitAssumption DEF claimAccount, Ready, DirTypes
    <3>3. [token |-> pending + 1, olm |-> FALSE, legacy |-> FALSE, pin |-> FALSE] \in Row
      BY <3>1 DEF Row, Token
    <3>4. row' \in [User -> Row \union {None}]
      BY <3>1, <3>3 DEF claimAccount, DirTypes
    <3>5. pending' \in 0 .. MaxPending
      BY <3>1, LimitAssumption DEF claimAccount, DirTypes
    <3>2. row' \in [User -> Row \union {None}] /\ pending' \in 0 .. MaxPending
      BY <3>4, <3>5
    <3>6. overtaken' \subseteq User
      BY <3>1 DEF claimAccount, DirTypes
    <3> QED BY <3>2, <3>6 DEF claimAccount, DirTypes
  <2>4. CopyTypes'
    BY DEF claimAccount, copyVars, CopyTypes
  <2>5. TaskTypes'
    <3>0. task[h] \in Task /\ Ready(task[h])
      BY DEF TaskTypes
    <3>1. CASE Done(h)
      BY <3>1, DoneTyped DEF claimAccount, codeVars
    <3>2. CASE task' = [task EXCEPT ![h].pc = "cacheOwn", ![h].number = pending + 1]
      <4> DEFINE t == [task[h] EXCEPT !.pc = "cacheOwn", !.number = pending + 1]
      <4>0. pending < MaxPending => pending + 1 \in Token
        BY LimitAssumption DEF DirTypes, Token
      <4>1. t \in Task /\ Ready(t)
        BY <3>0, <4>0 DEF claimAccount, Task, Ready, Steps
      <4>2. task' = [task EXCEPT ![h] = t] /\ grants' = grants
        BY <3>0, <3>2 DEF claimAccount, codeVars, Task
      <4> HIDE DEF t
      <4> QED BY <4>1, <4>2, TaskChanges
    <3> QED BY <3>1, <3>2 DEF claimAccount, Goto
  <2> QED BY <2>1, <2>2, <2>3, <2>4, <2>5
<1>17. ASSUME NEW h \in Handler, replaceDirectoryToken(h) PROVE Typed'
  <2> USE <1>17
  <2>1. CodeTypes'
    BY DEF replaceDirectoryToken, codeVars, CodeTypes
  <2>2. GrantTypes'
    BY DEF replaceDirectoryToken, codeVars, GrantTypes
  <2>3. DirTypes'
    <3>0. task[h] \in Task /\ Ready(task[h])
      BY DEF TaskTypes
    <3>1. task[h].user \in User /\ task[h].number \in Token
      BY <3>0 DEF replaceDirectoryToken, Ready
    <3>2. row' \in [User -> Row \union {None}]
      BY <3>1 DEF replaceDirectoryToken, DirTypes, Row
    <3>3. overtaken' \subseteq User
      BY <3>1 DEF replaceDirectoryToken, DirTypes, Overtaking
    <3> QED BY <3>2, <3>3 DEF replaceDirectoryToken, DirTypes
  <2>4. CopyTypes'
    BY DEF replaceDirectoryToken, copyVars, CopyTypes
  <2>5. TaskTypes'
    <3>0. task[h] \in Task /\ Ready(task[h])
      BY DEF TaskTypes
    <3>1. CASE Done(h)
      BY <3>1, DoneTyped DEF replaceDirectoryToken, codeVars
    <3>2. CASE task' = [task EXCEPT ![h].pc = "cacheOwn"]
      <4> DEFINE t == [task[h] EXCEPT !.pc = "cacheOwn"]
      <4>0. pending < MaxPending => pending + 1 \in Token
        BY LimitAssumption DEF DirTypes, Token
      <4>1. t \in Task /\ Ready(t)
        BY <3>0, <4>0 DEF replaceDirectoryToken, Task, Ready, Steps
      <4>2. task' = [task EXCEPT ![h] = t] /\ grants' = grants
        BY <3>0, <3>2 DEF replaceDirectoryToken, codeVars, Task
      <4> HIDE DEF t
      <4> QED BY <4>1, <4>2, TaskChanges
    <3> QED BY <3>1, <3>2 DEF replaceDirectoryToken, Goto
  <2> QED BY <2>1, <2>2, <2>3, <2>4, <2>5
<1>18. ASSUME NEW h \in Handler, reclaimFromLegacyAccount(h) PROVE Typed'
  <2> USE <1>18
  <2>1. CodeTypes'
    BY DEF reclaimFromLegacyAccount, codeVars, CodeTypes
  <2>2. GrantTypes'
    BY DEF reclaimFromLegacyAccount, codeVars, GrantTypes
  <2>3. DirTypes'
    <3>0. task[h] \in Task /\ Ready(task[h])
      BY DEF TaskTypes
    <3> DEFINE u == task[h].user
               n == task[h].number
               v == task[h].owner
    <3>1. u \in User /\ v \in User /\ n \in Token /\ pending + 1 \in 1 .. MaxPending
      BY <3>0, LimitAssumption DEF reclaimFromLegacyAccount, Ready, DirTypes
    <3>2. CASE UNCHANGED <<row, pending, overtaken>>
      BY <3>2 DEF reclaimFromLegacyAccount, DirTypes
    <3>3. CASE /\ TokenOf(v) = n /\ row[u] # None /\ pending' = pending + 1
               /\ row' = [row EXCEPT ![v].token = pending', ![u].token = n]
               /\ overtaken' = Overtaking({u, v})
      <4>1. row[v] \in Row /\ row[u] \in Row
        BY <3>1, <3>3, NoneAssumption DEF TokenOf, DirTypes
      <4>2. row' \in [User -> Row \union {None}]
        <5> HIDE DEF u, n, v
        <5>1. pending' \in Token
          BY <3>1, <3>3 DEF Token
        <5>2. [row EXCEPT ![v].token = pending'] \in [User -> Row \union {None}]
          BY <5>1, <4>1, <3>1 DEF DirTypes, Row
        <5>3. [row EXCEPT ![v].token = pending'][u] \in Row
          BY <5>1, <4>1, <3>1 DEF DirTypes, Row
        <5> QED BY <5>2, <5>3, <3>1, <3>3 DEF Row
      <4>3. overtaken' \subseteq User
        BY <3>1, <3>3 DEF Overtaking, DirTypes
      <4>4. pending' \in 0 .. MaxPending
        BY <3>1, <3>3, LimitAssumption
      <4> QED BY <4>2, <4>3, <4>4 DEF reclaimFromLegacyAccount, DirTypes
    <3> QED BY <3>2, <3>3 DEF reclaimFromLegacyAccount
  <2>4. CopyTypes'
    BY DEF reclaimFromLegacyAccount, copyVars, CopyTypes
  <2>5. TaskTypes'
    <3>0. task[h] \in Task /\ Ready(task[h])
      BY DEF TaskTypes
    <3>1. CASE Done(h)
      BY <3>1, DoneTyped DEF reclaimFromLegacyAccount, codeVars
    <3>2. CASE task' = [task EXCEPT ![h].pc = "cacheOwner", ![h].released = pending + 1]
      <4> DEFINE t == [task[h] EXCEPT !.pc = "cacheOwner", !.released = pending + 1]
      <4>0. pending < MaxPending => pending + 1 \in Token
        BY LimitAssumption DEF DirTypes, Token
      <4>1. t \in Task /\ Ready(t)
        BY <3>0, <4>0 DEF reclaimFromLegacyAccount, Task, Ready, Steps
      <4>2. task' = [task EXCEPT ![h] = t] /\ grants' = grants
        BY <3>0, <3>2 DEF reclaimFromLegacyAccount, codeVars, Task
      <4> HIDE DEF t
      <4> QED BY <4>1, <4>2, TaskChanges
    <3> QED BY <3>1, <3>2 DEF reclaimFromLegacyAccount, Goto
  <2> QED BY <2>1, <2>2, <2>3, <2>4, <2>5
<1>19. ASSUME NEW h \in Handler, CacheOwner(h) PROVE Typed'
  <2> USE <1>19
  <2>1. CodeTypes'
    BY DEF CacheOwner, codeVars, CodeTypes
  <2>2. GrantTypes'
    BY DEF CacheOwner, codeVars, GrantTypes
  <2>3. DirTypes'
    <3>0. task[h] \in Task /\ Ready(task[h])
      BY DEF TaskTypes
    <3>1. task[h].owner \in User /\ task[h].released \in Token
      BY <3>0 DEF CacheOwner, Ready
    <3> QED BY <3>1 DEF CacheOwner, Cached, With, Unless, DirTypes
  <2>4. CopyTypes'
    BY DEF CacheOwner, copyVars, CopyTypes
  <2>5. TaskTypes'
    <3>0. task[h] \in Task /\ Ready(task[h])
      BY DEF TaskTypes
    <3> DEFINE t == [task[h] EXCEPT !.pc = "cacheOwn"]
    <3>1. t \in Task /\ Ready(t)
      BY <3>0 DEF CacheOwner, Task, Ready, Steps, Token
    <3>2. task' = [task EXCEPT ![h] = t] /\ grants' = grants
      BY <3>0 DEF CacheOwner, Goto, codeVars, Task
    <3> HIDE DEF t
    <3> QED BY <3>1, <3>2, TaskChanges
  <2> QED BY <2>1, <2>2, <2>3, <2>4, <2>5
<1>20. ASSUME NEW h \in Handler, CacheOwn(h) PROVE Typed'
  <2> USE <1>20
  <2>1. CodeTypes'
    BY DEF CacheOwn, codeVars, CodeTypes
  <2>2. GrantTypes'
    BY DEF CacheOwn, codeVars, GrantTypes
  <2>3. DirTypes'
    <3>0. task[h] \in Task /\ Ready(task[h])
      BY DEF TaskTypes
    <3>1. task[h].user \in User /\ task[h].number \in Token
      BY <3>0 DEF CacheOwn, Ready
    <3> QED BY <3>1 DEF CacheOwn, Cached, With, Unless, DirTypes
  <2>4. CopyTypes'
    BY DEF CacheOwn, copyVars, CopyTypes
  <2>5. TaskTypes'
    BY DoneTyped DEF CacheOwn, codeVars
  <2> QED BY <2>1, <2>2, <2>3, <2>4, <2>5
<1>21. ASSUME NEW h \in Handler, deleteDurableState(h) PROVE Typed'
  <2> USE <1>21
  <2>1. CodeTypes'
    BY DEF deleteDurableState, codeVars, CodeTypes
  <2>2. GrantTypes'
    BY DEF deleteDurableState, codeVars, GrantTypes
  <2>3. DirTypes'
    <3>0. task[h] \in Task /\ Ready(task[h])
      BY DEF TaskTypes
    <3>1. task[h].user \in User
      BY <3>0 DEF deleteDurableState, Ready
    <3> QED BY <3>1 DEF deleteDurableState, DirTypes, Overtaking
  <2>4. CopyTypes'
    BY DEF deleteDurableState, copyVars, CopyTypes
  <2>5. TaskTypes'
    <3>0. task[h] \in Task /\ Ready(task[h])
      BY DEF TaskTypes
    <3>1. CASE Done(h)
      BY <3>1, DoneTyped DEF deleteDurableState, codeVars
    <3>2. CASE task' = [task EXCEPT ![h].pc = "registry", ![h].attempt = 1]
      <4> DEFINE t == [task[h] EXCEPT !.pc = "registry", !.attempt = 1]
      <4>0. pending < MaxPending => pending + 1 \in Token
        BY LimitAssumption DEF DirTypes, Token
      <4>1. t \in Task /\ Ready(t)
        BY <3>0, <4>0 DEF deleteDurableState, Task, Ready, Steps
      <4>2. task' = [task EXCEPT ![h] = t] /\ grants' = grants
        BY <3>0, <3>2 DEF deleteDurableState, codeVars, Task
      <4> HIDE DEF t
      <4> QED BY <4>1, <4>2, TaskChanges
    <3> QED BY <3>1, <3>2 DEF deleteDurableState, Goto
  <2> QED BY <2>1, <2>2, <2>3, <2>4, <2>5
<1>22. ASSUME NEW h \in Handler, removeUser(h) PROVE Typed'
  <2> USE <1>22
  <2>1. CodeTypes'
    BY DEF removeUser, codeVars, CodeTypes
  <2>2. GrantTypes'
    BY DEF removeUser, codeVars, GrantTypes
  <2>3. DirTypes'
    BY DEF removeUser, DirTypes, Unless
  <2>4. CopyTypes'
    BY DEF removeUser, copyVars, CopyTypes
  <2>5. TaskTypes'
    <3>0. task[h] \in Task /\ Ready(task[h])
      BY DEF TaskTypes
    <3> DEFINE t == [task[h] EXCEPT !.pc = "close"]
    <3>1. t \in Task /\ Ready(t)
      BY <3>0 DEF removeUser, Task, Ready, Steps, Token
    <3>2. task' = [task EXCEPT ![h] = t] /\ grants' = grants
      BY <3>0 DEF removeUser, Goto, codeVars, Task
    <3> HIDE DEF t
    <3> QED BY <3>1, <3>2, TaskChanges
  <2> QED BY <2>1, <2>2, <2>3, <2>4, <2>5
<1>23. ASSUME NEW h \in Handler, closeUserSocket(h) PROVE Typed'
  <2> USE <1>23
  <2>1. CodeTypes'
    BY DEF closeUserSocket, codeVars, CodeTypes
  <2>2. GrantTypes'
    BY DEF closeUserSocket, codeVars, GrantTypes
  <2>3. DirTypes'
    BY DEF closeUserSocket, dirVars, DirTypes
  <2>4. CopyTypes'
    BY DEF closeUserSocket, copyVars, CopyTypes
  <2>5. TaskTypes'
    <3>0. task[h] \in Task /\ Ready(task[h])
      BY DEF TaskTypes
    <3>1. \A x \in Handler : task'[x] \in Task /\ Ready(task[x])'
      BY <3>0, IdleTask DEF closeUserSocket, TaskTypes, codeVars, Task, Steps, Ready
    <3> QED BY <3>1 DEF closeUserSocket, TaskTypes
  <2> QED BY <2>1, <2>2, <2>3, <2>4, <2>5
<1>24. ASSUME NEW h \in Handler, purgeItems(h) PROVE Typed'
  <2> USE <1>24
  <2>1. CodeTypes'
    BY DEF purgeItems, codeVars, CodeTypes
  <2>2. GrantTypes'
    BY DEF purgeItems, codeVars, GrantTypes
  <2>3. DirTypes'
    BY DEF purgeItems, dirVars, DirTypes
  <2>4. CopyTypes'
    BY DEF purgeItems, copyVars, CopyTypes
  <2>5. TaskTypes'
    <3>0. task[h] \in Task /\ Ready(task[h])
      BY DEF TaskTypes
    <3> DEFINE t == [task[h] EXCEPT !.pc = "unindex"]
    <3>1. t \in Task /\ Ready(t)
      BY <3>0 DEF purgeItems, Task, Ready, Steps, Token
    <3>2. task' = [task EXCEPT ![h] = t] /\ grants' = grants
      BY <3>0 DEF purgeItems, Goto, codeVars, Task
    <3> HIDE DEF t
    <3> QED BY <3>1, <3>2, TaskChanges
  <2> QED BY <2>1, <2>2, <2>3, <2>4, <2>5
<1>25. ASSUME NEW h \in Handler, purgeIndex(h) PROVE Typed'
  <2> USE <1>25
  <2>1. CodeTypes'
    BY DEF purgeIndex, codeVars, CodeTypes
  <2>2. GrantTypes'
    BY DEF purgeIndex, codeVars, GrantTypes
  <2>3. DirTypes'
    BY DEF purgeIndex, dirVars, DirTypes
  <2>4. CopyTypes'
    BY DEF purgeIndex, copyVars, CopyTypes
  <2>5. TaskTypes'
    BY DoneTyped DEF purgeIndex, codeVars
  <2> QED BY <2>1, <2>2, <2>3, <2>4, <2>5
<1>26. ASSUME NEW h \in Handler, PurgeFails(h) PROVE Typed'
  <2> USE <1>26
  <2>1. CodeTypes'
    BY DEF PurgeFails, codeVars, CodeTypes
  <2>2. GrantTypes'
    BY DEF PurgeFails, codeVars, GrantTypes
  <2>3. DirTypes'
    BY DEF PurgeFails, dirVars, DirTypes
  <2>4. CopyTypes'
    BY DEF PurgeFails, copyVars, CopyTypes
  <2>5. TaskTypes'
    <3>0. task[h] \in Task /\ Ready(task[h])
      BY DEF TaskTypes
    <3>1. CASE Done(h)
      BY <3>1, DoneTyped DEF PurgeFails, codeVars
    <3>2. CASE task' = [task EXCEPT ![h].pc = "registry", ![h].attempt = @ + 1]
      <4> DEFINE a == task[h].attempt + 1
                 t == [task[h] EXCEPT !.pc = "registry", !.attempt = a]
      <4>1. a \in Nat /\ task[h].user \in User
        BY <3>0 DEF PurgeFails, Task, Ready
      <4>2. task' = [task EXCEPT ![h] = t] /\ grants' = grants
        BY <3>0, <3>2 DEF PurgeFails, codeVars, Task
      <4>3. t \in Task
        <5> HIDE DEF a
        <5> QED BY <3>0, <4>1 DEF Task, Steps
      <4>4. t.pc = "registry" /\ t.user = task[h].user
        <5> HIDE DEF a
        <5> QED BY <3>0 DEF Task
      <4>5. Ready(t)
        <5> HIDE DEF t
        <5> QED BY <4>1, <4>4 DEF Ready
      <4> HIDE DEF t
      <4> QED BY <4>2, <4>3, <4>5, TaskChanges
    <3> QED BY <3>1, <3>2 DEF PurgeFails, Done
  <2> QED BY <2>1, <2>2, <2>3, <2>4, <2>5
<1>27. ASSUME NEW h \in Handler, Enqueue(h) PROVE Typed'
  <2> USE <1>27
  <2>1. CodeTypes'
    BY DEF Enqueue, codeVars, CodeTypes
  <2>2. GrantTypes'
    BY DEF Enqueue, codeVars, GrantTypes
  <2>3. DirTypes'
    BY DEF Enqueue, dirVars, DirTypes
  <2>4. CopyTypes'
    <3>0. task[h] \in Task /\ Ready(task[h])
      BY DEF TaskTypes
    <3>1. task[h].frame \in Frame
      BY <3>0 DEF Enqueue, Ready
    <3> QED BY <3>1 DEF Enqueue, CopyTypes
  <2>5. TaskTypes'
    BY DoneTyped DEF Enqueue, codeVars
  <2> QED BY <2>1, <2>2, <2>3, <2>4, <2>5
<1>28. ASSUME NEW h \in Handler, addConnection(h) PROVE Typed'
  <2> USE <1>28
  <2>1. CodeTypes'
    BY DEF addConnection, codeVars, CodeTypes
  <2>2. GrantTypes'
    BY DEF addConnection, codeVars, GrantTypes
  <2>3. DirTypes'
    BY DEF addConnection, dirVars, DirTypes
  <2>4. CopyTypes'
    BY DEF addConnection, copyVars, CopyTypes
  <2>5. TaskTypes'
    <3>0. task[h] \in Task /\ Ready(task[h])
      BY DEF TaskTypes
    <3>1. \A x \in Handler : task'[x] \in Task /\ Ready(task[x])'
      BY <3>0, IdleTask DEF addConnection, TaskTypes, codeVars, Task, Steps, Ready
    <3> QED BY <3>1 DEF addConnection, TaskTypes
  <2> QED BY <2>1, <2>2, <2>3, <2>4, <2>5
<1>29. ASSUME NEW h \in Handler, credentialWatch(h) PROVE Typed'
  <2> USE <1>29
  <2>1. CodeTypes'
    BY DEF credentialWatch, codeVars, CodeTypes
  <2>2. GrantTypes'
    BY DEF credentialWatch, codeVars, GrantTypes
  <2>3. DirTypes'
    BY DEF credentialWatch, dirVars, DirTypes
  <2>4. CopyTypes'
    BY DEF credentialWatch, copyVars, CopyTypes
  <2>5. TaskTypes'
    BY DoneTyped DEF credentialWatch, codeVars
  <2> QED BY <2>1, <2>2, <2>3, <2>4, <2>5
<1>30. ASSUME NEW h \in Handler, HangUp(h) PROVE Typed'
  <2> USE <1>30
  <2>1. CodeTypes'
    BY DEF HangUp, codeVars, CodeTypes
  <2>2. GrantTypes'
    BY DEF HangUp, codeVars, GrantTypes
  <2>3. DirTypes'
    BY DEF HangUp, dirVars, DirTypes
  <2>4. CopyTypes'
    BY DEF HangUp, copyVars, CopyTypes
  <2>5. TaskTypes'
    BY DoneTyped DEF HangUp, codeVars
  <2> QED BY <2>1, <2>2, <2>3, <2>4, <2>5
<1>31. CASE UNCHANGED vars
  BY <1>31 DEF vars, codeVars, dirVars, copyVars,
               CodeTypes, GrantTypes, DirTypes, CopyTypes, TaskTypes, Ready
<1> QED
  BY <1>1, <1>2, <1>3, <1>4, <1>5, <1>6, <1>7, <1>8, <1>9, <1>10, <1>11,
     <1>12, <1>13, <1>14, <1>15, <1>16, <1>17, <1>18, <1>19, <1>20, <1>21,
     <1>22, <1>23, <1>24, <1>25, <1>26, <1>27, <1>28, <1>29, <1>30, <1>31
     DEF Next, Arrive, Continue


\* Only these steps touch the table of users.
LEMMA RowChange ==
    [Next]_vars =>
        \/ UNCHANGED <<row, reached>>
        \/ \E h \in Handler : claimAccount(h) \/ replaceDirectoryToken(h)
                              \/ reclaimFromLegacyAccount(h) \/ deleteDurableState(h)
        \/ \E w \in User : setIdentity(w) \/ recover(w)
<1> SUFFICES ASSUME [Next]_vars,
                    \A h \in Handler : ~(claimAccount(h) \/ replaceDirectoryToken(h)
                                         \/ reclaimFromLegacyAccount(h) \/ deleteDurableState(h)),
                    \A w \in User : ~(setIdentity(w) \/ recover(w))
             PROVE  UNCHANGED <<row, reached>>
  OBVIOUS
<1>1. CASE generateOtp \/ verifyRight \/ verifyWrong \/ OtpExpires \/ purgeExpired
           \/ Tick \/ Restart \/ UNCHANGED vars
  BY <1>1 DEF generateOtp, verifyRight, verifyWrong, OtpExpires, purgeExpired, Tick, Restart,
              vars, dirVars
<1>2. ASSUME NEW h \in Handler, Arrive(h) PROVE UNCHANGED <<row, reached>>
  BY <1>2 DEF Arrive, Register, UpdateToken, Delete, Dial, Route, dirVars
<1>3. ASSUME NEW h \in Handler, Continue(h) PROVE UNCHANGED <<row, reached>>
  <2>1. CASE CacheOwner(h) \/ CacheOwn(h) \/ removeUser(h) \/ closeUserSocket(h)
             \/ purgeItems(h) \/ purgeIndex(h)
    BY <2>1 DEF CacheOwner, CacheOwn, removeUser, closeUserSocket, purgeItems, purgeIndex, dirVars
  <2>2. CASE Enqueue(h) \/ addConnection(h) \/ credentialWatch(h)
    BY <2>2 DEF Enqueue, addConnection, credentialWatch, dirVars
  <2> QED BY <1>3, <2>1, <2>2 DEF Continue
<1>4. ASSUME NEW h \in Handler, PurgeFails(h) \/ HangUp(h) PROVE UNCHANGED <<row, reached>>
  BY <1>4 DEF PurgeFails, HangUp, dirVars
<1>5. ASSUME NEW u \in User, Lapse(u) PROVE UNCHANGED <<row, reached>>
  BY <1>5 DEF Lapse, dirVars
<1> QED BY <1>1, <1>2, <1>3, <1>4, <1>5 DEF Next

LEMMA ReachedTyped ==
    ASSUME Typed, reached \subseteq User, [Next]_vars PROVE reached' \subseteq User
<1>1. ASSUME NEW h \in Handler, claimAccount(h) \/ replaceDirectoryToken(h)
                               \/ reclaimFromLegacyAccount(h) \/ deleteDurableState(h)
      PROVE  reached' \subseteq reached
  BY <1>1 DEF claimAccount, replaceDirectoryToken, reclaimFromLegacyAccount, deleteDurableState
<1>2. ASSUME NEW u \in User, setIdentity(u) \/ recover(u) PROVE reached' \subseteq reached \union {u}
  BY <1>2 DEF setIdentity, recover
<1> QED BY RowChange, <1>1, <1>2

\* Every state the server reaches has the types of TypeOK, and every request
\* between two of its steps holds what its next step reads.
THEOREM AccountTypes == Spec => []TypeOK
<1>1. Spec => []Typed
  BY InitTyped, TypedStep, PTL DEF Spec
<1>2. Init => reached \subseteq User
  BY DEF Init
<1>3. Typed /\ reached \subseteq User /\ [Next]_vars => (reached \subseteq User)'
  BY ReachedTyped
<1>4. Spec => [](reached \subseteq User)
  BY <1>1, <1>2, <1>3, PTL DEF Spec
<1> QED BY <1>1, <1>4, TypedIsTypeOK, PTL

----------------------------------------------------------------------------
(* Codes.  The stored code carries the time and the failures of the last   *)
(* code; where none is stored, the last one was used up, or is old enough: *)
(* its time to live is no shorter than the cooldown.                       *)

Stored == otp # None => /\ otp.createdAt = codes[otp.code].at
                        /\ otp.attempts = codes[otp.code].wrong
Spent == otp = None /\ Len(codes) > 0 =>
            \/ codes[Len(codes)].fate \in {"accepted", "exhausted"}
            \/ now - codes[Len(codes)].at >= COOLDOWN
CodesInv == CodesPaced /\ Stored /\ Spent

\* Only these steps touch the codes or the clock.
LEMMA CodesChange ==
    [Next]_vars => \/ generateOtp \/ verifyRight \/ OtpExpires \/ verifyWrong \/ Tick
                   \/ UNCHANGED <<now, otp, codes>>
<1> SUFFICES ASSUME [Next]_vars,
                    ~(generateOtp \/ verifyRight \/ OtpExpires \/ verifyWrong \/ Tick)
             PROVE  UNCHANGED <<now, otp, codes>>
  OBVIOUS
<1>1. CASE purgeExpired \/ Restart \/ UNCHANGED vars
  BY <1>1 DEF purgeExpired, Restart, vars, codeVars
<1>2. ASSUME NEW h \in Handler, Arrive(h) PROVE UNCHANGED <<now, otp, codes>>
  BY <1>2 DEF Arrive, Register, UpdateToken, Delete, Dial, Route, codeVars
<1>3. ASSUME NEW h \in Handler, Continue(h) PROVE UNCHANGED <<now, otp, codes>>
  <2>1. CASE claimAccount(h) \/ replaceDirectoryToken(h) \/ reclaimFromLegacyAccount(h)
             \/ CacheOwner(h) \/ CacheOwn(h)
    BY <2>1 DEF claimAccount, replaceDirectoryToken, reclaimFromLegacyAccount,
                CacheOwner, CacheOwn, codeVars
  <2>2. CASE deleteDurableState(h) \/ removeUser(h) \/ closeUserSocket(h)
             \/ purgeItems(h) \/ purgeIndex(h)
    BY <2>2 DEF deleteDurableState, removeUser, closeUserSocket, purgeItems, purgeIndex, codeVars
  <2>3. CASE Enqueue(h) \/ addConnection(h) \/ credentialWatch(h)
    BY <2>3 DEF Enqueue, addConnection, credentialWatch, codeVars
  <2> QED BY <1>3, <2>1, <2>2, <2>3 DEF Continue
<1>4. ASSUME NEW h \in Handler, PurgeFails(h) \/ HangUp(h) PROVE UNCHANGED <<now, otp, codes>>
  BY <1>4 DEF PurgeFails, HangUp, codeVars
<1>5. ASSUME NEW u \in User, setIdentity(u) \/ recover(u) \/ Lapse(u)
      PROVE  UNCHANGED <<now, otp, codes>>
  BY <1>5 DEF setIdentity, recover, Lapse, codeVars
<1> QED BY <1>1, <1>2, <1>3, <1>4, <1>5 DEF Next

LEMMA CodesStep == Typed /\ CodesInv /\ [Next]_vars => CodesInv'
<1> SUFFICES ASSUME Typed, CodesInv, [Next]_vars PROVE CodesInv'
  OBVIOUS
<1> DEFINE n == Len(codes)
<1>0. /\ codes \in Seq(Code) /\ n \in Nat /\ now \in Nat
      /\ \A i \in 1 .. n : codes[i] \in Code /\ codes[i].at \in Nat /\ codes[i].wrong \in Nat
      /\ COOLDOWN \in Nat /\ OTP_TTL \in Nat /\ COOLDOWN <= OTP_TTL /\ MAX_ATTEMPTS \in Nat \ {0}
  <2>1. codes \in Seq(Code)
    BY DEF Typed, CodeTypes, Code
  <2>2. \A i \in 1 .. n : codes[i] \in Code
    BY <2>1
  <2>3. n \in Nat /\ now \in Nat
    BY <2>1, LimitAssumption DEF Typed, CodeTypes
  <2>4. \A i \in 1 .. n : codes[i].at \in Nat /\ codes[i].wrong \in Nat
    BY <2>2 DEF Code
  <2>5. COOLDOWN \in Nat /\ OTP_TTL \in Nat /\ COOLDOWN <= OTP_TTL /\ MAX_ATTEMPTS \in Nat \ {0}
    BY LimitAssumption
  <2> HIDE DEF n
  <2> QED BY <2>1, <2>2, <2>3, <2>4, <2>5
<1>a. ASSUME otp # None
      PROVE  /\ otp.code = n /\ n \in 1 .. n /\ codes[n].fate = "open"
             /\ otp.createdAt = codes[n].at /\ otp.attempts = codes[n].wrong
             /\ codes[n].wrong < MAX_ATTEMPTS
             /\ otp \in [code: DOMAIN codes, attempts: 0 .. MAX_ATTEMPTS - 1, createdAt: Nat]
  <2>1. /\ otp \in [code: DOMAIN codes, attempts: 0 .. MAX_ATTEMPTS - 1, createdAt: Nat]
        /\ otp.code = n /\ codes[otp.code].fate = "open"
    BY <1>a DEF Typed, CodeTypes
  <2>2. n \in 1 .. n /\ otp.attempts \in 0 .. MAX_ATTEMPTS - 1
    BY <1>0, <2>1
  <2> QED BY <1>0, <1>a, <2>1, <2>2 DEF CodesInv, Stored
\* A change of the last code's fate leaves the pacing of the codes alone.
<1>b. ASSUME NEW fate \in {"open", "accepted", "exhausted", "expired", "replaced"}, otp # None
      PROVE  LET s == Put(codes, n, fate)
             IN  /\ s \in Seq(Code) /\ Len(s) = n /\ s[n].fate = fate /\ DOMAIN s = 1 .. n
                 /\ \A i \in 1 .. n : s[i].at = codes[i].at /\ s[i].wrong = codes[i].wrong
                 /\ \A i \in 1 .. n - 1 : s[i] = codes[i]
  <2> DEFINE s == Put(codes, n, fate)
             c == [codes[n] EXCEPT !.fate = fate]
  <2>1. n \in DOMAIN codes /\ codes[n] \in Code /\ codes \in Seq(Code)
    BY <1>0, <1>a, <1>b
  <2>2. c \in Code /\ c.fate = fate /\ c.at = codes[n].at /\ c.wrong = codes[n].wrong
    BY <2>1 DEF Code
  <2>3. s = [codes EXCEPT ![n] = c]
    BY <2>1 DEF Put
  <2>4. s \in Seq(Code) /\ Len(s) = n /\ DOMAIN s = 1 .. n
    <3>1. s \in Seq(Code) /\ Len(s) = Len(codes) /\ DOMAIN s = DOMAIN codes
      <4> HIDE DEF c, s, n
      <4> QED BY <2>1, <2>2, <2>3, SeqExcept
    <3>2. n = Len(codes) /\ DOMAIN codes = 1 .. n
      BY <2>1 DEF n
    <3> HIDE DEF s
    <3> QED BY <3>1, <3>2
  <2> HIDE DEF c, s
  <2>5. s[n] = c /\ \A i \in 1 .. n - 1 : s[i] = codes[i]
    BY <1>0, <2>1, <2>3
  <2>6. \A i \in 1 .. n : s[i].at = codes[i].at /\ s[i].wrong = codes[i].wrong
    BY <1>0, <2>2, <2>1, <2>3
  <2> QED BY <2>2, <2>4, <2>5, <2>6 DEF s
<1> HIDE DEF n
<1>1. CASE generateOtp
  <2> DEFINE base == IF otp = None THEN codes ELSE Put(codes, otp.code, "replaced")
             new == [at |-> now, fate |-> "open", wrong |-> 0]
  <2>1. /\ base \in Seq(Code) /\ Len(base) = n
        /\ \A i \in 1 .. n : base[i].at = codes[i].at /\ base[i].wrong = codes[i].wrong
        /\ \A i \in 1 .. n - 1 : base[i] = codes[i]
        /\ \A i \in 1 .. n : base[i].wrong = MAX_ATTEMPTS => base[i].fate = codes[i].fate
    <3>1. CASE otp = None
      BY <1>0, <3>1 DEF n
    <3>2. CASE otp # None
      <4> DEFINE s == Put(codes, n, "replaced")
      <4>1. otp.code = n /\ n \in 1 .. n /\ codes[n].wrong < MAX_ATTEMPTS /\ codes[n].wrong \in Nat
        BY <1>0, <1>a, <3>2
      <4>2. base = s
        BY <3>2, <4>1
      <4>3. /\ s \in Seq(Code) /\ Len(s) = n
            /\ \A i \in 1 .. n : s[i].at = codes[i].at /\ s[i].wrong = codes[i].wrong
            /\ \A i \in 1 .. n - 1 : s[i] = codes[i]
        BY <1>b, <3>2
      <4>4. \A i \in 1 .. n : i = n \/ i \in 1 .. n - 1
        BY <1>0
      <4> HIDE DEF s, base
      <4>5. \A i \in 1 .. n : s[i].wrong = MAX_ATTEMPTS => s[i].fate = codes[i].fate
        <5>1. n \in 1 .. n => s[n].wrong # MAX_ATTEMPTS
          BY <1>0, <4>1, <4>3
        <5> QED BY <4>1, <4>3, <4>4, <5>1
      <4> QED BY <4>2, <4>3, <4>5
    <3> QED BY <3>1, <3>2
  <2>2. n > 0 => \/ codes[n].fate \in {"accepted", "exhausted"} /\ base[n] = codes[n]
                 \/ now - codes[n].at >= COOLDOWN
    BY <1>0, <1>1, <1>a DEF generateOtp, CodesInv, Spent, n
  <2>3. new \in Code
    BY <1>0 DEF Code
  <2>4. codes' = Append(base, new)
    BY <1>1 DEF generateOtp
  <2>5. otp' = [code |-> n + 1, attempts |-> 0, createdAt |-> now]
    BY <1>1 DEF generateOtp, n
  <2>6. new.at = now /\ new.wrong = 0 /\ new.fate = "open"
    OBVIOUS
  <2>8. n > 0 => n \in 1 .. n
    BY <1>0
  <2> HIDE DEF base, new
  <2>7. Len(codes') = n + 1 /\ codes'[n + 1] = new /\ \A i \in 1 .. n : codes'[i] = base[i]
    BY <1>0, <2>1, <2>3, <2>4
  <2>9. \A i \in 1 .. n : codes[i].wrong <= MAX_ATTEMPTS
                          /\ (codes[i].wrong = MAX_ATTEMPTS => codes[i].fate = "exhausted")
    BY <1>0 DEF CodesInv, CodesPaced, n
  <2>10. \A i \in 1 .. n - 1 : codes[i + 1].at - codes[i].at >= COOLDOWN
                               \/ codes[i].fate \in {"accepted", "exhausted"}
    BY DEF CodesInv, CodesPaced, n
  <2>11. CodesPaced'
    <3>1. ASSUME NEW i \in 1 .. n
          PROVE  codes'[i + 1].at - codes'[i].at >= COOLDOWN
                 \/ codes'[i].fate \in {"accepted", "exhausted"}
      <4>1. CASE i = n
        <5>1. n > 0 /\ codes'[i + 1].at = now /\ codes'[i] = base[n] /\ base[n].at = codes[n].at
          BY <1>0, <2>1, <2>6, <2>7, <4>1
        <5> QED BY <2>2, <5>1
      <4>2. CASE i # n
        <5>1. i \in 1 .. n - 1 /\ i + 1 \in 1 .. n
          BY <1>0, <4>2
        <5>2. codes'[i + 1].at = codes[i + 1].at /\ codes'[i] = codes[i]
          BY <2>1, <2>7, <5>1
        <5> QED BY <2>10, <5>1, <5>2
      <4> QED BY <4>1, <4>2
    <3>2. ASSUME NEW i \in 1 .. n + 1
          PROVE  codes'[i].wrong <= MAX_ATTEMPTS
                 /\ (codes'[i].wrong = MAX_ATTEMPTS => codes'[i].fate = "exhausted")
      <4>1. CASE i = n + 1
        BY <1>0, <2>6, <2>7, <4>1
      <4>2. CASE i # n + 1
        <5>1. i \in 1 .. n
          BY <1>0, <4>2
        <5> QED BY <2>1, <2>7, <2>9, <5>1
      <4> QED BY <4>1, <4>2
    <3>3. DOMAIN codes' = 1 .. n + 1 /\ Len(codes') - 1 = n
      BY <1>0, <2>1, <2>3, <2>4, <2>7
    <3> QED BY <3>1, <3>2, <3>3 DEF CodesPaced
  <2>12. Stored'
    <3>1. otp'.code = n + 1 /\ otp'.attempts = 0 /\ otp'.createdAt = now
      BY <2>5
    <3> QED BY <2>6, <2>7, <3>1 DEF Stored
  <2>13. otp' \in [code: Nat, attempts: Nat, createdAt: Nat]
    BY <1>0, <2>5
  <2>14. Spent'
    BY <2>13, NoneAssumption DEF Spent
  <2> QED BY <2>11, <2>12, <2>14 DEF CodesInv
<1>2. ASSUME otp # None, otp' = None, now' = now,
             NEW fate \in {"open", "accepted", "exhausted", "expired", "replaced"},
             codes' = Put(codes, otp.code, fate),
             fate \in {"accepted", "exhausted"} \/ now - codes[n].at >= COOLDOWN
      PROVE  CodesInv'
  <2>1. /\ codes' \in Seq(Code) /\ Len(codes') = n /\ codes'[n].fate = fate /\ DOMAIN codes' = 1 .. n
        /\ \A i \in 1 .. n : codes'[i].at = codes[i].at /\ codes'[i].wrong = codes[i].wrong
        /\ \A i \in 1 .. n - 1 : codes'[i] = codes[i]
    BY <1>2, <1>a, <1>b
  <2>2. n \in 1 .. n /\ codes[n].wrong < MAX_ATTEMPTS
    BY <1>2, <1>a
  <2>3. \A i \in 1 .. n - 1 : i \in 1 .. n /\ i + 1 \in 1 .. n
    BY <1>0
  <2>4. \A i \in 1 .. n : codes'[i].wrong <= MAX_ATTEMPTS
            /\ (codes'[i].wrong = MAX_ATTEMPTS => codes'[i].fate = "exhausted")
    <3>1. \A i \in 1 .. n : i = n \/ i \in 1 .. n - 1
      BY <1>0
    <3>2. \A i \in 1 .. n : codes[i].wrong <= MAX_ATTEMPTS
              /\ (codes[i].wrong = MAX_ATTEMPTS => codes[i].fate = "exhausted")
      BY <1>0 DEF CodesInv, CodesPaced, n
    <3> QED BY <1>0, <2>1, <2>2, <3>1, <3>2
  <2>5. \A i \in 1 .. n - 1 : codes'[i + 1].at - codes'[i].at >= COOLDOWN
                              \/ codes'[i].fate \in {"accepted", "exhausted"}
    BY <2>1, <2>3 DEF CodesInv, CodesPaced, n
  <2>6. CodesPaced'
    BY <2>1, <2>4, <2>5 DEF CodesPaced
  <2> QED BY <1>2, <2>1, <2>2, <2>6 DEF CodesInv, Stored, Spent
<1>3. CASE verifyRight
  BY <1>2, <1>3, <1>a DEF verifyRight
<1>4. CASE OtpExpires
  <2>1. otp # None /\ now - otp.createdAt >= OTP_TTL
    BY <1>4 DEF OtpExpires
  <2>2. now - codes[n].at >= COOLDOWN
    <3>1. otp.createdAt = codes[n].at /\ codes[n].at \in Nat
      BY <2>1, <1>a, <1>0
    <3> QED BY <1>0, <2>1, <3>1
  <2> QED BY <1>2, <1>4, <2>1, <2>2 DEF OtpExpires
<1>5. CASE verifyWrong
  <2> DEFINE last == otp.attempts + 1 >= MAX_ATTEMPTS
             c == [codes[n] EXCEPT !.wrong = @ + 1, !.fate = IF last THEN "exhausted" ELSE @]
  <2>1. /\ otp # None /\ now' = now
        /\ otp' = IF last THEN None ELSE [otp EXCEPT !.attempts = @ + 1]
    BY <1>5 DEF verifyWrong
  <2>2. /\ otp.code = n /\ n \in 1 .. n /\ codes[n].fate = "open"
        /\ otp.createdAt = codes[n].at /\ otp.attempts = codes[n].wrong
        /\ codes[n].wrong < MAX_ATTEMPTS /\ codes[n].wrong \in Nat /\ codes[n] \in Code
        /\ otp \in [code: DOMAIN codes, attempts: 0 .. MAX_ATTEMPTS - 1, createdAt: Nat]
    BY <2>1, <1>0, <1>a
  <2>3. codes' = [codes EXCEPT ![n] = c]
    BY <1>0, <1>5, <2>2 DEF verifyWrong
  <2>4. c.at = codes[n].at /\ c.wrong = codes[n].wrong + 1
        /\ c.fate = IF last THEN "exhausted" ELSE "open"
    <3> HIDE DEF last
    <3> QED BY <2>2 DEF Code
  <2>5. /\ c.wrong <= MAX_ATTEMPTS
        /\ c.wrong = MAX_ATTEMPTS => c.fate = "exhausted"
        /\ last => c.fate = "exhausted"
    BY <2>2, <2>4, <1>0
  <2>6. ~last /\ otp' # None => /\ otp'.code = n /\ otp'.createdAt = codes[n].at
                                /\ otp'.attempts = codes[n].wrong + 1
    <3> DEFINE a == otp.attempts + 1
    <3>1. ~last => otp' = [otp EXCEPT !.attempts = a]
      BY <2>1, <2>2
    <3>2. a = codes[n].wrong + 1
      BY <2>2
    <3> HIDE DEF last, a
    <3> QED BY <2>2, <3>1, <3>2
  <2>7. last => otp' = None
    BY <2>1
  <2> HIDE DEF c, last
  <2>8. /\ Len(codes') = n /\ DOMAIN codes' = 1 .. n /\ codes'[n] = c
        /\ \A i \in 1 .. n - 1 : codes'[i] = codes[i] /\ i + 1 \in 1 .. n
        /\ \A i \in 1 .. n : codes'[i].at = codes[i].at
    BY <1>0, <2>2, <2>3, <2>4 DEF n
  <2>9. \A i \in 1 .. n : codes'[i].wrong <= MAX_ATTEMPTS
            /\ (codes'[i].wrong = MAX_ATTEMPTS => codes'[i].fate = "exhausted")
    <3>1. \A i \in 1 .. n : i = n \/ i \in 1 .. n - 1
      BY <1>0
    <3>2. \A i \in 1 .. n : codes[i].wrong <= MAX_ATTEMPTS
              /\ (codes[i].wrong = MAX_ATTEMPTS => codes[i].fate = "exhausted")
      BY <1>0 DEF CodesInv, CodesPaced, n
    <3>3. \A i \in 1 .. n - 1 : i \in 1 .. n
      BY <1>0
    <3> QED BY <2>5, <2>8, <3>1, <3>2, <3>3
  <2>10. \A i \in 1 .. n - 1 : codes'[i + 1].at - codes'[i].at >= COOLDOWN
                               \/ codes'[i].fate \in {"accepted", "exhausted"}
    <3>1. \A i \in 1 .. n - 1 : i \in 1 .. n
      BY <1>0
    <3> QED BY <2>8, <3>1 DEF CodesInv, CodesPaced, n
  <2>11. CodesPaced'
    BY <2>8, <2>9, <2>10 DEF CodesPaced
  <2>12. Stored'
    <3>1. CASE last
      BY <2>7, <3>1 DEF Stored
    <3>2. CASE ~last
      BY <2>4, <2>6, <2>8, <3>2 DEF Stored
    <3> QED BY <3>1, <3>2
  <2>13. Spent'
    <3>1. CASE last
      BY <2>5, <2>8, <3>1 DEF Spent
    <3>2. CASE ~last
      <4>1. otp' # None
        <5> DEFINE a == otp.attempts + 1
        <5>1. otp' = [otp EXCEPT !.attempts = a] /\ a \in Nat /\ n \in Nat
          BY <1>0, <2>1, <2>2, <3>2
        <5> HIDE DEF a
        <5>2. otp' \in [code: Nat, attempts: Nat, createdAt: Nat]
          BY <1>0, <2>2, <5>1 DEF n
        <5> QED BY <5>2, NoneAssumption
      <4> QED BY <4>1 DEF Spent
    <3> QED BY <3>1, <3>2
  <2> QED BY <2>11, <2>12, <2>13 DEF CodesInv
<1>6. CASE Tick
  <2>1. otp' = otp /\ codes' = codes /\ now' = now + 1
    BY <1>6 DEF Tick, codeVars
  <2>2. CodesPaced' /\ Stored'
    BY <2>1 DEF CodesInv, CodesPaced, Stored
  <2>3. Spent'
    <3>1. CASE Len(codes) > 0
      <4>1. codes[Len(codes)].at \in Nat
        BY <1>0, <3>1 DEF n
      <4> QED BY <1>0, <2>1, <4>1 DEF CodesInv, Spent
    <3>2. CASE ~(Len(codes) > 0)
      BY <2>1, <3>2 DEF Spent
    <3> QED BY <3>1, <3>2
  <2> QED BY <2>2, <2>3 DEF CodesInv
<1>7. CASE UNCHANGED <<now, otp, codes>>
  BY <1>7 DEF CodesInv, CodesPaced, Stored, Spent
<1>8. generateOtp \/ verifyRight \/ OtpExpires \/ verifyWrong \/ Tick \/ UNCHANGED <<now, otp, codes>>
  BY CodesChange
<1> QED BY <1>1, <1>3, <1>4, <1>5, <1>6, <1>7, <1>8

\* A client gets a new code only after the cooldown, or once it has used up the
\* last one, and cannot guess at a code more than MAX_ATTEMPTS times.
THEOREM CodesSafe == Spec => []CodesPaced
<1>1. Init => CodesInv
  <2> SUFFICES ASSUME Init PROVE CodesInv
    OBVIOUS
  <2>1. codes = <<>> /\ otp = None
    BY DEF Init
  <2> QED BY <2>1 DEF CodesInv, CodesPaced, Stored, Spent
<1>2. Typed /\ CodesInv /\ [Next]_vars => CodesInv'
  BY CodesStep
<1>3. Spec => [](Typed /\ CodesInv)
  BY InitTyped, TypedStep, <1>1, <1>2, PTL DEF Spec
<1>4. CodesInv => CodesPaced
  BY DEF CodesInv
<1> QED BY <1>3, <1>4, PTL

----------------------------------------------------------------------------
(* Grants.  The row of registration_grant_use is written with the account  *)
(* and removed only once the grant is over, so it stands in the way of     *)
(* every other insertion as long as the grant can be used.                 *)

Recorded == \A c \in claims : c.grant \in used \/ now > grants[c.grant]
GrantInv == GrantBuysOneAccount /\ Recorded

\* Only these steps touch the grants, their uses, the accounts they bought or the clock.
LEMMA GrantsChange ==
    [Next]_vars => \/ verifyRight \/ purgeExpired \/ Tick \/ \E h \in Handler : claimAccount(h)
                   \/ UNCHANGED <<now, grants, used, claims>>
<1> DEFINE Same == UNCHANGED <<now, grants, used, claims>>
<1> SUFFICES ASSUME [Next]_vars, ~(verifyRight \/ purgeExpired \/ Tick),
                    \A h \in Handler : ~claimAccount(h)
             PROVE  Same
  OBVIOUS
<1>1. CASE generateOtp \/ verifyWrong \/ OtpExpires \/ Restart \/ UNCHANGED vars
  BY <1>1 DEF generateOtp, verifyWrong, OtpExpires, Restart, vars, codeVars
<1>2. ASSUME NEW h \in Handler, Arrive(h) PROVE Same
  BY <1>2 DEF Arrive, Register, UpdateToken, Delete, Dial, Route, codeVars
<1>3. ASSUME NEW h \in Handler, Continue(h), ~claimAccount(h) PROVE Same
  <2>1. CASE replaceDirectoryToken(h) \/ reclaimFromLegacyAccount(h)
             \/ CacheOwner(h) \/ CacheOwn(h)
    BY <2>1 DEF replaceDirectoryToken, reclaimFromLegacyAccount,
                CacheOwner, CacheOwn, codeVars
  <2>2. CASE deleteDurableState(h) \/ removeUser(h) \/ closeUserSocket(h)
             \/ purgeItems(h) \/ purgeIndex(h)
    BY <2>2 DEF deleteDurableState, removeUser, closeUserSocket, purgeItems, purgeIndex, codeVars
  <2>3. CASE Enqueue(h) \/ addConnection(h) \/ credentialWatch(h)
    BY <2>3 DEF Enqueue, addConnection, credentialWatch, codeVars
  <2> QED BY <1>3, <2>1, <2>2, <2>3 DEF Continue
<1>4. ASSUME NEW h \in Handler, PurgeFails(h) \/ HangUp(h) PROVE Same
  BY <1>4 DEF PurgeFails, HangUp, codeVars
<1>5. ASSUME NEW u \in User, setIdentity(u) \/ recover(u) \/ Lapse(u) PROVE Same
  BY <1>5 DEF setIdentity, recover, Lapse, codeVars
<1> QED BY <1>1, <1>2, <1>3, <1>4, <1>5 DEF Next

LEMMA GrantStep == Typed /\ GrantInv /\ [Next]_vars => GrantInv'
<1> SUFFICES ASSUME Typed, GrantInv, [Next]_vars PROVE GrantInv'
  OBVIOUS
<1>0. /\ claims \subseteq [user: User, grant: DOMAIN grants, at: Nat]
      /\ grants \in Seq(Nat) /\ now \in Nat /\ \A g \in DOMAIN grants : grants[g] \in Nat
  BY LimitAssumption DEF Typed, CodeTypes, GrantTypes
<1>a. ASSUME UNCHANGED <<now, grants, used, claims>> PROVE GrantInv'
  BY <1>a DEF GrantInv, GrantBuysOneAccount, Recorded
<1>1. CASE verifyRight
  <2>1. now + REGISTRATION_TOKEN_TTL \in Nat
    BY <1>0, LimitAssumption
  <2>2. \A g \in DOMAIN grants : grants'[g] = grants[g]
    BY <1>0, <1>1, <2>1 DEF verifyRight
  <2>3. UNCHANGED <<now, used, claims>>
    BY <1>1 DEF verifyRight
  <2>4. \A c \in claims : c.grant \in DOMAIN grants
    BY <1>0
  <2> QED BY <2>2, <2>3, <2>4 DEF GrantInv, GrantBuysOneAccount, Recorded
<1>2. CASE purgeExpired
  <2>1. used' = {g \in used : grants[g] >= now} /\ UNCHANGED <<now, grants, claims>>
    BY <1>2 DEF purgeExpired, codeVars
  <2>2. \A c \in claims : grants[c.grant] \in Nat
    BY <1>0
  <2> QED BY <1>0, <2>1, <2>2 DEF GrantInv, GrantBuysOneAccount, Recorded
<1>3. CASE Tick
  <2>1. now' = now + 1 /\ UNCHANGED <<grants, used, claims>>
    BY <1>3 DEF Tick, codeVars
  <2>2. \A c \in claims : grants[c.grant] \in Nat
    BY <1>0
  <2> QED BY <1>0, <2>1, <2>2 DEF GrantInv, GrantBuysOneAccount, Recorded
<1>4. ASSUME NEW h \in Handler, claimAccount(h) PROVE GrantInv'
  <2> DEFINE g == task[h].grant
             c == [user |-> task[h].user, grant |-> g, at |-> now]
  <2>0. now' = now /\ grants' = grants
    BY <1>4 DEF claimAccount, codeVars
  <2>1. CASE UNCHANGED <<used, claims>>
    BY <1>a, <2>0, <2>1
  <2>2. CASE g \notin used /\ used' = used \union {g} /\ claims' = claims \union {c}
    <3>1. c.grant = g /\ c.at = now
      OBVIOUS
    <3>2. \A d \in claims : d.grant = g => c.at > grants[g]
      BY <2>2, <3>1 DEF GrantInv, Recorded
    <3> HIDE DEF c, g
    <3> QED BY <2>0, <2>2, <3>1, <3>2 DEF GrantInv, GrantBuysOneAccount, Recorded
  <2> QED BY <1>4, <2>1, <2>2 DEF claimAccount
<1>5. \/ verifyRight \/ purgeExpired \/ Tick \/ \E h \in Handler : claimAccount(h)
      \/ UNCHANGED <<now, grants, used, claims>>
  BY GrantsChange
<1> QED BY <1>a, <1>1, <1>2, <1>3, <1>4, <1>5

\* Two registrations let in with one grant cannot both insert an account while
\* the grant is good, however the retention worker's sweeps fall between them.
THEOREM GrantSafe == Spec => []GrantBuysOneAccount
<1>1. Init => GrantInv
  BY DEF Init, GrantInv, GrantBuysOneAccount, Recorded
<1>2. Typed /\ GrantInv /\ [Next]_vars => GrantInv'
  BY GrantStep
<1>3. Spec => [](Typed /\ GrantInv)
  BY InitTyped, TypedStep, <1>1, <1>2, PTL DEF Spec
<1>4. GrantInv => GrantBuysOneAccount
  BY DEF GrantInv
<1> QED BY <1>3, <1>4, PTL

----------------------------------------------------------------------------
(* Numbers *)

\* The condition of the take-over is never met by an account that has published
\* an identity: it has one, or a recovery has emptied both and set the pin.
Guarded(u) == row[u] # None /\ ~CannotReceive(row[u])
ReachedInv == \A u \in User : u \in reached => Guarded(u)

LEMMA ReachedStep == ASSUME Typed, ReachedInv, [Next]_vars PROVE ReachedInv'
<1>0. /\ row \in [User -> Row \union {None}] /\ task \in [Handler -> Task]
      /\ \A h \in Handler : Ready(task[h])
  BY DEF Typed, DirTypes, TaskTypes
<1> SUFFICES ASSUME NEW u \in User, u \in reached' PROVE Guarded(u)'
  BY DEF ReachedInv
<1>1. u \in reached => Guarded(u)
  BY DEF ReachedInv
<1>2. ASSUME UNCHANGED <<row, reached>> PROVE Guarded(u)'
  BY <1>1, <1>2 DEF Guarded
<1>3. ASSUME u \in reached, row'[u] \in Row, row'[u].olm = row[u].olm,
             row'[u].legacy = row[u].legacy, row'[u].pin = row[u].pin
      PROVE  Guarded(u)'
  BY <1>1, <1>3, NoneAssumption DEF Guarded, CannotReceive
<1>4. ASSUME NEW h \in Handler, claimAccount(h) PROVE Guarded(u)'
  <2>1. /\ reached' = reached
        /\ UNCHANGED row \/ (row[task[h].user] = None /\ \E r : row' = [row EXCEPT ![task[h].user] = r])
    BY <1>4 DEF claimAccount
  <2> QED BY <1>0, <1>1, <2>1 DEF Guarded
<1>5. ASSUME NEW h \in Handler, replaceDirectoryToken(h) PROVE Guarded(u)'
  <2>1. /\ reached' = reached
        /\ UNCHANGED row \/ row' = [row EXCEPT ![task[h].user].token = task[h].number]
    BY <1>5 DEF replaceDirectoryToken
  <2>2. task[h].number \in Token
    BY <1>0, <1>5 DEF Ready, replaceDirectoryToken
  <2>3. row[u] \in Row
    BY <1>0, <1>1, <2>1 DEF Guarded
  <2>4. row'[u] = row[u] \/ row'[u] = [row[u] EXCEPT !.token = task[h].number]
    BY <1>0, <2>1, <2>3
  <2> QED BY <1>3, <2>1, <2>2, <2>3, <2>4 DEF Row
<1>6. ASSUME NEW h \in Handler, reclaimFromLegacyAccount(h) PROVE Guarded(u)'
  <2>1. reached' = reached
    BY <1>6 DEF reclaimFromLegacyAccount
  <2>2. \/ UNCHANGED row
        \/ /\ CannotReceive(row[task[h].owner])
           /\ row' = [row EXCEPT ![task[h].owner].token = pending', ![task[h].user].token = task[h].number]
    BY <1>6 DEF reclaimFromLegacyAccount
  <2>3. task[h].number \in Token /\ task[h].user \in User /\ task[h].owner \in User
    BY <1>0, <1>6 DEF Ready, reclaimFromLegacyAccount
  <2>4. row[u] \in Row /\ ~CannotReceive(row[u])
    BY <1>0, <1>1, <2>1 DEF Guarded
  <2>5. row'[u] = row[u] \/ row'[u] = [row[u] EXCEPT !.token = task[h].number]
    <3>1. CASE CannotReceive(row[task[h].owner])
      <4>1. u # task[h].owner
        BY <2>4, <3>1
      <4> QED BY <1>0, <2>2, <2>3, <4>1
    <3> QED BY <2>2, <3>1
  <2> QED BY <1>3, <2>1, <2>3, <2>4, <2>5 DEF Row
<1>7. ASSUME NEW h \in Handler, deleteDurableState(h) PROVE Guarded(u)'
  <2>1. \/ UNCHANGED <<row, reached>>
        \/ row' = [row EXCEPT ![task[h].user] = None] /\ reached' = reached \ {task[h].user}
    BY <1>7 DEF deleteDurableState
  <2> QED BY <1>0, <1>1, <1>2, <2>1 DEF Guarded
<1>8. ASSUME NEW w \in User, setIdentity(w) PROVE Guarded(u)'
  <2>1. /\ row[w] \in Row /\ row' = [row EXCEPT ![w] = [row[w] EXCEPT !.olm = TRUE]]
        /\ reached' = reached \union {w}
    BY <1>0, <1>8 DEF setIdentity
  <2>2. CASE u = w
    BY <1>0, <2>1, <2>2, NoneAssumption DEF Guarded, CannotReceive, Row
  <2>3. CASE u # w
    BY <1>0, <1>1, <2>1, <2>3 DEF Guarded
  <2> QED BY <2>2, <2>3
<1>9. ASSUME NEW w \in User, recover(w) PROVE Guarded(u)'
  <2> DEFINE r == [row[w] EXCEPT !.olm = FALSE, !.legacy = FALSE, !.pin = TRUE]
  <2>1. row[w] \in Row /\ row' = [row EXCEPT ![w] = r] /\ reached' = reached
    BY <1>0, <1>9 DEF recover
  <2>2. r \in Row /\ ~CannotReceive(r)
    BY <2>1 DEF Row, CannotReceive
  <2> HIDE DEF r
  <2>3. CASE u = w
    BY <1>0, <2>1, <2>2, <2>3, NoneAssumption DEF Guarded
  <2>4. CASE u # w
    BY <1>0, <1>1, <2>1, <2>4 DEF Guarded
  <2> QED BY <2>3, <2>4
<1> QED BY RowChange, <1>2, <1>4, <1>5, <1>6, <1>7, <1>8, <1>9

Keeps(u) ==
    row'[u] # None /\ row[u].token # row'[u].token =>
        \E h \in Handler : task[h].user = u /\ task[h].pc \in {"replace", "reclaim"}
                           /\ task'[h].pc # task[h].pc

LEMMA KeepsStep ==
    ASSUME Typed, ReachedInv, [Next]_vars, NEW u \in User, u \in reached PROVE Keeps(u)
<1>0. /\ row \in [User -> Row \union {None}] /\ task \in [Handler -> Task]
      /\ \A h \in Handler : Ready(task[h])
  BY DEF Typed, DirTypes, TaskTypes
<1>a. Guarded(u)
  BY DEF ReachedInv
<1>b. ASSUME row'[u] = row[u] PROVE Keeps(u)
  BY <1>b DEF Keeps
<1>1. ASSUME NEW h \in Handler, claimAccount(h) PROVE Keeps(u)
  <2>1. UNCHANGED row \/ (row[task[h].user] = None /\ \E r : row' = [row EXCEPT ![task[h].user] = r])
    BY <1>1 DEF claimAccount
  <2> QED BY <1>0, <1>a, <2>1 DEF Keeps, Guarded
<1>2. ASSUME NEW h \in Handler, replaceDirectoryToken(h) PROVE Keeps(u)
  <2>1. \/ UNCHANGED row
        \/ (\E r : row' = [row EXCEPT ![task[h].user] = r]) /\ Goto(h, "cacheOwn")
    BY <1>2 DEF replaceDirectoryToken
  <2>2. task[h].pc = "replace"
    BY <1>2 DEF replaceDirectoryToken
  <2>3. CASE Goto(h, "cacheOwn")
    <3>1. task'[h].pc = "cacheOwn"
      BY <1>0, <2>3 DEF Goto, Task
    <3> QED BY <1>0, <2>1, <2>2, <3>1 DEF Keeps
  <2> QED BY <1>b, <2>1, <2>3
<1>3. ASSUME NEW h \in Handler, reclaimFromLegacyAccount(h) PROVE Keeps(u)
  <2> DEFINE v == task[h].owner
  <2>1. CASE UNCHANGED row
    BY <1>b, <2>1
  <2>2. CASE /\ CannotReceive(row[v])
             /\ \E r, n : row' = [row EXCEPT ![v].token = r, ![task[h].user].token = n]
             /\ task' = [task EXCEPT ![h].pc = "cacheOwner", ![h].released = pending']
    <3>1. task[h].pc = "reclaim" /\ task'[h].pc = "cacheOwner"
      BY <1>0, <1>3, <2>2 DEF reclaimFromLegacyAccount, Task
    <3>2. u # v
      BY <1>a, <2>2 DEF Guarded
    <3>3. CASE u = task[h].user
      BY <3>1, <3>3 DEF Keeps
    <3>4. CASE u # task[h].user
      BY <1>0, <2>2, <3>2, <3>4 DEF Keeps
    <3> QED BY <3>3, <3>4
  <2> QED BY <1>3, <2>1, <2>2 DEF reclaimFromLegacyAccount
<1>4. ASSUME NEW w \in User, setIdentity(w) PROVE Keeps(u)
  <2>1. row[w] \in Row /\ row' = [row EXCEPT ![w] = [row[w] EXCEPT !.olm = TRUE]]
    BY <1>0, <1>4 DEF setIdentity
  <2> QED BY <1>0, <2>1 DEF Keeps, Row
<1>5. ASSUME NEW w \in User, recover(w) PROVE Keeps(u)
  <2> DEFINE r == [row[w] EXCEPT !.olm = FALSE, !.legacy = FALSE, !.pin = TRUE]
  <2>1. row[w] \in Row /\ row' = [row EXCEPT ![w] = r]
    BY <1>0, <1>5 DEF recover
  <2>2. r.token = row[w].token
    BY <2>1 DEF Row
  <2> HIDE DEF r
  <2> QED BY <1>0, <2>1, <2>2 DEF Keeps
<1>6. ASSUME NEW h \in Handler, deleteDurableState(h) PROVE Keeps(u)
  <2>1. UNCHANGED row \/ row' = [row EXCEPT ![task[h].user] = None]
    BY <1>6 DEF deleteDurableState
  <2> QED BY <1>0, <2>1 DEF Keeps
<1> QED BY RowChange, <1>b, <1>1, <1>2, <1>3, <1>4, <1>5, <1>6

\* An account that has published an identity loses its number only by a request
\* of its own, through every recovery, publication, stale entry of the maps and
\* concurrent take-over.
THEOREM NumberSafe == Spec => ReachableKeepsNumber
<1> DEFINE A == \A u \in reached : Keeps(u)
<1>1. Init => ReachedInv /\ reached \subseteq User
  BY ExistingAssumption DEF Init, ReachedInv, Guarded, CannotReceive
<1>2. Typed /\ ReachedInv /\ [Next]_vars => ReachedInv'
  BY ReachedStep
<1>3. Typed /\ reached \subseteq User /\ [Next]_vars => (reached \subseteq User)'
  BY ReachedTyped
<1>4. Typed /\ ReachedInv /\ reached \subseteq User /\ [Next]_vars => [A]_vars
  BY KeepsStep
<1>5. ReachableKeepsNumber <=> [][A]_vars
  BY DEF ReachableKeepsNumber, Keeps
<1> HIDE DEF A
<1> QED BY InitTyped, TypedStep, <1>1, <1>2, <1>3, <1>4, <1>5, PTL DEF Spec

----------------------------------------------------------------------------
(* The registry and the table *)

\* Tokens are unique, and a placeholder was drawn before.
OneEach ==
    /\ \A u, v \in User : TokenOf(u) # None /\ TokenOf(u) = TokenOf(v) => u = v
    /\ \A u \in User : TokenOf(u) \in Number \union 1 .. pending \union {None}
\* Registering a session ends only a coroutine that watches one.
Watched == \A u \in User : socket[u] # None =>
              task[socket[u]].pc = "watch" /\ task[socket[u]].user = u
\* What a request for a number is about.
Asked == \A h \in Handler :
            /\ task[h].pc = "replace" => task[h].number \in Number
            /\ task[h].pc \in {"reclaim", "cacheOwner"} => task[h].owner # task[h].user
Settled == OneEach /\ Watched /\ Asked

\* What a request is about to cache for u is what the table has.
Owed(u) ==
    \A h \in Handler :
        /\ task[h].pc \in {"cacheOwner", "cacheOwn"} /\ task[h].user = u =>
              TokenOf(u) = task[h].number
        /\ task[h].pc = "cacheOwner" /\ task[h].owner = u =>
              TokenOf(u) = task[h].released
\* A number leads to u if u holds it, or if whoever is about to remove the
\* entry exists.
Expected(n, u) ==
    \/ TokenOf(u) = n
    \/ \E h \in Handler :
          \/ task[h].user = u /\ task[h].pc \in {"cacheOwner", "cacheOwn"} /\ task[h].old = n
          \/ task[h].owner = u /\ task[h].pc = "cacheOwner" /\ task[h].number = n
          \/ task[h].user = u /\ task[h].pc = "registry" /\ byUser[u] = n
Mapped(u) ==
    /\ Owed(u)
    /\ Clearing(u) => row[u] = None
    /\ Quiet(u) => byUser[u] = TokenOf(u)
    /\ \A n \in Number : byToken[n] = u => Expected(n, u)
MappedInv == \A u \in User \ overtaken : Mapped(u)

Same(h) == \A x \in Handler \ {h} : task'[x] = task[x]

LEMMA OneTask ==
    ASSUME TaskTypes, NEW h \in Handler, NEW t, task' = [task EXCEPT ![h] = t]
    PROVE  task'[h] = t /\ Same(h)
BY DEF TaskTypes, Same

LEMMA IdleFields == Idle.pc = "idle"
BY DEF Idle

LEMMA GotoFields ==
    ASSUME TaskTypes, NEW h \in Handler, NEW pc, Goto(h, pc)
    PROVE  /\ task'[h].pc = pc /\ task'[h].user = task[h].user /\ task'[h].number = task[h].number
           /\ task'[h].old = task[h].old /\ task'[h].owner = task[h].owner
           /\ task'[h].attempt = task[h].attempt /\ task'[h].released = task[h].released
           /\ Same(h)
<1> DEFINE t == [task[h] EXCEPT !.pc = pc]
<1>1. task[h] \in Task /\ task' = [task EXCEPT ![h] = t]
  BY DEF TaskTypes, Goto
<1>2. /\ t.pc = pc /\ t.user = task[h].user /\ t.number = task[h].number /\ t.old = task[h].old
      /\ t.owner = task[h].owner /\ t.attempt = task[h].attempt /\ t.released = task[h].released
  BY <1>1 DEF Task
<1> HIDE DEF t
<1> QED BY <1>1, <1>2, OneTask

LEMMA DoneFields ==
    ASSUME TaskTypes, NEW h \in Handler, Done(h)
    PROVE  task'[h].pc = "idle" /\ Same(h)
BY OneTask, IdleFields DEF Done

\* A request comes in: it has committed nothing.
LEMMA ArriveTask ==
    ASSUME TaskTypes, NEW h \in Handler, Arrive(h)
    PROVE  /\ task[h].pc = "idle" /\ task'[h].pc \in {"claim", "replace", "reclaim", "delete", "connect", "enqueue"}
           /\ task'[h].pc = "reclaim" => task'[h].owner # task'[h].user
           /\ task'[h].pc = "replace" => task'[h].number \in Number
           /\ Same(h)
           /\ UNCHANGED <<dirVars, socket>>
<1>1. CASE \E g \in DOMAIN grants, u \in User : Register(h, g, u)
  <2> PICK g \in DOMAIN grants, u \in User : Register(h, g, u)
    BY <1>1
  <2> DEFINE t == [Idle EXCEPT !.pc = "claim", !.grant = g, !.user = u]
  <2>1. task[h].pc = "idle" /\ task' = [task EXCEPT ![h] = t] /\ UNCHANGED <<dirVars, socket>>
    BY DEF Register, copyVars
  <2>2. t.pc = "claim"
    BY DEF Idle
  <2> HIDE DEF t
  <2> QED BY <2>1, <2>2, OneTask
<1>2. CASE \E u \in User, n \in Number : UpdateToken(h, u, n)
  <2> PICK u \in User, n \in Number : UpdateToken(h, u, n)
    BY <1>2
  <2> DEFINE current == IF byUser[u] # None THEN byUser[u] ELSE TokenOf(u)
             owner == IF byToken[n] # None THEN byToken[n] ELSE HolderOf(n)
             t == [Idle EXCEPT !.pc = IF owner \in {None, u} THEN "replace" ELSE "reclaim",
                               !.user = u, !.number = n, !.old = current,
                               !.owner = IF owner = u THEN None ELSE owner]
  <2>1. task[h].pc = "idle" /\ task' = [task EXCEPT ![h] = t] /\ UNCHANGED <<dirVars, socket>>
    BY DEF UpdateToken, copyVars
  <2> HIDE DEF owner, current
  <2>2. /\ t.pc = (IF owner \in {None, u} THEN "replace" ELSE "reclaim") /\ t.user = u /\ t.number = n
        /\ t.owner = (IF owner = u THEN None ELSE owner)
    BY DEF Idle
  <2> HIDE DEF t
  <2> QED BY <2>1, <2>2, OneTask
<1>3. CASE \E u \in User : Delete(h, u)
  <2> PICK u \in User : Delete(h, u)
    BY <1>3
  <2> DEFINE t == [Idle EXCEPT !.pc = "delete", !.user = u]
  <2>1. task[h].pc = "idle" /\ task' = [task EXCEPT ![h] = t] /\ UNCHANGED <<dirVars, socket>>
    BY DEF Delete, copyVars
  <2>2. t.pc = "delete"
    BY DEF Idle
  <2> HIDE DEF t
  <2> QED BY <2>1, <2>2, OneTask
<1>4. CASE \E u \in User : Dial(h, u)
  <2> PICK u \in User : Dial(h, u)
    BY <1>4
  <2> DEFINE t == [Idle EXCEPT !.pc = "connect", !.user = u]
  <2>1. task[h].pc = "idle" /\ task' = [task EXCEPT ![h] = t] /\ UNCHANGED <<dirVars, socket>>
    BY DEF Dial, copyVars
  <2>2. t.pc = "connect"
    BY DEF Idle
  <2> HIDE DEF t
  <2> QED BY <2>1, <2>2, OneTask
<1>5. CASE \E u \in User, f \in Frame : Route(h, u, f)
  <2> PICK u \in User, f \in Frame : Route(h, u, f)
    BY <1>5
  <2> DEFINE t == [Idle EXCEPT !.pc = "enqueue", !.user = u, !.frame = f]
  <2>1. task[h].pc = "idle" /\ task' = [task EXCEPT ![h] = t] /\ UNCHANGED <<dirVars, socket>>
    BY DEF Route, copyVars
  <2>2. t.pc = "enqueue"
    BY DEF Idle
  <2> HIDE DEF t
  <2> QED BY <2>1, <2>2, OneTask
<1> QED BY <1>1, <1>2, <1>3, <1>4, <1>5 DEF Arrive

\* Steps that visit neither the table nor the maps, by one handler.
Aside(h) ==
    \/ purgeItems(h) \/ purgeIndex(h) \/ PurgeFails(h) \/ Enqueue(h)

Clears(t) ==
    \/ t.pc = "registry"
    \/ t.pc \in {"close", "purge", "unindex"} /\ t.attempt < TRANSIENT_PURGE_ATTEMPTS

LEMMA AsideTask ==
    ASSUME TaskTypes, NEW h \in Handler, Aside(h)
    PROVE  /\ task[h].pc \in {"purge", "unindex", "enqueue"} /\ task'[h].pc \in {"unindex", "registry", "idle"}
           /\ Clears(task'[h]) => Clears(task[h]) /\ task'[h].user = task[h].user
           /\ Same(h)
           /\ UNCHANGED <<dirVars, socket>>
<1>1. CASE purgeItems(h)
  <2>1. task[h].pc = "purge" /\ Goto(h, "unindex") /\ UNCHANGED <<dirVars, socket>>
    BY <1>1 DEF purgeItems
  <2> QED BY <2>1, GotoFields DEF Clears
<1>2. CASE purgeIndex(h) \/ Enqueue(h)
  <2>1. task[h].pc \in {"unindex", "enqueue"} /\ Done(h) /\ UNCHANGED <<dirVars, socket>>
    BY <1>2 DEF purgeIndex, Enqueue
  <2> QED BY <2>1, DoneFields DEF Clears
<1>3. CASE PurgeFails(h)
  <2> DEFINE t == [task[h] EXCEPT !.pc = "registry", !.attempt = @ + 1]
  <2>1. task[h].pc \in {"purge", "unindex"} /\ UNCHANGED <<dirVars, socket>> /\ task[h] \in Task
    BY <1>3 DEF PurgeFails, copyVars, TaskTypes
  <2>2. CASE task[h].attempt < TRANSIENT_PURGE_ATTEMPTS
    <3>1. task' = [task EXCEPT ![h] = t] /\ t.pc = "registry" /\ t.user = task[h].user
      BY <1>3, <2>1, <2>2 DEF PurgeFails, Task, TaskTypes
    <3> HIDE DEF t
    <3> QED BY <2>1, <2>2, <3>1, OneTask DEF Clears
  <2>3. CASE ~(task[h].attempt < TRANSIENT_PURGE_ATTEMPTS)
    <3>1. task' = [task EXCEPT ![h] = Idle]
      BY <1>3, <2>3 DEF PurgeFails
    <3> QED BY <2>1, <3>1, OneTask, IdleFields DEF Clears
  <2> QED BY <2>2, <2>3
<1> QED BY <1>1, <1>2, <1>3 DEF Aside

\* Visits to the session map.
Visit(h) == closeUserSocket(h) \/ addConnection(h) \/ credentialWatch(h) \/ HangUp(h)

LEMMA VisitTask ==
    ASSUME TaskTypes, NEW h \in Handler, Visit(h)
    PROVE  /\ task[h].pc \in {"close", "connect", "watch"} /\ task'[h].pc \in {"purge", "watch", "idle"}
           /\ Clears(task'[h]) => Clears(task[h]) /\ task'[h].user = task[h].user
           /\ task'[h].pc = "watch" => task'[h].user = task[h].user
           /\ \A x \in Handler \ {h} : \/ task'[x] = task[x]
                                       \/ /\ x = socket[task[h].user] /\ task[h].pc \in {"close", "connect"}
                                          /\ task'[x].pc = "idle"
           /\ UNCHANGED dirVars
<1>0. task[h] \in Task
  BY DEF TaskTypes
<1>1. CASE closeUserSocket(h)
  <2> DEFINE t == [task[h] EXCEPT !.pc = "purge"]
  <2>1. /\ task[h].pc = "close" /\ UNCHANGED dirVars /\ task'[h] = t
        /\ \A x \in Handler \ {h} : task'[x] = IF x = socket[task[h].user] THEN Idle ELSE task[x]
    BY <1>1 DEF closeUserSocket
  <2>2. t.pc = "purge" /\ t.user = task[h].user /\ t.attempt = task[h].attempt
    BY <1>0 DEF Task
  <2> HIDE DEF t
  <2> QED BY <2>1, <2>2, IdleFields DEF Clears
<1>2. CASE addConnection(h)
  <2> DEFINE t == [task[h] EXCEPT !.pc = "watch"]
  <2>1. /\ task[h].pc = "connect" /\ UNCHANGED dirVars /\ task'[h] = t
        /\ \A x \in Handler \ {h} : task'[x] = IF x = socket[task[h].user] THEN Idle ELSE task[x]
    BY <1>2 DEF addConnection
  <2>2. t.pc = "watch" /\ t.user = task[h].user
    BY <1>0 DEF Task
  <2> HIDE DEF t
  <2> QED BY <2>1, <2>2, IdleFields DEF Clears
<1>3. CASE credentialWatch(h) \/ HangUp(h)
  <2>1. task[h].pc = "watch" /\ UNCHANGED dirVars /\ Done(h)
    BY <1>3 DEF credentialWatch, HangUp
  <2> QED BY <2>1, DoneFields DEF Clears, Same
<1> QED BY <1>1, <1>2, <1>3 DEF Visit

\* Steps that change the table or the maps, and what they make of their task.
Still(h) == task'[h].pc = "idle" /\ UNCHANGED <<dirVars, socket>>

LEMMA ClaimTask ==
    ASSUME Typed, NEW h \in Handler, claimAccount(h)
    PROVE  /\ task[h].pc = "claim" /\ task[h].user \in User /\ Same(h) /\ UNCHANGED <<socket, byUser, byToken>>
           /\ \/ Still(h)
              \/ /\ row[task[h].user] = None /\ pending' = pending + 1 /\ pending' \in 1 .. MaxPending
                 /\ \E r \in Row : r.token = pending' /\ row' = [row EXCEPT ![task[h].user] = r]
                 /\ overtaken' = IF Clearing(task[h].user) THEN overtaken \union {task[h].user} ELSE overtaken
                 /\ task'[h].pc = "cacheOwn" /\ task'[h].number = pending' /\ task'[h].user = task[h].user
<1> DEFINE t == [task[h] EXCEPT !.pc = "cacheOwn", !.number = pending']
           r == [token |-> pending', olm |-> FALSE, legacy |-> FALSE, pin |-> FALSE]
<1>0. task[h] \in Task /\ task \in [Handler -> Task] /\ Ready(task[h]) /\ TaskTypes /\ pending \in 0 .. MaxPending
  BY DEF TaskTypes, Typed, DirTypes
<1>1. task[h].pc = "claim" /\ task[h].user \in User /\ UNCHANGED <<socket, byUser, byToken, reached>> /\ pending < MaxPending
  BY <1>0 DEF claimAccount, copyVars, Ready
<1>2. CASE Done(h) /\ UNCHANGED <<row, pending, overtaken>>
  BY <1>0, <1>1, <1>2, DoneFields DEF dirVars, Still
<1>3. CASE ~(Done(h) /\ UNCHANGED <<row, pending, overtaken>>)
  <2>1. /\ row[task[h].user] = None /\ pending' = pending + 1
        /\ row' = [row EXCEPT ![task[h].user] = r]
        /\ overtaken' = IF Clearing(task[h].user) THEN overtaken \union {task[h].user} ELSE overtaken
        /\ task' = [task EXCEPT ![h] = t]
    BY <1>0, <1>3 DEF claimAccount
  <2>2. t.pc = "cacheOwn" /\ t.number = pending' /\ t.user = task[h].user
    BY <1>0 DEF Task
  <2>3. pending' \in 1 .. MaxPending
    BY <1>0, <1>1, <2>1, LimitAssumption
  <2>4. r \in Row /\ r.token = pending'
    BY <2>3 DEF Row, Token
  <2> HIDE DEF t, r
  <2> QED BY <1>0, <1>1, <2>1, <2>2, <2>3, <2>4, OneTask
<1> QED BY <1>2, <1>3

LEMMA ReplaceTask ==
    ASSUME Typed, NEW h \in Handler, replaceDirectoryToken(h)
    PROVE  /\ task[h].pc = "replace" /\ task[h].user \in User /\ task[h].number \in Token /\ Same(h)
           /\ UNCHANGED <<socket, byUser, byToken, pending>>
           /\ \/ Still(h)
              \/ /\ row[task[h].user] # None /\ TokenOf(task[h].user) = task[h].old
                 /\ HolderOf(task[h].number) \in {None, task[h].user}
                 /\ \E r \in Row : r.token = task[h].number /\ row' = [row EXCEPT ![task[h].user] = r]
                 /\ overtaken' = Overtaking({task[h].user})
                 /\ task'[h].pc = "cacheOwn" /\ task'[h].user = task[h].user
                 /\ task'[h].number = task[h].number /\ task'[h].old = task[h].old
<1> DEFINE u == task[h].user
           r == [row[u] EXCEPT !.token = task[h].number]
<1>0. /\ task[h] \in Task /\ task \in [Handler -> Task] /\ Ready(task[h]) /\ TaskTypes
      /\ row \in [User -> Row \union {None}]
  BY DEF TaskTypes, Typed, DirTypes
<1>1. /\ task[h].pc = "replace" /\ u \in User /\ task[h].number \in Token
      /\ UNCHANGED <<socket, byUser, byToken, reached, pending>>
  BY <1>0 DEF replaceDirectoryToken, copyVars, Ready
<1>2. CASE Done(h) /\ UNCHANGED <<row, overtaken>>
  BY <1>0, <1>1, <1>2, DoneFields DEF dirVars, Still
<1>3. CASE ~(Done(h) /\ UNCHANGED <<row, overtaken>>)
  <2>1. /\ row[u] # None /\ TokenOf(u) = task[h].old
        /\ HolderOf(task[h].number) \in {None, u}
        /\ row' = [row EXCEPT ![u] = r]
        /\ overtaken' = Overtaking({u})
        /\ Goto(h, "cacheOwn")
    BY <1>0, <1>3 DEF replaceDirectoryToken
  <2>2. r \in Row /\ r.token = task[h].number
    BY <1>0, <1>1, <2>1 DEF Row
  <2>3. /\ task'[h].pc = "cacheOwn" /\ task'[h].user = u /\ task'[h].number = task[h].number
        /\ task'[h].old = task[h].old /\ Same(h)
    BY <1>0, <2>1, GotoFields
  <2> HIDE DEF r
  <2> QED BY <1>1, <2>1, <2>2, <2>3
<1> QED BY <1>2, <1>3

LEMMA ReclaimTask ==
    ASSUME Typed, Asked, NEW h \in Handler, reclaimFromLegacyAccount(h)
    PROVE  /\ task[h].pc = "reclaim" /\ task[h].user \in User /\ task[h].owner \in User
           /\ task[h].number \in Token /\ Same(h) /\ UNCHANGED <<socket, byUser, byToken>>
           /\ \/ Still(h)
              \/ /\ row[task[h].user] # None /\ TokenOf(task[h].user) = task[h].old
                 /\ row[task[h].owner] # None /\ TokenOf(task[h].owner) = task[h].number
                 /\ pending' = pending + 1 /\ pending' \in 1 .. MaxPending
                 /\ \E r, s \in Row : /\ r.token = pending' /\ s.token = task[h].number
                                      /\ row'[task[h].owner] = r /\ row'[task[h].user] = s
                                      /\ \A w \in User : w # task[h].user /\ w # task[h].owner => row'[w] = row[w]
                 /\ overtaken' = Overtaking({task[h].user, task[h].owner})
                 /\ task'[h].pc = "cacheOwner" /\ task'[h].user = task[h].user
                 /\ task'[h].number = task[h].number /\ task'[h].old = task[h].old
                 /\ task'[h].owner = task[h].owner /\ task'[h].released = pending'
<1> DEFINE u == task[h].user
           v == task[h].owner
           r == [row[v] EXCEPT !.token = pending']
           s == [row[u] EXCEPT !.token = task[h].number]
           t == [task[h] EXCEPT !.pc = "cacheOwner", !.released = pending']
<1>0. /\ task[h] \in Task /\ task \in [Handler -> Task] /\ Ready(task[h]) /\ TaskTypes
      /\ row \in [User -> Row \union {None}] /\ pending \in 0 .. MaxPending
  BY DEF TaskTypes, Typed, DirTypes
<1>1. /\ task[h].pc = "reclaim" /\ u \in User /\ v \in User /\ u # v /\ task[h].number \in Token
      /\ UNCHANGED <<socket, byUser, byToken, reached>> /\ pending < MaxPending
  BY <1>0 DEF reclaimFromLegacyAccount, copyVars, Ready, Asked
<1>2. CASE Done(h) /\ UNCHANGED <<row, pending, overtaken>>
  BY <1>0, <1>1, <1>2, DoneFields DEF dirVars, Still
<1>3. CASE ~(Done(h) /\ UNCHANGED <<row, pending, overtaken>>)
  <2>1. /\ row[u] # None /\ TokenOf(u) = task[h].old /\ TokenOf(v) = task[h].number
        /\ pending' = pending + 1
        /\ row' = [row EXCEPT ![v].token = pending', ![u].token = task[h].number]
        /\ overtaken' = Overtaking({u, v})
        /\ task' = [task EXCEPT ![h] = t]
    BY <1>0, <1>3 DEF reclaimFromLegacyAccount
  <2>2. row[v] # None
    BY <1>1, <2>1, NoneAssumption DEF TokenOf
  <2>3. row' = [row EXCEPT ![v] = r, ![u] = s]
    BY <1>0, <1>1, <2>1
  <2>4. pending' \in 1 .. MaxPending
    BY <1>0, <1>1, <2>1, LimitAssumption
  <2>5. r \in Row /\ r.token = pending'
    BY <1>0, <1>1, <2>2, <2>4 DEF Row, Token
  <2>6. s \in Row /\ s.token = task[h].number
    BY <1>0, <1>1, <2>1 DEF Row
  <2>7. /\ t.pc = "cacheOwner" /\ t.user = u /\ t.number = task[h].number /\ t.old = task[h].old
        /\ t.owner = v /\ t.released = pending'
    BY <1>0 DEF Task
  <2> HIDE DEF r, s, t
  <2>8. task'[h] = t /\ Same(h)
    BY <1>0, <2>1, OneTask
  <2>9. row'[v] = r /\ row'[u] = s /\ \A w \in User : w # u /\ w # v => row'[w] = row[w]
    BY <1>0, <1>1, <2>3
  <2> QED BY <1>1, <2>1, <2>2, <2>9, <2>4, <2>5, <2>6, <2>7, <2>8
<1> QED BY <1>2, <1>3

LEMMA DeleteTask ==
    ASSUME Typed, NEW h \in Handler, deleteDurableState(h)
    PROVE  /\ task[h].pc = "delete" /\ task[h].user \in User /\ Same(h)
           /\ UNCHANGED <<socket, byUser, byToken, pending>>
           /\ \/ Still(h)
              \/ /\ row' = [row EXCEPT ![task[h].user] = None]
                 /\ overtaken' = Overtaking({task[h].user})
                 /\ task'[h].pc = "registry" /\ task'[h].user = task[h].user
<1> DEFINE u == task[h].user
           t == [task[h] EXCEPT !.pc = "registry", !.attempt = 1]
<1>0. task[h] \in Task /\ task \in [Handler -> Task] /\ Ready(task[h]) /\ TaskTypes
  BY DEF TaskTypes, Typed
<1>1. task[h].pc = "delete" /\ u \in User /\ UNCHANGED <<socket, byUser, byToken, pending>>
  BY <1>0 DEF deleteDurableState, copyVars, Ready
<1>2. CASE Done(h) /\ UNCHANGED <<row, overtaken, reached>>
  BY <1>0, <1>1, <1>2, DoneFields DEF dirVars, Still
<1>3. CASE ~(Done(h) /\ UNCHANGED <<row, overtaken, reached>>)
  <2>1. /\ row' = [row EXCEPT ![u] = None] /\ overtaken' = Overtaking({u})
        /\ task' = [task EXCEPT ![h] = t]
    BY <1>0, <1>3 DEF deleteDurableState
  <2>2. t.pc = "registry" /\ t.user = u
    BY <1>0 DEF Task
  <2> HIDE DEF t
  <2> QED BY <1>0, <1>1, <2>1, <2>2, OneTask
<1> QED BY <1>2, <1>3

\* What a step is, as far as the table, the maps and the tasks go.
Commit(h) == claimAccount(h) \/ replaceDirectoryToken(h) \/ reclaimFromLegacyAccount(h) \/ deleteDurableState(h)
Cache(h) == CacheOwner(h) \/ CacheOwn(h) \/ removeUser(h)

LEMMA Moves ==
    ASSUME [Next]_vars
    PROVE  \/ UNCHANGED <<dirVars, socket, task>>
           \/ \E h \in Handler : Arrive(h) \/ Aside(h) \/ Visit(h) \/ Commit(h) \/ Cache(h)
           \/ \E u \in User : setIdentity(u) \/ recover(u)
           \/ Restart
<1>1. CASE generateOtp \/ verifyRight \/ verifyWrong \/ OtpExpires \/ purgeExpired \/ Tick \/ UNCHANGED vars
  BY <1>1 DEF generateOtp, verifyRight, verifyWrong, OtpExpires, purgeExpired, Tick, vars, copyVars
<1>2. ASSUME NEW h \in Handler, Arrive(h) \/ Continue(h) \/ PurgeFails(h) \/ HangUp(h)
      PROVE  Arrive(h) \/ Aside(h) \/ Visit(h) \/ Commit(h) \/ Cache(h)
  BY <1>2 DEF Continue, Aside, Visit, Commit, Cache
<1>3. ASSUME NEW u \in User, Lapse(u) PROVE UNCHANGED <<dirVars, socket, task>>
  BY <1>3 DEF Lapse
<1> QED BY <1>1, <1>2, <1>3 DEF Next
----------------------------------------------------------------------------
(* Tokens are unique, and what the tasks and sockets are about *)

LEMMA OneRow ==
    ASSUME DirTypes, NEW u \in User, NEW r \in Row, row' = [row EXCEPT ![u] = r]
    PROVE  /\ row'[u] = r /\ r # None /\ TokenOf(u)' = r.token
           /\ \A w \in User \ {u} : row'[w] = row[w] /\ TokenOf(w)' = TokenOf(w)
<1>1. r # None
  BY NoneAssumption
<1>2. row'[u] = r /\ \A w \in User \ {u} : row'[w] = row[w]
  BY DEF DirTypes
<1> QED BY <1>1, <1>2 DEF TokenOf

LEMMA TwoRows ==
    ASSUME NEW u \in User, NEW v \in User, u # v, NEW r \in Row, NEW s \in Row,
           row'[v] = r, row'[u] = s, \A w \in User : w # u /\ w # v => row'[w] = row[w]
    PROVE  /\ r # None /\ TokenOf(v)' = r.token
           /\ s # None /\ TokenOf(u)' = s.token
           /\ \A w \in User : w # u /\ w # v => TokenOf(w)' = TokenOf(w)
<1>1. r # None /\ s # None
  BY NoneAssumption
<1>2. TokenOf(v)' = r.token /\ TokenOf(u)' = s.token
  BY <1>1 DEF TokenOf
<1>3. ASSUME NEW w \in User, w # u, w # v PROVE TokenOf(w)' = TokenOf(w)
  BY <1>3 DEF TokenOf
<1> QED BY <1>1, <1>2, <1>3

LEMMA NoRow ==
    ASSUME DirTypes, NEW u \in User, row' = [row EXCEPT ![u] = None]
    PROVE  /\ row'[u] = None /\ TokenOf(u)' = None
           /\ \A w \in User \ {u} : row'[w] = row[w] /\ TokenOf(w)' = TokenOf(w)
<1>1. row'[u] = None /\ \A w \in User \ {u} : row'[w] = row[w]
  BY DEF DirTypes
<1> QED BY <1>1 DEF TokenOf

\* Publishing an identity and recovering leave the number alone.
LEMMA Rekeyed ==
    ASSUME DirTypes, NEW u \in User, setIdentity(u) \/ recover(u)
    PROVE  /\ UNCHANGED <<pending, byUser, byToken, overtaken, socket, task>>
           /\ \A w \in User : TokenOf(w)' = TokenOf(w) /\ (row'[w] = None <=> row[w] = None)
<1>1. /\ row[u] # None /\ row[u] \in Row
      /\ UNCHANGED <<pending, byUser, byToken, overtaken, socket, task>>
  BY DEF setIdentity, recover, copyVars, DirTypes
<1>2. \E r \in Row : r.token = row[u].token /\ row' = [row EXCEPT ![u] = r]
  <2>1. CASE setIdentity(u)
    <3> DEFINE r == [row[u] EXCEPT !.olm = TRUE]
    <3>1. r \in Row /\ r.token = row[u].token /\ row' = [row EXCEPT ![u] = r]
      BY <1>1, <2>1 DEF setIdentity, Row, DirTypes
    <3> QED BY <3>1
  <2>2. CASE recover(u)
    <3> DEFINE r == [row[u] EXCEPT !.olm = FALSE, !.legacy = FALSE, !.pin = TRUE]
    <3>1. r \in Row /\ r.token = row[u].token
      BY <1>1 DEF Row
    <3>2. row' = [row EXCEPT ![u] = r]
      BY <1>1, <2>2 DEF recover, DirTypes
    <3> QED BY <3>1, <3>2
  <2> QED BY <2>1, <2>2
<1>3. TokenOf(u) = row[u].token
  BY <1>1 DEF TokenOf
<1> QED BY <1>1, <1>2, <1>3, OneRow

LEMMA Alone ==
    ASSUME NEW n, n # None, NEW u \in User, HolderOf(n) \in {None, u}, OneEach
    PROVE  \A w \in User \ {u} : TokenOf(w) # n
<1> SUFFICES ASSUME NEW w \in User \ {u}, TokenOf(w) = n PROVE FALSE
  OBVIOUS
<1>1. HolderOf(n) \in User /\ TokenOf(HolderOf(n)) = n
  BY DEF HolderOf
<1>2. HolderOf(n) = u
  BY <1>1, NoneAssumption
<1> QED BY <1>1, <1>2, NoneAssumption DEF OneEach

LEMMA OneEachStep ==
    ASSUME Typed, Settled, [Next]_vars
    PROVE  OneEach'
<1>0. DirTypes /\ TaskTypes /\ OneEach /\ pending \in 0 .. MaxPending
  BY DEF Typed, DirTypes, Settled
<1>a. ASSUME \A w \in User : TokenOf(w)' = TokenOf(w), UNCHANGED pending PROVE OneEach'
  BY <1>0, <1>a DEF OneEach
<1>b. ASSUME UNCHANGED dirVars PROVE OneEach'
  BY <1>0, <1>b DEF OneEach, TokenOf, dirVars
<1>c. ASSUME NEW p, p \in 1 .. MaxPending, p = pending + 1, pending' = p
      PROVE  /\ p \notin Number /\ p # None /\ 1 .. pending' = 1 .. pending \union {p}
             /\ \A w \in User : TokenOf(w) # p
  <2>1. p \notin Number /\ p \notin 1 .. pending
    BY <1>0, <1>c, PlaceholderAssumption
  <2>2. p # None
    BY <1>c, NoneAssumption DEF Token
  <2> QED BY <1>0, <1>c, <2>1, <2>2 DEF OneEach
<1>1. ASSUME NEW h \in Handler, claimAccount(h) PROVE OneEach'
  <2>1. PICK u \in User : u = task[h].user
    BY <1>1, ClaimTask
  <2>2. CASE Still(h)
    BY <1>b, <2>2 DEF Still
  <2>3. CASE ~Still(h)
    <3>1. PICK r \in Row : /\ r.token = pending' /\ row' = [row EXCEPT ![u] = r]
                           /\ pending' = pending + 1 /\ pending' \in 1 .. MaxPending
      BY <1>1, <2>1, <2>3, ClaimTask
    <3>2. TokenOf(u)' = pending' /\ \A w \in User \ {u} : TokenOf(w)' = TokenOf(w)
      BY <1>0, <3>1, OneRow
    <3>3. /\ 1 .. pending' = 1 .. pending \union {pending'} /\ \A w \in User : TokenOf(w) # pending'
      BY <1>c, <3>1
    <3> QED BY <1>0, <3>2, <3>3 DEF OneEach
  <2> QED BY <2>2, <2>3
<1>2. ASSUME NEW h \in Handler, replaceDirectoryToken(h) PROVE OneEach'
  <2>1. PICK u \in User : u = task[h].user
    BY <1>2, ReplaceTask
  <2>2. CASE Still(h)
    BY <1>b, <2>2 DEF Still
  <2>3. CASE ~Still(h)
    <3>0. PICK n \in Number : n = task[h].number
      BY <1>2, ReplaceTask DEF Settled, Asked
    <3>1. PICK r \in Row : /\ r.token = n /\ row' = [row EXCEPT ![u] = r]
                           /\ HolderOf(n) \in {None, u} /\ pending' = pending
      BY <1>2, <2>1, <2>3, <3>0, ReplaceTask
    <3>2. TokenOf(u)' = n /\ \A w \in User \ {u} : TokenOf(w)' = TokenOf(w)
      BY <1>0, <3>1, OneRow
    <3>3. \A w \in User \ {u} : TokenOf(w) # n
      BY <1>0, <3>0, <3>1, Alone, NoneAssumption DEF Token
    <3> QED BY <1>0, <3>1, <3>2, <3>3 DEF OneEach
  <2> QED BY <2>2, <2>3
<1>3. ASSUME NEW h \in Handler, reclaimFromLegacyAccount(h) PROVE OneEach'
  <2>0. Asked
    BY DEF Settled
  <2>1. PICK u \in User, v \in User : u # v /\ u = task[h].user /\ v = task[h].owner
    BY <1>3, <2>0, ReclaimTask DEF Asked
  <2>2. CASE Still(h)
    BY <1>b, <2>2 DEF Still
  <2>3. CASE ~Still(h)
    <3>0. PICK n : n = task[h].number
      OBVIOUS
    <3>1. PICK r \in Row, s \in Row : /\ r.token = pending' /\ s.token = n
                                      /\ row'[v] = r /\ row'[u] = s
                                      /\ \A w \in User : w # u /\ w # v => row'[w] = row[w]
                                      /\ row[v] # None /\ TokenOf(v) = n
                                      /\ pending' = pending + 1 /\ pending' \in 1 .. MaxPending
      BY <1>3, <2>0, <2>1, <2>3, <3>0, ReclaimTask
    <3>2. /\ TokenOf(v)' = pending' /\ TokenOf(u)' = n
          /\ \A w \in User : w # u /\ w # v => TokenOf(w)' = TokenOf(w)
      BY <2>1, <3>1, TwoRows
    <3>3. /\ 1 .. pending' = 1 .. pending \union {pending'} /\ \A w \in User : TokenOf(w) # pending'
      BY <1>c, <3>1
    <3>4. n # None
      BY <1>3, <2>0, <3>0, ReclaimTask, NoneAssumption
    <3>5. n # pending' /\ \A w \in User : w # u /\ w # v => TokenOf(w) # n
      BY <1>0, <3>1, <3>3, <3>4 DEF OneEach
    <3>6. \A w, x \in User : TokenOf(w)' # None /\ TokenOf(w)' = TokenOf(x)' => w = x
      BY <1>0, <3>2, <3>3, <3>5 DEF OneEach
    <3>7. \A w \in User : TokenOf(w)' \in Number \union 1 .. pending' \union {None}
      BY <1>0, <3>1, <3>2, <3>3 DEF OneEach
    <3> QED BY <3>6, <3>7 DEF OneEach
  <2> QED BY <2>2, <2>3
<1>4. ASSUME NEW h \in Handler, deleteDurableState(h) PROVE OneEach'
  <2>1. PICK u \in User : u = task[h].user
    BY <1>4, DeleteTask
  <2>2. CASE Still(h)
    BY <1>b, <2>2 DEF Still
  <2>3. CASE ~Still(h)
    <3>1. row' = [row EXCEPT ![u] = None] /\ pending' = pending
      BY <1>4, <2>1, <2>3, DeleteTask
    <3>2. TokenOf(u)' = None /\ \A w \in User \ {u} : TokenOf(w)' = TokenOf(w)
      BY <1>0, <3>1, NoRow
    <3> QED BY <1>0, <3>1, <3>2 DEF OneEach
  <2> QED BY <2>2, <2>3
<1>5. ASSUME NEW h \in Handler, Arrive(h) \/ Aside(h) \/ Visit(h) PROVE OneEach'
  BY <1>0, <1>5, <1>b, ArriveTask, AsideTask, VisitTask
<1>6. ASSUME NEW h \in Handler, Cache(h) PROVE OneEach'
  <2>1. UNCHANGED <<row, pending>>
    BY <1>6 DEF Cache, CacheOwner, CacheOwn, removeUser
  <2> QED BY <1>0, <2>1 DEF OneEach, TokenOf
<1>7. CASE Restart
  <2>1. UNCHANGED <<row, pending>>
    BY <1>7 DEF Restart
  <2> QED BY <1>0, <2>1 DEF OneEach, TokenOf
<1>8. CASE \E u \in User : setIdentity(u) \/ recover(u)
  BY <1>0, <1>8, <1>a, Rekeyed
<1>9. CASE UNCHANGED <<dirVars, socket, task>>
  BY <1>b, <1>9
<1> QED BY <1>1, <1>2, <1>3, <1>4, <1>5, <1>6, <1>7, <1>8, <1>9, Moves DEF Commit
\* How the tasks of table and map steps go on.
LEMMA CommitTask ==
    ASSUME Typed, Asked, NEW h \in Handler, Commit(h)
    PROVE  /\ task[h].pc \in {"claim", "replace", "reclaim", "delete"} /\ Same(h) /\ UNCHANGED socket
           /\ task'[h].pc \in {"idle", "cacheOwn", "cacheOwner", "registry"}
           /\ task'[h].pc = "cacheOwner" => task'[h].owner # task'[h].user
<1>1. CASE claimAccount(h)
  BY <1>1, ClaimTask DEF Still
<1>2. CASE replaceDirectoryToken(h)
  BY <1>2, ReplaceTask DEF Still
<1>3. CASE reclaimFromLegacyAccount(h)
  BY <1>3, ReclaimTask DEF Still, Asked
<1>4. CASE deleteDurableState(h)
  BY <1>4, DeleteTask DEF Still
<1> QED BY <1>1, <1>2, <1>3, <1>4 DEF Commit

LEMMA CacheTask ==
    ASSUME Typed, NEW h \in Handler, Cache(h)
    PROVE  /\ task[h].pc \in {"cacheOwner", "cacheOwn", "registry"} /\ Same(h)
           /\ UNCHANGED <<row, pending, overtaken, socket>>
           /\ task'[h].pc \in {"cacheOwn", "idle", "close"}
<1>0. TaskTypes
  BY DEF Typed
<1>1. CASE CacheOwner(h)
  <2>1. /\ task[h].pc = "cacheOwner" /\ Goto(h, "cacheOwn")
        /\ UNCHANGED <<row, pending, overtaken, socket>>
    BY <1>1 DEF CacheOwner, copyVars
  <2> QED BY <1>0, <2>1, GotoFields
<1>2. CASE CacheOwn(h)
  <2>1. task[h].pc = "cacheOwn" /\ Done(h) /\ UNCHANGED <<row, pending, overtaken, socket>>
    BY <1>2 DEF CacheOwn, copyVars
  <2> QED BY <1>0, <2>1, DoneFields
<1>3. CASE removeUser(h)
  <2>1. task[h].pc = "registry" /\ Goto(h, "close") /\ UNCHANGED <<row, pending, overtaken, socket>>
    BY <1>3 DEF removeUser, copyVars
  <2> QED BY <1>0, <2>1, GotoFields
<1> QED BY <1>1, <1>2, <1>3 DEF Cache

LEMMA AllIdle ==
    ASSUME Restart
    PROVE  /\ \A h \in Handler : task'[h].pc = "idle"
           /\ \A u \in User : socket'[u] = None /\ byUser'[u] = TokenOf(u)
           /\ \A n \in Number : byToken'[n] = HolderOf(n)
           /\ UNCHANGED row
BY IdleFields DEF Restart

LEMMA AskedStep ==
    ASSUME Typed, Settled, [Next]_vars
    PROVE  Asked'
<1>0. TaskTypes /\ Asked
  BY DEF Typed, Settled
<1>a. ASSUME NEW h \in Handler, Same(h),
             task'[h].pc = "replace" => task'[h].number \in Number,
             task'[h].pc \in {"reclaim", "cacheOwner"} => task'[h].owner # task'[h].user
      PROVE  Asked'
  BY <1>0, <1>a DEF Asked, Same
<1>1. ASSUME NEW h \in Handler, Arrive(h) PROVE Asked'
  BY <1>0, <1>1, <1>a, ArriveTask
<1>2. ASSUME NEW h \in Handler, Aside(h) PROVE Asked'
  BY <1>0, <1>2, <1>a, AsideTask
<1>3. ASSUME NEW h \in Handler, Visit(h) PROVE Asked'
  <2>1. /\ task'[h].pc \in {"purge", "watch", "idle"}
        /\ \A x \in Handler \ {h} : task'[x] = task[x] \/ task'[x].pc = "idle"
    BY <1>0, <1>3, VisitTask
  <2> QED BY <1>0, <2>1 DEF Asked
<1>4. ASSUME NEW h \in Handler, Commit(h) PROVE Asked'
  BY <1>0, <1>4, <1>a, CommitTask
<1>5. ASSUME NEW h \in Handler, Cache(h) PROVE Asked'
  BY <1>5, <1>a, CacheTask
<1>6. CASE Restart
  BY <1>6, AllIdle DEF Asked
<1>7. CASE UNCHANGED task
  BY <1>0, <1>7 DEF Asked
<1>8. CASE \E u \in User : setIdentity(u) \/ recover(u)
  BY <1>7, <1>8 DEF setIdentity, recover
<1> QED BY <1>1, <1>2, <1>3, <1>4, <1>5, <1>6, <1>7, <1>8, Moves

LEMMA WatchedStep ==
    ASSUME Typed, Settled, [Next]_vars
    PROVE  Watched'
<1>0. TaskTypes /\ Watched /\ Asked /\ socket \in [User -> Handler \union {None}] /\ task \in [Handler -> Task]
  BY DEF Typed, Settled, CopyTypes, TaskTypes
<1>a. ASSUME NEW h \in Handler, Same(h), task[h].pc # "watch", UNCHANGED socket PROVE Watched'
  BY <1>0, <1>a DEF Watched, Same
<1>1. ASSUME NEW h \in Handler, Arrive(h) \/ Aside(h) PROVE Watched'
  BY <1>0, <1>1, <1>a, ArriveTask, AsideTask
<1>2. ASSUME NEW h \in Handler, Commit(h) \/ Cache(h) PROVE Watched'
  BY <1>0, <1>2, <1>a, CommitTask, CacheTask
<1>3. ASSUME NEW h \in Handler, addConnection(h) \/ closeUserSocket(h) PROVE Watched'
  <2> PICK u \in User : u = task[h].user
    <3>1. task[h].pc # "idle"
      BY <1>3 DEF addConnection, closeUserSocket
    <3> QED BY <1>0, <3>1 DEF TaskTypes, Ready
  <2>1. /\ task[h].pc \in {"connect", "close"}
        /\ \A x \in Handler \ {h} : x # socket[u] => task'[x] = task[x]
        /\ \A w \in User \ {u} : socket'[w] = socket[w]
    BY <1>0, <1>3 DEF addConnection, closeUserSocket
  <2>2. socket'[u] # None => socket'[u] = h /\ task'[h].pc = "watch" /\ task'[h].user = u
    <3>1. CASE addConnection(h)
      <4>1. socket'[u] = h /\ task'[h] = [task[h] EXCEPT !.pc = "watch"]
        BY <1>0, <3>1 DEF addConnection
      <4> QED BY <1>0, <4>1 DEF Task
    <3>2. CASE closeUserSocket(h)
      BY <1>0, <3>2 DEF closeUserSocket
    <3> QED BY <1>3, <3>1, <3>2
  <2>3. ASSUME NEW w \in User \ {u}, socket[w] # None PROVE task'[socket[w]] = task[socket[w]]
    <3>1. task[socket[w]].pc = "watch" /\ task[socket[w]].user = w /\ socket[w] \in Handler
      BY <1>0, <2>3 DEF Watched
    <3>2. socket[u] # None => task[socket[u]].user = u
      BY <1>0 DEF Watched
    <3> QED BY <2>1, <2>3, <3>1, <3>2
  <2>4. ASSUME NEW w \in User, socket'[w] # None
        PROVE  task'[socket'[w]].pc = "watch" /\ task'[socket'[w]].user = w
    BY <1>0, <2>1, <2>2, <2>3, <2>4 DEF Watched
  <2> QED BY <2>4 DEF Watched
<1>4. ASSUME NEW h \in Handler, credentialWatch(h) \/ HangUp(h) PROVE Watched'
  <2> PICK u \in User : u = task[h].user
    <3>1. task[h].pc # "idle"
      BY <1>4 DEF credentialWatch, HangUp
    <3> QED BY <1>0, <3>1 DEF TaskTypes, Ready
  <2>1. /\ socket' = [socket EXCEPT ![u] = IF @ = h THEN None ELSE @] /\ Done(h)
    BY <1>4 DEF credentialWatch, HangUp
  <2>2. Same(h)
    BY <1>0, <2>1, DoneFields
  <2>3. ASSUME NEW w \in User, socket'[w] # None PROVE socket'[w] = socket[w] /\ socket[w] # h
    BY <1>0, <2>1, <2>3 DEF Watched
  <2> QED BY <1>0, <2>2, <2>3 DEF Watched, Same
<1>5. CASE Restart
  BY <1>5, AllIdle DEF Watched
<1>6. CASE UNCHANGED <<socket, task>>
  BY <1>0, <1>6 DEF Watched
<1>7. CASE \E u \in User : setIdentity(u) \/ recover(u)
  BY <1>6, <1>7 DEF setIdentity, recover, copyVars
<1> QED BY <1>1, <1>2, <1>3, <1>4, <1>5, <1>6, <1>7, Moves DEF Visit

LEMMA SettledStep == Typed /\ Settled /\ [Next]_vars => Settled'
BY OneEachStep, AskedStep, WatchedStep DEF Settled

LEMMA InitSettled == Init => Settled
<1> SUFFICES ASSUME Init PROVE Settled
  OBVIOUS
<1>1. OneEach
  <2>1. \A u \in User : TokenOf(u) # None => Existing[u] # None /\ TokenOf(u) = Existing[u].token
    BY DEF Init, TokenOf
  <2>2. \A u \in User : TokenOf(u) \in Number \union {None}
    BY <2>1, ExistingAssumption DEF Init, TokenOf
  <2> QED BY <2>1, <2>2, UniqueAssumption DEF OneEach
<1>2. Watched
  BY DEF Init, Watched
<1>3. Asked
  BY IdleFields DEF Init, Asked
<1> QED BY <1>1, <1>2, <1>3 DEF Settled
----------------------------------------------------------------------------
(* The maps *)

\* Tasks that are about to change what the maps say of u.
Concerns(t, u) ==
    \/ t.user = u /\ t.pc \in {"cacheOwner", "cacheOwn", "registry"}
    \/ t.owner = u /\ t.pc = "cacheOwner"

LEMMA QuietMeans ==
    ASSUME NEW u \in User
    PROVE  Quiet(u) <=> \A h \in Handler : ~Concerns(task[h], u)
BY DEF Quiet, Concerns

LEMMA ClearingMeans ==
    ASSUME NEW u \in User
    PROVE  Clearing(u) <=> \E h \in Handler : task[h].user = u /\ Clears(task[h])
BY DEF Clearing, Clears

LEMMA HolderHolds ==
    ASSUME NEW n, NEW u \in User, HolderOf(n) = u PROVE TokenOf(u) = n
BY NoneAssumption DEF HolderOf

\* A step that leaves the entries of u alone: tasks that concern u stay as they
\* are or turn from the owner's entry to the user's, and those that come to
\* concern u do so by a deletion that has cleared it before.
LEMMA Elsewhere ==
    ASSUME NEW u \in User, Mapped(u),
           TokenOf(u)' = TokenOf(u), row[u] = None => row'[u] = None, byUser'[u] = byUser[u],
           \A n \in Number : byToken'[n] = u => byToken[n] = u,
           \A h \in Handler :
              \/ task'[h] = task[h]
              \/ /\ ~Concerns(task[h], u)
                 /\ Concerns(task'[h], u) => task'[h].pc = "registry"
                 /\ task'[h].user = u /\ Clears(task'[h]) => task[h].user = u /\ Clears(task[h])
              \/ /\ task[h].pc = "cacheOwner" /\ task[h].owner # u /\ task'[h].pc = "cacheOwn"
                 /\ task'[h].user = task[h].user /\ task'[h].number = task[h].number
                 /\ task'[h].old = task[h].old
    PROVE  Mapped(u)'
<1>1. Owed(u)'
  BY DEF Mapped, Owed, Concerns
<1>2. Clearing(u)' => row'[u] = None
  <2>1. \A h \in Handler : task'[h].user = u /\ Clears(task'[h]) => task[h].user = u /\ Clears(task[h])
    BY DEF Clears
  <2>2. Clearing(u)' <=> \E h \in Handler : task'[h].user = u /\ Clears(task'[h])
    BY DEF Clearing, Clears
  <2> QED BY <2>1, <2>2, ClearingMeans DEF Mapped
<1>3. Quiet(u)' => byUser'[u] = TokenOf(u)'
  <2>1. \A h \in Handler : ~Concerns(task'[h], u) => ~Concerns(task[h], u)
    BY DEF Concerns
  <2>2. Quiet(u)' <=> \A h \in Handler : ~Concerns(task'[h], u)
    BY DEF Quiet, Concerns
  <2> QED BY <2>1, <2>2, QuietMeans DEF Mapped
<1>4. ASSUME NEW n \in Number, byToken'[n] = u PROVE Expected(n, u)'
  <2>1. Expected(n, u)
    BY <1>4 DEF Mapped
  <2> QED BY <2>1 DEF Expected, Concerns
<1> QED BY <1>1, <1>2, <1>3, <1>4 DEF Mapped

\* A request commits a token of u that it is about to cache, when no other
\* request is: the entry under the token u had is the one it will remove.
LEMMA Committed ==
    ASSUME NEW u \in User, Mapped(u), NEW h \in Handler, Same(h),
           ~Concerns(task[h], u), \A x \in Handler : Concerns(task[x], u) => task[x].pc = "registry",
           ~Clearing(u), ~Clears(task'[h]),
           UNCHANGED <<byUser, byToken>>,
           NEW old, old = TokenOf(u),
           \/ /\ task'[h].pc \in {"cacheOwner", "cacheOwn"} /\ task'[h].user = u
              /\ TokenOf(u)' = task'[h].number /\ (old \in Number => task'[h].old = old)
              /\ task'[h].pc = "cacheOwner" => task'[h].owner # u
           \/ /\ task'[h].pc = "cacheOwner" /\ task'[h].owner = u /\ task'[h].user # u
              /\ TokenOf(u)' = task'[h].released /\ (old \in Number => task'[h].number = old)
    PROVE  Mapped(u)'
<1>0. \A x \in Handler : ~Concerns(task[x], u)
  BY ClearingMeans DEF Concerns, Clears
<1>1. Owed(u)'
  BY <1>0 DEF Owed, Concerns, Same
<1>2. ~Clearing(u)'
  <2>1. Clearing(u)' <=> \E x \in Handler : task'[x].user = u /\ Clears(task'[x])
    BY DEF Clearing, Clears
  <2> QED BY <2>1, ClearingMeans DEF Same
<1>3. ~Quiet(u)'
  BY DEF Quiet
<1>4. ASSUME NEW n \in Number, byToken'[n] = u PROVE Expected(n, u)'
  <2>1. Expected(n, u)
    BY <1>4 DEF Mapped
  <2>2. TokenOf(u) = n
    BY <1>0, <2>1 DEF Expected, Concerns
  <2>3. \/ task'[h].pc \in {"cacheOwner", "cacheOwn"} /\ task'[h].user = u /\ task'[h].old = n
        \/ task'[h].pc = "cacheOwner" /\ task'[h].owner = u /\ task'[h].number = n
    BY <2>2
  <2> QED BY <2>3 DEF Expected
<1> QED BY <1>1, <1>2, <1>3, <1>4 DEF Mapped

\* A request caches the token that the table has: nothing of the rest is lost.
LEMMA CachedRight ==
    ASSUME Typed, NEW u \in User, Mapped(u), NEW h \in Handler, Same(h), NEW old, NEW t \in Token,
           UNCHANGED row, TokenOf(u) = t, Cached(u, old, t),
           Concerns(task[h], u), ~Clears(task'[h]), ~Concerns(task'[h], u),
           task[h].pc = "cacheOwn" => task[h].old = old,
           task[h].pc = "cacheOwner" => task[h].owner = u /\ task[h].user # u /\ task[h].number = old,
           task[h].pc \in {"cacheOwner", "cacheOwn"}
    PROVE  Mapped(u)'
<1>0. /\ byUser \in [User -> Token \union {None}] /\ byToken \in [Number -> User \union {None}]
      /\ t # None
  BY NoneAssumption DEF Typed, DirTypes
<1>1. row[u] # None /\ ~Clearing(u) /\ TokenOf(u)' = t
  BY <1>0 DEF TokenOf, Mapped
<1>2. byUser'[u] = t
  BY <1>0 DEF Cached
<1>3. Owed(u)'
  BY <1>1 DEF Mapped, Owed, Concerns, Same
<1>4. ~Clearing(u)'
  <2>1. Clearing(u)' <=> \E x \in Handler : task'[x].user = u /\ Clears(task'[x])
    BY DEF Clearing, Clears
  <2> QED BY <1>1, <2>1, ClearingMeans DEF Same
<1>5. ASSUME NEW n \in Number, byToken'[n] = u PROVE Expected(n, u)'
  <2>1. CASE n = t
    BY <1>1, <2>1 DEF Expected
  <2>2. CASE n # t
    <3>1. byToken[n] = u /\ n # old
      BY <1>0, <1>5, <2>2, NoneAssumption DEF Cached, With, Unless
    <3>2. PICK x \in Handler : \/ task[x].user = u /\ task[x].pc \in {"cacheOwner", "cacheOwn"} /\ task[x].old = n
                               \/ task[x].owner = u /\ task[x].pc = "cacheOwner" /\ task[x].number = n
                               \/ task[x].user = u /\ task[x].pc = "registry" /\ byUser[u] = n
      BY <2>2, <3>1 DEF Mapped, Expected
    <3>3. task[x].pc # "registry" \/ task[x].user # u
      BY <1>1, ClearingMeans DEF Clears
    <3>4. x # h
      BY <3>1, <3>2, <3>3
    <3> QED BY <3>2, <3>3, <3>4 DEF Expected, Same
  <2> QED BY <2>1, <2>2
<1> QED BY <1>1, <1>2, <1>3, <1>4, <1>5 DEF Mapped

LEMMA ClaimMapped ==
    ASSUME Typed, Settled, MappedInv, NEW h \in Handler, claimAccount(h), ~Still(h)
    PROVE  MappedInv'
<1>0. DirTypes /\ \A x \in Handler : Ready(task[x])
  BY DEF Typed, TaskTypes
<1>1. PICK u \in User : u = task[h].user
  BY ClaimTask
<1>2. PICK r \in Row : /\ row[u] = None /\ r.token = pending' /\ row' = [row EXCEPT ![u] = r]
                       /\ overtaken' = (IF Clearing(u) THEN overtaken \union {u} ELSE overtaken)
                       /\ task[h].pc = "claim" /\ task'[h].pc = "cacheOwn" /\ task'[h].number = pending'
                       /\ task'[h].user = u /\ Same(h) /\ UNCHANGED <<byUser, byToken>>
  BY <1>1, ClaimTask
<1>3. row'[u] = r /\ TokenOf(u)' = pending' /\ \A w \in User \ {u} : row'[w] = row[w] /\ TokenOf(w)' = TokenOf(w)
  BY <1>0, <1>2, OneRow
<1>4. ASSUME NEW w \in User, w # u, w \notin overtaken' PROVE Mapped(w)'
  <2>1. Mapped(w)
    BY <1>2, <1>4 DEF MappedInv
  <2>2. ~Concerns(task[h], w) /\ ~Concerns(task'[h], w) /\ task'[h].user # w
    BY <1>2, <1>4 DEF Concerns
  <2> QED BY <1>2, <1>3, <1>4, <2>1, <2>2, Elsewhere DEF Same
<1>5. ASSUME u \notin overtaken' PROVE Mapped(u)'
  <2>1. Mapped(u) /\ ~Clearing(u)
    BY <1>2, <1>5 DEF MappedInv
  <2>2. TokenOf(u) = None
    BY <1>2 DEF TokenOf
  <2>3. \A x \in Handler : Concerns(task[x], u) => task[x].pc = "registry"
    BY <1>0, <2>1, <2>2, NoneAssumption DEF Concerns, Mapped, Owed, Ready
  <2>4. ~Concerns(task[h], u) /\ ~Clears(task'[h])
    BY <1>2 DEF Concerns, Clears
  <2>5. None \notin Number
    BY NoneAssumption DEF Token
  <2>6. \/ /\ task'[h].pc \in {"cacheOwner", "cacheOwn"} /\ task'[h].user = u
           /\ TokenOf(u)' = task'[h].number /\ (None \in Number => task'[h].old = None)
           /\ task'[h].pc = "cacheOwner" => task'[h].owner # u
        \/ FALSE
    BY <1>2, <1>3, <2>5
  <2> QED BY <1>2, <2>1, <2>2, <2>3, <2>4, <2>6, Committed
<1> QED BY <1>4, <1>5 DEF MappedInv

\* What a history of the requests overtaken says.
LEMMA NotOvertaken ==
    ASSUME NEW S, overtaken' = Overtaking(S), NEW w \in User, w \notin overtaken'
    PROVE  /\ w \notin overtaken
           /\ w \in S => \A x \in Handler : Concerns(task[x], w) => task[x].pc = "registry"
BY DEF Overtaking, AboutToCache, Concerns

LEMMA ReplaceMapped ==
    ASSUME Typed, Settled, MappedInv, NEW h \in Handler, replaceDirectoryToken(h), ~Still(h)
    PROVE  MappedInv'
<1>0. DirTypes
  BY DEF Typed
<1>1. PICK u \in User : u = task[h].user
  BY ReplaceTask
<1>2. PICK r \in Row : /\ row[u] # None /\ r.token = task[h].number /\ row' = [row EXCEPT ![u] = r]
                       /\ overtaken' = Overtaking({u}) /\ TokenOf(u) = task[h].old
                       /\ task[h].pc = "replace" /\ task'[h].pc = "cacheOwn"
                       /\ task'[h].number = task[h].number /\ task'[h].old = task[h].old
                       /\ task'[h].user = u /\ Same(h) /\ UNCHANGED <<byUser, byToken>>
  BY <1>1, ReplaceTask
<1>3. row'[u] = r /\ TokenOf(u)' = r.token /\ \A w \in User \ {u} : row'[w] = row[w] /\ TokenOf(w)' = TokenOf(w)
  BY <1>0, <1>2, OneRow
<1>4. ASSUME NEW w \in User, w # u, w \notin overtaken' PROVE Mapped(w)'
  <2>1. Mapped(w)
    BY <1>2, <1>4, NotOvertaken DEF MappedInv
  <2>2. ~Concerns(task[h], w) /\ ~Concerns(task'[h], w) /\ task'[h].user # w
    BY <1>2, <1>4 DEF Concerns
  <2> QED BY <1>2, <1>3, <1>4, <2>1, <2>2, Elsewhere DEF Same
<1>5. ASSUME u \notin overtaken' PROVE Mapped(u)'
  <2>1. /\ u \notin overtaken
        /\ \A x \in Handler : Concerns(task[x], u) => task[x].pc = "registry"
    BY <1>2, <1>5, NotOvertaken
  <2>2. Mapped(u) /\ ~Clearing(u)
    BY <1>2, <2>1 DEF MappedInv, Mapped
  <2>3. ~Concerns(task[h], u) /\ ~Clears(task'[h])
    BY <1>2 DEF Concerns, Clears
  <2>4. PICK old : old = TokenOf(u)
    OBVIOUS
  <2>5. /\ task'[h].pc \in {"cacheOwner", "cacheOwn"} /\ task'[h].user = u
        /\ TokenOf(u)' = task'[h].number /\ (old \in Number => task'[h].old = old)
        /\ task'[h].pc = "cacheOwner" => task'[h].owner # u
    BY <1>2, <1>3, <2>4
  <2> QED BY <1>2, <2>1, <2>2, <2>3, <2>4, <2>5, Committed
<1> QED BY <1>4, <1>5 DEF MappedInv

LEMMA ReclaimMapped ==
    ASSUME Typed, Settled, MappedInv, NEW h \in Handler, reclaimFromLegacyAccount(h), ~Still(h)
    PROVE  MappedInv'
<1>0. DirTypes /\ Asked
  BY DEF Typed, Settled
<1>1. PICK u, v \in User : u # v /\ u = task[h].user /\ v = task[h].owner
  BY <1>0, ReclaimTask DEF Asked
<1>2. PICK r, s \in Row :
         /\ row[u] # None /\ TokenOf(u) = task[h].old /\ row[v] # None /\ TokenOf(v) = task[h].number
         /\ r.token = pending' /\ s.token = task[h].number /\ row'[v] = r /\ row'[u] = s
         /\ \A w \in User : w # u /\ w # v => row'[w] = row[w]
         /\ overtaken' = Overtaking({u, v})
         /\ task[h].pc = "reclaim" /\ task'[h].pc = "cacheOwner" /\ task'[h].owner = v
         /\ task'[h].released = pending'
         /\ task'[h].number = task[h].number /\ task'[h].old = task[h].old
         /\ task'[h].user = u /\ Same(h) /\ UNCHANGED <<byUser, byToken>>
  BY <1>0, <1>1, ReclaimTask
<1>3. /\ TokenOf(v)' = r.token /\ TokenOf(u)' = s.token
      /\ \A w \in User : w # u /\ w # v => TokenOf(w)' = TokenOf(w)
  BY <1>1, <1>2, TwoRows
<1>4. ASSUME NEW w \in User, w # u, w # v, w \notin overtaken' PROVE Mapped(w)'
  <2>1. Mapped(w)
    BY <1>2, <1>4, NotOvertaken DEF MappedInv
  <2>2. ~Concerns(task[h], w) /\ ~Concerns(task'[h], w) /\ task'[h].user # w
    BY <1>2, <1>4 DEF Concerns
  <2> QED BY <1>2, <1>3, <1>4, <2>1, <2>2, Elsewhere DEF Same
<1>5. ASSUME NEW w \in {u, v}, w \notin overtaken' PROVE Mapped(w)'
  <2>1. /\ w \notin overtaken /\ w \in User
        /\ \A x \in Handler : Concerns(task[x], w) => task[x].pc = "registry"
    BY <1>2, <1>5, NotOvertaken
  <2>2. Mapped(w) /\ ~Clearing(w)
    BY <1>2, <1>5, <2>1 DEF MappedInv, Mapped
  <2>3. ~Concerns(task[h], w) /\ ~Clears(task'[h])
    BY <1>2 DEF Concerns, Clears
  <2>4. PICK old : old = TokenOf(w)
    OBVIOUS
  <2>5. CASE w = u
    <3>1. /\ task'[h].pc \in {"cacheOwner", "cacheOwn"} /\ task'[h].user = w
          /\ TokenOf(w)' = task'[h].number /\ (old \in Number => task'[h].old = old)
          /\ task'[h].pc = "cacheOwner" => task'[h].owner # w
      BY <1>1, <1>2, <1>3, <2>4, <2>5
    <3> QED BY <1>2, <2>1, <2>2, <2>3, <2>4, <3>1, Committed
  <2>6. CASE w = v
    <3>1. /\ task'[h].pc = "cacheOwner" /\ task'[h].owner = w /\ task'[h].user # w
          /\ TokenOf(w)' = task'[h].released /\ (old \in Number => task'[h].number = old)
      BY <1>1, <1>2, <1>3, <2>4, <2>6
    <3> QED BY <1>2, <2>1, <2>2, <2>3, <2>4, <3>1, Committed
  <2> QED BY <1>5, <2>5, <2>6
<1> QED BY <1>4, <1>5 DEF MappedInv

\* The entry of a deleted account is still the one its deletion will remove.
LEMMA DeleteMapped ==
    ASSUME Typed, Settled, MappedInv, NEW h \in Handler, deleteDurableState(h), ~Still(h)
    PROVE  MappedInv'
<1>0. DirTypes
  BY DEF Typed
<1>1. PICK u \in User : u = task[h].user
  BY DeleteTask
<1>2. /\ row' = [row EXCEPT ![u] = None] /\ overtaken' = Overtaking({u})
      /\ task[h].pc = "delete" /\ task'[h].pc = "registry"
      /\ task'[h].user = u /\ Same(h) /\ UNCHANGED <<byUser, byToken>>
  BY <1>1, DeleteTask
<1>3. row'[u] = None /\ TokenOf(u)' = None /\ \A w \in User \ {u} : row'[w] = row[w] /\ TokenOf(w)' = TokenOf(w)
  BY <1>0, <1>2, NoRow
<1>4. ASSUME NEW w \in User, w # u, w \notin overtaken' PROVE Mapped(w)'
  <2>1. Mapped(w)
    BY <1>2, <1>4, NotOvertaken DEF MappedInv
  <2>2. ~Concerns(task[h], w) /\ ~Concerns(task'[h], w) /\ task'[h].user # w
    BY <1>2, <1>4 DEF Concerns
  <2> QED BY <1>2, <1>3, <1>4, <2>1, <2>2, Elsewhere DEF Same
<1>5. ASSUME u \notin overtaken' PROVE Mapped(u)'
  <2>1. /\ u \notin overtaken
        /\ \A x \in Handler : Concerns(task[x], u) => task[x].pc = "registry"
    BY <1>2, <1>5, NotOvertaken
  <2>2. Mapped(u)
    BY <2>1 DEF MappedInv
  <2>3. Owed(u)'
    BY <1>2, <2>1 DEF Owed, Concerns, Same
  <2>4. ~Quiet(u)'
    BY <1>2 DEF Quiet
  <2>5. ASSUME NEW n \in Number, byToken'[n] = u PROVE Expected(n, u)'
    <3>1. Expected(n, u)
      BY <1>2, <2>2, <2>5 DEF Mapped
    <3>2. byUser[u] = n
      <4>1. CASE TokenOf(u) = n
        <5>1. row[u] # None
          BY <4>1, NoneAssumption DEF TokenOf, Token
        <5>2. \A x \in Handler : ~Concerns(task[x], u)
          BY <2>1, <2>2, <5>1, ClearingMeans DEF Mapped, Clears, Concerns
        <5> QED BY <2>2, <4>1, <5>2, QuietMeans DEF Mapped
      <4>2. CASE TokenOf(u) # n
        BY <2>1, <3>1, <4>2 DEF Expected, Concerns
      <4> QED BY <4>1, <4>2
    <3> QED BY <1>2, <3>2 DEF Expected
  <2> QED BY <1>3, <2>3, <2>4, <2>5 DEF Mapped
<1> QED BY <1>4, <1>5 DEF MappedInv

LEMMA CacheOwnerMapped ==
    ASSUME Typed, Settled, MappedInv, NEW h \in Handler, CacheOwner(h)
    PROVE  MappedInv'
<1>0. /\ TaskTypes /\ Ready(task[h]) /\ Asked
      /\ byUser \in [User -> Token \union {None}] /\ byToken \in [Number -> User \union {None}]
  BY DEF Typed, TaskTypes, Settled, DirTypes
<1>1. /\ task[h].pc = "cacheOwner" /\ Goto(h, "cacheOwn")
      /\ Cached(task[h].owner, task[h].number, task[h].released)
      /\ UNCHANGED <<row, pending, overtaken, socket>>
  BY DEF CacheOwner, copyVars
<1>2. PICK u, v \in User : u # v /\ u = task[h].user /\ v = task[h].owner
  BY <1>0, <1>1 DEF Ready, Asked
<1>3. PICK n, t \in Token : n = task[h].number /\ t = task[h].released
  BY <1>0, <1>1 DEF Ready
<1>4. /\ task'[h].pc = "cacheOwn" /\ task'[h].user = u /\ task'[h].number = n
      /\ task'[h].old = task[h].old /\ Same(h)
  BY <1>0, <1>1, <1>2, <1>3, GotoFields
<1>5. Cached(v, n, t)
  BY <1>1, <1>2, <1>3
<1>6. ASSUME NEW w \in User, w # v, w \notin overtaken' PROVE Mapped(w)'
  <2>1. Mapped(w) /\ TokenOf(w)' = TokenOf(w) /\ row'[w] = row[w]
    BY <1>1, <1>6 DEF MappedInv, TokenOf
  <2>2. byUser'[w] = byUser[w]
    BY <1>0, <1>5, <1>6 DEF Cached
  <2>3. \A m \in Number : byToken'[m] = w => byToken[m] = w
    BY <1>0, <1>5, <1>6, NoneAssumption DEF Cached, With, Unless
  <2>4. /\ task[h].pc = "cacheOwner" /\ task[h].owner # w /\ task'[h].pc = "cacheOwn"
        /\ task'[h].user = task[h].user /\ task'[h].number = task[h].number
        /\ task'[h].old = task[h].old
    BY <1>1, <1>2, <1>3, <1>4, <1>6
  <2> QED BY <1>4, <2>1, <2>2, <2>3, <2>4, Elsewhere DEF Same
<1>7. ASSUME v \notin overtaken' PROVE Mapped(v)'
  <2>1. Mapped(v) /\ UNCHANGED row
    BY <1>1, <1>7 DEF MappedInv
  <2>2. TokenOf(v) = t
    BY <1>1, <1>2, <1>3, <2>1 DEF Mapped, Owed
  <2>3. Concerns(task[h], v) /\ ~Clears(task'[h]) /\ ~Concerns(task'[h], v)
    BY <1>1, <1>2, <1>4 DEF Concerns, Clears
  <2> QED BY <1>1, <1>2, <1>3, <1>4, <1>5, <2>1, <2>2, <2>3, CachedRight
<1> QED BY <1>6, <1>7 DEF MappedInv

LEMMA CacheOwnMapped ==
    ASSUME Typed, Settled, MappedInv, NEW h \in Handler, CacheOwn(h)
    PROVE  MappedInv'
<1>0. /\ TaskTypes /\ Ready(task[h])
      /\ byUser \in [User -> Token \union {None}] /\ byToken \in [Number -> User \union {None}]
  BY DEF Typed, TaskTypes, DirTypes
<1>1. /\ task[h].pc = "cacheOwn" /\ Done(h)
      /\ Cached(task[h].user, task[h].old, task[h].number)
      /\ UNCHANGED <<row, pending, overtaken, socket>>
  BY DEF CacheOwn, copyVars
<1>2. PICK u \in User, t \in Token : u = task[h].user /\ t = task[h].number
  BY <1>0, <1>1 DEF Ready
<1>3. PICK old : old = task[h].old
  OBVIOUS
<1>4. task'[h].pc = "idle" /\ Same(h)
  BY <1>0, <1>1, DoneFields
<1>5. Cached(u, old, t)
  BY <1>1, <1>2, <1>3
<1>6. ASSUME NEW w \in User, w # u, w \notin overtaken' PROVE Mapped(w)'
  <2>1. Mapped(w) /\ TokenOf(w)' = TokenOf(w) /\ row'[w] = row[w]
    BY <1>1, <1>6 DEF MappedInv, TokenOf
  <2>2. byUser'[w] = byUser[w]
    BY <1>0, <1>5, <1>6 DEF Cached
  <2>3. \A m \in Number : byToken'[m] = w => byToken[m] = w
    BY <1>0, <1>5, <1>6, NoneAssumption DEF Cached, With, Unless
  <2>4. ~Concerns(task[h], w) /\ ~Concerns(task'[h], w) /\ ~Clears(task'[h])
    BY <1>1, <1>2, <1>4, <1>6 DEF Concerns, Clears
  <2> QED BY <1>4, <2>1, <2>2, <2>3, <2>4, Elsewhere DEF Same
<1>7. ASSUME u \notin overtaken' PROVE Mapped(u)'
  <2>1. Mapped(u) /\ UNCHANGED row
    BY <1>1, <1>7 DEF MappedInv
  <2>2. TokenOf(u) = t
    BY <1>1, <1>2, <2>1 DEF Mapped, Owed
  <2>3. Concerns(task[h], u) /\ ~Clears(task'[h]) /\ ~Concerns(task'[h], u)
    BY <1>1, <1>2, <1>4 DEF Concerns, Clears
  <2> QED BY <1>1, <1>2, <1>3, <1>4, <1>5, <2>1, <2>2, <2>3, CachedRight
<1> QED BY <1>6, <1>7 DEF MappedInv

LEMMA RemoveMapped ==
    ASSUME Typed, Settled, MappedInv, NEW h \in Handler, removeUser(h)
    PROVE  MappedInv'
<1>0. /\ TaskTypes /\ Ready(task[h])
      /\ byUser \in [User -> Token \union {None}] /\ byToken \in [Number -> User \union {None}]
  BY DEF Typed, TaskTypes, DirTypes
<1>1. /\ task[h].pc = "registry" /\ Goto(h, "close")
      /\ byUser' = [byUser EXCEPT ![task[h].user] = None]
      /\ byToken' = Unless(byToken, byUser[task[h].user], task[h].user)
      /\ UNCHANGED <<row, pending, overtaken, socket>>
  BY DEF removeUser, copyVars
<1>2. PICK u \in User : u = task[h].user
  BY <1>0, <1>1 DEF Ready
<1>3. task'[h].pc = "close" /\ task'[h].user = u /\ Same(h)
  BY <1>0, <1>1, <1>2, GotoFields
<1>4. byUser' = [byUser EXCEPT ![u] = None] /\ byToken' = Unless(byToken, byUser[u], u)
  BY <1>1, <1>2
<1>5. ASSUME NEW w \in User, w # u, w \notin overtaken' PROVE Mapped(w)'
  <2>1. Mapped(w) /\ TokenOf(w)' = TokenOf(w) /\ row'[w] = row[w]
    BY <1>1, <1>5 DEF MappedInv, TokenOf
  <2>2. byUser'[w] = byUser[w]
    BY <1>0, <1>4, <1>5
  <2>3. \A m \in Number : byToken'[m] = w => byToken[m] = w
    BY <1>0, <1>4, <1>5, NoneAssumption DEF Unless
  <2>4. ~Concerns(task[h], w) /\ ~Concerns(task'[h], w) /\ task'[h].user # w
    BY <1>1, <1>2, <1>3, <1>5 DEF Concerns
  <2> QED BY <1>3, <2>1, <2>2, <2>3, <2>4, Elsewhere DEF Same
<1>6. ASSUME u \notin overtaken' PROVE Mapped(u)'
  <2>1. Mapped(u) /\ UNCHANGED row
    BY <1>1, <1>6 DEF MappedInv
  <2>2. row[u] = None /\ TokenOf(u) = None /\ TokenOf(u)' = None
    BY <1>1, <1>2, <2>1, ClearingMeans DEF Mapped, Clears, TokenOf
  <2>3. Owed(u)'
    BY <1>3, <2>1, <2>2 DEF Mapped, Owed, Same
  <2>4. byUser'[u] = None
    BY <1>0, <1>4
  <2>5. ASSUME NEW n \in Number, byToken'[n] = u PROVE Expected(n, u)'
    <3>1. byToken[n] = u /\ n # byUser[u]
      BY <1>0, <1>4, <2>5, NoneAssumption DEF Unless
    <3>2. n # None
      BY NoneAssumption DEF Token
    <3> QED BY <1>1, <1>3, <2>1, <2>2, <3>1, <3>2 DEF Mapped, Expected, Same
  <2> QED BY <2>1, <2>2, <2>3, <2>4, <2>5 DEF Mapped
<1> QED BY <1>5, <1>6 DEF MappedInv

LEMMA MappedStep ==
    ASSUME Typed, Settled, MappedInv, [Next]_vars
    PROVE  MappedInv'
<1>0. DirTypes /\ TaskTypes /\ Watched /\ Asked
  BY DEF Typed, Settled
<1>a. ASSUME UNCHANGED dirVars,
             \A x \in Handler :
                \/ task'[x] = task[x]
                \/ /\ task[x].pc \notin {"cacheOwner", "cacheOwn", "registry"}
                   /\ task'[x].pc \notin {"cacheOwner", "cacheOwn"}
                   /\ Clears(task'[x]) => Clears(task[x]) /\ task'[x].user = task[x].user
      PROVE  MappedInv'
  <2> SUFFICES ASSUME NEW u \in User, u \notin overtaken' PROVE Mapped(u)'
    BY DEF MappedInv
  <2>1. /\ Mapped(u) /\ TokenOf(u)' = TokenOf(u) /\ row'[u] = row[u] /\ byUser'[u] = byUser[u]
        /\ \A n \in Number : byToken'[n] = u => byToken[n] = u
    BY <1>a DEF MappedInv, TokenOf, dirVars
  <2>2. \A x \in Handler :
           \/ task'[x] = task[x]
           \/ /\ ~Concerns(task[x], u)
              /\ Concerns(task'[x], u) => task'[x].pc = "registry"
              /\ task'[x].user = u /\ Clears(task'[x]) => task[x].user = u /\ Clears(task[x])
    BY <1>a DEF Concerns
  <2> QED BY <2>1, <2>2, Elsewhere
<1>1. ASSUME NEW h \in Handler, Arrive(h) PROVE MappedInv'
  BY <1>0, <1>1, <1>a, ArriveTask DEF Same, Clears
<1>2. ASSUME NEW h \in Handler, Aside(h) PROVE MappedInv'
  BY <1>0, <1>2, <1>a, AsideTask DEF Same
<1>3. ASSUME NEW h \in Handler, Visit(h) PROVE MappedInv'
  <2>1. /\ UNCHANGED dirVars /\ task[h].pc \in {"close", "connect", "watch"}
        /\ task'[h].pc \in {"purge", "watch", "idle"}
        /\ Clears(task'[h]) => Clears(task[h]) /\ task'[h].user = task[h].user
        /\ \A x \in Handler \ {h} : \/ task'[x] = task[x]
                                    \/ x = socket[task[h].user] /\ task'[x].pc = "idle"
    BY <1>0, <1>3, VisitTask
  <2>2. task[h].user \in User
    BY <1>0, <2>1 DEF TaskTypes, Ready
  <2>3. ASSUME NEW x \in Handler \ {h}, task'[x] # task[x]
        PROVE  task[x].pc = "watch" /\ task'[x].pc = "idle"
    BY <2>1, <2>2, <2>3, <1>0, NoneAssumption DEF Watched
  <2> QED BY <2>1, <2>3, <1>a DEF Clears
<1>4. ASSUME NEW h \in Handler, Commit(h) PROVE MappedInv'
  <2>1. CASE Still(h)
    BY <1>0, <1>4, <2>1, <1>a, CommitTask DEF Still, Same, Clears
  <2> QED BY <1>4, <2>1, ClaimMapped, ReplaceMapped, ReclaimMapped, DeleteMapped DEF Commit
<1>5. ASSUME NEW h \in Handler, Cache(h) PROVE MappedInv'
  BY <1>5, CacheOwnerMapped, CacheOwnMapped, RemoveMapped DEF Cache
<1>6. ASSUME NEW w \in User, setIdentity(w) \/ recover(w) PROVE MappedInv'
  <2> SUFFICES ASSUME NEW u \in User, u \notin overtaken' PROVE Mapped(u)'
    BY DEF MappedInv
  <2>1. /\ UNCHANGED <<pending, byUser, byToken, overtaken, socket, task>>
        /\ TokenOf(u)' = TokenOf(u) /\ (row'[u] = None <=> row[u] = None)
    BY <1>0, <1>6, Rekeyed
  <2>2. Mapped(u)
    BY <2>1 DEF MappedInv
  <2> QED BY <2>1, <2>2, Elsewhere
<1>7. CASE Restart
  <2> SUFFICES ASSUME NEW u \in User PROVE Mapped(u)'
    BY DEF MappedInv
  <2>1. /\ \A h \in Handler : task'[h].pc = "idle"
        /\ byUser'[u] = TokenOf(u) /\ TokenOf(u)' = TokenOf(u)
        /\ \A n \in Number : byToken'[n] = HolderOf(n)
    BY <1>7, AllIdle DEF TokenOf
  <2>2. \A n \in Number : byToken'[n] = u => TokenOf(u)' = n
    BY <2>1, HolderHolds
  <2> QED BY <2>1, <2>2 DEF Mapped, Owed, Clearing, Quiet, Expected
<1>8. CASE UNCHANGED <<dirVars, socket, task>>
  BY <1>8, <1>a
<1> QED BY <1>1, <1>2, <1>3, <1>4, <1>5, <1>6, <1>7, <1>8, Moves

LEMMA InitMapped == Init => MappedInv
<1> SUFFICES ASSUME Init, NEW u \in User PROVE Mapped(u)
  BY DEF MappedInv
<1>1. \A h \in Handler : task[h].pc = "idle"
  BY IdleFields DEF Init
<1>2. byUser[u] = TokenOf(u) /\ \A n \in Number : byToken[n] = HolderOf(n)
  BY DEF Init
<1>3. \A n \in Number : byToken[n] = u => TokenOf(u) = n
  BY <1>2, HolderHolds
<1> QED BY <1>1, <1>2, <1>3 DEF Mapped, Owed, Clearing, Quiet, Expected

LEMMA MappedAgrees == ASSUME Typed, Settled, MappedInv PROVE CacheAgrees
<1>1. \A u \in User \ overtaken : Quiet(u) => byUser[u] = TokenOf(u)
  BY DEF MappedInv, Mapped
<1>2. ASSUME \A u \in User : Quiet(u), NEW n \in Number
      PROVE  byToken[n] \in {None, HolderOf(n)} \union overtaken
  <2> SUFFICES ASSUME NEW u \in User, byToken[n] = u, u \notin overtaken PROVE HolderOf(n) = u
    BY DEF Typed, DirTypes
  <2>1. Expected(n, u)
    BY DEF MappedInv, Mapped
  <2>2. TokenOf(u) = n
    BY <1>2, <2>1 DEF Expected, Quiet
  <2>3. HolderOf(n) \in User /\ TokenOf(HolderOf(n)) = n
    BY <2>2 DEF HolderOf
  <2>4. n # None
    BY NoneAssumption DEF Token
  <2> QED BY <2>2, <2>3, <2>4 DEF Settled, OneEach
<1> QED BY <1>1, <1>2 DEF CacheAgrees

\* While nobody is between a commit and the visit to the maps, the registry
\* says what the table says of every account that was not overtaken, however
\* updates, reclaims, deletions, registrations of identifiers that were free
\* again and restarts fall between each other: what a request carries to the
\* maps is still what the table has, and an entry under an old number has
\* someone who is about to remove it.
THEOREM RegistryAgrees == Spec => []CacheAgrees
<1>1. Init => Typed /\ Settled /\ MappedInv
  BY InitTyped, InitSettled, InitMapped
<1>2. Typed /\ Settled /\ MappedInv /\ [Next]_vars => (Typed /\ Settled /\ MappedInv)'
  BY TypedStep, SettledStep, MappedStep
<1>3. Typed /\ Settled /\ MappedInv => CacheAgrees
  BY MappedAgrees
<1> QED BY <1>1, <1>2, <1>3, PTL DEF Spec
=============================================================================
