----------------------------- MODULE AtLeastOnce -----------------------------
(***************************************************************************)
(* What the ACK queue of one recipient promises, with no Redis structure,  *)
(* no socket and no handler left: an accepted ciphertext is kept unchanged *)
(* until the recipient has it durably or its retention, fixed when it was  *)
(* first accepted, runs out; then no copy stays.                           *)
(***************************************************************************)
EXTENDS Integers

CONSTANTS Token, Corrupt, TTL

VARIABLES
    now,
    held,       \* held[t]: the deadline of a ciphertext in custody, 0 if none
    persisted   \* tokens the recipient has durably processed

vars == <<now, held, persisted>>

Init ==
    /\ now = 1
    /\ held = [t \in Token |-> 0]
    /\ persisted = {}

\* Custody starts; while it lasts a retry changes nothing.
Accept(t) ==
    /\ held[t] = 0
    /\ held' = [held EXCEPT ![t] = now + TTL]
    /\ UNCHANGED <<now, persisted>>

\* The recipient makes the message its own; custody goes on until it says so.
Persist(t) ==
    /\ persisted' = persisted \cup {t}
    /\ UNCHANGED <<now, held>>

\* Custody ends by the recipient's ACK, or because the envelope is unreadable.
Release(t) ==
    /\ t \in persisted \cup Corrupt
    /\ held' = [held EXCEPT ![t] = 0]
    /\ UNCHANGED <<now, persisted>>

\* At its deadline a ciphertext is gone, and not before.
Tick ==
    /\ now' = now + 1
    /\ held' = [t \in Token |-> IF held[t] <= now' THEN 0 ELSE held[t]]
    /\ UNCHANGED persisted

Next ==
    \/ \E t \in Token : Accept(t) \/ Persist(t) \/ Release(t)
    \/ Tick

Spec == Init /\ [][Next]_vars

=============================================================================
