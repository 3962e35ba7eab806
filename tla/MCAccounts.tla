----------------------------- MODULE MCAccounts -----------------------------
(***************************************************************************)
(* Small instances of Accounts: one circumstance per scenario, each small  *)
(* enough to explore completely.                                           *)
(***************************************************************************)
EXTENDS Accounts, TLC

CONSTANTS A, B, C, D, n1, n2, h1, h2, h3

\* A holds n1 with a libsignal identity only, B is free to come or holds n2.
Legacy(n) == [token |-> n, olm |-> FALSE, legacy |-> TRUE, pin |-> FALSE]
Rows == [u \in User |-> IF u = A THEN Legacy(n1) ELSE IF u = B THEN Legacy(n2) ELSE None]

\* A scenario says what each handler may be asked, bounds the codes and the
\* time, and names the events there are, the accounts requests are about, and
\* those that publish an identity or recover.
VARIABLE scenario

\* Codes are asked for, guessed at, accepted and replaced.
Coding == [asked |-> <<>>, codes |-> MaxCodes, time |-> MaxTime,
           events |-> {"wrong"}, users |-> {}, keyed |-> {}]

\* One grant is used by two requests, before and after it expires.
Registering == [Coding EXCEPT !.asked = [h \in {h1, h2} |-> {"claim"}], !.codes = 1,
                              !.events = {"restart"}, !.users = {C, D}]

\* Two accounts want each other's numbers; one publishes its identity and
\* recovers meanwhile.
Moving == [Coding EXCEPT !.asked = [h \in {h1, h2} |-> {"replace", "reclaim"}],
              !.codes = 0, !.time = 0, !.events = {"restart"}, !.users = {A, B},
              !.keyed = {A}]

\* An account is deleted while it changes its number, or loses it.
Leaving == [Moving EXCEPT !.asked = (h3 :> {"delete"}) @@ @, !.events = {}, !.keyed = {}]

\* An account is deleted while it connects and messages arrive for it.
Fading == [Moving EXCEPT !.asked = [h \in Handler |-> {"delete", "enqueue", "connect"}],
              !.events = {"restart", "failure"}, !.users = {A}, !.keyed = {}]

\* An account is deleted and registered again under the same identifier.
Returning == [Registering EXCEPT !.asked = (h1 :> {"delete", "claim"}) @@ (h2 :> {"claim", "replace"}),
                 !.time = 0, !.events = {"restart", "failure"}, !.users = {A}]

Scenarios == {Coding, Registering, Moving, Leaving, Fading, Returning}

MCInit == Init /\ scenario \in Scenarios

\* Only A is ever deleted.
Admitted(h) == Arrive(h) /\ task'[h].pc \in scenario.asked[h] /\ task'[h].user \in scenario.users
               /\ (task'[h].pc = "delete" => task'[h].user = A)

MCNext ==
    /\ \/ Len(codes) < scenario.codes /\ generateOtp
       \/ verifyRight \/ OtpExpires
       \/ "wrong" \in scenario.events /\ verifyWrong
       \/ purgeExpired
       \/ \E h \in DOMAIN scenario.asked :
             \/ Admitted(h) \/ Continue(h) \/ HangUp(h)
             \/ "failure" \in scenario.events /\ PurgeFails(h)
       \/ \E u \in scenario.keyed : setIdentity(u) \/ recover(u)
       \/ \E u \in User : Lapse(u)
       \/ now < scenario.time /\ Tick
       \/ "restart" \in scenario.events /\ Restart
    /\ UNCHANGED scenario
MCSpec == MCInit /\ [][MCNext]_<<vars, scenario>> /\ Fairness
=============================================================================
