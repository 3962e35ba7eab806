--------------------------- MODULE MCCredentials ---------------------------
(***************************************************************************)
(* Small instances of Credentials.  Handlers are interchangeable.          *)
(***************************************************************************)
EXTENDS Credentials, TLC

\* A scenario limits which requests arrive, on which instances, the time, and
\* whether handlers may fail or die with their process.
VARIABLE scenario

Here == CHOOSE i \in Instance : TRUE

\* Tokens are renewed, replaced, redeemed and revoked on one instance.
OnOne(kinds) == [kinds |-> kinds, on |-> {Here}, until |-> 0, faults |-> TRUE]
Renewing == {OnOne({"refresh", "reauth", "recover"}),
             OnOne({"refresh", "delete", "recover"})}

\* A logout on one instance, access checks on all of them, the cache ages.
Staling == [kinds |-> {"access", "logout"}, on |-> Instance, until |-> MaxTime,
            faults |-> FALSE]

\* The handler stops half-way: its answer is an error, or it has none.
Fails(r) ==
    \/ Unavailable(r)
    \/ req[r].pc \notin {"idle", "answered"} /\ req'[r].pc = "idle"

Within(s) ==
    /\ now' <= s.until
    /\ inbox' \subseteq s.on
    /\ \A r \in Request : req'[r].pc # "idle" => /\ req'[r].kind \in s.kinds
                                                 /\ req'[r].on \in s.on
    /\ ~s.faults => \A r \in Request : ~Fails(r)

MCInit == Init /\ scenario \in Renewing \union {Staling}
MCNext == Next /\ Within(scenario) /\ UNCHANGED scenario
MCSpec == MCInit /\ [][MCNext]_<<vars, scenario>>

Symmetry == Permutations(Request)
=============================================================================
