---------------------------- MODULE MCGroupCalls ----------------------------
(***************************************************************************)
(* Small instances of GroupCalls: one session per user, in circumstances   *)
(* that are each small enough to explore completely.                       *)
(***************************************************************************)
EXTENDS GroupCalls, TLC

CONSTANTS A, B, C, D, a1, b1, c1, d1, g1, g2, Scenarios

Owners == (a1 :> A @@ b1 :> B @@ c1 :> C @@ d1 :> D)
OwnerOf == [s \in Session |-> Owners[s]]

\* A scenario limits the sessions and groups there are, the encryption
\* declared, and what may happen to sessions and calls.
VARIABLE scenario

\* Two groups and at most one call per user.  No call requires encryption, so
\* that none refuses a member.
TwoGroups == [sessions |-> {a1, b1, c1}, groups |-> {g1, g2}, media |-> {FALSE},
              hang |-> {a1, b1, c1}, drop |-> FALSE, expire |-> FALSE]

\* Invitations and joins with and without encryption.
Mixed == [TwoGroups EXCEPT !.groups = {g1}, !.media = {TRUE, FALSE}]

\* Everybody leaves, in every way, while calls expire and start again.
Leavers == [TwoGroups EXCEPT !.groups = {g1}, !.drop = TRUE, !.expire = TRUE]

\* More members than a call can hold, one of whom leaves and joins again.
Crowd == [TwoGroups EXCEPT !.sessions = {a1, b1, c1, d1}, !.groups = {g1},
                           !.hang = {d1}]

\* A coordinator and its successor disconnect.
Successors == [TwoGroups EXCEPT !.media = {TRUE}, !.sessions = {a1, b1, c1, d1}, !.groups = {g1},
                                !.hang = {a1, b1}, !.drop = TRUE]

SafetyScenarios == {TwoGroups, Mixed, Leavers, Crowd}
OrphanScenarios == {Successors}

Within(s) ==
    /\ \A x \in Session \ s.sessions : task'[x].pc = "absent"
    /\ \A g \in Group \ s.groups : active'[g] = NoCall
    /\ \A g \in Occupied(active') :
          /\ active'[g].requiresMediaE2ee \in s.media
          /\ active'[g].mediaE2eeParticipants # {} => TRUE \in s.media
          /\ active'[g].participants \subseteq {Owner[x] : x \in s.sessions}
          /\ active'[g].expired => s.expire
    /\ \A x \in Session : task'[x].closing \/ task'[x].pc = "gone" => s.drop
    /\ \A x \in Session : task'[x].pc = "evict" => FALSE \in s.media
    /\ \A x \in Session : task'[x].pc = "leave" => x \in s.hang

MCInit == Init /\ scenario \in Scenarios
MCNext == Next /\ Within(scenario) /\ UNCHANGED scenario
MCSpec == MCInit /\ [][MCNext]_<<vars, scenario>>

\* With one session per user, users are interchangeable together with their
\* sessions; D is in one scenario only and stays itself.
Renaming(p) ==
    [x \in User \union Session |->
        IF x \in User THEN p[x]
        ELSE CHOOSE s \in Session : Owner[s] = p[Owner[x]]]
Symmetry == {Renaming(p) : p \in {q \in Permutations(User) : q[D] = D}}
=============================================================================
