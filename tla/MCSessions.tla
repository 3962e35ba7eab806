----------------------------- MODULE MCSessions -----------------------------
(***************************************************************************)
(* Small instances of Sessions: one circumstance per scenario, each small  *)
(* enough to explore completely.                                           *)
(***************************************************************************)
EXTENDS Sessions, TLC

CONSTANTS A, B, C, a1, a2, b1, b2, b3, c1

Owners == (a1 :> A @@ a2 :> A @@ b1 :> B @@ b2 :> B @@ b3 :> B @@ c1 :> C)
OwnerOf == [s \in Socket |-> Owners[s]]

\* A scenario names the sessions there are, which of them end, what each says,
\* how many frames are sent, who watches whom, and what may happen.
VARIABLE scenario

\* An offer and an end of the call by the callee, while Redis fails and the
\* callee connects twice.
Calling == [sockets |-> {a1, b1, b3}, ends |-> {},
            says |-> {<<a1, "sdp_offer">>, <<b1, "HANGUP">>},
            frames |-> 2, watches |-> {}, events |-> {"fail"}]

\* The caller ends the call, and may reconnect before it does.
Redialling == [Calling EXCEPT !.sockets = {a1, a2, b1}, !.ends = {b1}, !.events = {},
                  !.says = {a1, a2} \X {"sdp_offer", "HANGUP"}]

\* A call is accepted, queues expire, the server restarts.
Answering == [Calling EXCEPT !.ends = {b1}, !.says = {<<a1, "sdp_offer">>, <<b1, "ACCEPT">>},
                             !.events = {"expire", "restart"}]

\* Message-only and call-capable sessions of the recipient replace each other.
Background == [Calling EXCEPT !.sockets = {a1, b1, b2}, !.ends = {b1, b2},
                  !.says = {<<a1, "group_call_invite">>, <<a1, "file_transfer">>},
                  !.events = {"lose"}]

\* The recipient connects three times while one frame is on its way and
\* perhaps gets old.
Reconnecting == [Calling EXCEPT !.sockets = {a1, b1, b2, b3}, !.ends = {b1, b2}, !.frames = 1,
                    !.says = {a1} \X {"file_transfer", "sdp_offer"},
                    !.events = {"age"}]

\* More frames than a queue holds, and a purge among them.
Flooding == [Calling EXCEPT !.sockets = {a1, b1}, !.ends = {b1}, !.frames = 3,
                !.says = {<<a1, "message">>, <<b1, "ACCEPT">>},
                !.events = {"spoil", "fail"}]

\* Two users subscribe to the same target; one comes and goes.
Watching == [Calling EXCEPT !.sockets = {a1, a2, c1}, !.ends = {a1, a2}, !.says = {},
                !.watches = {<<A, B>>, <<C, B>>}, !.events = {}]

\* A user with two sessions subscribes to more targets than it may, and types.
Limited == [Watching EXCEPT !.sockets = {a1, a2}, !.frames = 1,
                !.says = {<<a1, "typing_indicator">>},
                !.watches = {<<A, B>>, <<A, C>>}, !.events = {"restart"}]

Scenarios == {Calling, Redialling, Answering, Background, Reconnecting, Flooding, Watching,
              Limited}

\* No Redis command fails in a step of session x.
Succeeds(x) ==
    /\ task'[x].clean
    /\ task[x].pc \in {"fetch", "drain", "unqueue"} /\ task'[x].pc = "open" =>
          task'[x].drained \/ link[x] = "closed"
    /\ task[x].pc = "queue" /\ task'[x].pc = "open" =>
          LET f == sent[task[x].frame]
              q == queue'[f.to][BucketOf(task[x].frame)]
          IN  \/ f.type \in TRANSIENT
              \/ Contains(q, task[x].frame) /\ Len(q) <= OFFLINE_QUEUE_MAX_MESSAGES

Within(s) ==
    /\ Len(sent') <= s.frames
    /\ \A x \in Socket : task'[x].pc = "remove" => x \in s.ends
    /\ \A x \in Socket : LET i == task'[x].frame
                         IN  i # 0 => <<x, sent'[i].type>> \in s.says
    /\ \A i \in DOMAIN sent' : sent'[i].to \in {A, B}
    /\ foreground' \subseteq {A}
    /\ IF s.watches = {}
       THEN presence' = presence /\ \A x \in Socket : task'[x].pc \notin {"add", "dropKey", "cleanup"}
       ELSE \A x \in Socket : task'[x].target # Owner[x] => <<Owner[x], task'[x].target>> \in s.watches
    /\ "fail" \in s.events \/ \A x \in Socket : Succeeds(x)
    /\ "lose" \in s.events \/ \A x \in Socket : link'[x] # "dead"
    /\ "age" \in s.events \/ old' = old
    /\ "spoil" \in s.events \/ spoiled' = spoiled

MCInit == Init /\ scenario \in Scenarios
MCNext ==
    /\ \/ \E s \in scenario.sockets : Session(s) \/ Lose(s)
       \/ \E i \in DOMAIN sent : Age(i) \/ Spoil(i)
       \/ "expire" \in scenario.events /\ \E u \in User, b \in Bucket : Expire(u, b)
       \/ "restart" \in scenario.events /\ Restart
    /\ Within(scenario)
    /\ UNCHANGED scenario
MCSpec == MCInit /\ [][MCNext]_<<vars, scenario>>
=============================================================================
