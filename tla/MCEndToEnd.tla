----------------------------- MODULE MCEndToEnd -----------------------------
(***************************************************************************)
(* EndToEnd for TLC: one message, in the circumstances that are each small *)
(* enough to explore completely.                                           *)
(***************************************************************************)
EXTENDS EndToEnd

CONSTANTS m1, p1, p2

\* A direct message and a sender that retries it; nothing else goes wrong.
Calm == [to |-> [m \in Msg |-> {p1}], grouped |-> {}, pointer |-> {}, unusable |-> {},
         block |-> {}, reads |-> {}, flush |-> TRUE, age |-> FALSE, lose |-> FALSE,
         sender |-> FALSE, peers |-> {}, crowd |-> {}]

\* An attachment; both clients may die and the server may lose the frame.
Crashes == [Calm EXCEPT !.pointer = {m1}, !.reads = {p1}, !.lose = TRUE, !.sender = TRUE,
                         !.peers = {p1}]

\* A group message with its sender key, resent by flushes.
Keyed == [Calm EXCEPT !.grouped = {m1}]

\* Two recipients, one of whom reads: their receipts in every order.
TwoPeers == [Calm EXCEPT !.to = [m \in Msg |-> {p1, p2}], !.reads = {p1}, !.flush = FALSE]

\* Blocking, unusable sessions, retention and lost frames.
Refusals == [Calm EXCEPT !.unusable = {p1}, !.block = {p1}, !.reads = {p1}, !.age = TRUE,
                          !.lose = TRUE]

\* Lost frames, and a recipient whose dedup table is full.
FullTable == [Calm EXCEPT !.lose = TRUE, !.crowd = {p1}]

SafetyCircumstances == {Crashes, Keyed, TwoPeers, Refusals, FullTable}

LossyOnly == {[Calm EXCEPT !.reads = {p1}, !.lose = TRUE]}

RecipientDies == {[Calm EXCEPT !.peers = {p1}]}

=============================================================================
