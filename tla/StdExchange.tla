----------------------------- MODULE StdExchange -----------------------------
(***************************************************************************)
(* The std_v1 mailbox of one peer: what its four MCP tools store and what  *)
(* its main thread finds there.  Messages are those this program sends,    *)
(* which number their sub-game; only a turn message has no number, so the  *)
(* sub-game it was sealed in shows in its commit alone.                    *)
(***************************************************************************)
EXTENDS Integers

Says == {"nothing", "caught", "survival"}

\* consensus is the slot of the series digest, with at most one in it.
EmptyBox == [offers |-> {}, turns |-> {}, audits |-> {}, consensus |-> {}]

record_offer(box, n) == [box EXCEPT !.offers = @ \cup {n}]

\* The stores are dicts: a message replaces the one under its key.
record_turn(box, t) == [box EXCEPT !.turns = {o \in @ : o.step # t.step} \cup {t}]

record_audit(box, a) == [box EXCEPT !.audits = {o \in @ : o.game # a.game} \cup {a}]

record_consensus(box, rows) == [box EXCEPT !.consensus = {rows}]

reset_turns_not_called(box) == box

reset_turns(box) == [box EXCEPT !.turns = {}]

\* What the bounded waits find when they look: nothing, or the one message
\* under the key they wait for.
wait_for_offer_of_any_sub_game(box, n) == box.offers # {}

wait_for_offer(box, n) == n \in box.offers

wait_for_turn(box, step) == {t \in box.turns : t.step = step}

wait_for_audit(box, n) == {a \in box.audits : a.game = n}

wait_for_consensus(box) == box.consensus

=============================================================================
