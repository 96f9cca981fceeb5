---------------------------- MODULE MCCopAdapter ----------------------------
(* The constants of the cop_adapter run. *)
EXTENDS CopAdapter

\* A corner for the cop, the opposite one for the thief.
MCCopStart == <<0, 0>>
MCThiefStart == <<1, 1>>

\* She steps to the edge, then past it, or puts up a barrier.
MCHerMoves == <<{Step("E")}, {Step("E"), Wall(<<1, 0>>)}>>
\* The thief goes up and down its column ...
MCMovesPlayed == {"N", "S"}

\* ... and is claimed to be where its first move takes it.
MCSuspects == {<<0, 1>>}

Lie(what, r) == [about |-> what, round |-> r]
MCLies == {Lie("nothing", 0), Lie("standing", 2), Lie("move", 2), Lie("claim", 1)}

WorkersAlike == Permutations(Workers)

=============================================================================
