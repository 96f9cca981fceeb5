---------------------------- MODULE MCStdSeries ----------------------------
(***************************************************************************)
(* Instances of StdSeries for TLC: the operators set complementary roles,  *)
(* or, as nothing checks them, any.                                        *)
(***************************************************************************)
EXTENDS StdSeries

MCComplementary == {<<"thief", "police">>}
MCAnyRoles == [Peers -> Roles]

=============================================================================
