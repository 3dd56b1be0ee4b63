---------------------------- MODULE MCSeedGoals ----------------------------
(***************************************************************************)
(* The instance of SeedGoals that TLC checks: integers are ten bits wide.  *)
(***************************************************************************)
EXTENDS SeedGoals

CONSTANT t1

FewRatios == {-1, 0, 15}
FewMinutes == {-1, 0, 2}
FewSeconds == {0, 119, 120, 181}

=============================================================================
