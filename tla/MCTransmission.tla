--------------------------- MODULE MCTransmission ---------------------------
(***************************************************************************)
(* The instance of TransmissionRPC that TLC checks. Calls of *arr differ   *)
(* in nothing, nor do columns and values, nor transfers when none is Legacy.*)
(***************************************************************************)
EXTENDS TransmissionRPC, TLC

Symmetry ==
    Permutations(ArrCalls) \cup Permutations(Ids) \cup Permutations(Columns)
        \cup Permutations(Values)

=============================================================================
