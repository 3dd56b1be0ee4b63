------------------------------- MODULE MCSweep -------------------------------
(***************************************************************************)
(* The layouts of Sweep that TLC checks: a release with a folder in it, and *)
(* two releases below a directory they share, which the removal of either  *)
(* prunes.                                                                 *)
(***************************************************************************)
EXTENDS Sweep, TLC

CONSTANTS w1, w2

OneRelease == [path |-> (w1 :> << "show", "e1" >>) @@ (w2 :> << "show", "subs", "e1" >>),
               release |-> (w1 :> << "show" >>) @@ (w2 :> << "show" >>)]
Nested == [path |-> (w1 :> << "tv", "show", "e1" >>) @@ (w2 :> << "tv", "film" >>),
           release |-> (w1 :> << "tv", "show" >>) @@ (w2 :> << "tv", "film" >>)]
TwoLayouts == {OneRelease, Nested}

=============================================================================
