---------------------------- MODULE MCImportCheck ----------------------------
(***************************************************************************)
(* The instance of ImportCheck that TLC checks: the folder release "show"  *)
(* with an episode, beside a release whose name begins alike.              *)
(***************************************************************************)
EXTENDS ImportCheck

Show == << "show" >>
OneEpisode == {<< "show", "/", "e1" >>}
SimilarName == {<< "show", " 2", "/", "e1" >>}

=============================================================================
