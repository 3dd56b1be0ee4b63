------------------------- MODULE MCTransferPipeline -------------------------
(* Constants of the model-checking runs of TransferPipeline. *)
EXTENDS TransferReports, TLC

\* Every transfer has a release directory of its own.
OwnName == [t \in Transfers |-> t]

\* All transfers are of one release, fetched again under a new identifier.
OneName == [t \in Transfers |-> CHOOSE n \in Names : TRUE]

Symmetric == Permutations(Transfers) \cup Permutations(Instances) \cup Permutations(Requests)
=============================================================================
