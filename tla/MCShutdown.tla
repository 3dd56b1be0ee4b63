---------------------------- MODULE MCShutdown ----------------------------
(* Constants of the model-checking runs of Shutdown. *)
EXTENDS Shutdown, TLC

\* Every transfer has a release directory of its own.
OwnName == [t \in Transfers |-> t]

Symmetric == Permutations(Transfers) \cup Permutations(Instances) \cup Permutations(Requests)
=============================================================================
