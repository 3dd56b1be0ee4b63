--------------------------- MODULE MCTransferViews ---------------------------
(* Constants of the model-checking runs of TransferViews. *)
EXTENDS TransferViews, TLC

\* Every transfer has a release directory of its own.
OwnName == [t \in Transfers |-> t]

=============================================================================
