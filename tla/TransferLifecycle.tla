-------------------------- MODULE TransferLifecycle -------------------------
(***************************************************************************)
(* What the download pipeline promises of one transfer and its local copy, *)
(* whatever the goroutines, processes and channels behind it: only a       *)
(* claimed transfer's copy is written, only a whole copy is kept for       *)
(* import, and a kept copy goes away only once it was imported.            *)
(***************************************************************************)
CONSTANT Transfers

VARIABLES
    phase,   \* how far each transfer got
    copy     \* its local copy; "taken" once *arr imported it

vars == <<phase, copy>>

Phases == {"unclaimed", "claimed", "failed", "missing", "kept"}
Copies == {"absent", "partial", "whole", "taken"}

Init ==
    /\ phase = [t \in Transfers |-> "unclaimed"]
    /\ copy = [t \in Transfers |-> "absent"]

Moves(t, from, to) ==
    /\ phase[t] \in from
    /\ phase' = [phase EXCEPT ![t] = to]
    /\ UNCHANGED copy

Take(t) == Moves(t, {"unclaimed", "failed"}, "claimed")
Fail(t) == Moves(t, {"claimed"}, "failed")
Lose(t) == Moves(t, {"claimed"}, "missing")
Keep(t) == copy[t] # "partial" /\ Moves(t, {"claimed"}, "kept")

\* The download of a claimed transfer (re)writes or removes its copy.
Write(t) ==
    /\ phase[t] = "claimed"
    /\ copy[t] \in {"absent", "partial"}
    /\ copy' \in {[copy EXCEPT ![t] = c] : c \in {"absent", "partial", "whole"}}
    /\ UNCHANGED phase

\* *arr imports a whole copy, before or after the transfer is marked kept.
Import(t) ==
    /\ copy[t] = "whole"
    /\ copy' = [copy EXCEPT ![t] = "taken"]
    /\ UNCHANGED phase

Clean(t) ==
    /\ phase[t] = "kept"
    /\ copy[t] = "taken"
    /\ copy' = [copy EXCEPT ![t] = "absent"]
    /\ UNCHANGED phase

Next == \E t \in Transfers :
    Take(t) \/ Fail(t) \/ Lose(t) \/ Keep(t) \/ Write(t) \/ Import(t) \/ Clean(t)

Spec == Init /\ [][Next]_vars
=============================================================================
