-------------------------------- MODULE Shutdown --------------------------------
(***************************************************************************)
(* The end of a process: a listener fails, run returns, and its deferred    *)
(* services.Close closes the channels of the downloader and of the          *)
(* orchestrator (cmd/seedbox_downloader/main.go) while the pipeline is at   *)
(* work. Nothing cancels the context the goroutines look at: they go on,    *)
(* receive from and send on closed channels, panic, and some of them        *)
(* recover and start again, until the telemetry is flushed and the process  *)
(* exits. It is then started again, as after a crash.                       *)
(***************************************************************************)
EXTENDS TransferPipeline, Sequences

ASSUME EndAssumption == "crash" \in Faults

VARIABLES
    main,       \* what the main goroutine of each process does
    closed,     \* how many of its channels are closed
    resting     \* its loops that have recovered and sleep before they start again

shutVars == <<main, closed, resting>>
allVars == <<vars, shutVars>>

\* The channels in the order in which services.Close closes them. An outcome is reported
\* on the channel of its name.
Channels == << "file error", "error", "finished", "imported", "missing",
               "queued", "imported by the orchestrator" >>
Loops == {"orchestrator", "notification"}

STypeOK ==
    /\ main \in [Instances -> {"serving", "closing", "flushing"}]
    /\ closed \in [Instances -> 0 .. Len(Channels)]
    /\ resting \in [Instances -> SUBSET Loops]

InitS ==
    /\ Init
    /\ main = [i \in Instances |-> "serving"]
    /\ closed = [i \in Instances |-> 0]
    /\ resting = [i \in Instances |-> {}]

Closed(i, ch) == \E n \in 1 .. closed[i] : Channels[n] = ch

-----------------------------------------------------------------------------
(* The main goroutine *)

\* A listener fails, and runMainLoop returns.
ServerFails(i) ==
    /\ main[i] = "serving"
    /\ main' = [main EXCEPT ![i] = "closing"]
    /\ UNCHANGED <<vars, closed, resting>>

\* services.Close, channel by channel.
Closes(i) ==
    /\ main[i] = "closing"
    /\ closed' = [closed EXCEPT ![i] = @ + 1]
    /\ main' = [main EXCEPT ![i] = IF closed'[i] = Len(Channels) THEN "flushing" ELSE @]
    /\ UNCHANGED <<vars, resting>>

\* The process is no more, and another takes its place.
Over(i) ==
    /\ Crash(i)
    /\ main' = [main EXCEPT ![i] = "serving"]
    /\ closed' = [closed EXCEPT ![i] = 0]
    /\ resting' = [resting EXCEPT ![i] = {}]

\* The telemetry is shut down, and main exits.
Exits(i) == main[i] = "flushing" /\ Over(i)

Killed(i) == Over(i)

-----------------------------------------------------------------------------
(* What the closed channels do to the goroutines *)

\* An idle downloader receives nil, and WatchDownloads does not recover.
DlReceivesNil(i) == dl[i].pc = "idle" /\ Closed(i, "queued") /\ Over(i)

\* Mutant: what cannot be sent is written by the downloader, as if it had finished.
WritesItself(i) ==
    /\ dl[i].pc = "report" /\ Closed(i, dl[i].out)
    /\ UpdateTransferStatus(dl[i].cur, "downloaded")
    /\ dl' = [dl EXCEPT ![i] = IdleDl]
    /\ UNCHANGED <<remote, files, history, orch, note, watchers, req, shutVars>>

\* A worker blocked on OnFileDownloadError, or WatchDownloads reporting, sends on a
\* closed channel: neither recovers.
DlSendPanics(i) ==
    /\ \/ dl[i].pc = "stuck" /\ Closed(i, "file error")
       \/ dl[i].pc = "report" /\ Closed(i, dl[i].out)
    /\ Over(i)

\* A loop recovers and rests for a second.
Rests(i, loop) ==
    /\ resting' = [resting EXCEPT ![i] = @ \cup {loop}]
    /\ UNCHANGED <<main, closed>>

\* Mutant: the restarted poll goes on with the transfer it has given back.
OrchGivesBack(i) ==
    /\ orch[i].pc = "send" /\ Closed(i, "queued")
    /\ UpdateTransferStatus(orch[i].cur, "failed")
    /\ Rests(i, "orchestrator")
    /\ UNCHANGED <<remote, files, history, orch, dl, note, watchers, req>>

\* The poll sends on the closed queue. What it has claimed, and what is left of its
\* list, is forgotten.
OrchSendPanics(i) ==
    /\ orch[i].pc = "send" /\ Closed(i, "queued")
    /\ orch' = [orch EXCEPT ![i] = IdleOrch]
    /\ Rests(i, "orchestrator")
    /\ UNCHANGED <<remote, table, files, history, dl, note, watchers, req>>

\* So does a retry; net/http recovers.
ReqSendPanics(r) ==
    /\ req[r].pc = "requeue_send" /\ Closed(req[r].inst, "queued")
    /\ Ends(r)
    /\ UNCHANGED <<remote, table, files, history, orch, dl, note, watchers, shutVars>>

\* A watcher that reports its import panics, recovers and ends.
WatcherSendPanics(i, t) ==
    /\ announcing[i][t] > 0 /\ Closed(i, "imported")
    /\ announcing' = [announcing EXCEPT ![i][t] = @ - 1]
    /\ UNCHANGED <<remote, table, files, history, orch, dl, note, waiting, removing,
                   req, shutVars>>

\* The select takes a closed channel, and the handler fails on the transfer it has not
\* got, before it writes anything.
NoteReceivesNil(i) ==
    /\ note[i].ev = "idle" /\ "notification" \notin resting[i]
    /\ \E ch \in {"error", "finished", "imported", "missing"} : Closed(i, ch)
    /\ Rests(i, "notification")
    /\ UNCHANGED vars

\* The second is over: the loop starts anew.
Restarts(i, loop) ==
    /\ loop \in resting[i]
    /\ resting' = [resting EXCEPT ![i] = @ \ {loop}]
    /\ UNCHANGED <<vars, main, closed>>

-----------------------------------------------------------------------------
(* The pipeline, as far as channels are open and loops run *)

Works(i) ==
    \/ "orchestrator" \notin resting[i] /\ OrchNext(i)
    \/ (dl[i].pc = "idle" => ~Closed(i, "queued")) /\ DlNext(i)
    \/ /\ "notification" \notin resting[i]
       /\ \/ ~Closed(i, dl[i].out) /\ NoteReceives(i)
          \/ ~Closed(i, "imported") /\ \E t \in Transfers : NoteReceivesImported(i, t)
    \/ NoteHandles(i) \/ NoteDbFails(i)
    \/ WatcherNext(i)

Panics(i) ==
    \/ DlReceivesNil(i) \/ DlSendPanics(i) \/ OrchSendPanics(i) \/ NoteReceivesNil(i)
    \/ \E t \in Transfers : WatcherSendPanics(i, t)
    \/ \E loop \in Loops : Restarts(i, loop)

NextS ==
    \/ /\ UNCHANGED shutVars
       /\ \/ \E i \in Instances : Works(i)
          \/ \E r \in Requests : UINext(r)
          \/ \E t \in Transfers : RemoteCompletes(t) \/ RemoteRemoved(t)
          \/ \E n \in Names : ArrImports(n)
    \/ \E i \in Instances : ServerFails(i) \/ Closes(i) \/ Exits(i) \/ Killed(i) \/ Panics(i)
    \/ \E r \in Requests : ReqSendPanics(r)

SpecS == InitS /\ [][NextS]_allVars

-----------------------------------------------------------------------------
(* The properties are those of the pipeline, which hold of it as it closes,  *)
(* too: SingleCustody, DownloadedIsLocal, LifecycleSpec; and while UI        *)
(* commands run, LockMatchesStatus and RowsAppearByClaim.                    *)

=============================================================================
