------------------------------- MODULE Engine -------------------------------
(***************************************************************************)
(* The preloadd processes of one host around their passes: the resident    *)
(* daemon with its two tickers (internal/app/daemon.go, Loop), the one-    *)
(* shot sweeps cron and the settings page start (cmd/preloadd/main.go),    *)
(* and the status file they all write (internal/app/record.go,             *)
(* internal/status/status.go).  No lock keeps them apart.                  *)
(*                                                                         *)
(* The pass itself (module Sweep) is one step here: it ends by itself, or  *)
(* is cut short when the daemon's context is done.                         *)
(***************************************************************************)
EXTENDS Naturals, FiniteSets

CONSTANTS
    Daemon,       \* the resident process
    OneShots,     \* slots for -once and -verify processes
    Items,        \* items that may be playing
    NoFile,       \* no status file
    MaxCrashes    \* bound: processes killed while they hold a temporary file

Procs == {Daemon} \cup OneShots

ASSUME EngineAssumption ==
    /\ Daemon \notin OneShots /\ IsFiniteSet(OneShots)
    /\ MaxCrashes \in Nat

VARIABLES
    pc,           \* [Procs -> phase]
    playing,      \* what the media server says is playing
    lastPlaying,  \* Loop's signature of the last poll that triggered a sweep
    ticking,      \* Loop has made its tickers
    canceled,     \* the daemon's context is done
    due,          \* ticker channels of capacity one that hold a tick
    saw,          \* [Procs -> the now-playing set the sweep works with]
    outcome,      \* [Procs -> how the sweep went, as writeStatus is told]
    temp,         \* [Procs -> state of the process's temporary file]
    status,       \* the status file: NoFile, or its content and durability
    settled,      \* what status_path names on the disk, as of the last flush
    crashes,      \* processes killed so far with a temporary file, which stays
    quiet,        \* the environment has calmed down for good
    recorded,     \* history: outcome p's last sweep left, "lost" if unwritable
    sweptFor      \* history: the now-playing set of the last complete pass

loopVars  == <<lastPlaying, ticking>>
sweepVars == <<saw, outcome>>
fileVars  == <<temp, status, settled>>
envVars   == <<playing, canceled, due, crashes, quiet>>
histVars  == <<recorded, sweptFor>>
vars == <<pc, loopVars, sweepVars, fileVars, envVars, histVars>>

Tickers == {"sweep", "poll"}
Sweeping == {"users", "collect", "run"}
Writing == {"create", "write", "sync", "rename"}

Init ==
    /\ pc = [p \in Procs |-> "down"]
    /\ playing = {} /\ lastPlaying = {} /\ ticking = FALSE /\ canceled = FALSE /\ due = {}
    /\ saw = [p \in Procs |-> {}] /\ outcome = [p \in Procs |-> "none"]
    /\ temp = [p \in Procs |-> "none"]
    /\ status = NoFile /\ settled = NoFile
    /\ crashes = 0 /\ quiet = FALSE
    /\ recorded = [p \in Procs |-> "none"] /\ sweptFor = {}

Goto(p, phase) == pc' = [pc EXCEPT ![p] = phase]

\* The daemon's context is done, so every request made under it fails.
Done(p) == p = Daemon /\ canceled

-----------------------------------------------------------------------------
(***************************************************************************)
(* Processes and the daemon's loop.                                        *)
(***************************************************************************)

\* Cron, run-now or verify start a one-shot; the daemon sweeps on start.
Begin(p) ==
    /\ pc[p] = "down"
    /\ Goto(p, "users")
    /\ IF p = Daemon
       THEN canceled' = FALSE /\ due' = {} /\ lastPlaying' = {} /\ ticking' = FALSE
       ELSE UNCHANGED <<canceled, due, loopVars>>
    /\ UNCHANGED <<sweepVars, fileVars, playing, crashes, quiet, histVars>>

\* The tickers start with the loop.  A ticker's channel holds one tick; more are dropped.
Tick(ticker) ==
    /\ pc[Daemon] # "down" /\ ticking /\ ticker \notin due
    /\ due' = due \cup {ticker}
    /\ UNCHANGED <<pc, loopVars, sweepVars, fileVars, playing, canceled, crashes, quiet, histVars>>

\* select picks among the cases that are ready, also when the context is done.
Select(ticker) ==
    /\ pc[Daemon] = "select" /\ ticker \in due
    /\ due' = due \ {ticker}
    /\ UNCHANGED <<sweepVars, fileVars, playing, canceled, crashes, quiet, histVars>>

\* Mutant: the sweep tick is left to the poll.
SweepTick_polls == Select("sweep") /\ UNCHANGED <<pc, loopVars>>

SweepTick == Select("sweep") /\ Goto(Daemon, "users") /\ UNCHANGED loopVars

PollFails ==
    /\ Select("poll")
    /\ Done(Daemon) \/ ~quiet
    /\ UNCHANGED <<pc, loopVars>>

\* The signature is remembered before the sweep it triggers.
Poll ==
    /\ Select("poll")
    /\ ~Done(Daemon)
    /\ lastPlaying' = playing /\ UNCHANGED ticking
    /\ IF playing # lastPlaying THEN Goto(Daemon, "users") ELSE UNCHANGED pc

\* Mutant: the context is looked at only when no tick is pending.
Stop_whenIdle ==
    /\ pc[Daemon] = "select" /\ canceled /\ due = {}
    /\ Goto(Daemon, "down")
    /\ UNCHANGED <<loopVars, sweepVars, fileVars, envVars, histVars>>

Stop ==
    /\ pc[Daemon] = "select" /\ canceled
    /\ Goto(Daemon, "down")
    /\ UNCHANGED <<loopVars, sweepVars, fileVars, envVars, histVars>>

-----------------------------------------------------------------------------
(***************************************************************************)
(* One recorded sweep: SweepWithUsers, SweepAndRecord, RunOnce.            *)
(***************************************************************************)
CanFail(p) == Done(p) \/ ~quiet

\* Where a sweep goes once it is recorded, or could not be.
Return(p) ==
    /\ Goto(p, IF p = Daemon THEN "select" ELSE "down")
    /\ ticking' = (ticking \/ p = Daemon)

\* Users; then CollectCandidates asks for the now-playing set first.
ListUsers(p) ==
    /\ pc[p] = "users" /\ ~Done(p)
    /\ saw' = [saw EXCEPT ![p] = playing]
    /\ Goto(p, "collect")
    /\ UNCHANGED <<loopVars, outcome, fileVars, envVars, histVars>>

\* Mutant: the user list's error is returned bare.
UsersFail_bare(p) ==
    /\ pc[p] = "users" /\ CanFail(p)
    /\ outcome' = [outcome EXCEPT ![p] = "failed"]
    /\ Return(p)
    /\ UNCHANGED <<lastPlaying, saw, fileVars, envVars, histVars>>

\* A user-list outage is a failed sweep, and recorded as one.
UsersFail(p) ==
    /\ pc[p] = "users" /\ CanFail(p)
    /\ outcome' = [outcome EXCEPT ![p] = "failed"]
    /\ Goto(p, "create")
    /\ UNCHANGED <<loopVars, saw, fileVars, envVars, histVars>>

Collect(p) ==
    /\ pc[p] = "collect" /\ ~Done(p)
    /\ Goto(p, "run")
    /\ UNCHANGED <<loopVars, sweepVars, fileVars, envVars, histVars>>

\* An error of any tier's or library's request ends the sweep; nothing is run.
CollectFails(p) ==
    /\ pc[p] = "collect" /\ CanFail(p)
    /\ outcome' = [outcome EXCEPT ![p] = "failed"]
    /\ Goto(p, "create")
    /\ UNCHANGED <<loopVars, saw, fileVars, envVars, histVars>>

\* Rank and Run.  A pass cut short by the context is no error.
RunPass(p) ==
    /\ pc[p] = "run"
    /\ outcome' = [outcome EXCEPT ![p] = IF Done(p) THEN "cut" ELSE "ok"]
    /\ sweptFor' = IF Done(p) THEN sweptFor ELSE saw[p]
    /\ Goto(p, "create")
    /\ UNCHANGED <<loopVars, saw, fileVars, envVars, recorded>>

-----------------------------------------------------------------------------
(***************************************************************************)
(* status.Write: a temporary file of its own, fsync, rename.               *)
(***************************************************************************)
TempStep(p, from, to, state) ==
    /\ pc[p] = from
    /\ temp' = [temp EXCEPT ![p] = state]
    /\ Goto(p, to)
    /\ UNCHANGED <<loopVars, sweepVars, status, settled, envVars, histVars>>

CreateTemp(p) == TempStep(p, "create", "write", "empty")
WriteTemp(p)  == TempStep(p, "write", "sync", "written")

\* Mutant: no fsync before the rename.
SyncTemp_skipped(p) == TempStep(p, "sync", "rename", "written")

SyncTemp(p) == TempStep(p, "sync", "rename", "synced")

\* A file whose data was never flushed may come back empty after a power loss.
Publish(p) ==
    /\ pc[p] = "rename"
    /\ status' = [outcome |-> outcome[p], data |-> temp[p]]
    /\ temp' = [temp EXCEPT ![p] = "none"]
    /\ recorded' = [recorded EXCEPT ![p] = outcome[p]]
    /\ Return(p)
    /\ UNCHANGED <<lastPlaying, sweepVars, settled, envVars, sweptFor>>

\* Any step may fail: the deferred Remove runs, the error is only logged.
WriteFails(p) ==
    /\ pc[p] \in Writing /\ ~quiet
    /\ temp' = [temp EXCEPT ![p] = "none"]
    /\ recorded' = [recorded EXCEPT ![p] = "lost"]
    /\ Return(p)
    /\ UNCHANGED <<lastPlaying, sweepVars, status, settled, envVars, sweptFor>>

-----------------------------------------------------------------------------
(***************************************************************************)
(* The environment.                                                        *)
(***************************************************************************)
PlayingChanges ==
    /\ ~quiet
    /\ playing' \in SUBSET Items /\ playing' # playing
    /\ UNCHANGED <<pc, loopVars, sweepVars, fileVars, canceled, due, crashes, quiet, histVars>>

\* SIGINT or SIGTERM to the daemon.
Signal ==
    /\ ~quiet /\ pc[Daemon] # "down" /\ ~canceled
    /\ canceled' = TRUE
    /\ UNCHANGED <<pc, loopVars, sweepVars, fileVars, playing, due, crashes, quiet, histVars>>

\* A process dies where it stands: run-now's timeout, a signal to a one-shot.
Kill(p) ==
    /\ ~quiet /\ pc[p] # "down"
    /\ temp[p] # "none" => crashes < MaxCrashes
    /\ crashes' = IF temp[p] = "none" THEN crashes ELSE crashes + 1
    /\ temp' = [temp EXCEPT ![p] = "none"]
    /\ recorded' = [recorded EXCEPT ![p] = "none"]
    /\ outcome' = [outcome EXCEPT ![p] = "none"]
    /\ Goto(p, "down")
    /\ UNCHANGED <<loopVars, saw, status, settled, playing, canceled, due, quiet, sweptFor>>

\* The file system writes the directory out.
Flush ==
    /\ settled # status /\ settled' = status
    /\ UNCHANGED <<pc, loopVars, sweepVars, temp, status, envVars, histVars>>

\* The host goes down: every process dies, an unflushed rename may be undone, and
\* data never synced is lost.
PowerLoss ==
    /\ ~quiet
    /\ LET held == {p \in Procs : temp[p] # "none"}
           back(f) == IF f # NoFile /\ f.data # "synced" THEN [f EXCEPT !.data = "torn"] ELSE f
       IN  /\ crashes + Cardinality(held) <= MaxCrashes
           /\ crashes' = crashes + Cardinality(held)
           /\ status' \in {back(status), back(settled)}
           /\ settled' = status'
    /\ pc' = [p \in Procs |-> "down"]
    /\ temp' = [p \in Procs |-> "none"]
    /\ outcome' = [p \in Procs |-> "none"] /\ recorded' = [p \in Procs |-> "none"]
    /\ UNCHANGED <<loopVars, saw, playing, canceled, due, quiet, sweptFor>>

Quieten ==
    /\ ~quiet /\ quiet' = TRUE
    /\ UNCHANGED <<pc, loopVars, sweepVars, fileVars, playing, canceled, due, crashes, histVars>>

-----------------------------------------------------------------------------
Loop == SweepTick \/ PollFails \/ Poll \/ Stop

RunOnce(p) == ListUsers(p) \/ UsersFail(p) \/ Collect(p) \/ CollectFails(p) \/ RunPass(p)

WriteStatus(p) == CreateTemp(p) \/ WriteTemp(p) \/ SyncTemp(p) \/ Publish(p) \/ WriteFails(p)

Environment ==
    \/ PlayingChanges \/ Signal \/ Flush \/ PowerLoss \/ Quieten
    \/ \E p \in Procs : Kill(p)

Next ==
    \/ \E p \in Procs : Begin(p) \/ RunOnce(p) \/ WriteStatus(p)
    \/ \E ticker \in Tickers : Tick(ticker)
    \/ Loop
    \/ Environment

Spec == Init /\ [][Next]_vars

\* Processes and tickers run; a pass ends (PassTerminates, on a healthy mount);
\* Go's select picks uniformly among ready cases, so none is passed over for ever.
FairSpec ==
    /\ Spec
    /\ \A p \in Procs : WF_vars(RunOnce(p)) /\ WF_vars(WriteStatus(p))
    /\ \A ticker \in Tickers : WF_vars(Tick(ticker))
    /\ SF_vars(SweepTick) /\ SF_vars(PollFails \/ Poll) /\ SF_vars(Stop)
=============================================================================
