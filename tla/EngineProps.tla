----------------------------- MODULE EngineProps -----------------------------
(***************************************************************************)
(* What the processes owe each other and the reader of the status file.    *)
(***************************************************************************)
EXTENDS Engine

Outcomes == {"none", "failed", "ok", "cut"}

Contents == [outcome : Outcomes, data : {"empty", "written", "synced", "torn"}]

TypeOK ==
    /\ pc \in [Procs -> {"down", "select"} \cup Sweeping \cup Writing]
    /\ playing \subseteq Items /\ lastPlaying \subseteq Items /\ sweptFor \subseteq Items
    /\ ticking \in BOOLEAN /\ canceled \in BOOLEAN /\ quiet \in BOOLEAN
    /\ due \subseteq Tickers
    /\ saw \in [Procs -> SUBSET Items]
    /\ outcome \in [Procs -> Outcomes]
    /\ recorded \in [Procs -> Outcomes \cup {"lost"}]
    /\ temp \in [Procs -> {"none", "empty", "written", "synced"}]
    /\ {status, settled} \subseteq Contents \cup {NoFile}
    /\ crashes \in Nat
    /\ \A p \in Procs : temp[p] # "none" => pc[p] \in Writing

\* status.Write: "a concurrent reader never observes a partial file" and "a
\* crash between write and rename cannot leave a truncated or empty status.json"
\* (status.go:37-40), with several writers and a power loss at any moment.
StatusNeverTorn == status # NoFile => status.data = "synced" /\ status.outcome # "none"

\* SweepWithUsers: a sweep that failed, also before it had a user list, "is
\* written to status.json as one" (record.go:45): a process between sweeps has
\* recorded the outcome of the last one, unless the write itself failed.
OutcomeRecorded ==
    \A p \in Procs : pc[p] \in {"down", "select"} => recorded[p] \in {outcome[p], "lost"}

\* Loop: "a fast session poll fires an extra sweep whenever the now-playing set
\* changes" (daemon.go:67).  The signature is remembered whether or not its sweep
\* succeeds, and the sweep fetches the set anew, so a change can be lost; the
\* sweep tick makes up for it: once the server is steady and answers, a live
\* daemon's last complete pass was made for what is playing.
PlaybackEventuallySwept ==
    <>(quiet /\ ~canceled /\ pc[Daemon] # "down") => <>[](sweptFor = playing)

\* A signal ends the daemon, though select may serve pending ticks first.
SignalStopsDaemon == canceled ~> (pc[Daemon] = "down" \/ ~canceled)
=============================================================================
