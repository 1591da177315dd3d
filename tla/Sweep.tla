------------------------------- MODULE Sweep -------------------------------
(***************************************************************************)
(* Preload passes over a ranked target list, one after another, against    *)
(* the kernel's page cache (internal/preloader/preloader.go, Run, with the *)
(* probes and reads of internal/pagecache).                                *)
(*                                                                         *)
(* A pass is a sequence of small steps because the page cache belongs to   *)
(* everyone: between any two of its reads and probes the kernel may evict  *)
(* pages, a media server or an overlapping pass may read some, a probe     *)
(* abandoned earlier may finish, a mount may stop answering, and the       *)
(* process may be cancelled or killed.  Passes share nothing but the page  *)
(* cache: an overlapping one is an OtherRead here.                         *)
(*                                                                         *)
(* Bytes stand for pages, so that a range is resident byte by byte.        *)
(***************************************************************************)
EXTENDS WarmPlan, Sequences, FiniteSets, Functions

CONSTANTS
    Files,         \* host paths
    FileSize,      \* [Files -> Nat]
    Layout,        \* what container.Inspect finds at the front of each file
    Targets,       \* records [Item, Tier]; Item also has a UserID
    Users,         \* user IDs
    Path,          \* [Targets -> Files], the path rules applied
    Unmapped,      \* targets no path rule applies to
    Pooled,        \* the answers the pool predicate may give
    RankedLists,   \* the target lists the scorer may hand to a pass
    Budgets,       \* the byte budgets a pass may be given
    Fuse,          \* files on a FUSE mount, where residency is timed
    Shared,        \* files other processes read as well
    Wedgeable,     \* files whose reads may stop returning
    probeBytes,    \* residency.probe_bytes
    ProbeDeadline  \* residency.probe_timeout is positive

Tiers == {"resume", "next-up", "recently-added", "binge-ahead"}

ASSUME SweepAssumption ==
    /\ FileSize \in [Files -> Nat]
    /\ \A f \in Files : Layout[f] \in Layouts(FileSize[f])
    /\ \A t \in Targets : t.Tier \in Tiers /\ t.Item.UserID \in Users /\ IsItem(t.Item)
    /\ Path \in [Targets -> Files]
    /\ Pooled \subseteq BOOLEAN
    /\ Shared \subseteq Files /\ Wedgeable \subseteq Files
    /\ RankedLists \subseteq Seq(Targets)
    /\ Budgets \subseteq Nat
    /\ probeBytes \in Nat \ {0}
    /\ ProbeDeadline \in BOOLEAN

VARIABLES
    pc,         \* where the pass is; "idle" between passes
    list, pos,  \* the ranked targets and the one being handled
    plan, part, \* its plan, and the range of it being probed or read
    used,       \* bytes charged so far
    budget,     \* the pass's byte budget
    stats,      \* the RunStats to be returned
    canceled,   \* the pass's context is done
    cache,      \* [Files -> SUBSET Nat], the page cache
    late,       \* reads of timed-out probes that have not returned
    wedged,     \* files whose reads do not return
    quiet,      \* the environment has calmed down for good
    verdicts,   \* history: what the pass decided, target by target
    readIn,     \* history: bytes the pass's Warm calls have read
    disturbed   \* history: files that lost a page since the pass began

pass == <<list, pos, plan, part, used, budget, stats>>
env  == <<late, wedged, quiet>>
vars == <<pc, pass, canceled, cache, env, verdicts, readIn, disturbed>>

TierCounts == [Tiers -> Nat]
UserCounts == [Users -> Nat]
WarmedLists == Seq([Path : Files, Offset : Nat, Length : Nat])

RunStats ==
    [Preloaded : Nat, Skipped : Nat, Missing : Nat, BytesWarmed : Nat,
     ByTier : TierCounts, ByUser : UserCounts, Warmed : WarmedLists]

NoStats ==
    [Preloaded |-> 0, Skipped |-> 0, Missing |-> 0, BytesWarmed |-> 0,
     ByTier |-> [t \in Tiers |-> 0], ByUser |-> [u \in Users |-> 0], Warmed |-> <<>>]

Init ==
    /\ pc = "idle" /\ canceled = FALSE
    /\ list = <<>> /\ pos = 1 /\ plan = NoPlan /\ part = "front"
    /\ used = 0 /\ budget = 0 /\ stats = NoStats
    /\ cache = [f \in Files |-> {}]
    /\ late = {} /\ wedged = {} /\ quiet = FALSE
    /\ verdicts = <<>> /\ readIn = {} /\ disturbed = {}

-----------------------------------------------------------------------------
target == list[pos]
file   == Path[target]

\* A target has been decided: on to the next.
Decide(verdict, pl) ==
    /\ verdicts' = Append(verdicts, [verdict |-> verdict, plan |-> pl])
    /\ pos' = pos + 1
    /\ pc' = "target"

Count(counter) == stats' = [stats EXCEPT ![counter] = @ + 1]

Loads(bytes) == cache' = [cache EXCEPT ![file] = @ \cup bytes]

\* RunOnce hands Run a ranked list and the budget read for this pass.
Start ==
    /\ pc = "idle"
    /\ list' \in RankedLists /\ budget' \in Budgets
    /\ pc' = "target" /\ pos' = 1 /\ plan' = NoPlan /\ part' = "front"
    /\ used' = 0 /\ stats' = NoStats /\ canceled' = FALSE
    /\ verdicts' = <<>> /\ readIn' = {} /\ disturbed' = {}
    /\ UNCHANGED <<cache, env>>

\* The loop ends at the end of the list or at a done context.
Finish ==
    /\ pc = "target"
    /\ canceled \/ pos > Len(list)
    /\ pc' = "idle"
    /\ UNCHANGED <<pass, canceled, cache, env, verdicts, readIn, disturbed>>

AtTarget == pc = "target" /\ ~canceled /\ pos <= Len(list)

\* No path rule, or the file cannot be stat'ed.
Missing ==
    /\ AtTarget
    /\ target \in Unmapped \/ ~quiet
    /\ Count("Missing")
    /\ Decide("missing", NoPlan)
    /\ UNCHANGED <<list, plan, part, used, budget, canceled, cache, env, readIn, disturbed>>

\* planWarm.  For a seeking target it inspects the container, which reads the
\* front of the file; an open or read error there costs only the layout.
PlanTarget ==
    /\ AtTarget /\ target \notin Unmapped
    /\ \E pooled \in Pooled, layout \in {NoLayout, Layout[file]} :
         /\ seeking(target) => file \notin wedged
         /\ layout = NoLayout => Layout[file] = NoLayout \/ ~seeking(target) \/ ~quiet
         /\ plan' = planWarm(target, FileSize[file], layout, pooled)
         /\ \E n \in 0 .. Lesser(frontReadCap, FileSize[file]) :
              /\ layout # NoLayout \/ quiet => n = Lesser(frontReadCap, FileSize[file])
              /\ Loads(IF seeking(target) THEN RangeBytes(0, n) ELSE {})
    /\ pc' = "probe" /\ part' = "front"
    /\ UNCHANGED <<list, pos, used, budget, stats, canceled, env, verdicts, readIn, disturbed>>

-----------------------------------------------------------------------------
(***************************************************************************)
(* The three residency probes, joined by &&: front, content, cue.          *)
(***************************************************************************)
Parts == {"front", "content", "cue"}

Windows(pl) ==
    [front   |-> [from |-> 0,             length |-> pl.front],
     content |-> [from |-> pl.offset,     length |-> pl.head],
     cue     |-> [from |-> pl.tailOffset, length |-> pl.tail]]

\* The range the current probe or read is about, and its first n bytes.
window == Windows(plan)[part]

Prefix(n) == RangeBytes(window.from, n)

\* Mutant: the content window is not probed.
probeOrder_noContent == [p \in {"front", "content"} |-> "cue"]

probeOrder == [p \in {"front", "content"} |-> IF p = "front" THEN "content" ELSE "cue"]

\* This range counts as resident: probe the next, or skip the target.
Resident ==
    \/ /\ part = "cue"
       /\ Count("Skipped")
       /\ Decide("skipped", plan)
       /\ part' = part
    \/ /\ part # "cue"
       /\ part' = probeOrder[part]
       /\ UNCHANGED <<pc, pos, stats, verdicts>>

\* One range that is cold or unknown makes the target a candidate for warming.
NotResident == pc' = "admit" /\ UNCHANGED <<part, pos, stats, verdicts>>

Probing == pc = "probe" /\ window.length > 0

sampleLength == Lesser(probeBytes, window.length)

probeUnchanged == <<list, plan, used, budget, canceled, wedged, quiet, readIn, disturbed>>

\* A zero-length range is trivially resident.
ProbeNothing ==
    /\ pc = "probe" /\ window.length = 0
    /\ Resident
    /\ UNCHANGED <<cache, late, probeUnchanged>>

\* Mutant: any resident page makes the range resident.
ProbeMincore_anyPage ==
    LET resident == Cardinality(Prefix(window.length) \cap cache[file])
    IN  /\ Probing /\ file \notin Fuse
        /\ \/ resident > 0 /\ Resident
           \/ (resident = 0 \/ ~quiet) /\ NotResident
        /\ UNCHANGED <<cache, late, probeUnchanged>>

\* residentByMincore counts the resident bytes of the range; it may fail.
ProbeMincore ==
    LET resident == Cardinality(Prefix(window.length) \cap cache[file])
    IN  /\ Probing /\ file \notin Fuse
        /\ \/ resident >= window.length /\ Resident
           \/ (resident < window.length \/ ~quiet) /\ NotResident
        /\ UNCHANGED <<cache, late, probeUnchanged>>

\* residentByTiming reads a sample at the start of the range, which caches it,
\* and takes the whole range for resident when the read was quick.  The threshold
\* is a guess: a cold sample may come in below it, on fast storage, and a cached
\* one above it, but not once the environment is quiet.
ProbeTiming ==
    LET cached == Prefix(sampleLength) \subseteq cache[file]
    IN  /\ Probing /\ file \in Fuse \ wedged
        /\ \/ Resident
           \/ (~cached \/ ~quiet) /\ NotResident
        /\ Loads(Prefix(sampleLength))
        /\ UNCHANGED <<late, probeUnchanged>>

\* A probe read fails part-way, or statfs does and mincore sees nothing.
ProbeError ==
    /\ Probing /\ file \in Fuse \ wedged /\ ~quiet
    /\ \E n \in 0 .. (sampleLength - 1) : Loads(Prefix(n))
    /\ NotResident
    /\ UNCHANGED <<late, probeUnchanged>>

\* Mutant: no answer in time counts as resident.
ProbeTimeout_resident ==
    /\ Probing /\ file \in Fuse /\ ProbeDeadline
    /\ file \in wedged \/ ~quiet
    /\ late' = late \cup {[file |-> file, bytes |-> Prefix(sampleLength)]}
    /\ Resident
    /\ UNCHANGED <<cache, probeUnchanged>>

\* probeWithTimeout gives up; the read goes on in its goroutine.
ProbeTimeout ==
    /\ Probing /\ file \in Fuse /\ ProbeDeadline
    /\ file \in wedged \/ ~quiet
    /\ late' = late \cup {[file |-> file, bytes |-> Prefix(sampleLength)]}
    /\ NotResident
    /\ UNCHANGED <<cache, probeUnchanged>>

-----------------------------------------------------------------------------
(***************************************************************************)
(* Charging, and warming in the order content, front, cue.                 *)
(***************************************************************************)

\* Mutant: the target that does not fit is tried again.
Drop_retries ==
    /\ pc = "admit" /\ used + cost(plan) > budget
    /\ pc' = "target"
    /\ UNCHANGED <<pass, canceled, cache, env, verdicts, readIn, disturbed>>

\* Over budget: this target and all lower-priority ones are dropped.
Drop ==
    /\ pc = "admit" /\ used + cost(plan) > budget
    /\ verdicts' = Append(verdicts, [verdict |-> "dropped", plan |-> plan])
    /\ pc' = "idle"
    /\ UNCHANGED <<pass, canceled, cache, env, readIn, disturbed>>

\* Mutant: the target's own cost is not counted.
Admit_belowBudget ==
    /\ pc = "admit" /\ used <= budget
    /\ pc' = "warm" /\ part' = "content"
    /\ UNCHANGED <<list, pos, plan, used, budget, stats, canceled, cache, env,
                   verdicts, readIn, disturbed>>

Admit ==
    /\ pc = "admit" /\ used + cost(plan) <= budget
    /\ pc' = "warm" /\ part' = "content"
    /\ UNCHANGED <<list, pos, plan, used, budget, stats, canceled, cache, env,
                   verdicts, readIn, disturbed>>

\* Cache.Warm reads the range in chunks: its first n bytes.  Nothing bounds the
\* read's duration.
Warm(n) ==
    /\ pc = "warm"
    /\ window.length = 0 \/ file \notin wedged
    /\ Loads(Prefix(n))
    /\ readIn' = readIn \cup ({file} \X Prefix(n))

\* Mutant: the content window is best effort too.
WarmHead_bestEffort ==
    /\ part = "content" /\ \E n \in 0 .. window.length : Warm(n)
    /\ part' = "front"
    /\ UNCHANGED <<pc, list, pos, plan, used, budget, stats, canceled, env,
                   verdicts, disturbed>>

WarmHead ==
    /\ part = "content" /\ Warm(window.length)
    /\ part' = "front"
    /\ UNCHANGED <<pc, list, pos, plan, used, budget, stats, canceled, env,
                   verdicts, disturbed>>

\* Mutant: a failed content window is charged.
WarmHeadFails_charged ==
    /\ part = "content" /\ ~quiet
    /\ \E n \in 0 .. (window.length - 1) : Warm(n)
    /\ stats' = [stats EXCEPT !.Missing = @ + 1, !.BytesWarmed = @ + window.length]
    /\ used' = used + window.length
    /\ Decide("missing", plan)
    /\ UNCHANGED <<list, plan, part, budget, canceled, env, disturbed>>

\* The content window is fatal: on an error the target is missing, uncharged,
\* and its other ranges are not read.
WarmHeadFails ==
    /\ part = "content" /\ ~quiet
    /\ \E n \in 0 .. (window.length - 1) : Warm(n)
    /\ Count("Missing")
    /\ Decide("missing", plan)
    /\ UNCHANGED <<list, plan, part, used, budget, canceled, env, disturbed>>

\* Front metadata and cue tail are best effort: an error is logged and ignored.
WarmSide ==
    /\ part \in {"front", "cue"}
    /\ \E n \in 0 .. window.length : (quiet => n = window.length) /\ Warm(n)
    /\ \/ part = "front" /\ part' = "cue" /\ pc' = pc
       \/ part = "cue" /\ pc' = "account" /\ part' = part
    /\ UNCHANGED <<list, pos, plan, used, budget, stats, canceled, env, verdicts, disturbed>>

\* Mutant: the front window is recorded for the cue tail.
WarmedRanges_frontTwice(f, pl) ==
    LET entry(p) == [Path |-> f, Offset |-> Windows(pl)[p].from,
                     Length |-> Windows(pl)[p].length]
    IN  <<entry("front"), entry("content"), [entry("cue") EXCEPT !.Offset = 0]>>

\* RunStats.Warmed lists a plan's non-empty ranges in offset order.
WarmedRanges(f, pl) ==
    LET entry(p) == [Path |-> f, Offset |-> Windows(pl)[p].from,
                     Length |-> Windows(pl)[p].length]
    IN  (IF pl.front > 0 THEN <<entry("front")>> ELSE <<>>)
        \o <<entry("content")>>
        \o (IF pl.tail > 0 THEN <<entry("cue")>> ELSE <<>>)

Account ==
    /\ pc = "account"
    /\ used' = used + cost(plan)
    /\ stats' = [Preloaded   |-> stats.Preloaded + 1,
                 Skipped     |-> stats.Skipped,
                 Missing     |-> stats.Missing,
                 BytesWarmed |-> stats.BytesWarmed + cost(plan),
                 ByTier      |-> [stats.ByTier EXCEPT ![target.Tier] = @ + 1],
                 ByUser      |-> [stats.ByUser EXCEPT ![target.Item.UserID] = @ + 1],
                 Warmed      |-> stats.Warmed \o WarmedRanges(file, plan)]
    /\ Decide("preloaded", plan)
    /\ UNCHANGED <<list, plan, part, budget, canceled, cache, env, readIn, disturbed>>

-----------------------------------------------------------------------------
(***************************************************************************)
(* The environment.                                                        *)
(***************************************************************************)

\* The kernel reclaims a page.
Evict ==
    /\ ~quiet
    /\ \E f \in Files : \E b \in cache[f] :
         /\ cache' = [cache EXCEPT ![f] = @ \ {b}]
         /\ disturbed' = disturbed \cup {f}
    /\ UNCHANGED <<pc, pass, canceled, env, verdicts, readIn>>

\* Somebody else reads the file: playback, or an overlapping pass.
OtherRead ==
    /\ ~quiet
    /\ \E f \in Shared \ wedged : \E b \in 0 .. (FileSize[f] - 1) :
         b \notin cache[f] /\ cache' = [cache EXCEPT ![f] = @ \cup {b}]
    /\ UNCHANGED <<pc, pass, canceled, env, verdicts, readIn, disturbed>>

\* A read its probe gave up on returns after all.
LateRead ==
    /\ \E r \in late :
         /\ r.file \notin wedged
         /\ late' = late \ {r}
         /\ cache' = [cache EXCEPT ![r.file] = @ \cup r.bytes]
    /\ UNCHANGED <<pc, pass, canceled, wedged, quiet, verdicts, readIn, disturbed>>

Wedge ==
    /\ ~quiet
    /\ \E f \in Wedgeable \ wedged : wedged' = wedged \cup {f}
    /\ UNCHANGED <<pc, pass, canceled, cache, late, quiet, verdicts, readIn, disturbed>>

\* SIGTERM to the daemon ends its context; Run notices between targets.
Cancel ==
    /\ ~quiet /\ pc # "idle" /\ ~canceled
    /\ canceled' = TRUE
    /\ UNCHANGED <<pc, pass, cache, env, verdicts, readIn, disturbed>>

\* The process dies mid-pass: rc.preloadd's timeout, a reboot.  Only the page
\* cache is left; the next pass starts from nothing.
Kill ==
    /\ ~quiet /\ pc # "idle"
    /\ pc' = "idle" /\ list' = <<>> /\ pos' = 1
    /\ plan' = NoPlan /\ part' = "front"
    /\ used' = 0 /\ budget' = 0 /\ stats' = NoStats /\ canceled' = FALSE
    /\ late' = {}
    /\ verdicts' = <<>> /\ readIn' = {} /\ disturbed' = {}
    /\ UNCHANGED <<cache, wedged, quiet>>

\* From here on no eviction, no error, no kill: what liveness is about.
Quieten ==
    /\ ~quiet /\ quiet' = TRUE
    /\ UNCHANGED <<pc, pass, canceled, cache, late, wedged, verdicts, readIn, disturbed>>

-----------------------------------------------------------------------------
Probes == ProbeNothing \/ ProbeMincore \/ ProbeTiming \/ ProbeError \/ ProbeTimeout

Warming == WarmHead \/ WarmHeadFails \/ WarmSide \/ Account

Run == Finish \/ Missing \/ PlanTarget \/ Probes \/ Drop \/ Admit \/ Warming

Environment ==
    Evict \/ OtherRead \/ LateRead \/ Wedge \/ Cancel \/ Kill \/ Quieten

Next == Start \/ Run \/ Environment

Spec == Init /\ [][Next]_vars

\* Cron starts a pass every interval and the scheduler runs it; nobody owes an
\* eviction, a read, a failure or a quiet environment.
FairSpec == Spec /\ WF_vars(Run) /\ WF_vars(Start)
=============================================================================
