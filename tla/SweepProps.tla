----------------------------- MODULE SweepProps -----------------------------
(***************************************************************************)
(* What preload passes owe: to the byte budget, to the priority order, to  *)
(* the report they return and, above all, to the bytes they say are        *)
(* resident.                                                               *)
(***************************************************************************)
EXTENDS Sweep

Verdicts == {"skipped", "missing", "preloaded", "dropped"}

TypeOK ==
    /\ pc \in {"idle", "target", "probe", "admit", "warm", "account"}
    /\ list \in Seq(Targets) /\ pos \in 1 .. (Len(list) + 1)
    /\ plan \in PlanType /\ part \in Parts
    /\ used \in Nat /\ budget \in Nat
    /\ stats \in RunStats
    /\ canceled \in BOOLEAN /\ quiet \in BOOLEAN
    /\ cache \in [Files -> SUBSET Nat]
    /\ late \subseteq [file : Files, bytes : SUBSET Nat]
    /\ wedged \subseteq Files /\ disturbed \subseteq Files
    /\ verdicts \in Seq([verdict : Verdicts, plan : PlanType])
    /\ readIn \subseteq Files \X Nat

\* The verdict of rank i, on the file of rank i.
Judged(i, verdict) == i \in DOMAIN verdicts /\ verdicts[i].verdict = verdict

FileOf(i) == Path[list[i]]

-----------------------------------------------------------------------------
(***************************************************************************)
(* Budget and report.                                                      *)
(***************************************************************************)

\* Run's "used + cost > budget" guard, over a whole pass with failures,
\* cancellation and best-effort reads in it: the bytes charged never exceed the
\* budget, and the report shows exactly the bytes charged.
BudgetHonoured == used <= budget /\ stats.BytesWarmed = used

\* "a head-warm failure never leaves front/tail bytes warmed but uncharged
\* (budget under-accounting) or unrecorded (a blind -verify)"
\* (preloader.go:209): between targets, every byte the pass has read is in a
\* recorded range, or belongs to the content window of a target whose content
\* read failed.
OnlyFailedHeadsUncharged ==
    pc \in {"idle", "target"} =>
        \A r \in readIn :
            \/ \E i \in DOMAIN stats.Warmed :
                 /\ stats.Warmed[i].Path = r[1]
                 /\ r[2] \in RangeBytes(stats.Warmed[i].Offset, stats.Warmed[i].Length)
            \/ \E i \in DOMAIN verdicts :
                 /\ Judged(i, "missing") /\ FileOf(i) = r[1]
                 /\ r[2] \in ContentBytes(verdicts[i].plan)

\* A dropped target ends the pass: nothing ranked below it is ever warmed or
\* even probed, so a lower priority never takes the budget a higher one was
\* refused.
NothingBelowTheCut ==
    \A i \in DOMAIN verdicts : Judged(i, "dropped") => i = Len(verdicts) /\ pc = "idle"

\* A target is "missing" or "preloaded" by what happened to its content window:
\* a preloaded target's window has been read completely in this pass, and is
\* resident unless the kernel has taken pages of that file back.
PreloadedContentResident ==
    \A i \in DOMAIN verdicts : Judged(i, "preloaded") =>
        /\ {FileOf(i)} \X ContentBytes(verdicts[i].plan) \subseteq readIn
        /\ FileOf(i) \in disturbed \/ ContentBytes(verdicts[i].plan) \subseteq cache[FileOf(i)]

-----------------------------------------------------------------------------
(***************************************************************************)
(* Residency.                                                              *)
(***************************************************************************)

\* "Skip only when the front metadata, content window, and cue tail are all
\* resident" (preloader.go:194): a skipped target is resident to its last byte,
\* unless the kernel has taken pages of its file back since the pass began.
SkipIsResident(i) ==
    Judged(i, "skipped") =>
        FileOf(i) \in disturbed \/ PlanBytes(verdicts[i].plan) \subseteq cache[FileOf(i)]

\* It is so where mincore counts pages: nothing between the three probes, nor
\* anything another process or an abandoned probe does, can undo it.
SkippedAreResident == \A i \in DOMAIN verdicts : FileOf(i) \notin Fuse => SkipIsResident(i)

\* What a skip means where residency is timed as well: the first bytes of each
\* range are resident, unless the kernel has taken pages of the file back.
SkippedSamplesResident ==
    \A i \in DOMAIN verdicts : Judged(i, "skipped") =>
        \/ FileOf(i) \in disturbed
        \/ \A w \in {Windows(verdicts[i].plan)[p] : p \in Parts} :
             RangeBytes(w.from, Lesser(probeBytes, w.length)) \subseteq cache[FileOf(i)]

\* Every mapped target's ranges are resident: to the last byte where mincore counts
\* pages, in the samples the probes read where residency is timed.
Warmed(t) ==
    LET f  == Path[t]
        pl == planWarm(t, FileSize[f], Layout[f], FALSE)
    IN  IF f \notin Fuse THEN PlanBytes(pl) \subseteq cache[f]
        ELSE \A w \in {Windows(pl)[p] : p \in Parts} :
               RangeBytes(w.from, Lesser(probeBytes, w.length)) \subseteq cache[f]

\* "if something evicts the cache [...] the next sweep sees reality and
\* re-warms" (how-it-works.md:94): whatever evictions, failures, crashes and
\* overlapping reads came before, once they stop the passes bring every target
\* back and keep it, even under a budget that admits one target at a time.  On a
\* FUSE mount the document claims more than the code does: a range that lost pages
\* behind its sample is taken for resident (resident_linux.go:139) and stays cold,
\* so only the samples are sure to come back there.
EventuallyWarm == <>quiet => <>[](\A t \in Targets \ Unmapped : Warmed(t))

\* Every pass ends: probe deadlines, "so a wedged FUSE mount cannot stall an
\* entire sweep" (pagecache.go:34).
PassTerminates == pc # "idle" ~> pc = "idle"

-----------------------------------------------------------------------------
(***************************************************************************)
(* The pass as a whole implements its abstract description.                *)
(***************************************************************************)
Abstract == INSTANCE BudgetedPass WITH
    running <- pc # "idle",
    size    <- Len(list),
    limit   <- budget,
    spent   <- stats.BytesWarmed,
    ledger  <- [i \in DOMAIN verdicts |-> verdicts[i].verdict]

\* Walk in rank order, one verdict each, charge within the limit, stop at the
\* first target that does not fit: every step of the code's pass is a step of
\* that or changes nothing it speaks of.
IsBudgetedPass == Abstract!Spec
=============================================================================
