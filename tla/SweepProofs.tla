---------------------------- MODULE SweepProofs ----------------------------
(***************************************************************************)
(* Passes for every number of targets, files and users, every budget and   *)
(* every behaviour of the environment: type correctness, the budget, the   *)
(* cut in the priority order, what a skip is worth, and what the report    *)
(* and its byte count are worth.                                           *)
(***************************************************************************)
EXTENDS SweepProps, SequenceTheorems, FiniteSetTheorems, TLAPS

\* Outside the loop head a target is being handled; the verdicts so far are
\* those of the ranks before it.
AtRank ==
    /\ pc \notin {"idle", "target"} => pos <= Len(list)
    /\ Len(verdicts) <= Len(list)
    /\ pc # "idle" => Len(verdicts) = pos - 1

TypeInv == TypeOK /\ AtRank

-----------------------------------------------------------------------------
LEMMA RangeInNat ==
    ASSUME NEW from \in Nat, NEW n \in Int
    PROVE  RangeBytes(from, n) \subseteq Nat
  BY DEF RangeBytes

LEMMA TargetTyped ==
    ASSUME TypeOK, pos <= Len(list)
    PROVE  target \in Targets /\ file \in Files /\ FileSize[file] \in Nat
  <1>1. pos \in 1 .. Len(list) /\ list \in Seq(Targets)
    BY DEF TypeOK
  <1>2. target \in Targets
    BY <1>1 DEF target
  <1>3. QED
    BY <1>2, SweepAssumption DEF file

LEMMA WindowTyped ==
    ASSUME TypeOK
    PROVE  window.from \in Nat /\ window.length \in Nat
  <1>1. plan \in PlanType /\ part \in {"front", "content", "cue"}
    BY DEF TypeOK, Parts
  <1>2. CASE part = "front"
    BY <1>1, <1>2 DEF window, Windows, PlanType
  <1>3. CASE part = "content"
    BY <1>1, <1>3 DEF window, Windows, PlanType
  <1>4. CASE part = "cue"
    BY <1>1, <1>4 DEF window, Windows, PlanType
  <1>5. QED
    BY <1>1, <1>2, <1>3, <1>4

LEMMA PrefixInNat ==
    ASSUME TypeOK, NEW n \in Int
    PROVE  Prefix(n) \subseteq Nat
  BY WindowTyped, RangeInNat DEF Prefix

LEMMA LoadsTyped ==
    ASSUME TypeOK, pos <= Len(list), NEW bytes, bytes \subseteq Nat, Loads(bytes)
    PROVE  /\ cache' \in [Files -> SUBSET Nat]
           /\ \A f \in Files : cache[f] \subseteq cache'[f]
           /\ bytes \subseteq cache'[file]
  <1>1. file \in Files /\ cache \in [Files -> SUBSET Nat]
    BY TargetTyped DEF TypeOK
  <1>2. QED
    BY <1>1 DEF Loads

LEMMA CountTyped ==
    ASSUME stats \in RunStats, NEW counter \in {"Missing", "Skipped"}, Count(counter)
    PROVE  stats' \in RunStats /\ stats'.BytesWarmed = stats.BytesWarmed
  BY DEF RunStats, Count

LEMMA DecideTyped ==
    ASSUME TypeOK, AtRank, pc # "idle", pos <= Len(list),
           NEW verdict \in Verdicts, NEW pl \in PlanType, Decide(verdict, pl)
    PROVE  /\ pc' = "target"
           /\ pos' = pos + 1 /\ pos' \in 1 .. (Len(list) + 1)
           /\ verdicts' \in Seq([verdict : Verdicts, plan : PlanType])
           /\ Len(verdicts') = pos
           /\ verdicts' = Append(verdicts, [verdict |-> verdict, plan |-> pl])
  <1>1. verdicts \in Seq([verdict : Verdicts, plan : PlanType]) /\ Len(verdicts) = pos - 1
    BY DEF TypeOK, AtRank
  <1>2. [verdict |-> verdict, plan |-> pl] \in [verdict : Verdicts, plan : PlanType]
    OBVIOUS
  <1>3. list \in Seq(Targets) /\ pos \in 1 .. (Len(list) + 1)
    BY DEF TypeOK
  <1>4. QED
    BY <1>1, <1>2, <1>3 DEF Decide

\* The sizes of a pass's plans are numbers; what else is true of them is proved
\* in PlanItemProofs.
LEMMA SizesTyped ==
    ASSUME NEW it, IsItem(it), NEW secs \in Nat
    PROVE  /\ bps(it) \in Int /\ resumeOffsetBytes(it) \in Nat
           /\ PlanHead(secs, it).Bytes \in Nat /\ PlanHead(secs, it).Truncated \in BOOLEAN
  <1> DEFINE want == (secs * bps(it)) \div 8
  <1>1. bps(it) \in Int
    BY DEF IsItem, bps
  <1>2. want \in Int
    <2>1. secs * bps(it) \in Int
      BY <1>1
    <2> QED
      BY <2>1
  <1>3. PlanHead(secs, it).Bytes \in Nat /\ PlanHead(secs, it).Truncated \in BOOLEAN
    BY <1>2, DialsAssumption DEF PlanHead, Lesser, Greater
  <1>4. resumeOffsetBytes(it) \in Nat
    <2>1. ASSUME it.ResumeOffset > 0, bps(it) > 0 PROVE it.ResumeOffset * bps(it) \in Nat
      BY <1>1, <2>1 DEF IsItem
    <2> QED
      BY <1>1, <2>1 DEF resumeOffsetBytes, IsItem
  <1> QED
    BY <1>1, <1>3, <1>4

LEMMA PlanTyped ==
    ASSUME TypeOK, pos <= Len(list), NEW pooled \in Pooled, NEW layout \in {NoLayout, Layout[file]}
    PROVE  planWarm(target, FileSize[file], layout, pooled) \in PlanType
  <1> DEFINE size   == FileSize[file]
             hp     == PlanHead(IF pooled THEN 0 ELSE TargetSeconds, target.Item)
             asked  == IF seeking(target) THEN resumeOffsetBytes(target.Item) ELSE 0
             offset == IF asked >= size THEN 0 ELSE asked
             head   == Lesser(hp.Bytes, size - offset)
             sides  == CASE seeking(target) /\ layout # NoLayout -> inspectRanges(layout, size, offset)
                         [] (~seeking(target) \/ layout = NoLayout) /\ TailBytes > 0 -> flatTail(size)
                         [] OTHER -> noTail
             tail   == clampTailToContent(sides, offset + head)
  <1>1. size \in Nat /\ IsItem(target.Item) /\ layout \in Layouts(size)
    BY TargetTyped, SweepAssumption DEF Layouts
  <1>2. hp.Bytes \in Nat /\ hp.Truncated \in BOOLEAN /\ asked \in Nat
    BY <1>1, SizesTyped, DialsAssumption
  <1> HIDE DEF size, hp, asked
  <1>3. offset \in Nat /\ head \in Nat
    BY <1>1, <1>2 DEF Lesser
  <1> HIDE DEF offset, head
  <1>4. sides \in [front : Nat, tailOffset : Nat, tail : Nat]
    <2>1. ASSUME layout # NoLayout
          PROVE  inspectRanges(layout, size, offset) \in [front : Nat, tailOffset : Nat, tail : Nat]
      <3>1. layout.FrontEnd \in Nat /\ layout.CueStart \in Nat
        BY <1>1, <2>1, DialsAssumption DEF Layouts
      <3> QED
        BY <1>1, <1>3, <3>1, DialsAssumption DEF inspectRanges, Lesser
    <2>2. /\ flatTail(size) \in [front : Nat, tailOffset : Nat, tail : Nat]
          /\ noTail \in [front : Nat, tailOffset : Nat, tail : Nat]
      BY <1>1, DialsAssumption DEF flatTail, noTail, Greater
    <2> QED
      BY <2>1, <2>2
  <1> HIDE DEF sides
  <1>5. tail.tailOffset \in Nat /\ tail.tail \in Nat
    BY <1>3, <1>4 DEF clampTailToContent, Greater
  <1> HIDE DEF tail
  <1>6. planWarm(target, FileSize[file], layout, pooled)
          = [front |-> sides.front, offset |-> offset, head |-> head,
             tailOffset |-> tail.tailOffset, tail |-> tail.tail, Truncated |-> hp.Truncated]
    BY DEF planWarm, size, hp, asked, offset, head, sides, tail
  <1> QED
    BY <1>2, <1>3, <1>4, <1>5, <1>6 DEF PlanType

-----------------------------------------------------------------------------
(***************************************************************************)
(* Type correctness.                                                       *)
(***************************************************************************)

LEMMA NothingTyped == NoStats \in RunStats /\ NoPlan \in PlanType
  BY DEF NoStats, RunStats, TierCounts, UserCounts, WarmedLists, NoPlan, PlanType

\* No target is ranked and none is decided.
FreshLists ==
    /\ list \in Seq(Targets) /\ Len(list) = 0
    /\ verdicts \in Seq([verdict : Verdicts, plan : PlanType]) /\ Len(verdicts) = 0

LEMMA EmptyTyped == list = <<>> /\ verdicts = <<>> => FreshLists
  BY DEF FreshLists

LEMMA InitTyped == Init => TypeInv
  <1> SUFFICES ASSUME Init PROVE TypeInv
    OBVIOUS
  <1>1. NoStats \in RunStats /\ NoPlan \in PlanType
    BY NothingTyped
  <1>2. list = <<>> /\ verdicts = <<>> /\ pos = 1 /\ pc = "idle"
    BY DEF Init
  <1>3. FreshLists
    BY <1>2, EmptyTyped
  <1>4. cache \in [Files -> SUBSET Nat] /\ late = {} /\ wedged = {}
        /\ readIn = {} /\ disturbed = {}
    BY DEF Init
  <1>5. plan \in PlanType /\ part \in Parts /\ stats \in RunStats
        /\ used \in Nat /\ budget \in Nat /\ canceled \in BOOLEAN /\ quiet \in BOOLEAN
    BY <1>1 DEF Init, Parts
  <1>6. QED
    BY <1>2, <1>3, <1>4, <1>5 DEF TypeInv, TypeOK, AtRank, FreshLists

\* The steps of a pass that decide a target, one by one.
LEMMA MissingTyped == ASSUME TypeInv, Missing PROVE TypeInv'
  <1>1. pos <= Len(list) /\ pc # "idle"
    BY DEF Missing, AtTarget
  <1>2. NoPlan \in PlanType /\ "missing" \in Verdicts
    BY DEF NoPlan, PlanType, Verdicts
  <1>3. Decide("missing", NoPlan)
    BY DEF Missing
  <1>4. /\ pc' = "target"
        /\ pos' = pos + 1 /\ pos' \in 1 .. (Len(list) + 1)
        /\ verdicts' \in Seq([verdict : Verdicts, plan : PlanType])
        /\ Len(verdicts') = pos
    BY <1>1, <1>2, <1>3, DecideTyped DEF TypeInv
  <1>5. stats' \in RunStats
    BY CountTyped DEF TypeInv, TypeOK, Missing
  <1>6. QED
    BY <1>1, <1>4, <1>5 DEF TypeInv, TypeOK, AtRank, Missing, env

LEMMA PlanTargetTyped == ASSUME TypeInv, PlanTarget PROVE TypeInv'
  <1>1. pos <= Len(list) /\ pc # "idle" /\ TypeOK /\ AtRank
    BY DEF PlanTarget, AtTarget, TypeInv
  <1>2. PICK pooled \in Pooled, layout \in {NoLayout, Layout[file]} :
          /\ plan' = planWarm(target, FileSize[file], layout, pooled)
          /\ \E n \in 0 .. Lesser(frontReadCap, FileSize[file]) :
               Loads(IF seeking(target) THEN RangeBytes(0, n) ELSE {})
    BY DEF PlanTarget
  <1>3. plan' \in PlanType
    BY <1>1, <1>2, PlanTyped
  <1>4. PICK n \in 0 .. Lesser(frontReadCap, FileSize[file]) :
          Loads(IF seeking(target) THEN RangeBytes(0, n) ELSE {})
    BY <1>2
  <1>5. (IF seeking(target) THEN RangeBytes(0, n) ELSE {}) \subseteq Nat
    BY RangeInNat
  <1>6. cache' \in [Files -> SUBSET Nat]
    BY <1>1, <1>4, <1>5, LoadsTyped
  <1>7. QED
    BY <1>1, <1>3, <1>6 DEF TypeInv, TypeOK, AtRank, PlanTarget, env, Parts

\* Whatever a probe finds, it moves to the next range, skips or proposes.
LEMMA FindingTyped ==
    ASSUME TypeInv, pc = "probe", Resident \/ NotResident,
           UNCHANGED <<list, plan, used, budget, canceled, wedged, quiet, readIn, disturbed>>,
           cache' \in [Files -> SUBSET Nat], late' \subseteq [file : Files, bytes : SUBSET Nat]
    PROVE  TypeInv'
  <1>1. pos <= Len(list) /\ TypeOK /\ AtRank
    BY DEF AtRank, TypeInv
  <1>2. CASE NotResident
    BY <1>1, <1>2 DEF NotResident, TypeInv, TypeOK, AtRank
  <1>3. CASE Resident /\ part # "cue"
    <2>1. part \in {"front", "content"}
      BY <1>1, <1>3 DEF TypeOK, Parts
    <2>2. part' \in Parts /\ UNCHANGED <<pc, pos, stats, verdicts>>
      BY <1>3, <2>1 DEF Resident, probeOrder, Parts
    <2>3. QED
      BY <1>1, <2>2 DEF TypeInv, TypeOK, AtRank
  <1>4. CASE Resident /\ part = "cue"
    <2>1. Decide("skipped", plan) /\ Count("Skipped") /\ part' = part
      BY <1>4 DEF Resident
    <2>2. plan \in PlanType /\ "skipped" \in Verdicts
      BY <1>1 DEF TypeOK, Verdicts
    <2>3. /\ pc' = "target"
          /\ pos' = pos + 1 /\ pos' \in 1 .. (Len(list) + 1)
          /\ verdicts' \in Seq([verdict : Verdicts, plan : PlanType])
          /\ Len(verdicts') = pos
      BY <1>1, <2>1, <2>2, DecideTyped
    <2>4. stats' \in RunStats
      BY <1>1, <2>1, CountTyped DEF TypeOK
    <2>5. QED
      BY <1>1, <2>1, <2>3, <2>4 DEF TypeInv, TypeOK, AtRank
  <1>5. QED
    BY <1>2, <1>3, <1>4

LEMMA ProbesTyped == ASSUME TypeInv, Probes PROVE TypeInv'
  <1>1. pc = "probe" /\ TypeOK /\ AtRank /\ pos <= Len(list)
    BY DEF Probes, ProbeNothing, ProbeMincore, ProbeTiming, ProbeError, ProbeTimeout,
           Probing, TypeInv, AtRank
  <1>2. UNCHANGED <<list, plan, used, budget, canceled, wedged, quiet, readIn, disturbed>>
    BY DEF Probes, ProbeNothing, ProbeMincore, ProbeTiming, ProbeError, ProbeTimeout,
           probeUnchanged
  <1>3. Resident \/ NotResident
    BY DEF Probes, ProbeNothing, ProbeMincore, ProbeTiming, ProbeError, ProbeTimeout
  <1>4. \A n \in Int : Prefix(n) \subseteq Nat
    BY <1>1, PrefixInNat
  <1>5. sampleLength \in Int
    BY <1>1, WindowTyped, SweepAssumption DEF sampleLength, Lesser
  <1>6. cache' \in [Files -> SUBSET Nat]
    <2>1. CASE ProbeNothing \/ ProbeMincore \/ ProbeTimeout
      BY <1>1, <2>1 DEF ProbeNothing, ProbeMincore, ProbeTimeout, TypeOK
    <2>2. CASE ProbeTiming
      BY <1>1, <1>4, <1>5, <2>2, LoadsTyped DEF ProbeTiming
    <2>3. CASE ProbeError
      <3>1. PICK n \in 0 .. (sampleLength - 1) : Loads(Prefix(n))
        BY <2>3 DEF ProbeError
      <3>2. QED
        BY <1>1, <1>4, <1>5, <3>1, LoadsTyped
    <2>4. QED
      BY <2>1, <2>2, <2>3 DEF Probes
  <1>7. late' \subseteq [file : Files, bytes : SUBSET Nat]
    <2>1. CASE ProbeTimeout
      <3>1. file \in Files /\ Prefix(sampleLength) \subseteq Nat
        BY <1>1, <1>4, <1>5, TargetTyped
      <3>2. QED
        BY <1>1, <2>1, <3>1 DEF ProbeTimeout, TypeOK
    <2>2. CASE ~ProbeTimeout
      BY <1>1, <2>2 DEF Probes, ProbeNothing, ProbeMincore, ProbeTiming, ProbeError, TypeOK
    <2>3. QED
      BY <2>1, <2>2
  <1>8. QED
    BY <1>1, <1>2, <1>3, <1>6, <1>7, FindingTyped

\* A read of n bytes keeps the cache and the history of reads well typed.
LEMMA WarmTyped ==
    ASSUME TypeInv, NEW n \in Int, Warm(n)
    PROVE  /\ pc = "warm" /\ pos <= Len(list)
           /\ cache' \in [Files -> SUBSET Nat] /\ readIn' \subseteq Files \X Nat
  <1>1. pc = "warm" /\ TypeOK /\ pos <= Len(list)
    BY DEF Warm, TypeInv, AtRank
  <1>2. Prefix(n) \subseteq Nat /\ file \in Files
    BY <1>1, PrefixInNat, TargetTyped
  <1>3. cache' \in [Files -> SUBSET Nat]
    BY <1>1, <1>2, LoadsTyped DEF Warm
  <1>4. readIn' \subseteq Files \X Nat
    BY <1>1, <1>2 DEF Warm, TypeOK
  <1>5. QED
    BY <1>1, <1>3, <1>4

LEMMA WarmHeadTyped == ASSUME TypeInv, WarmHead PROVE TypeInv'
  <1>1. window.length \in Int
    BY WindowTyped DEF TypeInv
  <1>2. pc = "warm" /\ cache' \in [Files -> SUBSET Nat] /\ readIn' \subseteq Files \X Nat
    BY <1>1, WarmTyped DEF WarmHead
  <1>3. QED
    BY <1>2 DEF WarmHead, TypeInv, TypeOK, AtRank, env, Parts

LEMMA WarmHeadFailsTyped == ASSUME TypeInv, WarmHeadFails PROVE TypeInv'
  <1>1. window.length \in Int /\ TypeOK /\ AtRank
    BY WindowTyped DEF TypeInv
  <1>2. PICK n \in 0 .. (window.length - 1) : Warm(n)
    BY DEF WarmHeadFails
  <1>3. /\ pc = "warm" /\ pos <= Len(list)
        /\ cache' \in [Files -> SUBSET Nat] /\ readIn' \subseteq Files \X Nat
    BY <1>1, <1>2, WarmTyped
  <1>4. plan \in PlanType /\ "missing" \in Verdicts
    BY <1>1 DEF TypeOK, Verdicts
  <1>5. /\ pc' = "target"
        /\ pos' = pos + 1 /\ pos' \in 1 .. (Len(list) + 1)
        /\ verdicts' \in Seq([verdict : Verdicts, plan : PlanType])
        /\ Len(verdicts') = pos
    BY <1>1, <1>3, <1>4, DecideTyped DEF WarmHeadFails
  <1>6. stats' \in RunStats
    BY <1>1, CountTyped DEF WarmHeadFails, TypeOK
  <1>7. QED
    BY <1>1, <1>3, <1>5, <1>6 DEF WarmHeadFails, TypeInv, TypeOK, AtRank, env

LEMMA WarmSideTyped == ASSUME TypeInv, WarmSide PROVE TypeInv'
  <1>1. PICK n \in 0 .. window.length : Warm(n)
    BY DEF WarmSide
  <1>2. /\ pc = "warm" /\ pos <= Len(list)
        /\ cache' \in [Files -> SUBSET Nat] /\ readIn' \subseteq Files \X Nat
    BY <1>1, WarmTyped
  <1>3. QED
    BY <1>2 DEF WarmSide, TypeInv, TypeOK, AtRank, env, Parts

LEMMA WarmedRangesTyped ==
    ASSUME NEW f \in Files, NEW pl \in PlanType
    PROVE  WarmedRanges(f, pl) \in WarmedLists
  <1> DEFINE entry(p) == [Path |-> f, Offset |-> Windows(pl)[p].from,
                          Length |-> Windows(pl)[p].length]
             Entry    == [Path : Files, Offset : Nat, Length : Nat]
  <1>1. \A p \in {"front", "content", "cue"} : entry(p) \in Entry
    BY DEF Windows, PlanType, Parts
  <1> HIDE DEF entry, Entry
  <1>2. /\ (IF pl.front > 0 THEN <<entry("front")>> ELSE <<>>) \in Seq(Entry)
        /\ <<entry("content")>> \in Seq(Entry)
        /\ (IF pl.tail > 0 THEN <<entry("cue")>> ELSE <<>>) \in Seq(Entry)
    BY <1>1
  <1>3. (IF pl.front > 0 THEN <<entry("front")>> ELSE <<>>)
           \o <<entry("content")>>
           \o (IF pl.tail > 0 THEN <<entry("cue")>> ELSE <<>>) \in Seq(Entry)
    BY <1>2
  <1>4. QED
    BY <1>3 DEF WarmedRanges, WarmedLists, entry, Entry

LEMMA AccountTyped == ASSUME TypeInv, Account PROVE TypeInv'
  <1>1. pc = "account" /\ TypeOK /\ AtRank /\ pos <= Len(list)
    BY DEF Account, TypeInv, AtRank
  <1>2. /\ target \in Targets /\ file \in Files
        /\ target.Tier \in Tiers /\ target.Item.UserID \in Users
    BY <1>1, TargetTyped, SweepAssumption
  <1>3. plan \in PlanType /\ "preloaded" \in Verdicts
    BY <1>1 DEF TypeOK, Verdicts
  <1>4. cost(plan) \in Nat
    BY <1>3 DEF cost, PlanType
  <1>5. WarmedRanges(file, plan) \in WarmedLists
    BY <1>2, <1>3, WarmedRangesTyped
  <1>6. stats' \in RunStats
    <2>1. /\ stats.ByTier \in TierCounts /\ stats.ByUser \in UserCounts
          /\ stats.Warmed \in WarmedLists
          /\ stats.Preloaded \in Nat /\ stats.Skipped \in Nat
          /\ stats.Missing \in Nat /\ stats.BytesWarmed \in Nat
      BY <1>1 DEF TypeOK, RunStats
    <2>2. stats.Warmed \o WarmedRanges(file, plan) \in WarmedLists
      BY <1>5, <2>1 DEF WarmedLists
    <2>3. [stats.ByTier EXCEPT ![target.Tier] = @ + 1] \in TierCounts
      BY <1>2, <2>1 DEF TierCounts
    <2>4. [stats.ByUser EXCEPT ![target.Item.UserID] = @ + 1] \in UserCounts
      BY <1>2, <2>1 DEF UserCounts
    <2>5. QED
      BY <1>4, <2>1, <2>2, <2>3, <2>4 DEF RunStats, Account
  <1>7. /\ pc' = "target"
        /\ pos' = pos + 1 /\ pos' \in 1 .. (Len(list) + 1)
        /\ verdicts' \in Seq([verdict : Verdicts, plan : PlanType])
        /\ Len(verdicts') = pos
    BY <1>1, <1>3, DecideTyped DEF Account
  <1>8. used' \in Nat
    BY <1>1, <1>4 DEF Account, TypeOK
  <1>9. QED
    BY <1>1, <1>6, <1>7, <1>8 DEF Account, TypeInv, TypeOK, AtRank, env

LEMMA StartTyped == ASSUME TypeInv, Start PROVE TypeInv'
  <1>1. NoStats \in RunStats /\ NoPlan \in PlanType
    BY NothingTyped
  <1>2. list' \in Seq(Targets) /\ budget' \in Nat
    BY SweepAssumption DEF Start
  <1>3. QED
    <2>1. verdicts' \in Seq([verdict : Verdicts, plan : PlanType]) /\ Len(verdicts') = 0
      BY DEF Start
    <2>2. Len(list') \in Nat /\ pos' = 1 /\ pc' = "target"
      BY <1>2 DEF Start
    <2>3. /\ plan' \in PlanType /\ part' \in Parts /\ stats' \in RunStats
          /\ used' = 0 /\ readIn' = {} /\ disturbed' = {}
          /\ UNCHANGED <<cache, late, wedged>>
      BY <1>1 DEF Start, Parts, env
    <2>4. canceled' \in BOOLEAN /\ quiet' \in BOOLEAN
      BY DEF Start, env, TypeInv, TypeOK
    <2>5. QED
      BY <1>2, <2>1, <2>2, <2>3, <2>4 DEF TypeInv, TypeOK, AtRank

LEMMA EndingTyped == ASSUME TypeInv, Finish \/ Drop \/ Admit PROVE TypeInv'
  <1>1. CASE Finish \/ Admit
    BY <1>1 DEF Finish, Admit, TypeInv, TypeOK, AtRank, pass, env, Parts
  <1>2. CASE Drop
    <2>1. plan \in PlanType /\ "dropped" \in Verdicts /\ pos <= Len(list) /\ Len(verdicts) = pos - 1
      BY <1>2 DEF TypeInv, TypeOK, AtRank, Drop, Verdicts
    <2>2. /\ verdicts' \in Seq([verdict : Verdicts, plan : PlanType])
          /\ Len(verdicts') = Len(verdicts) + 1
      BY <1>2, <2>1 DEF TypeInv, TypeOK, Drop
    <2>3. QED
      BY <1>2, <2>1, <2>2 DEF Drop, TypeInv, TypeOK, AtRank, pass, env
  <1>3. QED
    BY <1>1, <1>2

LEMMA EnvironmentTyped == ASSUME TypeInv, Environment PROVE TypeInv'
  <1> USE DEF TypeInv, TypeOK, AtRank, pass, env
  <1>1. CASE Evict
    BY <1>1 DEF Evict
  <1>2. CASE OtherRead
    <2>1. PICK f \in Shared \ wedged : \E b \in 0 .. (FileSize[f] - 1) :
            b \notin cache[f] /\ cache' = [cache EXCEPT ![f] = @ \cup {b}]
      BY <1>2 DEF OtherRead
    <2>2. f \in Files /\ FileSize[f] \in Nat
      BY SweepAssumption
    <2>3. cache' \in [Files -> SUBSET Nat]
      <3>1. PICK b \in 0 .. (FileSize[f] - 1) : cache' = [cache EXCEPT ![f] = @ \cup {b}]
        BY <2>1
      <3>2. QED
        BY <2>2, <3>1
    <2>4. QED
      BY <1>2, <2>3 DEF OtherRead
  <1>3. CASE LateRead
    BY <1>3 DEF LateRead
  <1>4. CASE Wedge
    BY <1>4, SweepAssumption DEF Wedge
  <1>5. CASE Cancel \/ Quieten
    BY <1>5 DEF Cancel, Quieten
  <1>6. CASE Kill
    <2>1. NoStats \in RunStats /\ NoPlan \in PlanType
      BY NothingTyped
    <2>2. FreshLists'
      BY <1>6, EmptyTyped DEF Kill, FreshLists
    <2>3. /\ pc' = "idle" /\ pos' = 1 /\ plan' \in PlanType /\ part' \in Parts
          /\ used' = 0 /\ budget' = 0 /\ stats' \in RunStats
          /\ late' = {} /\ readIn' = {} /\ disturbed' = {}
          /\ UNCHANGED <<cache, wedged>>
      BY <1>6, <2>1 DEF Kill, Parts
    <2>4. canceled' \in BOOLEAN /\ quiet' \in BOOLEAN
      BY <1>6 DEF Kill
    <2>5. QED
      BY <2>2, <2>3, <2>4 DEF FreshLists
  <1>7. QED
    BY <1>1, <1>2, <1>3, <1>4, <1>5, <1>6 DEF Environment

LEMMA StepTyped == TypeInv /\ [Next]_vars => TypeInv'
  <1> SUFFICES ASSUME TypeInv, [Next]_vars PROVE TypeInv'
    OBVIOUS
  <1>1. CASE UNCHANGED vars
    BY <1>1 DEF vars, TypeInv, TypeOK, AtRank, pass, env
  <1>2. CASE Start
    BY <1>2, StartTyped
  <1>3. CASE Run
    BY <1>3, MissingTyped, PlanTargetTyped, ProbesTyped, EndingTyped, WarmHeadTyped,
       WarmHeadFailsTyped, WarmSideTyped, AccountTyped DEF Run, Warming
  <1>4. CASE Environment
    BY <1>4, EnvironmentTyped
  <1>5. QED
    BY <1>1, <1>2, <1>3, <1>4 DEF Next

THEOREM TypeInvariant == Spec => []TypeInv
  BY InitTyped, StepTyped, PTL DEF Spec

\* No sequence of failures, timeouts, cancellations and deaths takes a pass
\* outside its types: in particular it never indexes past its target list.
THEOREM TypeCorrect == Spec => []TypeOK
  <1>1. TypeInv => TypeOK
    BY DEF TypeInv
  <1>2. QED
    BY <1>1, TypeInvariant, PTL

-----------------------------------------------------------------------------
(***************************************************************************)
(* The budget.  Charging happens after warming, so what makes the bound    *)
(* inductive is that an admitted target still fits when it is charged.     *)
(***************************************************************************)
BudgetInv ==
    /\ used <= budget /\ stats.BytesWarmed = used
    /\ pc \in {"warm", "account"} => used + cost(plan) <= budget

LEMMA CostTyped == ASSUME TypeInv PROVE cost(plan) \in Nat
  BY DEF TypeInv, TypeOK, PlanType, cost

LEMMA NoStatsUncharged == NoStats.BytesWarmed = 0
  BY DEF NoStats

LEMMA InitBudget == Init => BudgetInv
  BY NoStatsUncharged DEF Init, BudgetInv

\* A step that charges nothing and admits nothing.
LEMMA UnchargedStep ==
    ASSUME BudgetInv, UNCHANGED <<used, budget, plan>>, stats'.BytesWarmed = stats.BytesWarmed,
           pc' \in {"warm", "account"} => pc \in {"warm", "account"}
    PROVE  BudgetInv'
  BY DEF BudgetInv, cost

LEMMA RunBudget == ASSUME TypeInv, BudgetInv, Run PROVE BudgetInv'
  <1>1. stats \in RunStats
    BY DEF TypeInv, TypeOK
  <1>2. CASE Finish
    BY <1>2, UnchargedStep DEF Finish, pass
  <1>3. CASE Missing
    BY <1>1, <1>3, CountTyped DEF Missing, Decide, BudgetInv
  <1>4. CASE PlanTarget
    BY <1>4 DEF PlanTarget, BudgetInv
  <1>5. CASE Probes
    <2>1. UNCHANGED <<used, budget, plan>> /\ (Resident \/ NotResident)
      BY <1>5 DEF Probes, ProbeNothing, ProbeMincore, ProbeTiming, ProbeError, ProbeTimeout,
             probeUnchanged
    <2>2. stats'.BytesWarmed = stats.BytesWarmed
      BY <1>1, <2>1, CountTyped DEF Resident, NotResident
    <2>3. pc' \in {"warm", "account"} => pc \in {"warm", "account"}
      BY <2>1 DEF Resident, NotResident, Decide
    <2>4. QED
      BY <2>1, <2>2, <2>3, UnchargedStep
  <1>6. CASE Drop
    BY <1>6, UnchargedStep DEF Drop, pass
  <1>7. CASE Admit
    BY <1>7 DEF Admit, BudgetInv, cost
  <1>8. CASE WarmHead
    BY <1>8, UnchargedStep DEF WarmHead, Warm
  <1>9. CASE WarmHeadFails
    <2>1. Count("Missing") /\ pc' = "target" /\ UNCHANGED <<used, budget, plan>>
      BY <1>9 DEF WarmHeadFails, Decide
    <2>2. QED
      BY <1>1, <2>1, CountTyped, UnchargedStep
  <1>10. CASE WarmSide
    <2>1. pc = "warm" /\ UNCHANGED <<used, budget, plan, stats>>
      BY <1>10 DEF WarmSide, Warm
    <2>2. QED
      BY <2>1, UnchargedStep
  <1>11. CASE Account
    <2>1. /\ pc = "account" /\ pc' = "target" /\ used' = used + cost(plan)
          /\ stats'.BytesWarmed = stats.BytesWarmed + cost(plan)
          /\ UNCHANGED budget
      BY <1>11 DEF Account, Decide
    <2>2. QED
      BY <2>1 DEF BudgetInv
  <1>12. QED
    BY <1>2, <1>3, <1>4, <1>5, <1>6, <1>7, <1>8, <1>9, <1>10, <1>11 DEF Run, Warming

LEMMA StepBudget == TypeInv /\ BudgetInv /\ [Next]_vars => BudgetInv'
  <1> SUFFICES ASSUME TypeInv, BudgetInv, [Next]_vars PROVE BudgetInv'
    OBVIOUS
  <1>1. CASE UNCHANGED vars
    BY <1>1, UnchargedStep DEF vars, pass
  <1>2. CASE Start
    BY <1>2, NoStatsUncharged, SweepAssumption DEF Start, BudgetInv
  <1>3. CASE Run
    BY <1>3, RunBudget
  <1>4. CASE Environment /\ ~Kill
    BY <1>4, UnchargedStep DEF Environment, Evict, OtherRead, LateRead, Wedge, Cancel, Quieten, pass
  <1>5. CASE Kill
    BY <1>5, NoStatsUncharged DEF Kill, BudgetInv
  <1>6. QED
    BY <1>1, <1>2, <1>3, <1>4, <1>5 DEF Next

THEOREM BudgetInvariant == Spec => []BudgetInv
  BY TypeInvariant, InitBudget, StepBudget, PTL DEF Spec

\* Whatever the plans cost and whichever reads fail, a pass never charges more
\* than its budget, and reports exactly what it charged.
THEOREM BudgetIsHonoured == Spec => []BudgetHonoured
  <1>1. BudgetInv => BudgetHonoured
    BY DEF BudgetInv, BudgetHonoured
  <1>2. QED
    BY <1>1, BudgetInvariant, PTL

-----------------------------------------------------------------------------
(***************************************************************************)
(* The cut.  The property is inductive as it stands: a dropped verdict is  *)
(* given together with leaving the pass.                                   *)
(***************************************************************************)

\* What a step may do to the verdicts.
LEMMA VerdictSteps ==
    ASSUME TypeInv, [Next]_vars
    PROVE  \/ UNCHANGED verdicts /\ (pc = "idle" => pc' = "idle")
           \/ verdicts' = <<>>
           \/ /\ pc # "idle" /\ pc' = "target"
              /\ \E v \in Verdicts \ {"dropped"} :
                   verdicts' = Append(verdicts, [verdict |-> v, plan |-> plan'])
                   \/ verdicts' = Append(verdicts, [verdict |-> v, plan |-> NoPlan])
           \/ /\ Drop /\ pc = "admit" /\ pc' = "idle"
              /\ verdicts' = Append(verdicts, [verdict |-> "dropped", plan |-> plan])
  <1>1. CASE UNCHANGED vars
    BY <1>1 DEF vars
  <1>2. CASE Start \/ Kill
    BY <1>2 DEF Start, Kill
  <1>3. CASE Environment /\ ~Kill
    BY <1>3 DEF Environment, Evict, OtherRead, LateRead, Wedge, Cancel, Quieten
  <1>4. CASE Finish \/ PlanTarget \/ Admit \/ WarmHead \/ WarmSide
    BY <1>4 DEF Finish, PlanTarget, Admit, WarmHead, WarmSide, Warm, AtTarget
  <1>5. CASE Missing \/ WarmHeadFails \/ Account
    BY <1>5 DEF Missing, AtTarget, WarmHeadFails, Warm, Account, Decide, Verdicts
  <1>6. CASE Probes
    <2>1. pc = "probe" /\ plan' = plan /\ (Resident \/ NotResident)
      BY <1>6 DEF Probes, ProbeNothing, ProbeMincore, ProbeTiming, ProbeError, ProbeTimeout,
             probeUnchanged, Probing
    <2>2. QED
      BY <2>1 DEF Resident, NotResident, Decide, Verdicts
  <1>7. CASE Drop
    BY <1>7 DEF Drop
  <1>8. QED
    BY <1>1, <1>2, <1>3, <1>4, <1>5, <1>6, <1>7 DEF Next, Run, Warming

LEMMA StepCut == TypeInv /\ NothingBelowTheCut /\ [Next]_vars => NothingBelowTheCut'
  <1> SUFFICES ASSUME TypeInv, NothingBelowTheCut, [Next]_vars PROVE NothingBelowTheCut'
    OBVIOUS
  <1> USE DEF NothingBelowTheCut, Judged
  <1>1. verdicts \in Seq([verdict : Verdicts, plan : PlanType])
    BY DEF TypeInv, TypeOK
  <1>2. CASE UNCHANGED verdicts /\ (pc = "idle" => pc' = "idle")
    BY <1>2
  <1>3. CASE verdicts' = <<>>
    BY <1>3
  <1>4. ASSUME NEW v \in Verdicts \ {"dropped"}, NEW pl, pc # "idle",
               verdicts' = Append(verdicts, [verdict |-> v, plan |-> pl])
        PROVE  NothingBelowTheCut'
    BY <1>1, <1>4
  <1>5. CASE /\ pc # "idle" /\ pc' = "idle"
             /\ verdicts' = Append(verdicts, [verdict |-> "dropped", plan |-> plan])
    BY <1>1, <1>5
  <1>6. QED
    BY <1>2, <1>3, <1>4, <1>5, VerdictSteps

\* Nothing ranked below a dropped target is judged, in any pass over any list.
THEOREM NothingIsBelowTheCut == Spec => []NothingBelowTheCut
  <1>1. Init => NothingBelowTheCut
    BY DEF Init, NothingBelowTheCut, Judged
  <1>2. QED
    BY <1>1, StepCut, TypeInvariant, PTL DEF Spec

-----------------------------------------------------------------------------
(***************************************************************************)
(* The pass implements BudgetedPass.                                       *)
(***************************************************************************)
ledger == [i \in DOMAIN verdicts |-> verdicts[i].verdict]

LEMMA LedgerTyped ==
    ASSUME TypeInv
    PROVE  ledger \in Seq(Verdicts) /\ Len(ledger) = Len(verdicts)
  <1>1. verdicts \in Seq([verdict : Verdicts, plan : PlanType])
    BY DEF TypeInv, TypeOK
  <1>2. /\ Len(verdicts) \in Nat /\ DOMAIN verdicts = 1 .. Len(verdicts)
        /\ \A i \in 1 .. Len(verdicts) : verdicts[i].verdict \in Verdicts
    <2>1. \A i \in 1 .. Len(verdicts) : verdicts[i] \in [verdict : Verdicts, plan : PlanType]
      BY <1>1, ElementOfSeq
    <2>2. \A r \in [verdict : Verdicts, plan : PlanType] : r.verdict \in Verdicts
      OBVIOUS
    <2>3. QED
      BY <1>1, <2>1, <2>2
  <1>3. ledger \in [1 .. Len(verdicts) -> Verdicts]
    BY <1>2 DEF ledger
  <1>4. QED
    BY <1>2, <1>3

\* Deciding a target appends its verdict to the ledger.
LEMMA LedgerGrows ==
    ASSUME TypeInv, NEW v \in Verdicts, NEW pl \in PlanType,
           verdicts' = Append(verdicts, [verdict |-> v, plan |-> pl])
    PROVE  ledger' = Append(ledger, v)
  <1>1. verdicts \in Seq([verdict : Verdicts, plan : PlanType])
    BY DEF TypeInv, TypeOK
  <1>2. /\ DOMAIN verdicts' = 1 .. (Len(verdicts) + 1)
        /\ verdicts'[Len(verdicts) + 1] = [verdict |-> v, plan |-> pl]
        /\ \A i \in 1 .. Len(verdicts) : verdicts'[i] = verdicts[i]
    BY <1>1
  <1>3. ledger \in Seq(Verdicts) /\ Len(ledger) = Len(verdicts)
    BY LedgerTyped
  <1>4. /\ Append(ledger, v) \in Seq(Verdicts) /\ Len(Append(ledger, v)) = Len(verdicts) + 1
        /\ Append(ledger, v)[Len(verdicts) + 1] = v
        /\ \A i \in 1 .. Len(verdicts) : Append(ledger, v)[i] = ledger[i]
    BY <1>3, AppendProperties
  <1>5. \A i \in 1 .. Len(verdicts) : ledger[i] = verdicts[i].verdict
    BY <1>1 DEF ledger
  <1>6. \A i \in 1 .. (Len(verdicts) + 1) : Append(ledger, v)[i] = verdicts'[i].verdict
    <2>1. \A i \in 1 .. Len(verdicts) : Append(ledger, v)[i] = verdicts'[i].verdict
      BY <1>2, <1>4, <1>5
    <2>2. verdicts'[Len(verdicts) + 1].verdict = v
      BY <1>2
    <2>3. QED
      BY <1>1, <1>4, <2>1, <2>2
  <1>7. DOMAIN Append(ledger, v) = 1 .. (Len(verdicts) + 1)
    BY <1>4
  <1>8. Append(ledger, v) = [i \in DOMAIN Append(ledger, v) |-> Append(ledger, v)[i]]
    BY <1>4, LenProperties
  <1>9. QED
    BY <1>2, <1>6, <1>7, <1>8 DEF ledger

\* A target is decided while the pass runs and before the list is used up.
LEMMA JudgeStep ==
    ASSUME TypeInv, pc # "idle", pos <= Len(list), UNCHANGED <<list, budget>>,
           NEW v \in Verdicts, NEW pl \in PlanType,
           verdicts' = Append(verdicts, [verdict |-> v, plan |-> pl])
    PROVE  Abstract!Judge(v)
  <1>1. ledger' = Append(ledger, v)
    BY LedgerGrows
  <1>2. Len(ledger) < Len(list)
    <2>1. Len(ledger) = Len(verdicts)
      BY LedgerTyped
    <2>2. Len(verdicts) = pos - 1 /\ pos \in Int /\ Len(list) \in Nat
      BY DEF TypeInv, TypeOK, AtRank
    <2>3. QED
      BY <2>1, <2>2
  <1>3. QED
    BY <1>1, <1>2 DEF Abstract!Judge, ledger

LEMMA PassOverStep ==
    ASSUME TypeInv, pc # "idle", pos <= Len(list), UNCHANGED <<list, budget>>,
           NEW v \in {"skipped", "missing"}, NEW pl \in PlanType,
           Decide(v, pl), stats'.BytesWarmed = stats.BytesWarmed
    PROVE  Abstract!PassOver
  <1>1. Abstract!Judge(v)
    BY JudgeStep DEF Decide, Verdicts
  <1>2. (pc' # "idle") = (pc # "idle")
    BY DEF Decide
  <1>3. QED
    BY <1>1, <1>2 DEF Abstract!PassOver

LEMMA InitAbstract == Init => Abstract!Init
  <1> SUFFICES ASSUME Init PROVE Abstract!Init
    OBVIOUS
  <1>1. verdicts = <<>> /\ list = <<>> /\ budget = 0 /\ pc = "idle" /\ stats = NoStats
    BY DEF Init
  <1>2. [i \in DOMAIN verdicts |-> verdicts[i].verdict] = <<>>
    BY <1>1
  <1>3. Len(list) = 0
    BY <1>1
  <1>4. QED
    BY <1>1, <1>2, <1>3, NoStatsUncharged DEF Abstract!Init

LEMMA RunAbstract ==
    ASSUME TypeInv, BudgetInv, BudgetInv', Run
    PROVE  Abstract!Next \/ UNCHANGED Abstract!vars
  <1>1. /\ stats \in RunStats /\ plan \in PlanType /\ NoPlan \in PlanType
        /\ (pc \notin {"idle", "target"} => pos <= Len(list))
    BY NothingTyped DEF TypeInv, TypeOK, AtRank
  <1>2. CASE Finish
    BY <1>2 DEF Finish, pass, Abstract!Next, Abstract!Stop
  <1>3. CASE Missing
    <2>1. /\ pc # "idle" /\ pos <= Len(list) /\ UNCHANGED <<list, budget>>
          /\ Decide("missing", NoPlan) /\ Count("Missing")
      BY <1>3 DEF Missing, AtTarget
    <2>2. QED
      BY <1>1, <2>1, CountTyped, PassOverStep DEF Abstract!Next
  <1>4. CASE PlanTarget \/ Admit \/ WarmHead \/ WarmSide
    <2>1. UNCHANGED <<list, budget, stats, verdicts>> /\ pc # "idle" /\ pc' # "idle"
      BY <1>4 DEF PlanTarget, AtTarget, Admit, WarmHead, WarmSide, Warm
    <2>2. QED
      BY <2>1 DEF Abstract!vars
  <1>5. CASE Probes
    <2>1. /\ pc = "probe" /\ UNCHANGED <<list, budget, plan>>
          /\ (Resident \/ NotResident)
      BY <1>5 DEF Probes, ProbeNothing, ProbeMincore, ProbeTiming, ProbeError, ProbeTimeout,
             probeUnchanged, Probing
    <2>2. CASE Decide("skipped", plan) /\ Count("Skipped")
      BY <1>1, <2>1, <2>2, CountTyped, PassOverStep DEF Abstract!Next
    <2>3. CASE UNCHANGED <<stats, verdicts>> /\ pc' # "idle"
      BY <2>1, <2>3 DEF Abstract!vars
    <2>4. QED
      BY <2>1, <2>2, <2>3 DEF Resident, NotResident
  <1>6. CASE Drop
    <2>1. /\ pc = "admit" /\ pc' = "idle" /\ UNCHANGED <<list, budget, stats>>
          /\ verdicts' = Append(verdicts, [verdict |-> "dropped", plan |-> plan])
      BY <1>6 DEF Drop, pass
    <2>2. Abstract!Judge("dropped")
      BY <1>1, <2>1, JudgeStep DEF Verdicts
    <2>3. QED
      BY <2>1, <2>2 DEF Abstract!Next, Abstract!Overflow
  <1>7. CASE WarmHeadFails
    <2>1. /\ pc = "warm" /\ UNCHANGED <<list, budget>>
          /\ Decide("missing", plan) /\ Count("Missing")
      BY <1>7 DEF WarmHeadFails, Warm
    <2>2. QED
      BY <1>1, <2>1, CountTyped, PassOverStep DEF Abstract!Next
  <1>8. CASE Account
    <2>1. /\ pc = "account" /\ pc' = "target" /\ UNCHANGED <<list, budget>>
          /\ verdicts' = Append(verdicts, [verdict |-> "preloaded", plan |-> plan])
          /\ stats'.BytesWarmed = stats.BytesWarmed + cost(plan)
      BY <1>8 DEF Account, Decide
    <2>2. Abstract!Judge("preloaded")
      BY <1>1, <2>1, JudgeStep DEF Verdicts
    <2>3. stats.BytesWarmed \in Nat /\ cost(plan) \in Nat
      BY <1>1, CostTyped DEF RunStats
    <2>4. stats'.BytesWarmed >= stats.BytesWarmed /\ stats'.BytesWarmed <= budget
      BY <2>1, <2>3 DEF BudgetInv
    <2>5. (pc' # "idle") = (pc # "idle")
      BY <2>1
    <2>6. QED
      BY <2>2, <2>4, <2>5 DEF Abstract!Next, Abstract!Charge
  <1>9. QED
    BY <1>2, <1>3, <1>4, <1>5, <1>6, <1>7, <1>8 DEF Run, Warming

LEMMA StepAbstract ==
    TypeInv /\ BudgetInv /\ BudgetInv' /\ [Next]_vars => [Abstract!Next]_(Abstract!vars)
  <1> SUFFICES ASSUME TypeInv, BudgetInv, BudgetInv', [Next]_vars
               PROVE  Abstract!Next \/ UNCHANGED Abstract!vars
    OBVIOUS
  <1>1. CASE UNCHANGED vars
    BY <1>1 DEF vars, pass, Abstract!vars
  <1>2. CASE Start
    <2>1. /\ pc = "idle" /\ pc' = "target" /\ list' \in Seq(Targets) /\ budget' \in Nat
          /\ verdicts' = <<>> /\ stats' = NoStats
      BY <1>2, SweepAssumption DEF Start
    <2>2. [i \in DOMAIN verdicts' |-> verdicts'[i].verdict] = <<>>
      BY <2>1
    <2>3. Len(list') \in Nat /\ stats'.BytesWarmed = 0
      BY <2>1, NoStatsUncharged
    <2>4. QED
      BY <2>1, <2>2, <2>3 DEF Abstract!Next, Abstract!Begin
  <1>3. CASE Run
    BY <1>3, RunAbstract
  <1>4. CASE Environment /\ ~Kill
    <2>1. UNCHANGED <<pc, list, budget, stats, verdicts>>
      BY <1>4 DEF Environment, Evict, OtherRead, LateRead, Wedge, Cancel, Quieten, pass
    <2>2. QED
      BY <2>1 DEF Abstract!vars
  <1>5. CASE Kill
    <2>1. /\ pc # "idle" /\ pc' = "idle" /\ list' = <<>> /\ budget' = 0
          /\ verdicts' = <<>> /\ stats' = NoStats
      BY <1>5 DEF Kill
    <2>2. [i \in DOMAIN verdicts' |-> verdicts'[i].verdict] = <<>> /\ Len(list') = 0
      BY <2>1
    <2>3. QED
      BY <2>1, <2>2, NoStatsUncharged DEF Abstract!Next, Abstract!Die
  <1>6. QED
    BY <1>1, <1>2, <1>3, <1>4, <1>5 DEF Next

\* Every pass, over any list and in any environment, is a budgeted pass: probes,
\* reads, evictions and timeouts are stutters of it, decisions its steps.
THEOREM SweepIsBudgetedPass == Spec => IsBudgetedPass
  <1>1. Spec => Abstract!Spec
    BY InitAbstract, StepAbstract, TypeInvariant, BudgetInvariant, PTL
       DEF Spec, Abstract!Spec
  <1>2. QED
    BY <1>1 DEF IsBudgetedPass
-----------------------------------------------------------------------------
(***************************************************************************)
(* What a skip is worth.  A probe vouches for the whole range where        *)
(* residency is counted page by page and for the sample it read where it   *)
(* is timed; a skipped target was vouched for three times in a row, and    *)
(* nothing but an eviction takes that back.                                *)
(***************************************************************************)

\* The bytes of window w that a probe answering "resident" has seen in memory.
Vouched(f, w) ==
    RangeBytes(w.from, IF f \in Fuse THEN Lesser(probeBytes, w.length) ELSE w.length)

\* Of a file and a window, under given pages and given disturbances: both are
\* parameters because a step moves file and window on while the claim is about
\* those it started with.
Held(f, w, pages, lost) == f \in lost \/ Vouched(f, w) \subseteq pages[f]

\* The ranges already found resident when a range is probed.
Behind == [p \in Parts |-> CASE p = "front" -> {} [] p = "content" -> {"front"}
                             [] p = "cue" -> {"front", "content"}]

ProbeInv == pc = "probe" => \A p \in Behind[part] : Held(file, Windows(plan)[p], cache, disturbed)

SkipInv ==
    \A i \in DOMAIN verdicts : Judged(i, "skipped") =>
        \A p \in Parts : Held(FileOf(i), Windows(verdicts[i].plan)[p], cache, disturbed)

ResidencyInv == ProbeInv /\ SkipInv

-----------------------------------------------------------------------------
\* Within a pass a file loses pages only together with being marked disturbed.
PagesStay ==
    /\ list' = list
    /\ \A f \in Files : /\ f \in disturbed => f \in disturbed'
                        /\ f \in disturbed' \/ cache[f] \subseteq cache'[f]

LEMMA HeldStays ==
    ASSUME PagesStay
    PROVE  \A f \in Files : \A w :
             Held(f, w, cache, disturbed) => Held(f, w, cache', disturbed')
  BY DEF PagesStay, Held

LEMMA LoadsKeepPages ==
    ASSUME TypeInv, pc # "idle", pos <= Len(list), NEW bytes, bytes \subseteq Nat, Loads(bytes),
           list' = list, disturbed' = disturbed
    PROVE  PagesStay
  BY LoadsTyped DEF PagesStay, TypeInv

LEMMA RunKeepsPages ==
    ASSUME TypeInv, Run
    PROVE  PagesStay
  <1>1. TypeOK /\ window.length \in Int /\ sampleLength \in Int
    BY WindowTyped, SweepAssumption DEF TypeInv, sampleLength, Lesser
  <1>2. \A n \in Int : Prefix(n) \subseteq Nat
    BY <1>1, PrefixInNat
  <1>3. CASE Finish \/ Missing \/ Drop \/ Admit \/ Account
    BY <1>3 DEF Finish, Missing, Drop, Admit, Account, PagesStay, pass
  <1>4. CASE PlanTarget
    <2>1. PICK pooled \in Pooled, layout \in {NoLayout, Layout[file]} :
            \E n \in 0 .. Lesser(frontReadCap, FileSize[file]) :
               Loads(IF seeking(target) THEN RangeBytes(0, n) ELSE {})
      BY <1>4 DEF PlanTarget
    <2>2. PICK n \in 0 .. Lesser(frontReadCap, FileSize[file]) :
            Loads(IF seeking(target) THEN RangeBytes(0, n) ELSE {})
      BY <2>1
    <2>3. (IF seeking(target) THEN RangeBytes(0, n) ELSE {}) \subseteq Nat
      BY RangeInNat
    <2>4. QED
      BY <1>4, <2>2, <2>3, LoadsKeepPages DEF PlanTarget, AtTarget
  <1>5. CASE Probes
    <2>1. /\ pc # "idle" /\ pos <= Len(list) /\ list' = list /\ disturbed' = disturbed
      BY <1>5 DEF Probes, ProbeNothing, ProbeMincore, ProbeTiming, ProbeError, ProbeTimeout,
             probeUnchanged, Probing, TypeInv, AtRank
    <2>2. CASE ProbeNothing \/ ProbeMincore \/ ProbeTimeout
      BY <2>1, <2>2 DEF ProbeNothing, ProbeMincore, ProbeTimeout, PagesStay
    <2>3. CASE ProbeTiming
      BY <1>1, <1>2, <2>1, <2>3, LoadsKeepPages DEF ProbeTiming
    <2>4. CASE ProbeError
      <3>1. PICK n \in 0 .. (sampleLength - 1) : Loads(Prefix(n))
        BY <2>4 DEF ProbeError
      <3>2. QED
        BY <1>1, <1>2, <2>1, <3>1, LoadsKeepPages
    <2>5. QED
      BY <1>5, <2>2, <2>3, <2>4 DEF Probes
  <1>6. ASSUME NEW n \in Int, Warm(n), list' = list, disturbed' = disturbed
        PROVE  PagesStay
    <2>1. pc # "idle" /\ pos <= Len(list) /\ Loads(Prefix(n))
      BY <1>6 DEF Warm, TypeInv, AtRank
    <2>2. QED
      BY <1>2, <1>6, <2>1, LoadsKeepPages
  <1>7. CASE WarmHead
    BY <1>1, <1>6, <1>7 DEF WarmHead
  <1>8. CASE WarmHeadFails
    <2>1. PICK n \in 0 .. (window.length - 1) : Warm(n)
      BY <1>8 DEF WarmHeadFails
    <2>2. QED
      BY <1>1, <1>6, <1>8, <2>1 DEF WarmHeadFails
  <1>9. CASE WarmSide
    <2>1. PICK n \in 0 .. window.length : Warm(n)
      BY <1>9 DEF WarmSide
    <2>2. QED
      BY <1>1, <1>6, <1>9, <2>1 DEF WarmSide
  <1>10. QED
    BY <1>3, <1>4, <1>5, <1>7, <1>8, <1>9 DEF Run, Warming

LEMMA EnvironmentKeepsPages ==
    ASSUME TypeInv, Environment, ~Kill
    PROVE  PagesStay
  <1>1. cache \in [Files -> SUBSET Nat] /\ late \subseteq [file : Files, bytes : SUBSET Nat]
    BY DEF TypeInv, TypeOK
  <1>2. CASE Evict
    <2>1. PICK f \in Files : \E b \in cache[f] :
            cache' = [cache EXCEPT ![f] = @ \ {b}] /\ disturbed' = disturbed \cup {f}
      BY <1>2 DEF Evict
    <2>2. \A g \in Files : g \in disturbed' \/ cache[g] \subseteq cache'[g]
      BY <1>1, <2>1
    <2>3. QED
      BY <1>2, <2>1, <2>2 DEF Evict, PagesStay, pass
  <1>3. CASE OtherRead
    <2>1. PICK f \in Shared \ wedged : \E b \in 0 .. (FileSize[f] - 1) :
            cache' = [cache EXCEPT ![f] = @ \cup {b}]
      BY <1>3 DEF OtherRead
    <2>2. \A g \in Files : cache[g] \subseteq cache'[g]
      BY <1>1, <2>1
    <2>3. QED
      BY <1>3, <2>2 DEF OtherRead, PagesStay, pass
  <1>4. CASE LateRead
    <2>1. PICK r \in late : cache' = [cache EXCEPT ![r.file] = @ \cup r.bytes]
      BY <1>4 DEF LateRead
    <2>2. \A g \in Files : cache[g] \subseteq cache'[g]
      BY <1>1, <2>1
    <2>3. QED
      BY <1>4, <2>2 DEF LateRead, PagesStay, pass
  <1>5. CASE Wedge \/ Cancel \/ Quieten
    BY <1>5 DEF Wedge, Cancel, Quieten, PagesStay, pass
  <1>6. QED
    BY <1>2, <1>3, <1>4, <1>5 DEF Environment

-----------------------------------------------------------------------------
\* Counting every byte of a range as resident means that each of them is.
LEMMA FullCount ==
    ASSUME NEW from \in Nat, NEW n \in Nat, NEW pages,
           Cardinality(RangeBytes(from, n) \cap pages) >= n
    PROVE  RangeBytes(from, n) \subseteq pages
  <1> DEFINE R == RangeBytes(from, n)
  <1>1. IsFiniteSet(R) /\ Cardinality(R) = n
    <2>1. /\ IsFiniteSet(from .. (from + n - 1))
          /\ Cardinality(from .. (from + n - 1)) =
               IF from > from + n - 1 THEN 0 ELSE (from + n - 1) - from + 1
      BY FS_Interval
    <2>2. QED
      BY <2>1 DEF RangeBytes
  <1>2. /\ IsFiniteSet(R \cap pages) /\ Cardinality(R \cap pages) <= n
        /\ (Cardinality(R \cap pages) = n => R \cap pages = R)
    BY <1>1, FS_Subset
  <1>3. Cardinality(R \cap pages) \in Nat
    BY <1>2, FS_CardinalityType
  <1>4. R \cap pages = R
    BY <1>2, <1>3
  <1>5. QED
    BY <1>4

\* A probe that moves on has vouched for its range.
LEMMA FindingIsHeld ==
    ASSUME TypeInv, Probes
    PROVE  \/ Resident /\ Held(file, window, cache', disturbed')
           \/ NotResident
  <1>1. /\ TypeOK /\ pc = "probe" /\ pos <= Len(list)
        /\ window.from \in Nat /\ window.length \in Nat
        /\ file \in Files /\ sampleLength \in Int
    BY WindowTyped, TargetTyped, SweepAssumption
       DEF Probes, ProbeNothing, ProbeMincore, ProbeTiming, ProbeError, ProbeTimeout,
           Probing, TypeInv, AtRank, sampleLength, Lesser
  <1>2. ASSUME Vouched(file, window) \subseteq cache'[file]
        PROVE  Held(file, window, cache', disturbed')
    BY <1>2 DEF Held
  <1>3. CASE ProbeNothing
    <2>1. Vouched(file, window) = {}
      BY <1>1, <1>3, SweepAssumption DEF ProbeNothing, Vouched, RangeBytes, Lesser
    <2>2. QED
      BY <1>2, <1>3, <2>1 DEF ProbeNothing
  <1>4. CASE ProbeMincore
    <2>1. CASE NotResident
      BY <2>1
    <2>2. CASE /\ Resident
               /\ Cardinality(Prefix(window.length) \cap cache[file]) >= window.length
      <3>1. Vouched(file, window) = RangeBytes(window.from, window.length)
        BY <1>4 DEF ProbeMincore, Vouched
      <3>2. RangeBytes(window.from, window.length) \subseteq cache[file]
        BY <1>1, <2>2, FullCount DEF Prefix
      <3>3. cache' = cache
        BY <1>4 DEF ProbeMincore
      <3>4. QED
        BY <1>2, <2>2, <3>1, <3>2, <3>3
    <2>3. QED
      BY <1>4, <2>1, <2>2 DEF ProbeMincore
  <1>5. CASE ProbeTiming
    <2>1. Vouched(file, window) = Prefix(sampleLength)
      BY <1>5 DEF ProbeTiming, Vouched, Prefix, sampleLength
    <2>2. Prefix(sampleLength) \subseteq cache'[file]
      BY <1>1, <1>5, PrefixInNat, LoadsTyped DEF ProbeTiming
    <2>3. QED
      BY <1>2, <1>5, <2>1, <2>2 DEF ProbeTiming
  <1>6. CASE ProbeError \/ ProbeTimeout
    BY <1>6 DEF ProbeError, ProbeTimeout
  <1>7. QED
    BY <1>3, <1>4, <1>5, <1>6 DEF Probes

-----------------------------------------------------------------------------
\* The verdicts given before a step keep what they vouch for.
LEMMA EarlierSkipsStay ==
    ASSUME TypeInv, SkipInv, PagesStay, NEW i \in DOMAIN verdicts, Judged(i, "skipped"),
           NEW p \in Parts
    PROVE  Held(FileOf(i), Windows(verdicts[i].plan)[p], cache', disturbed')
  <1>1. i \in 1 .. Len(list) /\ list \in Seq(Targets)
    BY DEF TypeInv, TypeOK, AtRank
  <1>2. FileOf(i) \in Files
    BY <1>1, SweepAssumption DEF FileOf
  <1>3. QED
    BY <1>2, HeldStays DEF SkipInv

\* A step that gives no verdict, or one other than "skipped".
LEMMA OtherVerdicts ==
    ASSUME TypeInv, SkipInv, PagesStay,
           \/ verdicts' = verdicts
           \/ \E v \in Verdicts \ {"skipped"}, pl \in PlanType :
                verdicts' = Append(verdicts, [verdict |-> v, plan |-> pl])
    PROVE  SkipInv'
  <1> SUFFICES ASSUME NEW i \in DOMAIN verdicts', verdicts'[i].verdict = "skipped",
                      NEW p \in Parts
               PROVE  Held(FileOf(i)', Windows(verdicts'[i].plan)[p], cache', disturbed')
    BY DEF SkipInv, Judged, Windows
  <1>1. verdicts \in Seq([verdict : Verdicts, plan : PlanType])
    BY DEF TypeInv, TypeOK
  <1>2. i \in DOMAIN verdicts /\ verdicts'[i] = verdicts[i]
    <2>1. CASE verdicts' = verdicts
      BY <2>1
    <2>2. ASSUME NEW v \in Verdicts \ {"skipped"}, NEW pl \in PlanType,
                 verdicts' = Append(verdicts, [verdict |-> v, plan |-> pl])
          PROVE  i \in DOMAIN verdicts /\ verdicts'[i] = verdicts[i]
      <3>1. \/ i \in 1 .. Len(verdicts) /\ verdicts'[i] = verdicts[i]
            \/ verdicts'[i] = [verdict |-> v, plan |-> pl]
        BY <1>1, <2>2
      <3>2. QED
        BY <1>1, <2>2, <3>1
    <2>3. QED
      BY <2>1, <2>2
  <1>3. FileOf(i)' = FileOf(i)
    BY DEF PagesStay, FileOf
  <1>4. QED
    BY <1>2, <1>3, EarlierSkipsStay DEF Judged

LEMMA ProbesKeepResidency ==
    ASSUME TypeInv, TypeInv', ResidencyInv, Probes
    PROVE  ResidencyInv'
  <1>1. /\ pc = "probe" /\ pos <= Len(list) /\ TypeOK /\ PagesStay
        /\ list' = list /\ plan' = plan /\ file \in Files /\ part \in Parts
    BY RunKeepsPages, TargetTyped
       DEF Probes, ProbeNothing, ProbeMincore, ProbeTiming, ProbeError, ProbeTimeout,
           Probing, probeUnchanged, TypeInv, TypeOK, AtRank, Run
  <1>2. CASE NotResident
    <2>1. verdicts' = verdicts /\ pc' = "admit"
      BY <1>2 DEF NotResident
    <2>2. QED
      BY <1>1, <2>1, OtherVerdicts DEF ResidencyInv, ProbeInv
  <1>3. CASE Resident /\ Held(file, window, cache', disturbed')
    <2>1. \A p \in Behind[part] \cup {part} : Held(file, Windows(plan)[p], cache', disturbed')
      <3>1. \A p \in Behind[part] : Held(file, Windows(plan)[p], cache', disturbed')
        BY <1>1, HeldStays DEF ResidencyInv, ProbeInv
      <3>2. QED
        BY <1>3, <3>1 DEF window
    <2>2. CASE part # "cue"
      <3>1. /\ verdicts' = verdicts /\ pos' = pos
            /\ part' = probeOrder[part]
        BY <1>3, <2>2 DEF Resident
      <3>2. Behind[part'] = Behind[part] \cup {part}
        BY <1>1, <2>2, <3>1 DEF Behind, probeOrder, Parts
      <3>3. file' = file
        BY <1>1, <3>1 DEF file, target
      <3>4. ProbeInv'
        BY <1>1, <2>1, <3>2, <3>3 DEF ProbeInv, Windows
      <3>5. QED
        BY <1>1, <3>1, <3>4, OtherVerdicts DEF ResidencyInv
    <2>3. CASE part = "cue"
      <3>1. pc' = "target" /\ verdicts' = Append(verdicts, [verdict |-> "skipped", plan |-> plan])
        BY <1>3, <2>3 DEF Resident, Decide
      <3>2. /\ verdicts \in Seq([verdict : Verdicts, plan : PlanType])
            /\ Len(verdicts) = pos - 1 /\ plan \in PlanType
        BY <1>1 DEF TypeInv, TypeOK, AtRank
      <3>3. \A p \in Parts : Held(file, Windows(plan)[p], cache', disturbed')
        BY <2>1, <2>3 DEF Behind, Parts
      <3>4. ASSUME NEW i \in DOMAIN verdicts', verdicts'[i].verdict = "skipped",
                   NEW p \in Parts
            PROVE  Held(FileOf(i)', Windows(verdicts'[i].plan)[p], cache', disturbed')
        <4>1. FileOf(i)' = FileOf(i)
          BY <1>1 DEF FileOf
        <4>2. CASE i = Len(verdicts) + 1
          <5>1. verdicts'[i].plan = plan /\ FileOf(i) = file
            <6>1. i = pos /\ verdicts'[i] = [verdict |-> "skipped", plan |-> plan]
              BY <1>1, <3>1, <3>2, <4>2 DEF TypeOK
            <6>2. QED
              BY <6>1 DEF FileOf, file, target
          <5>2. QED
            BY <3>3, <4>1, <5>1
        <4>3. CASE i # Len(verdicts) + 1
          <5>1. i \in DOMAIN verdicts /\ verdicts'[i] = verdicts[i]
            BY <3>1, <3>2, <3>4, <4>3
          <5>2. QED
            BY <1>1, <3>4, <4>1, <5>1, EarlierSkipsStay DEF ResidencyInv, Judged
        <4>4. QED
          BY <4>2, <4>3
      <3>5. SkipInv'
        BY <3>4 DEF SkipInv, Judged, Windows
      <3>6. QED
        BY <3>1, <3>5 DEF ResidencyInv, ProbeInv
    <2>4. QED
      BY <2>2, <2>3
  <1>4. QED
    BY <1>2, <1>3, FindingIsHeld

LEMMA RunKeepsResidency ==
    ASSUME TypeInv, TypeInv', ResidencyInv, Run
    PROVE  ResidencyInv'
  <1>1. PagesStay /\ plan \in PlanType /\ NoPlan \in PlanType
    BY RunKeepsPages, NothingTyped DEF TypeInv, TypeOK
  <1>2. CASE Probes
    BY <1>2, ProbesKeepResidency
  <1>3. CASE PlanTarget
    <2>1. verdicts' = verdicts /\ part' = "front"
      BY <1>3 DEF PlanTarget
    <2>2. Behind["front"] = {}
      BY DEF Behind, Parts
    <2>3. QED
      BY <1>1, <2>1, <2>2, OtherVerdicts DEF ResidencyInv, ProbeInv
  <1>4. CASE Finish \/ Admit \/ WarmHead \/ WarmSide
    <2>1. verdicts' = verdicts /\ pc' # "probe"
      BY <1>4 DEF Finish, Admit, WarmHead, WarmSide, Warm
    <2>2. QED
      BY <1>1, <2>1, OtherVerdicts DEF ResidencyInv, ProbeInv
  <1>5. CASE Missing \/ Drop \/ WarmHeadFails \/ Account
    <2>1. pc' # "probe"
      BY <1>5 DEF Missing, Drop, WarmHeadFails, Account, Decide
    <2>2. \E v \in Verdicts \ {"skipped"}, pl \in PlanType :
            verdicts' = Append(verdicts, [verdict |-> v, plan |-> pl])
      BY <1>1, <1>5 DEF Missing, Drop, WarmHeadFails, Account, Decide, Verdicts
    <2>3. QED
      BY <1>1, <2>1, <2>2, OtherVerdicts DEF ResidencyInv, ProbeInv
  <1>6. QED
    BY <1>2, <1>3, <1>4, <1>5 DEF Run, Warming

LEMMA StepResidency ==
    TypeInv /\ TypeInv' /\ ResidencyInv /\ [Next]_vars => ResidencyInv'
  <1> SUFFICES ASSUME TypeInv, TypeInv', ResidencyInv, [Next]_vars PROVE ResidencyInv'
    OBVIOUS
  <1>1. ASSUME UNCHANGED <<pc, list, pos, plan, part, verdicts>>, PagesStay
        PROVE  ResidencyInv'
    <2>1. file' = file /\ Behind[part]' = Behind[part]
      BY <1>1 DEF file, target, Behind, Parts
    <2>2. pc = "probe" => file \in Files
      BY TargetTyped DEF TypeInv, AtRank
    <2>3. ProbeInv'
      BY <1>1, <2>1, <2>2, HeldStays DEF ResidencyInv, ProbeInv, Windows
    <2>4. QED
      BY <1>1, <2>3, OtherVerdicts DEF ResidencyInv
  <1>2. CASE UNCHANGED vars
    <2>1. PagesStay
      BY <1>2 DEF vars, pass, PagesStay
    <2>2. QED
      BY <1>1, <1>2, <2>1 DEF vars, pass
  <1>3. CASE Start \/ Kill
    <2>1. verdicts' = <<>> /\ pc' # "probe"
      BY <1>3 DEF Start, Kill
    <2>2. QED
      BY <2>1 DEF ResidencyInv, ProbeInv, SkipInv, Judged
  <1>4. CASE Run
    BY <1>4, RunKeepsResidency
  <1>5. CASE Environment /\ ~Kill
    <2>1. UNCHANGED <<pc, list, pos, plan, part, verdicts>>
      BY <1>5 DEF Environment, Evict, OtherRead, LateRead, Wedge, Cancel, Quieten, pass
    <2>2. QED
      BY <1>1, <1>5, <2>1, EnvironmentKeepsPages
  <1>6. QED
    BY <1>2, <1>3, <1>4, <1>5 DEF Next

THEOREM ResidencyInvariant == Spec => []ResidencyInv
  <1>1. Init => ResidencyInv
    BY DEF Init, ResidencyInv, ProbeInv, SkipInv, Judged
  <1>2. QED
    BY <1>1, StepResidency, TypeInvariant, PTL DEF Spec

-----------------------------------------------------------------------------
\* Where residency is counted, a skipped target is resident to the last byte of
\* its three ranges, or the kernel has taken pages of its file back.
THEOREM SkipsAreSound == Spec => []SkippedAreResident
  <1>1. ResidencyInv /\ TypeInv => SkippedAreResident
    <2> SUFFICES ASSUME ResidencyInv, TypeInv, NEW i \in DOMAIN verdicts, Judged(i, "skipped"),
                        FileOf(i) \notin Fuse, FileOf(i) \notin disturbed
                 PROVE  PlanBytes(verdicts[i].plan) \subseteq cache[FileOf(i)]
      BY DEF SkippedAreResident, SkipIsResident
    <2> DEFINE pl == verdicts[i].plan
    <2>1. \A p \in Parts : RangeBytes(Windows(pl)[p].from, Windows(pl)[p].length)
                              \subseteq cache[FileOf(i)]
      BY DEF ResidencyInv, SkipInv, Held, Vouched
    <2>2. /\ FrontBytes(pl) \subseteq cache[FileOf(i)]
          /\ ContentBytes(pl) \subseteq cache[FileOf(i)]
          /\ CueBytes(pl) \subseteq cache[FileOf(i)]
      BY <2>1 DEF Windows, Parts, FrontBytes, ContentBytes, CueBytes
    <2>3. QED
      BY <2>2 DEF PlanBytes
  <1>2. QED
    BY <1>1, ResidencyInvariant, TypeInvariant, PTL

\* Wherever residency is timed, a skip vouches for the sampled bytes only, and
\* for those always.
THEOREM SkippedSamplesAreSound == Spec => []SkippedSamplesResident
  <1>1. ResidencyInv /\ TypeInv => SkippedSamplesResident
    <2> SUFFICES ASSUME ResidencyInv, TypeInv, NEW i \in DOMAIN verdicts, Judged(i, "skipped"),
                        FileOf(i) \notin disturbed, NEW p \in Parts
                 PROVE  LET w == Windows(verdicts[i].plan)[p]
                        IN  RangeBytes(w.from, Lesser(probeBytes, w.length))
                              \subseteq cache[FileOf(i)]
      BY DEF SkippedSamplesResident
    <2> DEFINE w == Windows(verdicts[i].plan)[p]
    <2>1. Vouched(FileOf(i), w) \subseteq cache[FileOf(i)]
      BY DEF ResidencyInv, SkipInv, Held
    <2>2. w.from \in Nat /\ w.length \in Nat
      <3>1. verdicts[i] \in [verdict : Verdicts, plan : PlanType]
        <4>1. verdicts \in Seq([verdict : Verdicts, plan : PlanType])
          BY DEF TypeInv, TypeOK
        <4>2. QED
          BY <4>1, ElementOfSeq, LenProperties
      <3>2. verdicts[i].plan \in PlanType
        BY <3>1
      <3>3. QED
        BY <3>2 DEF Windows, PlanType, Parts
    <2>3. RangeBytes(w.from, Lesser(probeBytes, w.length)) \subseteq Vouched(FileOf(i), w)
      BY <2>2, SweepAssumption DEF Vouched, RangeBytes, Lesser
    <2>4. QED
      BY <2>1, <2>3
  <1>2. QED
    BY <1>1, ResidencyInvariant, TypeInvariant, PTL

-----------------------------------------------------------------------------
(***************************************************************************)
(* What the report is worth.  A byte the pass has read is in a recorded    *)
(* range, in the content window of a target whose content read failed, or  *)
(* in a range already read of the target in hand; and the target in hand,  *)
(* once past its content window, has all of it.                            *)
(***************************************************************************)

WindowBytes(pl, p) == RangeBytes(Windows(pl)[p].from, Windows(pl)[p].length)

\* A list of warmed ranges accounts for byte r = <<file, offset>>.
Covers(warmed, r) ==
    \E i \in DOMAIN warmed :
        /\ warmed[i].Path = r[1]
        /\ r[2] \in RangeBytes(warmed[i].Offset, warmed[i].Length)

FailedHead(r) ==
    \E i \in DOMAIN verdicts :
        /\ Judged(i, "missing") /\ FileOf(i) = r[1]
        /\ r[2] \in ContentBytes(verdicts[i].plan)

\* The ranges of the target in hand that Warm calls have returned from.
ReadParts ==
    CASE pc = "account" -> Parts
      [] pc = "warm" /\ part = "front" -> {"content"}
      [] pc = "warm" /\ part = "cue" -> {"content", "front"}
      [] OTHER -> {}

InHand(r) == \E p \in ReadParts : r[1] = file /\ r[2] \in WindowBytes(plan, p)

AccountedInv == \A r \in readIn : Covers(stats.Warmed, r) \/ FailedHead(r) \/ InHand(r)

\* Stated of any file and plan, and of any pages, because a verdict records the
\* plan while the pass moves on.
ContentHeld(f, pl, read, pages, lost) ==
    /\ {f} \X ContentBytes(pl) \subseteq read
    /\ f \in lost \/ ContentBytes(pl) \subseteq pages[f]

ContentInv ==
    "content" \in ReadParts => ContentHeld(file, plan, readIn, cache, disturbed)

ReportInv == AccountedInv /\ ContentInv /\ PreloadedContentResident

-----------------------------------------------------------------------------
\* Joining two lists loses nothing that either covers, ...
LEMMA JoinCovers ==
    ASSUME NEW s \in WarmedLists, NEW t \in WarmedLists, NEW r,
           Covers(s, r) \/ Covers(t, r)
    PROVE  Covers(s \o t, r)
  <1> DEFINE Entry == [Path : Files, Offset : Nat, Length : Nat]
  <1>1. s \in Seq(Entry) /\ t \in Seq(Entry)
    BY DEF WarmedLists
  <1> HIDE DEF Entry
  <1>2. /\ DOMAIN s = 1 .. Len(s) /\ DOMAIN t = 1 .. Len(t)
        /\ Len(s) \in Nat /\ Len(t) \in Nat
        /\ DOMAIN (s \o t) = 1 .. (Len(s) + Len(t))
        /\ \A i \in 1 .. Len(s) + Len(t) :
             (s \o t)[i] = IF i <= Len(s) THEN s[i] ELSE t[i - Len(s)]
    BY <1>1, LenProperties, ConcatProperties
  <1>3. CASE Covers(s, r)
    <2>1. PICK i \in 1 .. Len(s) : /\ s[i].Path = r[1]
                                   /\ r[2] \in RangeBytes(s[i].Offset, s[i].Length)
      BY <1>2, <1>3 DEF Covers
    <2>2. i \in DOMAIN (s \o t) /\ (s \o t)[i] = s[i]
      BY <1>2
    <2>3. QED
      BY <2>1, <2>2 DEF Covers
  <1>4. CASE Covers(t, r)
    <2>1. PICK i \in 1 .. Len(t) : /\ t[i].Path = r[1]
                                   /\ r[2] \in RangeBytes(t[i].Offset, t[i].Length)
      BY <1>2, <1>4 DEF Covers
    <2>2. Len(s) + i \in DOMAIN (s \o t) /\ (s \o t)[Len(s) + i] = t[i]
      BY <1>2
    <2>3. QED
      BY <2>1, <2>2 DEF Covers
  <1>5. QED
    BY <1>3, <1>4

\* ... so the recorded ranges of a plan cover its three windows.
LEMMA PlanIsCovered ==
    ASSUME NEW f \in Files, NEW pl \in PlanType, NEW p \in Parts, NEW r,
           r[1] = f, r[2] \in WindowBytes(pl, p)
    PROVE  Covers(WarmedRanges(f, pl), r)
  <1> DEFINE entry(q) == [Path |-> f, Offset |-> Windows(pl)[q].from,
                          Length |-> Windows(pl)[q].length]
             front == IF pl.front > 0 THEN <<entry("front")>> ELSE <<>>
             mid   == <<entry("content")>>
             cue   == IF pl.tail > 0 THEN <<entry("cue")>> ELSE <<>>
             Entry == [Path : Files, Offset : Nat, Length : Nat]
  <1>1. \A q \in Parts : entry(q) \in Entry
    BY DEF Windows, PlanType, Parts
  <1>2. entry(p).Path = r[1] /\ r[2] \in RangeBytes(entry(p).Offset, entry(p).Length)
    BY DEF WindowBytes
  <1>3. p = "front" => front = <<entry("front")>>
    BY DEF WindowBytes, RangeBytes, Windows, PlanType
  <1>4. p = "cue" => cue = <<entry("cue")>>
    BY DEF WindowBytes, RangeBytes, Windows, PlanType
  <1>5. Covers(<<entry(p)>>, r)
    BY <1>2 DEF Covers
  <1>6. p \in {"front", "content", "cue"} /\ {"front", "content", "cue"} \subseteq Parts
    BY DEF Parts
  <1>7. WarmedRanges(f, pl) = front \o mid \o cue
    BY DEF WarmedRanges
  <1> HIDE DEF entry, Entry
  <1>8. front \in WarmedLists /\ mid \in WarmedLists /\ cue \in WarmedLists
    <2>1. front \in Seq(Entry) /\ mid \in Seq(Entry) /\ cue \in Seq(Entry)
      BY <1>1, <1>6
    <2>2. QED
      BY <2>1 DEF WarmedLists, Entry
  <1>9. Covers(front, r) \/ Covers(mid, r) \/ Covers(cue, r)
    BY <1>3, <1>4, <1>5, <1>6
  <1> HIDE DEF front, mid, cue
  <1>10. front \o mid \in WarmedLists
    BY <1>8, ConcatProperties DEF WarmedLists
  <1>11. Covers((front \o mid) \o cue, r)
    BY <1>8, <1>9, <1>10, JoinCovers
  <1>12. QED
    BY <1>7, <1>11

\* Verdicts are only ever added to: those given keep their plan and their file.
VerdictsStay ==
    \A i \in DOMAIN verdicts :
        /\ i \in DOMAIN verdicts' /\ verdicts'[i] = verdicts[i]
        /\ FileOf(i)' = FileOf(i)

LEMMA AddedVerdict ==
    ASSUME TypeInv, list' = list, NEW v \in Verdicts, NEW pl \in PlanType,
           verdicts' = Append(verdicts, [verdict |-> v, plan |-> pl])
    PROVE  /\ VerdictsStay
           /\ Len(verdicts) + 1 \in DOMAIN verdicts'
           /\ verdicts'[Len(verdicts) + 1] = [verdict |-> v, plan |-> pl]
           /\ \A i \in DOMAIN verdicts' : i \in DOMAIN verdicts \/ i = Len(verdicts) + 1
  <1>1. verdicts \in Seq([verdict : Verdicts, plan : PlanType])
    BY DEF TypeInv, TypeOK
  <1>2. \A i : FileOf(i)' = FileOf(i)
    BY DEF FileOf
  <1>3. QED
    BY <1>1, <1>2 DEF VerdictsStay

LEMMA FailedHeadStays ==
    ASSUME VerdictsStay, NEW r, FailedHead(r)
    PROVE  FailedHead(r)'
  BY DEF VerdictsStay, FailedHead, Judged

\* The rank in hand is the one the next verdict is about.
LEMMA NextVerdictIsOnTheFile ==
    ASSUME TypeInv, pc \notin {"idle", "target"}
    PROVE  Len(verdicts) + 1 = pos /\ FileOf(Len(verdicts) + 1) = file /\ file \in Files
  BY TargetTyped DEF TypeInv, TypeOK, AtRank, FileOf, file, target

-----------------------------------------------------------------------------
\* A step that reads nothing through Warm, records no range and takes nothing
\* out of hand.
LEMMA NothingRead ==
    ASSUME AccountedInv, VerdictsStay, readIn' = readIn, stats'.Warmed = stats.Warmed,
           ReadParts = {} \/ UNCHANGED <<pc, part, plan, file>>
    PROVE  AccountedInv'
  <1> SUFFICES ASSUME NEW r \in readIn, ~FailedHead(r), ~Covers(stats.Warmed, r)
               PROVE  InHand(r)'
    BY FailedHeadStays DEF AccountedInv, Covers
  <1>1. InHand(r)
    BY DEF AccountedInv
  <1>2. UNCHANGED <<pc, part, plan, file>>
    BY <1>1 DEF InHand
  <1>3. QED
    BY <1>1, <1>2 DEF InHand, ReadParts, WindowBytes, Windows, Parts

\* A Warm call that returns, completely or not, leaves what it read in hand.
LEMMA RangeRead ==
    ASSUME TypeInv, AccountedInv, NEW n \in Int, n <= window.length, Warm(n),
           UNCHANGED <<list, pos, plan, stats, verdicts>>,
           ReadParts' = ReadParts \cup {part}
    PROVE  AccountedInv'
  <1>1. file' = file /\ VerdictsStay
    BY DEF file, target, VerdictsStay, FileOf
  <1>2. /\ readIn' = readIn \cup ({file} \X Prefix(n))
        /\ window.from \in Nat /\ window.length \in Nat
    BY WindowTyped DEF Warm, TypeInv
  <1> SUFFICES ASSUME NEW r \in readIn', ~FailedHead(r)', ~Covers(stats.Warmed, r)'
               PROVE  InHand(r)'
    BY DEF AccountedInv
  <1>3. CASE r \in readIn
    <2>1. InHand(r)
      BY <1>1, <1>3, FailedHeadStays DEF AccountedInv, Covers
    <2>2. QED
      BY <1>1, <2>1 DEF InHand, WindowBytes, Windows
  <1>4. CASE r \in {file} \X Prefix(n)
    <2>1. r[1] = file /\ r[2] \in WindowBytes(plan, part)
      BY <1>2, <1>4 DEF Prefix, RangeBytes, WindowBytes, window
    <2>2. QED
      BY <1>1, <2>1 DEF InHand, WindowBytes, Windows
  <1>5. QED
    BY <1>2, <1>3, <1>4

LEMMA WarmingAccounted ==
    ASSUME TypeInv, AccountedInv, Warming
    PROVE  AccountedInv'
  <1>1. /\ pc \in {"warm", "account"} /\ plan \in PlanType /\ part \in Parts
        /\ stats.Warmed \in WarmedLists
        /\ window.from \in Nat /\ window.length \in Nat
    BY WindowTyped DEF Warming, WarmHead, WarmHeadFails, WarmSide, Warm, Account, TypeInv, TypeOK,
                       RunStats
  <1>2. Len(verdicts) + 1 = pos /\ FileOf(Len(verdicts) + 1) = file /\ file \in Files
    BY <1>1, NextVerdictIsOnTheFile
  <1>3. CASE WarmHead
    <2>1. Warm(window.length) /\ ReadParts' = ReadParts \cup {part}
      BY <1>3 DEF WarmHead, Warm, ReadParts
    <2>2. QED
      BY <1>1, <1>3, <2>1, RangeRead DEF WarmHead
  <1>4. CASE WarmSide
    <2>1. PICK n \in 0 .. window.length : Warm(n)
      BY <1>4 DEF WarmSide
    <2>2. ReadParts' = ReadParts \cup {part}
      BY <1>4 DEF WarmSide, Warm, ReadParts, Parts
    <2>3. QED
      BY <1>1, <1>4, <2>1, <2>2, RangeRead DEF WarmSide
  <1>5. CASE WarmHeadFails
    <2>1. PICK n \in 0 .. (window.length - 1) : Warm(n)
      BY <1>5 DEF WarmHeadFails
    <2>2. /\ pc = "warm" /\ part = "content" /\ list' = list
          /\ readIn' = readIn \cup ({file} \X Prefix(n))
          /\ verdicts' = Append(verdicts, [verdict |-> "missing", plan |-> plan])
      BY <1>5, <2>1 DEF WarmHeadFails, Warm, Decide
    <2>3. /\ VerdictsStay
          /\ Len(verdicts) + 1 \in DOMAIN verdicts'
          /\ verdicts'[Len(verdicts) + 1] = [verdict |-> "missing", plan |-> plan]
      BY <1>1, <2>2, AddedVerdict DEF Verdicts
    <2>4. stats'.Warmed = stats.Warmed
      BY <1>5 DEF WarmHeadFails, Count, TypeInv, TypeOK, RunStats
    <2> SUFFICES ASSUME NEW r \in readIn', ~Covers(stats.Warmed, r)
                 PROVE  FailedHead(r)'
      BY <2>4 DEF AccountedInv, Covers
    <2>5. CASE r \in readIn
      <3>1. ~InHand(r)
        BY <2>2 DEF InHand, ReadParts
      <3>2. QED
        BY <2>3, <2>5, <3>1, FailedHeadStays DEF AccountedInv
    <2>6. CASE r \in {file} \X Prefix(n)
      <3>1. r[1] = file /\ r[2] \in ContentBytes(plan)
        BY <1>1, <2>1, <2>2, <2>6 DEF Prefix, RangeBytes, window, Windows, ContentBytes, Parts
      <3>2. PICK i \in DOMAIN verdicts' : i = Len(verdicts) + 1
        BY <2>3
      <3>3. verdicts'[i] = [verdict |-> "missing", plan |-> plan] /\ FileOf(i)' = file
        BY <1>2, <2>2, <2>3, <3>2 DEF FileOf
      <3>4. QED
        BY <3>1, <3>3 DEF FailedHead, Judged
    <2>7. QED
      BY <2>2, <2>5, <2>6
  <1>6. CASE Account
    <2>1. /\ pc = "account" /\ list' = list /\ readIn' = readIn
          /\ verdicts' = Append(verdicts, [verdict |-> "preloaded", plan |-> plan])
          /\ stats'.Warmed = stats.Warmed \o WarmedRanges(file, plan)
      BY <1>6 DEF Account, Decide
    <2>2. VerdictsStay
      BY <1>1, <2>1, AddedVerdict DEF Verdicts
    <2>3. WarmedRanges(file, plan) \in WarmedLists
      BY <1>1, <1>2, WarmedRangesTyped
    <2> SUFFICES ASSUME NEW r \in readIn, ~FailedHead(r)
                 PROVE  Covers(stats'.Warmed, r)
      BY <2>1, <2>2, FailedHeadStays DEF AccountedInv, Covers
    <2>4. CASE Covers(stats.Warmed, r)
      BY <1>1, <2>1, <2>3, <2>4, JoinCovers
    <2>5. CASE InHand(r)
      <3>1. PICK p \in Parts : r[1] = file /\ r[2] \in WindowBytes(plan, p)
        BY <2>1, <2>5 DEF InHand, ReadParts
      <3>2. Covers(WarmedRanges(file, plan), r)
        BY <1>1, <1>2, <3>1, PlanIsCovered
      <3>3. QED
        BY <1>1, <2>1, <2>3, <3>2, JoinCovers
    <2>6. QED
      BY <2>4, <2>5 DEF AccountedInv
  <1>7. QED
    BY <1>3, <1>4, <1>5, <1>6 DEF Warming

\* Before a target is admitted nothing of it is in hand.
LEMMA RunAccounted ==
    ASSUME TypeInv, AccountedInv, Run
    PROVE  AccountedInv'
  <1>1. CASE Warming
    BY <1>1, WarmingAccounted
  <1>2. ASSUME Run, ~Warming
        PROVE  /\ readIn' = readIn /\ ReadParts = {} /\ VerdictsStay
               /\ stats'.Warmed = stats.Warmed
    <2>1. /\ plan \in PlanType /\ NoPlan \in PlanType /\ stats \in RunStats
          /\ \A counter \in {"Missing", "Skipped"} :
                Count(counter) => stats'.Warmed = stats.Warmed
      BY NothingTyped DEF TypeInv, TypeOK, Count, RunStats
    <2>2. CASE Probes
      <3>1. /\ pc = "probe" /\ list' = list /\ readIn' = readIn /\ (Resident \/ NotResident)
        BY <2>2 DEF Probes, ProbeNothing, ProbeMincore, ProbeTiming, ProbeError, ProbeTimeout,
               Probing, probeUnchanged
      <3>2. /\ stats'.Warmed = stats.Warmed
            /\ \/ verdicts' = verdicts
               \/ verdicts' = Append(verdicts, [verdict |-> "skipped", plan |-> plan])
        BY <2>1, <3>1 DEF Resident, NotResident, Decide
      <3>3. VerdictsStay
        BY <2>1, <3>1, <3>2, AddedVerdict DEF Verdicts, VerdictsStay, FileOf
      <3>4. QED
        BY <3>1, <3>2, <3>3 DEF ReadParts
    <2>3. CASE Missing
      <3>1. /\ pc = "target" /\ list' = list /\ readIn' = readIn /\ Count("Missing")
            /\ verdicts' = Append(verdicts, [verdict |-> "missing", plan |-> NoPlan])
        BY <2>3 DEF Missing, AtTarget, Decide
      <3>2. QED
        BY <2>1, <3>1, AddedVerdict DEF ReadParts, Verdicts
    <2>4. CASE Drop
      <3>1. /\ pc = "admit" /\ list' = list /\ readIn' = readIn /\ stats' = stats
            /\ verdicts' = Append(verdicts, [verdict |-> "dropped", plan |-> plan])
        BY <2>4 DEF Drop, pass
      <3>2. QED
        BY <2>1, <3>1, AddedVerdict DEF ReadParts, Verdicts
    <2>5. CASE Finish \/ PlanTarget \/ Admit
      BY <2>5 DEF Finish, PlanTarget, AtTarget, Admit, pass, ReadParts, VerdictsStay, FileOf
    <2>6. QED
      BY <1>2, <2>2, <2>3, <2>4, <2>5 DEF Run
  <1>3. QED
    BY <1>1, <1>2, NothingRead

-----------------------------------------------------------------------------
\* What a content window was found to be when it was read stays so.
LEMMA ContentStaysHeld ==
    ASSUME PagesStay, readIn \subseteq readIn', NEW f \in Files, NEW pl,
           ContentHeld(f, pl, readIn, cache, disturbed)
    PROVE  ContentHeld(f, pl, readIn', cache', disturbed')
  BY DEF PagesStay, ContentHeld

LEMMA PreloadedStay ==
    ASSUME TypeInv, PagesStay, readIn \subseteq readIn', PreloadedContentResident,
           \/ verdicts' = verdicts
           \/ \E v \in Verdicts, pl \in PlanType :
                /\ verdicts' = Append(verdicts, [verdict |-> v, plan |-> pl])
                /\ v = "preloaded" =>
                     ContentHeld(FileOf(Len(verdicts) + 1), pl, readIn', cache', disturbed')
    PROVE  PreloadedContentResident'
  <1> SUFFICES ASSUME NEW i \in DOMAIN verdicts', verdicts'[i].verdict = "preloaded"
               PROVE  ContentHeld(FileOf(i)', verdicts'[i].plan, readIn', cache', disturbed')
    BY DEF PreloadedContentResident, Judged, ContentHeld
  <1>1. list' = list /\ \A j : FileOf(j)' = FileOf(j)
    BY DEF PagesStay, FileOf
  <1>2. CASE i \in DOMAIN verdicts /\ verdicts'[i] = verdicts[i]
    <2>1. ContentHeld(FileOf(i), verdicts[i].plan, readIn, cache, disturbed)
      BY <1>2 DEF PreloadedContentResident, Judged, ContentHeld
    <2>2. FileOf(i) \in Files
      BY <1>2, SweepAssumption DEF TypeInv, TypeOK, AtRank, FileOf
    <2>3. QED
      BY <1>1, <1>2, <2>1, <2>2, ContentStaysHeld
  <1>3. CASE verdicts' = verdicts
    BY <1>2, <1>3
  <1>4. ASSUME NEW v \in Verdicts, NEW pl \in PlanType,
               verdicts' = Append(verdicts, [verdict |-> v, plan |-> pl]),
               v = "preloaded" =>
                  ContentHeld(FileOf(Len(verdicts) + 1), pl, readIn', cache', disturbed')
        PROVE  ContentHeld(FileOf(i)', verdicts'[i].plan, readIn', cache', disturbed')
    <2>1. \/ i \in DOMAIN verdicts /\ verdicts'[i] = verdicts[i]
          \/ i = Len(verdicts) + 1 /\ verdicts'[i] = [verdict |-> v, plan |-> pl]
      BY <1>1, <1>4, AddedVerdict DEF VerdictsStay
    <2>2. QED
      BY <1>1, <1>2, <1>4, <2>1
  <1>5. QED
    BY <1>3, <1>4

LEMMA RunKeepsContent ==
    ASSUME TypeInv, ContentInv, PreloadedContentResident, Run
    PROVE  ContentInv' /\ PreloadedContentResident'
  <1>1. /\ PagesStay /\ plan \in PlanType /\ NoPlan \in PlanType
        /\ window.from \in Nat /\ window.length \in Nat
    BY RunKeepsPages, NothingTyped, WindowTyped DEF TypeInv, TypeOK
  <1>2. CASE WarmHead \/ WarmSide
    <2>1. PICK n \in Int : /\ Warm(n) /\ UNCHANGED <<list, pos, plan, verdicts, disturbed>>
                           /\ WarmHead => n = window.length
      BY <1>1, <1>2 DEF WarmHead, WarmSide
    <2>2. /\ pc = "warm" /\ readIn' = readIn \cup ({file} \X Prefix(n)) /\ Loads(Prefix(n))
          /\ file' = file /\ file \in Files /\ pos <= Len(list)
      BY <2>1, NextVerdictIsOnTheFile DEF Warm, file, target, TypeInv, AtRank
    <2>3. PreloadedContentResident'
      BY <1>1, <2>1, <2>2, PreloadedStay
    <2>4. CASE WarmHead
      <3>1. Prefix(n) = ContentBytes(plan)
        BY <2>1, <2>4 DEF WarmHead, Prefix, window, Windows, ContentBytes, Parts
      <3>2. Prefix(n) \subseteq Nat /\ Prefix(n) \subseteq cache'[file]
        BY <2>2, PrefixInNat, LoadsTyped DEF TypeInv
      <3>3. ContentHeld(file, plan, readIn', cache', disturbed')
        BY <2>2, <3>1, <3>2 DEF ContentHeld
      <3>4. QED
        BY <2>1, <2>2, <2>3, <3>3 DEF ContentInv
    <2>5. CASE WarmSide
      <3>1. "content" \in ReadParts
        BY <2>2, <2>5 DEF WarmSide, ReadParts
      <3>2. ContentHeld(file, plan, readIn', cache', disturbed')
        BY <1>1, <2>2, <3>1, ContentStaysHeld DEF ContentInv
      <3>3. QED
        BY <2>1, <2>2, <2>3, <3>2 DEF ContentInv
    <2>6. QED
      BY <1>2, <2>4, <2>5
  <1>3. CASE Account
    <2>1. /\ pc = "account" /\ pc' = "target" /\ readIn' = readIn
          /\ verdicts' = Append(verdicts, [verdict |-> "preloaded", plan |-> plan])
      BY <1>3 DEF Account, Decide
    <2>2. FileOf(Len(verdicts) + 1) = file /\ file \in Files
      BY <2>1, NextVerdictIsOnTheFile
    <2>3. ContentHeld(file, plan, readIn, cache, disturbed)
      BY <2>1 DEF ContentInv, ReadParts, Parts
    <2>4. ContentHeld(file, plan, readIn', cache', disturbed')
      BY <1>1, <2>1, <2>2, <2>3, ContentStaysHeld
    <2>5. PreloadedContentResident'
      BY <1>1, <2>1, <2>2, <2>4, PreloadedStay DEF Verdicts
    <2>6. QED
      BY <2>1, <2>5 DEF ContentInv, ReadParts
  <1>4. CASE WarmHeadFails
    <2>1. /\ pc' = "target" /\ readIn \subseteq readIn'
          /\ verdicts' = Append(verdicts, [verdict |-> "missing", plan |-> plan])
      BY <1>4 DEF WarmHeadFails, Warm, Decide
    <2>2. QED
      BY <1>1, <2>1, PreloadedStay DEF ContentInv, ReadParts, Verdicts
  <1>5. CASE Admit
    BY <1>1, <1>5, PreloadedStay DEF Admit, ContentInv, ReadParts
  <1>6. CASE Finish \/ PlanTarget
    BY <1>1, <1>6, PreloadedStay DEF Finish, PlanTarget, ContentInv, ReadParts
  <1>7. CASE Missing
    <2>1. /\ pc' = "target" /\ readIn' = readIn
          /\ verdicts' = Append(verdicts, [verdict |-> "missing", plan |-> NoPlan])
      BY <1>7 DEF Missing, Decide
    <2>2. QED
      BY <1>1, <2>1, PreloadedStay DEF ContentInv, ReadParts, Verdicts
  <1>8. CASE Drop
    <2>1. /\ pc' = "idle" /\ readIn' = readIn
          /\ verdicts' = Append(verdicts, [verdict |-> "dropped", plan |-> plan])
      BY <1>8 DEF Drop
    <2>2. QED
      BY <1>1, <2>1, PreloadedStay DEF ContentInv, ReadParts, Verdicts
  <1>9. CASE Probes
    <2>1. /\ pc = "probe" /\ readIn' = readIn /\ (Resident \/ NotResident)
      BY <1>9 DEF Probes, ProbeNothing, ProbeMincore, ProbeTiming, ProbeError, ProbeTimeout,
             Probing, probeUnchanged
    <2>2. /\ pc' \in {"probe", "target", "admit"}
          /\ \/ verdicts' = verdicts
             \/ verdicts' = Append(verdicts, [verdict |-> "skipped", plan |-> plan])
      BY <2>1 DEF Resident, NotResident, Decide
    <2>3. QED
      BY <1>1, <2>1, <2>2, PreloadedStay DEF ContentInv, ReadParts, Verdicts
  <1>10. QED
    BY <1>2, <1>3, <1>4, <1>5, <1>6, <1>7, <1>8, <1>9 DEF Run, Warming

LEMMA StepReport ==
    TypeInv /\ ReportInv /\ [Next]_vars => ReportInv'
  <1> SUFFICES ASSUME TypeInv, ReportInv, [Next]_vars PROVE ReportInv'
    OBVIOUS
  <1>1. AccountedInv /\ ContentInv /\ PreloadedContentResident
    BY DEF ReportInv
  <1>2. ASSUME UNCHANGED <<pc, pass, verdicts, readIn>>, PagesStay
        PROVE  ReportInv'
    <2>1. UNCHANGED <<pc, list, pos, plan, part, stats>> /\ file' = file
      BY <1>2 DEF pass, file, target
    <2>2. VerdictsStay
      BY <1>2, <2>1 DEF VerdictsStay, FileOf
    <2>3. AccountedInv'
      BY <1>1, <1>2, <2>1, <2>2, NothingRead
    <2>4. PreloadedContentResident'
      BY <1>1, <1>2, PreloadedStay
    <2>5. ContentInv'
      <3>1. ReadParts' = ReadParts
        BY <2>1 DEF ReadParts, Parts
      <3>2. CASE "content" \in ReadParts
        <4>1. file \in Files
          BY <3>2, NextVerdictIsOnTheFile DEF ReadParts
        <4>2. QED
          BY <1>1, <1>2, <2>1, <3>2, <4>1, ContentStaysHeld DEF ContentInv
      <3>3. QED
        BY <3>1, <3>2 DEF ContentInv
    <2>6. QED
      BY <2>3, <2>4, <2>5 DEF ReportInv
  <1>3. CASE UNCHANGED vars
    <2>1. PagesStay
      BY <1>3 DEF vars, pass, PagesStay
    <2>2. QED
      BY <1>2, <1>3, <2>1 DEF vars
  <1>4. CASE Start \/ Kill
    <2>1. verdicts' = <<>> /\ readIn' = {} /\ pc' \in {"idle", "target"}
      BY <1>4 DEF Start, Kill
    <2>2. AccountedInv'
      BY <2>1 DEF AccountedInv
    <2>3. PreloadedContentResident'
      BY <2>1 DEF PreloadedContentResident, Judged
    <2>4. QED
      BY <2>1, <2>2, <2>3 DEF ReportInv, ContentInv, ReadParts
  <1>5. CASE Run
    BY <1>1, <1>5, RunAccounted, RunKeepsContent DEF ReportInv
  <1>6. CASE Environment /\ ~Kill
    <2>1. UNCHANGED <<pc, pass, verdicts, readIn>>
      BY <1>6 DEF Environment, Evict, OtherRead, LateRead, Wedge, Cancel, Quieten
    <2>2. QED
      BY <1>2, <1>6, <2>1, EnvironmentKeepsPages
  <1>7. QED
    BY <1>3, <1>4, <1>5, <1>6 DEF Next

THEOREM ReportInvariant == Spec => []ReportInv
  <1>1. Init => ReportInv
    BY DEF Init, ReportInv, AccountedInv, ContentInv, ReadParts, PreloadedContentResident, Judged
  <1>2. QED
    BY <1>1, StepReport, TypeInvariant, PTL DEF Spec

\* Between targets nothing is in hand: in any pass, whatever fails in it, a byte
\* read is in a recorded range or in the content window of a target whose
\* content read failed.
THEOREM OnlyFailedHeadsGoUncharged == Spec => []OnlyFailedHeadsUncharged
  <1>1. ReportInv => OnlyFailedHeadsUncharged
    BY DEF ReportInv, AccountedInv, InHand, ReadParts, Covers, FailedHead,
           OnlyFailedHeadsUncharged
  <1>2. QED
    BY <1>1, ReportInvariant, PTL

\* A target counted as preloaded has had its whole playback window read in this
\* pass, and only an eviction from its file takes a byte of it away again.
THEOREM PreloadsAreSound == Spec => []PreloadedContentResident
  <1>1. ReportInv => PreloadedContentResident
    BY DEF ReportInv
  <1>2. QED
    BY <1>1, ReportInvariant, PTL
=============================================================================
