------------------------------ MODULE PlanItem ------------------------------
(***************************************************************************)
(* One call of planWarm: a target, the size of its file, the front of that *)
(* file as container.Inspect reads it and whether it lives on a pool go    *)
(* in, a plan comes out.  The properties say what every plan owes the      *)
(* playback path, the byte budget and the budget meter, which projects its *)
(* cost without reading the file (internal/app/estimate.go, projectBytes). *)
(***************************************************************************)
EXTENDS Container

CONSTANTS
    Items, Sizes, Fronts,      \* the media items, file sizes and fronts considered
    estimateResumeFrontBytes   \* the meter's front allowance for a resume target

ASSUME ItemsAssumption ==
    /\ Items \subseteq [BitrateBps : Int, SizeBytes : Nat, Runtime : Nat, ResumeOffset : Int]
    /\ Sizes \subseteq Nat
    /\ Fronts \subseteq FrontType
    /\ estimateResumeFrontBytes \in Nat

VARIABLES
    request,   \* the arguments of the call
    plan       \* NoPlan, then the ranges planWarm returned

vars == <<request, plan>>

Init ==
    /\ \E it \in Items, size \in Sizes, front \in Fronts,
          tier \in {"resume", "other"}, pooled \in BOOLEAN :
         request = [target |-> [Item |-> it, Tier |-> tier], size |-> size,
                    front |-> front, layout |-> Inspect(front, size),
                    pooled |-> pooled, planned |-> FALSE]
    /\ plan = NoPlan

Plan ==
    /\ ~request.planned
    /\ request' = [request EXCEPT !.planned = TRUE]
    /\ plan' = planWarm(request.target, request.size, request.layout, request.pooled)

Next == Plan

Spec == Init /\ [][Next]_vars

\* Mutant: the tail is left out of the projection.
projectBytes_noTail(t) ==
    PlanHead(TargetSeconds, t.Item).Bytes
        + (IF seeking(t) THEN estimateResumeFrontBytes ELSE 0)

\* What the budget meter thinks a target costs.
projectBytes(t) ==
    PlanHead(TargetSeconds, t.Item).Bytes + TailBytes
        + (IF seeking(t) THEN estimateResumeFrontBytes ELSE 0)

-----------------------------------------------------------------------------
TypeOK ==
    /\ request.size \in Nat
    /\ request.planned \in BOOLEAN
    /\ plan \in PlanType

\* planWarm: "clamped so the three never overlap" (preloader.go:249).  The
\* three ranges are pairwise disjoint and inside the file, so the cost charged
\* to the budget is the number of bytes the plan names.
RangesDisjoint ==
    /\ plan.front <= plan.offset
    /\ plan.tail > 0 => plan.offset + plan.head <= plan.tailOffset
    /\ plan.offset + plan.head <= request.size
    /\ plan.tail > 0 => plan.tailOffset + plan.tail <= request.size

\* inspectRanges: "truncating front to offset relies on the head window
\* covering the rest of the metadata" (preloader.go:335).  Whatever a player
\* reads on open is inside the front and content windows together, also for an
\* early resume point and for a head clamped at the end of the file.
FrontMetadataCovered ==
    (request.planned /\ seeking(request.target) /\ request.layout # NoLayout)
        => 0 .. (request.layout.FrontEnd - 1) \subseteq FrontBytes(plan) \cup ContentBytes(plan)

\* planWarm and PlanHead: an array file is warmed for target_seconds of playback
\* from the resume position, up to the end of the file, unless the plan says the
\* byte clamp cut it short.
PlaybackWindowCovered ==
    (request.planned /\ ~request.pooled /\ ~plan.Truncated)
        => LET it   == request.target.Item
               from == IF seeking(request.target) /\ resumeOffsetBytes(it) < request.size
                       THEN resumeOffsetBytes(it) ELSE 0
               need == (TargetSeconds * bps(it)) \div 8
           IN  {b \in RangeBytes(from, need) : b < request.size} \subseteq ContentBytes(plan)

\* inspectRanges: "The warm always STARTS at CueStart" (preloader.go:346).  That is
\* so for an index in the front window or behind the content window's start,
\* whatever clamping did to the tail; one between the two is cut, or lost.
CueStartWarmedUnlessBeforeContent ==
    (request.planned /\ seeking(request.target) /\ request.layout # NoLayout
        /\ ~(plan.front <= request.layout.CueStart /\ request.layout.CueStart < plan.offset)
        /\ maxTailBytes > 0)
        => request.layout.CueStart \in PlanBytes(plan)

\* Where a SeekHead tells the position of the index: a whole position, and before
\* it, with nothing of a Seek entry between them, a whole SeekID that is Cues'.
Sound(elements) ==
    {k \in DOMAIN elements :
        /\ elements[k].id = "SeekPosition" /\ elements[k].fits
        /\ \E i \in DOMAIN elements :
              /\ i < k /\ elements[i].id = "SeekID" /\ elements[i].fits /\ elements[i].value = idCues
              /\ \A j \in DOMAIN elements : i < j /\ j < k => elements[j].id = "other"}

\* parseSeekHead: an oversized value is malformed: "Ignore it rather than let
\* curID silently record a wrapped value" (container.go:149).  Whatever entries
\* stand before it, cut short, oversized or repeated, the index found is the one
\* the first sound Cues entry of a leading SeekHead tells, and none when that
\* points outside the file; and no index is found that no sound entry tells.
IndexFoundAsWritten ==
    LET f     == request.front
        seeks == f.children[1].seeks
        At(k) == f.data + seeks[k].value
    IN  /\ (f.header /\ f.children # <<>> /\ f.children[1].id = "SeekHead" /\ MaxChildren > 0)
             => \A n \in Sound(seeks) : (\A k \in Sound(seeks) : n <= k) =>
                  IF At(n) \in 0..(request.size - 1)
                  THEN request.layout.CueStart = At(n) ELSE request.layout = NoLayout
        /\ request.layout # NoLayout =>
             \E i \in DOMAIN f.children :
                \E n \in Sound(f.children[i].seeks) :
                   request.layout.CueStart = f.data + f.children[i].seeks[n].value

\* The safety caps (preloader.go:16): no container, however odd, makes one
\* target cost more than its caps.
CostBounded ==
    cost(plan) <= maxFrontBytes + MaxHeadBytes + Greater(maxTailBytes, TailBytes)

\* projectBytes mirrors the sizing of a sweep but not its placement, its clamping
\* to the file or its inspection of the container.  Without the last, it never
\* projects less than the sweep charges.
MeterErrsHighOnFlatTails ==
    (request.planned /\ (~seeking(request.target) \/ request.layout = NoLayout))
        => cost(plan) <= projectBytes(request.target)
=============================================================================
