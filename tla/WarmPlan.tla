------------------------------ MODULE WarmPlan ------------------------------
(***************************************************************************)
(* Sizing of one target: which byte ranges of a media file a preload pass  *)
(* wants resident (internal/preloader/preloader.go, planWarm and its       *)
(* helpers).  A plan is three ranges,                                      *)
(*                                                                         *)
(*      [0, front)   [offset, offset + head)   [tailOffset, + tail)        *)
(*                                                                         *)
(* the container metadata read on open, the playback window at the resume  *)
(* position, and the seek (cue) index.  Lengths are int64 byte counts in   *)
(* the code and stay far below 2^63, so they are plain integers here.      *)
(* Durations are whole seconds.                                            *)
(***************************************************************************)
EXTENDS Integers

CONSTANTS
    TargetSeconds,   \* preload.target_seconds: playback a head must cover
    MinHeadBytes,    \* preload.min_head_mb, in bytes
    MaxHeadBytes,    \* preload.max_head_mb, in bytes
    TailBytes,       \* preload.tail_mb, in bytes: the flat tail
    frontReadCap,    \* how much of a file's front container.Inspect reads
    maxFrontBytes,   \* cap of the front-metadata window
    maxTailBytes     \* cap of the cue-tail window

\* config.Validate and applyDefaults: target_seconds is at least 1, the byte
\* dials are not negative, min_head_mb <= max_head_mb.
ASSUME DialsAssumption ==
    /\ TargetSeconds \in Nat \ {0}
    /\ MinHeadBytes \in Nat /\ MaxHeadBytes \in Nat /\ TailBytes \in Nat
    /\ MinHeadBytes <= MaxHeadBytes
    /\ frontReadCap \in Nat /\ maxFrontBytes \in Nat /\ maxTailBytes \in Nat

\* The relation inspectRanges asks its readers to keep: min_head_mb is a whole
\* number of MiB, a zero is replaced by the default, and the front read is one
\* MiB, below the front window's cap.
ASSUME FrontReadAssumption ==
    frontReadCap <= MinHeadBytes /\ frontReadCap <= maxFrontBytes

\* The fields of core.MediaItem that sizing reads.
IsItem(it) ==
    /\ it.BitrateBps \in Int /\ it.ResumeOffset \in Int
    /\ it.SizeBytes \in Nat /\ it.Runtime \in Nat

NoLayout == [FrontEnd |-> -1, CueStart |-> -1]   \* container.Inspect: not ok

\* The first Cluster lies behind the EBML header and inside the bytes read, and
\* Inspect refuses a cue index outside the file.
Layouts(size) ==
    {NoLayout} \cup
    [FrontEnd : {n \in 1..frontReadCap : n <= size}, CueStart : 0..(size - 1)]

-----------------------------------------------------------------------------
Lesser(a, b) == IF a <= b THEN a ELSE b

Greater(a, b) == IF a <= b THEN b ELSE a

\* The reported bitrate, or the one implied by size and runtime.
bps(it) ==
    IF it.BitrateBps <= 0 /\ it.Runtime > 0
    THEN (it.SizeBytes * 8) \div it.Runtime
    ELSE it.BitrateBps

\* Mutant: the floor is forgotten.
PlanHead_noFloor(targetSeconds, it) ==
    LET want == (targetSeconds * bps(it)) \div 8
    IN  [Bytes |-> Lesser(want, MaxHeadBytes), Truncated |-> want > MaxHeadBytes]

\* Mutant: an omitted bitrate is not derived.
PlanHead_reportedOnly(targetSeconds, it) ==
    LET want == (targetSeconds * it.BitrateBps) \div 8
    IN  [Bytes     |-> Lesser(Greater(want, MinHeadBytes), MaxHeadBytes),
         Truncated |-> want > MaxHeadBytes]

PlanHead(targetSeconds, it) ==
    LET want == (targetSeconds * bps(it)) \div 8
    IN  [Bytes     |-> Lesser(Greater(want, MinHeadBytes), MaxHeadBytes),
         Truncated |-> want > MaxHeadBytes]

resumeOffsetBytes(it) ==
    IF it.ResumeOffset <= 0 \/ bps(it) <= 0
    THEN 0
    ELSE (it.ResumeOffset * bps(it)) \div 8

\* Mutant: the cap trims the near end of the index, as before #143.
inspectRanges_fromEOF(layout, size, offset) ==
    LET front == Lesser(Lesser(layout.FrontEnd, maxFrontBytes), offset)
        tail  == Lesser(size - layout.CueStart, maxTailBytes)
    IN  [front |-> front, tailOffset |-> size - tail, tail |-> tail]

\* The front window stops where the content window begins; the cue tail
\* starts at the index, and there is none when the front already holds it.
inspectRanges(layout, size, offset) ==
    LET front  == Lesser(Lesser(layout.FrontEnd, maxFrontBytes), offset)
        hasCue == layout.CueStart >= front /\ layout.CueStart < size
    IN  [front      |-> front,
         tailOffset |-> IF hasCue THEN layout.CueStart ELSE 0,
         tail       |-> IF hasCue THEN Lesser(size - layout.CueStart, maxTailBytes)
                                  ELSE 0]

flatTail(size) ==
    LET from == Greater(size - TailBytes, 0)
    IN  [front |-> 0, tailOffset |-> from, tail |-> size - from]

noTail == [front |-> 0, tailOffset |-> 0, tail |-> 0]

\* Mutant: the tail is left where it is.
clampTailToContent_overlap(r, contentEnd) == r

\* Keep the tail's end, move its start to the end of the content window.
clampTailToContent(r, contentEnd) ==
    IF r.tail > 0 /\ r.tailOffset < contentEnd
    THEN [r EXCEPT !.tailOffset = contentEnd,
                   !.tail = Greater(r.tailOffset + r.tail - contentEnd, 0)]
    ELSE r

seeking(t) == t.Tier = "resume"

planWarm(t, size, layout, pooled) ==
    LET hp     == PlanHead(IF pooled THEN 0 ELSE TargetSeconds, t.Item)
        asked  == IF seeking(t) THEN resumeOffsetBytes(t.Item) ELSE 0
        offset == IF asked >= size THEN 0 ELSE asked
        head   == Lesser(hp.Bytes, size - offset)
        sides  == CASE seeking(t) /\ layout # NoLayout -> inspectRanges(layout, size, offset)
                    [] (~seeking(t) \/ layout = NoLayout) /\ TailBytes > 0 -> flatTail(size)
                    [] OTHER -> noTail
        tail   == clampTailToContent(sides, offset + head)
    IN  [front |-> sides.front, offset |-> offset, head |-> head,
         tailOffset |-> tail.tailOffset, tail |-> tail.tail,
         Truncated |-> hp.Truncated]

cost(pl) == pl.front + pl.head + pl.tail

PlanType == [front : Nat, offset : Nat, head : Nat, tailOffset : Nat, tail : Nat,
             Truncated : BOOLEAN]

NoPlan == [front |-> 0, offset |-> 0, head |-> 0, tailOffset |-> 0, tail |-> 0,
           Truncated |-> FALSE]

-----------------------------------------------------------------------------
\* The bytes a range covers, and the bytes of a whole plan.
RangeBytes(from, length) == from .. (from + length - 1)

FrontBytes(pl)   == RangeBytes(0, pl.front)
ContentBytes(pl) == RangeBytes(pl.offset, pl.head)
CueBytes(pl)     == RangeBytes(pl.tailOffset, pl.tail)
PlanBytes(pl)    == FrontBytes(pl) \cup ContentBytes(pl) \cup CueBytes(pl)
=============================================================================
