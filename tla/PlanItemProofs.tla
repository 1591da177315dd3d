--------------------------- MODULE PlanItemProofs ---------------------------
(***************************************************************************)
(* The sizing of a target, for every setting of the dials, every file size *)
(* and every media item.  First the lemmas about planWarm: the head stays  *)
(* between its dials, the three ranges are disjoint, inside the file and   *)
(* capped, and the metadata a player reads on open is always inside them.  *)
(* Then what every plan owes, as invariants of PlanItem: an inductive      *)
(* invariant says that the plan is planWarm's answer to a well-typed       *)
(* request, and the lemmas do the rest.                                    *)
(***************************************************************************)
EXTENDS PlanItem, Loops


LEMMA BitrateIsInt ==
    ASSUME NEW it, IsItem(it)
    PROVE  bps(it) \in Int
  BY DEF IsItem, bps

LEMMA HeadBetweenDials ==
    ASSUME NEW it, IsItem(it), NEW secs \in Nat
    PROVE  /\ PlanHead(secs, it).Bytes \in MinHeadBytes .. MaxHeadBytes
           /\ PlanHead(secs, it).Truncated \in BOOLEAN
  <1> DEFINE want == (secs * bps(it)) \div 8
  <1>1. secs * bps(it) \in Int
    BY BitrateIsInt
  <1>2. want \in Int
    BY <1>1
  <1>3. QED
    BY <1>2, DialsAssumption DEF PlanHead, Lesser, Greater

LEMMA ResumeOffsetIsNat ==
    ASSUME NEW it, IsItem(it)
    PROVE  resumeOffsetBytes(it) \in Nat
  <1>1. CASE it.ResumeOffset <= 0 \/ bps(it) <= 0
    BY <1>1 DEF resumeOffsetBytes
  <1>2. CASE ~(it.ResumeOffset <= 0 \/ bps(it) <= 0)
    <2>1. it.ResumeOffset \in Nat /\ bps(it) \in Nat
      BY <1>2, BitrateIsInt DEF IsItem
    <2>2. it.ResumeOffset * bps(it) \in Nat
      BY <2>1
    <2>3. QED
      BY <1>2, <2>2 DEF resumeOffsetBytes
  <1>3. QED
    BY <1>1, <1>2

-----------------------------------------------------------------------------
(***************************************************************************)
(* The plan as a whole.                                                    *)
(***************************************************************************)

Sane(pl, size) ==
    /\ pl.front <= pl.offset
    /\ pl.tail > 0 => pl.offset + pl.head <= pl.tailOffset
    /\ pl.offset + pl.head <= size
    /\ pl.tail > 0 => pl.tailOffset + pl.tail <= size

\* The windows beside the content, before clamping: inside the file, capped,
\* and the front one never reaches into the content.
SidesSane(r, size, offset) ==
    /\ r \in [front : Nat, tailOffset : Nat, tail : Nat]
    /\ r.front <= offset
    /\ r.front <= maxFrontBytes
    /\ r.tailOffset + r.tail <= size
    /\ r.tail <= Greater(maxTailBytes, TailBytes)

LEMMA InspectedSidesSane ==
    ASSUME NEW size \in Nat, NEW offset \in Nat, NEW layout \in Layouts(size),
           layout # NoLayout
    PROVE  SidesSane(inspectRanges(layout, size, offset), size, offset)
  <1>1. layout.FrontEnd \in Nat /\ layout.CueStart \in Nat
    BY DialsAssumption DEF Layouts
  <1>2. QED
    BY <1>1, DialsAssumption DEF inspectRanges, SidesSane, Lesser, Greater

LEMMA FlatSidesSane ==
    ASSUME NEW size \in Nat, NEW offset \in Nat
    PROVE  /\ SidesSane(flatTail(size), size, offset)
           /\ SidesSane(noTail, size, offset)
  BY DialsAssumption DEF flatTail, noTail, SidesSane, Lesser, Greater

LEMMA ClampKeepsTailOutside ==
    ASSUME NEW size \in Nat, NEW offset \in Nat, NEW end \in Nat, end <= size,
           NEW r, SidesSane(r, size, offset)
    PROVE  LET c == clampTailToContent(r, end)
           IN  /\ c.front = r.front
               /\ c.tailOffset \in Nat /\ c.tail \in Nat
               /\ c.tail <= r.tail
               /\ c.tail > 0 => end <= c.tailOffset /\ c.tailOffset + c.tail <= size
  BY DEF clampTailToContent, SidesSane, Greater

LEMMA PlanSane ==
    ASSUME NEW t, IsItem(t.Item), NEW size \in Nat,
           NEW layout \in Layouts(size), NEW pooled \in BOOLEAN
    PROVE  LET pl == planWarm(t, size, layout, pooled)
           IN  /\ pl \in PlanType
               /\ Sane(pl, size)
               /\ cost(pl) <= maxFrontBytes + MaxHeadBytes + Greater(maxTailBytes, TailBytes)
  <1> DEFINE hp     == PlanHead(IF pooled THEN 0 ELSE TargetSeconds, t.Item)
             asked  == IF seeking(t) THEN resumeOffsetBytes(t.Item) ELSE 0
             offset == IF asked >= size THEN 0 ELSE asked
             head   == Lesser(hp.Bytes, size - offset)
             sides  == CASE seeking(t) /\ layout # NoLayout -> inspectRanges(layout, size, offset)
                         [] (~seeking(t) \/ layout = NoLayout) /\ TailBytes > 0 -> flatTail(size)
                         [] OTHER -> noTail
             tail   == clampTailToContent(sides, offset + head)
             pl     == planWarm(t, size, layout, pooled)
  <1>1. hp.Bytes \in MinHeadBytes .. MaxHeadBytes /\ hp.Truncated \in BOOLEAN
    BY HeadBetweenDials, DialsAssumption
  <1>2. asked \in Nat
    BY ResumeOffsetIsNat
  <1>3. offset \in Nat /\ offset <= size
    BY <1>2
  <1> HIDE DEF hp, asked, offset
  <1>4. head \in Nat /\ head <= MaxHeadBytes /\ offset + head <= size
    BY <1>1, <1>3, DialsAssumption DEF Lesser
  <1>5. SidesSane(sides, size, offset)
    BY <1>3, InspectedSidesSane, FlatSidesSane
  <1> HIDE DEF head, sides
  <1>6. /\ tail.front = sides.front
        /\ tail.tailOffset \in Nat /\ tail.tail \in Nat
        /\ tail.tail <= sides.tail
        /\ tail.tail > 0 => offset + head <= tail.tailOffset /\ tail.tailOffset + tail.tail <= size
    BY <1>3, <1>4, <1>5, ClampKeepsTailOutside
  <1> HIDE DEF tail
  <1>7. pl = [front |-> sides.front, offset |-> offset, head |-> head,
              tailOffset |-> tail.tailOffset, tail |-> tail.tail,
              Truncated |-> hp.Truncated]
    BY DEF planWarm, hp, asked, offset, head, sides, tail
  <1>8. Greater(maxTailBytes, TailBytes) \in Nat
    BY DialsAssumption DEF Greater
  <1> HIDE DEF pl
  <1>9. pl \in PlanType /\ Sane(pl, size)
    BY <1>1, <1>3, <1>4, <1>5, <1>6, <1>7 DEF PlanType, Sane, SidesSane
  <1>10. cost(pl) <= maxFrontBytes + MaxHeadBytes + Greater(maxTailBytes, TailBytes)
    BY <1>3, <1>4, <1>5, <1>6, <1>7, <1>8, DialsAssumption DEF cost, SidesSane
  <1>11. QED
    BY <1>9, <1>10 DEF pl

\* The argument the comment in inspectRanges sketches: where the front window is
\* cut at the resume offset, the head is long enough for the rest of the
\* metadata, or ends with the file.
LEMMA MetadataInFrontOrHead ==
    ASSUME NEW t, IsItem(t.Item), NEW size \in Nat,
           NEW layout \in Layouts(size), NEW pooled \in BOOLEAN,
           seeking(t), layout # NoLayout
    PROVE  LET pl == planWarm(t, size, layout, pooled)
           IN  0 .. (layout.FrontEnd - 1) \subseteq FrontBytes(pl) \cup ContentBytes(pl)
  <1> DEFINE hp     == PlanHead(IF pooled THEN 0 ELSE TargetSeconds, t.Item)
             asked  == resumeOffsetBytes(t.Item)
             offset == IF asked >= size THEN 0 ELSE asked
             head   == Lesser(hp.Bytes, size - offset)
             front  == Lesser(Lesser(layout.FrontEnd, maxFrontBytes), offset)
             pl     == planWarm(t, size, layout, pooled)
  <1>1. hp.Bytes \in Nat /\ MinHeadBytes <= hp.Bytes
    BY HeadBetweenDials, DialsAssumption
  <1>2. offset \in Nat /\ offset <= size
    BY ResumeOffsetIsNat
  <1>3. layout.FrontEnd \in Nat /\ layout.FrontEnd <= frontReadCap /\ layout.FrontEnd <= size
    BY DialsAssumption DEF Layouts
  <1>4. pl.front = front /\ pl.offset = offset /\ pl.head = head
    <2>1. pl.front = inspectRanges(layout, size, offset).front
      BY DEF planWarm
    <2>2. pl.offset = offset /\ pl.head = head
      BY DEF planWarm
    <2>3. QED
      BY <2>1, <2>2 DEF inspectRanges
  <1> HIDE DEF hp, offset, pl
  <1>5. layout.FrontEnd <= maxFrontBytes /\ layout.FrontEnd <= hp.Bytes
    BY <1>1, <1>3, FrontReadAssumption, DialsAssumption
  <1>6. front = IF layout.FrontEnd <= offset THEN layout.FrontEnd ELSE offset
    BY <1>2, <1>3, <1>5, DialsAssumption DEF Lesser
  <1>7. head \in Nat /\ layout.FrontEnd <= offset + head
    BY <1>1, <1>2, <1>3, <1>5 DEF Lesser
  <1> HIDE DEF head, front
  <1>8. ASSUME NEW b \in 0 .. (layout.FrontEnd - 1)
        PROVE  b \in FrontBytes(pl) \cup ContentBytes(pl)
    BY <1>2, <1>3, <1>4, <1>6, <1>7, <1>8 DEF FrontBytes, ContentBytes, RangeBytes
  <1>9. QED
    BY <1>8 DEF pl

\* The index's first byte is in the front window, in the content window, or
\* where the cue tail begins, unless it lies between the first two.
LEMMA CueStartInPlan ==
    ASSUME NEW t, IsItem(t.Item), NEW size \in Nat,
           NEW layout \in Layouts(size), NEW pooled \in BOOLEAN,
           seeking(t), layout # NoLayout, maxTailBytes > 0,
           LET pl == planWarm(t, size, layout, pooled)
           IN  ~(pl.front <= layout.CueStart /\ layout.CueStart < pl.offset)
    PROVE  layout.CueStart \in PlanBytes(planWarm(t, size, layout, pooled))
  <1> DEFINE hp     == PlanHead(IF pooled THEN 0 ELSE TargetSeconds, t.Item)
             asked  == resumeOffsetBytes(t.Item)
             offset == IF asked >= size THEN 0 ELSE asked
             head   == Lesser(hp.Bytes, size - offset)
             sides  == inspectRanges(layout, size, offset)
             tail   == clampTailToContent(sides, offset + head)
             pl     == planWarm(t, size, layout, pooled)
             cue    == layout.CueStart
  <1> SUFFICES cue \in PlanBytes(pl)
    OBVIOUS
  <1>1. hp.Bytes \in Nat
    BY HeadBetweenDials, DialsAssumption
  <1>2. offset \in Nat /\ offset <= size
    BY ResumeOffsetIsNat
  <1>3. cue \in Nat /\ cue < size
    BY DEF Layouts
  <1>4. /\ pl.front = sides.front /\ pl.offset = offset /\ pl.head = head
        /\ pl.tailOffset = tail.tailOffset /\ pl.tail = tail.tail
    BY DEF planWarm
  <1>5. head \in Nat
    BY <1>1, <1>2 DEF Lesser
  <1>0. ~(pl.front <= cue /\ cue < pl.offset)
    OBVIOUS
  <1> HIDE DEF hp, offset, head, pl
  <1>6. sides.front \in Int
    BY <1>2, DialsAssumption DEF inspectRanges, Lesser, Layouts, NoLayout
  <1>7. CASE cue < sides.front
    BY <1>3, <1>4, <1>6, <1>7 DEF PlanBytes, FrontBytes, RangeBytes
  <1>8. CASE sides.front <= cue /\ cue < offset + head
    <2>1. offset <= cue
      BY <1>0, <1>2, <1>3, <1>4, <1>8
    <2>2. QED
      BY <1>2, <1>3, <1>4, <1>5, <1>8, <2>1 DEF PlanBytes, ContentBytes, RangeBytes
  <1>9. CASE sides.front <= cue /\ offset + head <= cue
    <2>1. sides.tailOffset = cue /\ sides.tail = Lesser(size - cue, maxTailBytes)
      BY <1>3, <1>9 DEF inspectRanges
    <2>2. sides.tail \in Nat /\ sides.tail > 0
      BY <1>3, <2>1, DialsAssumption DEF Lesser
    <2>3. tail = sides
      BY <1>2, <1>3, <1>5, <1>9, <2>1 DEF clampTailToContent
    <2>4. pl.tailOffset = cue /\ pl.tail \in Nat /\ pl.tail > 0
      BY <1>4, <2>1, <2>2, <2>3
    <2>5. QED
      BY <1>3, <2>4 DEF PlanBytes, CueBytes, RangeBytes
  <1>10. QED
    BY <1>2, <1>3, <1>5, <1>6, <1>7, <1>8, <1>9

\* A head short of target_seconds of playback is one the byte clamp cut.
LEMMA HeadCoversTarget ==
    ASSUME NEW it, IsItem(it), NEW secs \in Nat, ~PlanHead(secs, it).Truncated
    PROVE  (secs * bps(it)) \div 8 <= PlanHead(secs, it).Bytes
  <1> DEFINE want == (secs * bps(it)) \div 8
  <1>1. secs * bps(it) \in Int
    BY BitrateIsInt
  <1>2. want \in Int
    BY <1>1
  <1>3. PlanHead(secs, it) = [Bytes     |-> Lesser(Greater(want, MinHeadBytes), MaxHeadBytes),
                              Truncated |-> want > MaxHeadBytes]
    BY DEF PlanHead
  <1> HIDE DEF want
  <1>4. PlanHead(secs, it).Bytes = Lesser(Greater(want, MinHeadBytes), MaxHeadBytes)
    BY <1>3
  <1>5. ~(want > MaxHeadBytes)
    <2> SUFFICES ASSUME want > MaxHeadBytes PROVE FALSE
      OBVIOUS
    <2>1. (want > MaxHeadBytes) = TRUE
      OBVIOUS
    <2>2. PlanHead(secs, it) = [Bytes     |-> Lesser(Greater(want, MinHeadBytes), MaxHeadBytes),
                                Truncated |-> TRUE]
      BY <1>3, <2>1, Zenon
    <2>3. PlanHead(secs, it).Truncated = TRUE
      BY <2>2
    <2>4. QED
      BY <2>3, Zenon
  <1>6. want <= PlanHead(secs, it).Bytes
    BY <1>2, <1>4, <1>5, DialsAssumption DEF Lesser, Greater
  <1>7. QED
    BY <1>6 DEF want

\* Asking for no playback at all yields the floor, which no other request
\* undercuts: a pool-resident head is never longer than an array-resident one.
LEMMA FloorIsLeast ==
    ASSUME NEW it, IsItem(it), NEW secs \in Nat
    PROVE  PlanHead(0, it).Bytes <= PlanHead(secs, it).Bytes
  <1>1. (0 * bps(it)) \div 8 = 0
    BY BitrateIsInt
  <1>2. PlanHead(0, it).Bytes = Lesser(Greater(0, MinHeadBytes), MaxHeadBytes)
    BY <1>1 DEF PlanHead
  <1>3. PlanHead(0, it).Bytes = MinHeadBytes
    BY <1>2, DialsAssumption DEF Lesser, Greater
  <1>4. QED
    BY <1>3, HeadBetweenDials, DialsAssumption

\* Without an inspected layout a target costs at most its head and the flat tail.
LEMMA FlatCost ==
    ASSUME NEW t, IsItem(t.Item), NEW size \in Nat,
           NEW layout \in Layouts(size), NEW pooled \in BOOLEAN,
           ~seeking(t) \/ layout = NoLayout
    PROVE  cost(planWarm(t, size, layout, pooled))
               <= PlanHead(TargetSeconds, t.Item).Bytes + TailBytes
  <1> DEFINE hp     == PlanHead(IF pooled THEN 0 ELSE TargetSeconds, t.Item)
             asked  == IF seeking(t) THEN resumeOffsetBytes(t.Item) ELSE 0
             offset == IF asked >= size THEN 0 ELSE asked
             head   == Lesser(hp.Bytes, size - offset)
             sides  == IF TailBytes > 0 THEN flatTail(size) ELSE noTail
             tail   == clampTailToContent(sides, offset + head)
             pl     == planWarm(t, size, layout, pooled)
  <1>1. hp.Bytes \in Nat /\ hp.Bytes <= PlanHead(TargetSeconds, t.Item).Bytes
    BY HeadBetweenDials, FloorIsLeast, DialsAssumption
  <1>2. PlanHead(TargetSeconds, t.Item).Bytes \in Nat
    BY HeadBetweenDials, DialsAssumption
  <1>3. offset \in Nat /\ offset <= size
    BY ResumeOffsetIsNat
  <1>4. pl.front = sides.front /\ pl.head = head /\ pl.tail = tail.tail
    BY DEF planWarm, flatTail, noTail, clampTailToContent
  <1> HIDE DEF hp, asked, offset, pl
  <1>5. head \in Nat /\ head <= hp.Bytes /\ offset + head <= size
    BY <1>1, <1>3 DEF Lesser
  <1> HIDE DEF head
  <1>6. SidesSane(sides, size, offset) /\ sides.front = 0 /\ sides.tail <= TailBytes
    BY <1>3, FlatSidesSane, DialsAssumption DEF flatTail, noTail, Greater
  <1> HIDE DEF sides
  <1>7. tail.tail \in Nat /\ tail.tail <= sides.tail /\ sides.tail \in Nat
    BY <1>3, <1>5, <1>6, ClampKeepsTailOutside DEF SidesSane
  <1> HIDE DEF tail
  <1>8. cost(pl) <= PlanHead(TargetSeconds, t.Item).Bytes + TailBytes
    BY <1>1, <1>2, <1>4, <1>5, <1>6, <1>7, DialsAssumption DEF cost
  <1>9. QED
    BY <1>8 DEF pl

-----------------------------------------------------------------------------
(***************************************************************************)
(* The call planWarm gets, and the properties of its answer.               *)
(***************************************************************************)
ItemType == [BitrateBps : Int, SizeBytes : Nat, Runtime : Nat, ResumeOffset : Int]

RequestType ==
    [target : [Item : ItemType, Tier : {"resume", "other"}], size : Nat, front : FrontType,
     layout : [FrontEnd : Int, CueStart : Int], pooled : BOOLEAN, planned : BOOLEAN]

\* The request is one Init can build, and a made plan is planWarm's answer to it.
IInv ==
    /\ request \in RequestType
    /\ request.layout \in Layouts(request.size)
    /\ request.layout = Inspect(request.front, request.size)
    /\ plan = IF request.planned
              THEN planWarm(request.target, request.size, request.layout, request.pooled)
              ELSE NoPlan

-----------------------------------------------------------------------------
(***************************************************************************)
(* The two loops of Inspect.  Inside a SeekHead, curID is the value of the *)
(* last SeekID when that is whole and only other elements followed it, and *)
(* the position recorded for Cues is that of the first sound entry.  The   *)
(* walk keeps what the first SeekHead that recorded anything told.         *)
(***************************************************************************)
Seeks      == UNION {[D -> Int] : D \in SUBSET Int}
SeekStates == [curID : Int, seek : Seeks]
Walks      == [firstCluster : {-1} \cup 1 .. (frontReadCap - 1), seek : Seeks]

\* The SeekID at i is whole and waits for a position after k elements.
Waits(elements, i, k) ==
    /\ elements[i].id = "SeekID" /\ elements[i].fits /\ elements[i].value >= 0
    /\ \A j \in (i + 1) .. k : elements[j].id = "other"

\* The position at p is Cues'.
Tells(elements, p) ==
    /\ elements[p].id = "SeekPosition" /\ elements[p].fits
    /\ \E i \in 1 .. (p - 1) : Waits(elements, i, p - 1) /\ elements[i].value = idCues

\* What the loop knows after k elements.
CurIDIs(st, elements, k) ==
    /\ \A i \in 1 .. k : Waits(elements, i, k) => st.curID = elements[i].value
    /\ st.curID >= 0 => \E i \in 1 .. k : Waits(elements, i, k) /\ st.curID = elements[i].value

CuesAre(st, elements, k) ==
    /\ idCues \in DOMAIN st.seek =>
         \E p \in 1 .. k : /\ Tells(elements, p) /\ st.seek[idCues] = elements[p].value
                           /\ \A q \in 1 .. k : Tells(elements, q) => p <= q
    /\ idCues \notin DOMAIN st.seek => \A p \in 1 .. k : ~Tells(elements, p)

Recorded(seek, id, value) ==
    [v \in DOMAIN seek \cup {id} |-> IF v \in DOMAIN seek THEN seek[v] ELSE value]

LEMMA OnePositionMore ==
  ASSUME NEW seek \in Seeks, NEW id \in Int, NEW value \in Int
  PROVE  /\ Recorded(seek, id, value) \in Seeks
         /\ DOMAIN Recorded(seek, id, value) = DOMAIN seek \cup {id}
         /\ id \notin DOMAIN seek => Recorded(seek, id, value)[id] = value
         /\ \A v \in DOMAIN seek : Recorded(seek, id, value)[v] = seek[v]
  <1> DEFINE D == DOMAIN seek \cup {id}
             g == Recorded(seek, id, value)
  <1>1. DOMAIN seek \in SUBSET Int /\ \A v \in DOMAIN seek : seek[v] \in Int
    BY DEF Seeks
  <1>2. g \in [D -> Int] /\ D \in SUBSET Int
    BY <1>1 DEF Recorded
  <1>3. g \in Seeks
    <2> HIDE DEF g
    <2>1. QED
      BY <1>2 DEF Seeks
  <1>4. QED
    BY <1>3 DEF Recorded

LEMMA ElementTyped ==
  ASSUME NEW st \in SeekStates, NEW e \in SeekElements
  PROVE  SeekElement(st, e) \in SeekStates
  <1>1. CASE e.id = "SeekID"
    BY <1>1 DEF SeekElement, SeekID, SeekStates, SeekElements
  <1>2. CASE e.id = "SeekPosition"
    <2>1. SeekElement(st, e) = SeekPosition(st, e)
      BY <1>2 DEF SeekElement
    <2>2. CASE e.fits /\ ~(st.curID < 0)
      <3>1. Recorded(st.seek, st.curID, e.value) \in Seeks
        BY OnePositionMore DEF SeekStates, SeekElements
      <3>2. QED
        BY <2>1, <2>2, <3>1 DEF SeekPosition, SeekStates, Recorded
    <2>3. CASE ~(e.fits /\ ~(st.curID < 0))
      BY <2>1, <2>3 DEF SeekPosition, SeekStates
    <2>4. QED
      BY <2>2, <2>3
  <1>3. CASE e.id = "other"
    BY <1>3 DEF SeekElement
  <1>4. QED
    BY <1>1, <1>2, <1>3 DEF SeekElements

\* One element more: what waits, and which position is Cues'.
LEMMA OneElementMore ==
  ASSUME NEW elements \in Seq(SeekElements), NEW k \in 0 .. (Len(elements) - 1),
         NEW st \in SeekStates, CurIDIs(st, elements, k), CuesAre(st, elements, k)
  PROVE  /\ CurIDIs(SeekElement(st, elements[k + 1]), elements, k + 1)
         /\ CuesAre(SeekElement(st, elements[k + 1]), elements, k + 1)
  <1> DEFINE e   == elements[k + 1]
             new == SeekElement(st, e)
  <1>1. /\ k \in Nat /\ k + 1 \in 1 .. Len(elements) /\ e \in SeekElements
        /\ (k + 1) - 1 = k /\ st.curID \in Int
        /\ \A i \in 1 .. k : elements[i] \in SeekElements
    BY DEF SeekStates
  <1>2. ASSUME NEW i \in 1 .. k
        PROVE  Waits(elements, i, k + 1) <=> Waits(elements, i, k) /\ e.id = "other"
    <2>1. k + 1 \in (i + 1) .. (k + 1) /\ (i + 1) .. k \subseteq (i + 1) .. (k + 1)
      BY <1>1
    <2>2. \A j \in (i + 1) .. (k + 1) : j = k + 1 \/ j \in (i + 1) .. k
      BY <1>1
    <2>3. QED
      BY <2>1, <2>2 DEF Waits
  <1>3. Waits(elements, k + 1, k + 1) <=> e.id = "SeekID" /\ e.fits /\ e.value >= 0
    <2>1. ((k + 1) + 1) .. (k + 1) = {}
      BY <1>1
    <2>2. QED
      BY <2>1 DEF Waits
  <1>4. \A i \in 1 .. (k + 1) : i = k + 1 \/ i \in 1 .. k
    BY <1>1
  <1>5. 1 .. k \subseteq 1 .. (k + 1) /\ k + 1 \in 1 .. (k + 1)
    BY <1>1
  <1>6. Tells(elements, k + 1) <=> e.id = "SeekPosition" /\ e.fits /\ st.curID = idCues
    <2>1. (\E i \in 1 .. k : Waits(elements, i, k) /\ elements[i].value = idCues)
            <=> st.curID = idCues
      <3>1. idCues >= 0
        BY DEF idCues
      <3>2. QED
        BY <3>1 DEF CurIDIs
    <2>2. QED
      BY <1>1, <2>1 DEF Tells
  <1>7. CASE e.id = "SeekID"
    <2>1. new = [st EXCEPT !.curID = IF e.fits THEN e.value ELSE -1]
      BY <1>7 DEF SeekElement, SeekID
    <2>2. new.seek = st.seek /\ new.curID = IF e.fits THEN e.value ELSE -1
      BY <2>1 DEF SeekStates
    <2> HIDE DEF new
    <2>3. CurIDIs(new, elements, k + 1)
      <3>1. \A i \in 1 .. k : ~Waits(elements, i, k + 1)
        BY <1>2, <1>7
      <3>2. Waits(elements, k + 1, k + 1) => new.curID = elements[k + 1].value
        BY <1>3, <2>2
      <3>3. new.curID >= 0 => Waits(elements, k + 1, k + 1) /\ new.curID = elements[k + 1].value
        BY <1>3, <1>7, <2>2
      <3>4. QED
        BY <1>4, <1>5, <3>1, <3>2, <3>3 DEF CurIDIs
    <2>4. ~Tells(elements, k + 1)
      BY <1>6, <1>7
    <2>5. CuesAre(new, elements, k + 1)
      BY <1>4, <1>5, <2>2, <2>4 DEF CuesAre
    <2>6. QED
      BY <2>3, <2>5 DEF new
  <1>8. CASE e.id = "other"
    <2>1. new = st
      BY <1>8 DEF SeekElement
    <2>2. CurIDIs(st, elements, k + 1)
      <3>1. ~Waits(elements, k + 1, k + 1)
        BY <1>3, <1>8
      <3>2. \A i \in 1 .. k : Waits(elements, i, k + 1) <=> Waits(elements, i, k)
        BY <1>2, <1>8
      <3>3. QED
        BY <1>4, <1>5, <3>1, <3>2 DEF CurIDIs
    <2>3. ~Tells(elements, k + 1)
      BY <1>6, <1>8
    <2>4. CuesAre(st, elements, k + 1)
      BY <1>4, <1>5, <2>3 DEF CuesAre
    <2>5. QED
      BY <2>1, <2>2, <2>4
  <1>9. CASE e.id = "SeekPosition"
    <2>1. new = SeekPosition(st, e)
      BY <1>9 DEF SeekElement
    <2> HIDE DEF new
    <2>2. \A i \in 1 .. (k + 1) : ~Waits(elements, i, k + 1)
      BY <1>2, <1>3, <1>4, <1>9
    <2>3. CASE st.curID < 0
      <3>1. new = st
        BY <2>1, <2>3 DEF SeekPosition
      <3>2. CurIDIs(st, elements, k + 1)
        BY <1>1, <2>2, <2>3 DEF CurIDIs
      <3>3. ~Tells(elements, k + 1)
        BY <1>6, <2>3 DEF idCues
      <3>4. CuesAre(st, elements, k + 1)
        BY <1>4, <1>5, <3>3 DEF CuesAre
      <3>5. QED
        BY <3>1, <3>2, <3>4 DEF new
    <2>4. CASE ~(st.curID < 0)
      <3> DEFINE more == Recorded(st.seek, st.curID, e.value)
      <3>1. new.curID = -1 /\ new.seek = IF e.fits THEN more ELSE st.seek
        BY <2>1, <2>4 DEF SeekPosition, Recorded
      <3>2. CurIDIs(new, elements, k + 1)
        BY <2>2, <3>1 DEF CurIDIs
      <3>3. /\ DOMAIN more = DOMAIN st.seek \cup {st.curID}
            /\ st.curID \notin DOMAIN st.seek => more[st.curID] = e.value
            /\ \A v \in DOMAIN st.seek : more[v] = st.seek[v]
        <4>1. st.seek \in Seeks /\ e.value \in Int
          BY <1>1 DEF SeekStates, SeekElements
        <4>2. QED
          BY <1>1, <4>1, OnePositionMore
      <3>4. CASE e.fits /\ st.curID = idCues /\ idCues \notin DOMAIN st.seek
        <4>1. idCues \in DOMAIN new.seek /\ new.seek[idCues] = e.value
          <5> HIDE DEF more
          <5>1. QED
            BY <3>1, <3>3, <3>4
        <4>2. \A p \in 1 .. k : ~Tells(elements, p)
          BY <3>4 DEF CuesAre
        <4>3. Tells(elements, k + 1)
          BY <1>6, <1>9, <3>4
        <4>4. \A q \in 1 .. (k + 1) : Tells(elements, q) => k + 1 <= q
          BY <1>1, <1>4, <4>2
        <4>5. QED
          BY <1>5, <3>2, <4>1, <4>3, <4>4 DEF CuesAre, new
      <3>5. CASE ~(e.fits /\ st.curID = idCues /\ idCues \notin DOMAIN st.seek)
        <4>1. /\ idCues \in DOMAIN new.seek <=> idCues \in DOMAIN st.seek
              /\ idCues \in DOMAIN st.seek => new.seek[idCues] = st.seek[idCues]
          <5> HIDE DEF more
          <5>1. QED
            BY <3>1, <3>3, <3>5
        <4>2. CASE idCues \in DOMAIN st.seek
          <5>1. PICK p \in 1 .. k : /\ Tells(elements, p) /\ st.seek[idCues] = elements[p].value
                                    /\ \A q \in 1 .. k : Tells(elements, q) => p <= q
            BY <4>2 DEF CuesAre
          <5>2. p \in 1 .. (k + 1) /\ p <= k + 1
            BY <1>1
          <5>3. \A q \in 1 .. (k + 1) : Tells(elements, q) => p <= q
            BY <1>4, <5>1, <5>2
          <5>4. CuesAre(new, elements, k + 1)
            BY <4>1, <4>2, <5>1, <5>2, <5>3 DEF CuesAre
          <5>5. QED
            BY <3>2, <5>4 DEF new
        <4>3. CASE idCues \notin DOMAIN st.seek
          <5>1. ~Tells(elements, k + 1)
            BY <1>6, <3>5, <4>3
          <5>2. \A p \in 1 .. k : ~Tells(elements, p)
            BY <4>3 DEF CuesAre
          <5>3. CuesAre(new, elements, k + 1)
            BY <1>4, <4>1, <4>3, <5>1, <5>2 DEF CuesAre
          <5>4. QED
            BY <3>2, <5>3 DEF new
        <4>4. QED
          BY <4>2, <4>3
      <3>6. QED
        BY <3>4, <3>5
    <2>5. QED
      BY <2>3, <2>4
  <1>10. QED
    BY <1>1, <1>7, <1>8, <1>9 DEF SeekElements

LEMMA SoundTells ==
  ASSUME NEW elements \in Seq(SeekElements), NEW p \in DOMAIN elements
  PROVE  p \in Sound(elements) <=> Tells(elements, p)
  <1>1. p \in Nat /\ DOMAIN elements = 1 .. Len(elements) /\ Len(elements) \in Nat
        /\ p \in 1 .. Len(elements)
    OBVIOUS
  <1>2. \A i \in DOMAIN elements : i < p <=> i \in 1 .. (p - 1)
    BY <1>1
  <1>3. 1 .. (p - 1) \subseteq DOMAIN elements
    BY <1>1
  <1>4. ASSUME NEW i \in 1 .. (p - 1)
        PROVE  \A j : (j \in DOMAIN elements /\ i < j /\ j < p) <=> j \in (i + 1) .. (p - 1)
    BY <1>1
  <1>5. idCues >= 0
    BY DEF idCues
  <1>6. ASSUME NEW i \in 1 .. (p - 1), elements[i].value = idCues
        PROVE  Waits(elements, i, p - 1)
                 <=> /\ elements[i].id = "SeekID" /\ elements[i].fits
                     /\ \A j \in DOMAIN elements : i < j /\ j < p => elements[j].id = "other"
    BY <1>4, <1>5, <1>6 DEF Waits
  <1>7. QED
    BY <1>2, <1>3, <1>6 DEF Sound, Tells

\* parseSeekHead records for Cues what the first sound entry tells, if there is one.
LEMMA SeekHeadTold ==
  ASSUME NEW elements \in Seq(SeekElements)
  PROVE  /\ parseSeekHead(elements) \in Seeks
         /\ idCues \in DOMAIN parseSeekHead(elements) =>
              \E p \in Sound(elements) : /\ parseSeekHead(elements)[idCues] = elements[p].value
                                         /\ \A q \in Sound(elements) : p <= q
         /\ Sound(elements) # {} => idCues \in DOMAIN parseSeekHead(elements)
<1>. DEFINE base == [curID |-> -1, seek |-> <<>>]
            step == [p \in SeekStates \X SeekElements |-> SeekElement(p[1], p[2])]
            Solves(iter) == iter = [S \in SUBSET DOMAIN elements |->
                                      IF S = {} THEN base
                                      ELSE SeekElement(iter[S \ {Max(S)}], elements[Max(S)])]
            it == CHOOSE iter : Solves(iter)
            n  == Len(elements)
<1>0. n \in Nat /\ DOMAIN elements = 1 .. n
  OBVIOUS
<1>1. FoldLeft(SeekElement, base, elements) = it[DOMAIN elements]
  BY DEF FoldLeft, MapThenFoldSet
<1>2. /\ step \in [SeekStates \X SeekElements -> SeekStates]
      /\ \A st \in SeekStates, e \in SeekElements : step[<<st, e>>] = SeekElement(st, e)
  BY ElementTyped
<1>3. base \in SeekStates
  <2>1. <<>> \in [{} -> Int]
    OBVIOUS
  <2>2. <<>> \in Seeks
    BY <2>1 DEF Seeks
  <2>. QED
    BY <2>2 DEF SeekStates
<1>. HIDE DEF step
<1>4. Solves(it)
  <2>1. PICK iter : /\ Iterates(iter, base, step, elements)
                    /\ Stays(iter, SeekStates, SeekElements, elements)
    <3>. HIDE DEF base
    <3>. QED
      BY <1>2, <1>3, LoopRuns
  <2>2. Solves(iter)
    <3>. HIDE DEF base
    <3>. QED
      BY <1>2, <2>1 DEF Iterates, Stays
  <2>. QED
    BY <2>2
<1>. HIDE DEF it
<1>5. Follows(it, SeekStates, step, elements)
  <2>. SUFFICES ASSUME NEW k \in 1 .. n, it[1 .. (k - 1)] \in SeekStates
                PROVE  it[1 .. k] = step[<<it[1 .. (k - 1)], elements[k]>>]
    BY DEF Follows
  <2>1. /\ Max(1 .. k) = k /\ (1 .. k) \ {k} = 1 .. (k - 1)
        /\ 1 .. k # {} /\ 1 .. k \in SUBSET DOMAIN elements
    BY Beginning
  <2>2. it[1 .. k] = SeekElement(it[1 .. (k - 1)], elements[k])
    BY <1>4, <2>1
  <2>3. elements[k] \in SeekElements
    OBVIOUS
  <2>. HIDE DEF Solves
  <2>. QED
    BY <1>2, <2>2, <2>3
<1>6. it[{}] = base
  BY <1>4
<1>. HIDE DEF Solves
<1>7. Runs(Along(it, elements), SeekStates, base, step, elements)
  <2>. HIDE DEF base
  <2>. QED
    BY <1>2, <1>3, <1>5, <1>6, LoopValues
<1>. DEFINE run == Along(it, elements)
            P   == {k \in 0 .. n : CurIDIs(run[k], elements, k) /\ CuesAre(run[k], elements, k)}
<1>8. /\ run \in [0 .. n -> SeekStates] /\ run[0] = base
      /\ \A k \in 1 .. n : run[k] = step[<<run[k - 1], elements[k]>>]
  BY <1>7 DEF Runs
<1>9. run[n] = FoldLeft(SeekElement, base, elements)
  BY <1>0, <1>1 DEF Along
<1>. HIDE DEF run
<1>10. 0 \in P
  <2>1. run[0].curID = -1 /\ DOMAIN run[0].seek = {}
    BY <1>8
  <2>2. 1 .. 0 = {}
    OBVIOUS
  <2>. QED
    BY <1>0, <2>1, <2>2 DEF CurIDIs, CuesAre
<1>11. \A k \in 0 .. (n - 1) : k \in P => k + 1 \in P
  <2>. SUFFICES ASSUME NEW k \in 0 .. (n - 1), k \in P PROVE k + 1 \in P
    OBVIOUS
  <2>1. k \in 0 .. n /\ k + 1 \in 1 .. n /\ (k + 1) - 1 = k /\ elements[k + 1] \in SeekElements
    BY <1>0
  <2>2. run[k] \in SeekStates
    BY <1>8, <2>1
  <2>3. run[k + 1] = SeekElement(run[k], elements[k + 1])
    BY <1>2, <1>8, <2>1, <2>2
  <2>4. CurIDIs(run[k + 1], elements, k + 1) /\ CuesAre(run[k + 1], elements, k + 1)
    BY <2>2, <2>3, OneElementMore
  <2>. QED
    BY <2>1, <2>4
<1>12. n \in P
  <2>. HIDE DEF P, n
  <2>. QED
    BY <1>0, <1>10, <1>11, UpTo
<1>13. run[n] \in SeekStates /\ CuesAre(run[n], elements, n)
  BY <1>0, <1>8, <1>12
<1>14. parseSeekHead(elements) = run[n].seek
  BY <1>9 DEF parseSeekHead
<1>15. \A p \in 1 .. n : p \in Sound(elements) <=> Tells(elements, p)
  BY <1>0, SoundTells
<1>16. Sound(elements) \subseteq 1 .. n
  BY <1>0 DEF Sound
<1>. HIDE DEF n
<1>17. run[n].seek \in Seeks
  BY <1>13 DEF SeekStates
<1>. QED
  BY <1>13, <1>14, <1>15, <1>16, <1>17 DEF CuesAre

\* What the walk knows after k children.
WalkIs(w, children, k) ==
    /\ idCues \in DOMAIN w.seek =>
         \E i \in 1 .. k : \E n \in Sound(children[i].seeks) :
            w.seek[idCues] = children[i].seeks[n].value
    /\ (k > 0 /\ children[1].id = "SeekHead") =>
         \A n \in Sound(children[1].seeks) :
            (\A q \in Sound(children[1].seeks) : n <= q) =>
               idCues \in DOMAIN w.seek /\ w.seek[idCues] = children[1].seeks[n].value

LEMMA ChildTyped ==
  ASSUME NEW w \in Walks, NEW c \in Children
  PROVE  SegmentChild(w, c) \in Walks
  <1>1. parseSeekHead(c.seeks) \in Seeks
    BY SeekHeadTold DEF Children
  <1>2. c.at \in 1 .. (frontReadCap - 1)
    BY DEF Children
  <1>3. QED
    BY <1>1, <1>2 DEF SegmentChild, Walks

\* The first child can only be met before anything has been recorded.
LEMMA OneChildMore ==
  ASSUME NEW children \in Seq(Children), NEW k \in 0 .. (Len(children) - 1),
         NEW w \in Walks, WalkIs(w, children, k),
         k = 0 => w.firstCluster < 0 /\ DOMAIN w.seek = {}
  PROVE  WalkIs(SegmentChild(w, children[k + 1]), children, k + 1)
  <1> DEFINE c   == children[k + 1]
             new == SegmentChild(w, c)
  <1>1. k \in Nat /\ c \in Children /\ k + 1 \in 1 .. (k + 1) /\ 1 .. k \subseteq 1 .. (k + 1)
    OBVIOUS
  <1>2. c.seeks \in Seq(SeekElements)
    BY <1>1 DEF Children
  <1>3. CASE w.firstCluster < 0 /\ c.id = "SeekHead" /\ DOMAIN w.seek = {}
    <2>1. new.seek = parseSeekHead(c.seeks)
      BY <1>3 DEF SegmentChild
    <2> HIDE DEF new
    <2>2. idCues \in DOMAIN new.seek =>
            \E n \in Sound(c.seeks) : new.seek[idCues] = c.seeks[n].value
      BY <1>2, <2>1, SeekHeadTold
    <2>3. ASSUME children[1].id = "SeekHead", NEW n \in Sound(children[1].seeks),
                 \A q \in Sound(children[1].seeks) : n <= q
          PROVE  idCues \in DOMAIN new.seek /\ new.seek[idCues] = children[1].seeks[n].value
      <3>1. CASE k = 0
        <4>1. c = children[1]
          BY <3>1
        <4>2. idCues \in DOMAIN new.seek
          BY <1>2, <2>1, <2>3, <4>1, SeekHeadTold
        <4>3. PICK p \in Sound(c.seeks) : /\ new.seek[idCues] = c.seeks[p].value
                                          /\ \A q \in Sound(c.seeks) : p <= q
          BY <1>2, <2>1, <4>2, SeekHeadTold
        <4>4. p = n
          <5>1. p <= n /\ n <= p
            BY <2>3, <4>1, <4>3
          <5>2. p \in Nat /\ n \in Nat
            BY <1>2, <2>3, <4>1 DEF Sound
          <5>3. QED
            BY <5>1, <5>2
        <4>5. QED
          BY <4>1, <4>2, <4>3, <4>4
      <3>2. CASE k # 0
        <4>1. idCues \in DOMAIN w.seek
          BY <1>1, <2>3, <3>2 DEF WalkIs
        <4>2. QED
          BY <1>3, <4>1
      <3>3. QED
        BY <3>1, <3>2
    <2>4. QED
      BY <1>1, <2>2, <2>3 DEF WalkIs, new
  <1>4. CASE ~(w.firstCluster < 0 /\ c.id = "SeekHead" /\ DOMAIN w.seek = {})
    <2>1. new.seek = w.seek
      BY <1>4 DEF SegmentChild
    <2> HIDE DEF new
    <2>2. k = 0 => children[1].id # "SeekHead"
      BY <1>4
    <2>3. QED
      BY <1>1, <2>1, <2>2 DEF WalkIs, new
  <1>5. QED
    BY <1>3, <1>4

LEMMA WalkTold ==
  ASSUME NEW children \in Seq(Children)
  PROVE  LET w    == Walk(children)
             seen == SubSeq(children, 1, Lesser(Len(children), MaxChildren))
         IN  w \in Walks /\ WalkIs(w, seen, Len(seen))
<1>. DEFINE seen == SubSeq(children, 1, Lesser(Len(children), MaxChildren))
            base == [firstCluster |-> -1, seek |-> <<>>]
            step == [p \in Walks \X Children |-> SegmentChild(p[1], p[2])]
            Solves(iter) == iter = [S \in SUBSET DOMAIN seen |->
                                      IF S = {} THEN base
                                      ELSE SegmentChild(iter[S \ {Max(S)}], seen[Max(S)])]
            it == CHOOSE iter : Solves(iter)
            n  == Len(seen)
<1>0. seen \in Seq(Children)
  <2>1. Lesser(Len(children), MaxChildren) \in Int
    BY MaxChildrenAssumption DEF Lesser
  <2>2. Lesser(Len(children), MaxChildren) <= Len(children)
    BY MaxChildrenAssumption DEF Lesser
  <2>. QED
    BY <2>1, <2>2
<1>1. Walk(children) = it[DOMAIN seen]
  BY DEF Walk, FoldLeft, MapThenFoldSet
<1>. HIDE DEF seen
<1>2. n \in Nat /\ DOMAIN seen = 1 .. n
  BY <1>0
<1>3. /\ step \in [Walks \X Children -> Walks]
      /\ \A w \in Walks, c \in Children : step[<<w, c>>] = SegmentChild(w, c)
  BY ChildTyped
<1>4. base \in Walks
  <2>1. <<>> \in [{} -> Int]
    OBVIOUS
  <2>2. <<>> \in Seeks
    BY <2>1 DEF Seeks
  <2>. QED
    BY <2>2 DEF Walks
<1>. HIDE DEF step
<1>5. Solves(it)
  <2>1. PICK iter : Iterates(iter, base, step, seen) /\ Stays(iter, Walks, Children, seen)
    <3>. HIDE DEF base
    <3>. QED
      BY <1>0, <1>3, <1>4, LoopRuns
  <2>2. Solves(iter)
    <3>. HIDE DEF base
    <3>. QED
      BY <1>3, <2>1 DEF Iterates, Stays
  <2>. QED
    BY <2>2
<1>. HIDE DEF it
<1>6. Follows(it, Walks, step, seen)
  <2>. SUFFICES ASSUME NEW k \in 1 .. n, it[1 .. (k - 1)] \in Walks
                PROVE  it[1 .. k] = step[<<it[1 .. (k - 1)], seen[k]>>]
    BY DEF Follows
  <2>1. /\ Max(1 .. k) = k /\ (1 .. k) \ {k} = 1 .. (k - 1)
        /\ 1 .. k # {} /\ 1 .. k \in SUBSET DOMAIN seen
    BY <1>2, Beginning
  <2>2. it[1 .. k] = SegmentChild(it[1 .. (k - 1)], seen[k])
    BY <1>5, <2>1
  <2>3. seen[k] \in Children
    BY <1>0
  <2>. HIDE DEF Solves
  <2>. QED
    BY <1>3, <2>2, <2>3
<1>7. it[{}] = base
  BY <1>5
<1>. HIDE DEF Solves
<1>8. Runs(Along(it, seen), Walks, base, step, seen)
  <2>. HIDE DEF base
  <2>. QED
    BY <1>0, <1>3, <1>4, <1>6, <1>7, LoopValues
<1>. DEFINE run == Along(it, seen)
            P   == {k \in 0 .. n : WalkIs(run[k], seen, k)}
<1>9. /\ run \in [0 .. n -> Walks] /\ run[0] = base
      /\ \A k \in 1 .. n : run[k] = step[<<run[k - 1], seen[k]>>]
  BY <1>8 DEF Runs
<1>10. run[n] = Walk(children)
  BY <1>1, <1>2 DEF Along
<1>. HIDE DEF run
<1>11. run[0].firstCluster < 0 /\ DOMAIN run[0].seek = {}
  BY <1>9
<1>12. 0 \in P
  BY <1>2, <1>11 DEF WalkIs
<1>13. \A k \in 0 .. (n - 1) : k \in P => k + 1 \in P
  <2>. SUFFICES ASSUME NEW k \in 0 .. (n - 1), k \in P PROVE k + 1 \in P
    OBVIOUS
  <2>1. k \in 0 .. n /\ k + 1 \in 1 .. n /\ (k + 1) - 1 = k /\ seen[k + 1] \in Children
    BY <1>0, <1>2
  <2>2. run[k] \in Walks
    BY <1>9, <2>1
  <2>3. run[k + 1] = SegmentChild(run[k], seen[k + 1])
    BY <1>3, <1>9, <2>1, <2>2
  <2>4. WalkIs(run[k + 1], seen, k + 1)
    BY <1>0, <1>11, <2>2, <2>3, OneChildMore
  <2>. QED
    BY <2>1, <2>4
<1>14. n \in P
  <2>. HIDE DEF P, n
  <2>. QED
    BY <1>2, <1>12, <1>13, UpTo
<1>15. run[n] \in Walks /\ WalkIs(run[n], seen, n)
  BY <1>2, <1>9, <1>14
<1>. QED
  BY <1>10, <1>15 DEF seen

-----------------------------------------------------------------------------
\* What Inspect returns is one of the layouts planWarm is proved about: the
\* index is in the file and the metadata ends inside the bytes read.
LEMMA InspectReturnsALayout ==
  ASSUME NEW f \in FrontType, NEW size \in Nat
  PROVE  /\ Inspect(f, size) \in Layouts(size)
         /\ Inspect(f, size) \in [FrontEnd : Int, CueStart : Int]
  <1> DEFINE w        == Walk(f.children)
             cueStart == f.data + w.seek[idCues]
             frontEnd == IF w.firstCluster < 0 THEN frontReadCap ELSE w.firstCluster
             end      == Lesser(frontEnd, size)
  <1>1. CASE f.header /\ idCues \in DOMAIN w.seek /\ cueStart \in 0..(size - 1)
    <2>1. Inspect(f, size) = [FrontEnd |-> end, CueStart |-> cueStart]
      BY <1>1 DEF Inspect
    <2>2. frontReadCap \in Nat /\ 1 <= frontReadCap
      BY <1>1, DialsAssumption DEF FrontType
    <2>3. frontEnd \in 1..frontReadCap
      <3>1. w \in Walks
        BY WalkTold DEF FrontType
      <3> HIDE DEF w
      <3>2. QED
        BY <2>2, <3>1 DEF Walks
    <2>4. size >= 1 /\ cueStart \in 0..(size - 1)
      BY <1>1
    <2> HIDE DEF frontEnd, cueStart
    <2>5. end \in 1..frontReadCap /\ end <= size
      BY <2>2, <2>3, <2>4 DEF Lesser
    <2> HIDE DEF end
    <2>6. QED
      BY <2>1, <2>4, <2>5 DEF Layouts
  <1>2. CASE ~(f.header /\ idCues \in DOMAIN w.seek /\ cueStart \in 0..(size - 1))
    <2>1. Inspect(f, size) = NoLayout
      BY <1>2 DEF Inspect
    <2>2. QED
      BY <2>1 DEF Layouts, NoLayout
  <1>3. QED
    BY <1>1, <1>2

\* IInv is inductive: a request is built by Init and answered at most once.
THEOREM PlanIsAnswer == Spec => []IInv
  <1>1. Init => IInv
    <2> SUFFICES ASSUME Init PROVE IInv
      OBVIOUS
    <2>1. PICK it \in Items, size \in Sizes, front \in Fronts,
               tier \in {"resume", "other"}, pooled \in BOOLEAN :
            request = [target |-> [Item |-> it, Tier |-> tier], size |-> size,
                       front |-> front, layout |-> Inspect(front, size),
                       pooled |-> pooled, planned |-> FALSE]
      BY DEF Init
    <2>2. size \in Nat /\ it \in ItemType /\ front \in FrontType
      BY ItemsAssumption DEF ItemType
    <2>3. /\ Inspect(front, size) \in Layouts(size)
          /\ Inspect(front, size) \in [FrontEnd : Int, CueStart : Int]
      BY <2>2, InspectReturnsALayout
    <2>4. /\ request \in RequestType
          /\ request.layout \in Layouts(request.size)
          /\ request.layout = Inspect(request.front, request.size)
      BY <2>1, <2>2, <2>3 DEF RequestType
    <2>5. QED
      BY <2>1, <2>4 DEF Init, IInv
  <1>2. IInv /\ [Next]_vars => IInv'
    <2> SUFFICES ASSUME IInv, [Next]_vars PROVE IInv'
      OBVIOUS
    <2>1. CASE Plan
      BY <2>1 DEF Plan, IInv, RequestType
    <2>2. CASE UNCHANGED vars
      BY <2>2 DEF IInv, vars
    <2>3. QED
      BY <2>1, <2>2 DEF Next
  <1>3. QED
    BY <1>1, <1>2, PTL DEF Spec

LEMMA AnswerSane ==
    IInv => /\ plan \in PlanType
            /\ Sane(plan, request.size)
            /\ cost(plan) <= maxFrontBytes + MaxHeadBytes + Greater(maxTailBytes, TailBytes)
  <1> SUFFICES ASSUME IInv
               PROVE  /\ plan \in PlanType
                      /\ Sane(plan, request.size)
                      /\ cost(plan) <= maxFrontBytes + MaxHeadBytes + Greater(maxTailBytes, TailBytes)
    OBVIOUS
  <1>1. /\ IsItem(request.target.Item)
        /\ request.size \in Nat
        /\ request.layout \in Layouts(request.size)
        /\ request.pooled \in BOOLEAN
    BY DEF IInv, RequestType, ItemType, IsItem
  <1>2. CASE request.planned
    BY <1>1, <1>2, PlanSane DEF IInv
  <1>3. CASE ~request.planned
    <2>1. plan = NoPlan
      BY <1>3 DEF IInv
    <2>2. Greater(maxTailBytes, TailBytes) \in Nat
      BY DialsAssumption DEF Greater
    <2>3. QED
      BY <1>1, <2>1, <2>2, DialsAssumption DEF NoPlan, PlanType, Sane, cost
  <1>4. QED
    BY <1>2, <1>3

\* Every plan is well typed, also for a resume point past the end of the file
\* and for an empty file: no length is ever negative.
THEOREM TypeCorrect == Spec => []TypeOK
  <1>1. IInv => TypeOK
    BY AnswerSane DEF IInv, RequestType, PlanType, TypeOK
  <1>2. QED
    BY <1>1, PlanIsAnswer, PTL

\* planWarm's three ranges never overlap and never leave the file, whatever the
\* bitrate, resume point, container layout and dials.
THEOREM RangesAreDisjoint == Spec => []RangesDisjoint
  <1>1. IInv => RangesDisjoint
    BY AnswerSane DEF Sane, RangesDisjoint
  <1>2. QED
    BY <1>1, PlanIsAnswer, PTL

\* One target's cost is bounded by the safety caps alone.
THEOREM CostIsBounded == Spec => []CostBounded
  <1>1. IInv => CostBounded
    BY AnswerSane DEF CostBounded
  <1>2. QED
    BY <1>1, PlanIsAnswer, PTL

\* The front metadata a player reads on open is always inside the warmed
\* ranges, given that the front read is no longer than the smallest head.
THEOREM FrontMetadataIsCovered == Spec => []FrontMetadataCovered
  <1>1. IInv => FrontMetadataCovered
    <2> SUFFICES ASSUME IInv, request.planned, seeking(request.target),
                        request.layout # NoLayout
                 PROVE  0 .. (request.layout.FrontEnd - 1)
                            \subseteq FrontBytes(plan) \cup ContentBytes(plan)
      BY DEF FrontMetadataCovered
    <2>1. /\ IsItem(request.target.Item)
          /\ request.size \in Nat
          /\ request.layout \in Layouts(request.size)
          /\ request.pooled \in BOOLEAN
      BY DEF IInv, RequestType, ItemType, IsItem
    <2>2. plan = planWarm(request.target, request.size, request.layout, request.pooled)
      BY DEF IInv
    <2>3. QED
      BY <2>1, <2>2, MetadataInFrontOrHead
  <1>2. QED
    BY <1>1, PlanIsAnswer, PTL

\* A resumed item's warm starts at the first byte of its seek index, whatever
\* clamping did to the tail, unless the index lies between the front window and
\* the content window.
THEOREM CueStartIsWarmed == Spec => []CueStartWarmedUnlessBeforeContent
  <1>1. IInv => CueStartWarmedUnlessBeforeContent
    <2> SUFFICES ASSUME IInv, request.planned, seeking(request.target),
                        request.layout # NoLayout, maxTailBytes > 0,
                        ~(/\ plan.front <= request.layout.CueStart
                          /\ request.layout.CueStart < plan.offset)
                 PROVE  request.layout.CueStart \in PlanBytes(plan)
      BY DEF CueStartWarmedUnlessBeforeContent
    <2>1. /\ IsItem(request.target.Item)
          /\ request.size \in Nat
          /\ request.layout \in Layouts(request.size)
          /\ request.pooled \in BOOLEAN
      BY DEF IInv, RequestType, ItemType, IsItem
    <2>2. plan = planWarm(request.target, request.size, request.layout, request.pooled)
      BY DEF IInv
    <2>3. QED
      BY <2>1, <2>2, CueStartInPlan
  <1>2. QED
    BY <1>1, PlanIsAnswer, PTL

\* A warmed head covers target_seconds of playback at the item's bitrate, from
\* where playback starts, unless the file ends or the plan is marked truncated.
THEOREM PlaybackWindowIsCovered == Spec => []PlaybackWindowCovered
  <1>1. IInv => PlaybackWindowCovered
    <2> DEFINE it   == request.target.Item
               from == IF seeking(request.target) /\ resumeOffsetBytes(it) < request.size
                       THEN resumeOffsetBytes(it) ELSE 0
               need == (TargetSeconds * bps(it)) \div 8
               hp   == PlanHead(TargetSeconds, it)
    <2> SUFFICES ASSUME IInv, request.planned, ~request.pooled, ~plan.Truncated,
                        NEW b \in RangeBytes(from, need), b < request.size
                 PROVE  b \in ContentBytes(plan)
      BY DEF PlaybackWindowCovered
    <2>1. IsItem(it) /\ request.size \in Nat
      BY DEF IInv, RequestType, ItemType, IsItem
    <2>2. from \in Nat
      BY <2>1, ResumeOffsetIsNat
    <2>3. plan.offset = from /\ plan.head = Lesser(hp.Bytes, request.size - from)
          /\ plan.Truncated = hp.Truncated
      BY <2>1, <2>2, ResumeOffsetIsNat DEF IInv, planWarm
    <2>4. need <= hp.Bytes /\ hp.Bytes \in Nat
      BY <2>1, <2>3, HeadCoversTarget, HeadBetweenDials, DialsAssumption
    <2>5. need \in Int
      BY <2>1, BitrateIsInt, DialsAssumption
    <2> HIDE DEF it, from, need, hp
    <2>6. QED
      BY <2>1, <2>2, <2>3, <2>4, <2>5 DEF ContentBytes, RangeBytes, Lesser
  <1>2. QED
    BY <1>1, PlanIsAnswer, PTL

\* The budget meter never projects less than a sweep charges, for a target
\* whose container it need not know.
THEOREM MeterErrsHighWithoutCues == Spec => []MeterErrsHighOnFlatTails
  <1>1. IInv => MeterErrsHighOnFlatTails
    <2> SUFFICES ASSUME IInv, request.planned,
                        ~seeking(request.target) \/ request.layout = NoLayout
                 PROVE  cost(plan) <= projectBytes(request.target)
      BY DEF MeterErrsHighOnFlatTails
    <2>1. /\ IsItem(request.target.Item)
          /\ request.size \in Nat
          /\ request.layout \in Layouts(request.size)
          /\ request.pooled \in BOOLEAN
          /\ plan = planWarm(request.target, request.size, request.layout, request.pooled)
      BY DEF IInv, RequestType, ItemType, IsItem
    <2>2. cost(plan) <= PlanHead(TargetSeconds, request.target.Item).Bytes + TailBytes
      BY <2>1, FlatCost
    <2>3. PlanHead(TargetSeconds, request.target.Item).Bytes \in Nat
      BY <2>1, HeadBetweenDials, DialsAssumption
    <2>4. cost(plan) \in Nat
      BY AnswerSane DEF PlanType, cost
    <2>5. QED
      BY <2>2, <2>3, <2>4, DialsAssumption, ItemsAssumption DEF projectBytes
  <1>2. QED
    BY <1>1, PlanIsAnswer, PTL

\* A layout is found only through the position recorded for Cues.
LEMMA LayoutFromWalk ==
  ASSUME NEW f \in FrontType, NEW size \in Nat
  PROVE  LET w  == Walk(f.children)
             at == f.data + w.seek[idCues]
         IN  /\ Inspect(f, size) # NoLayout =>
                  idCues \in DOMAIN w.seek /\ Inspect(f, size).CueStart = at
             /\ (f.header /\ idCues \in DOMAIN w.seek) =>
                  IF at \in 0..(size - 1)
                  THEN Inspect(f, size).CueStart = at ELSE Inspect(f, size) = NoLayout
  BY DEF Inspect

\* However many damaged entries a SeekHead has, and wherever they stand, they
\* cannot move the seek index a sound entry announces, nor make one up.
THEOREM IndexIsFoundAsWritten == Spec => []IndexFoundAsWritten
  <1>1. IInv => IndexFoundAsWritten
    <2> SUFFICES ASSUME IInv PROVE IndexFoundAsWritten
      OBVIOUS
    <2> DEFINE f     == request.front
               size  == request.size
               w     == Walk(f.children)
               m     == Lesser(Len(f.children), MaxChildren)
               seen  == SubSeq(f.children, 1, m)
               seeks == f.children[1].seeks
    <2>1. f \in FrontType /\ size \in Nat /\ request.layout = Inspect(f, size)
      BY DEF IInv, RequestType
    <2>2. f.children \in Seq(Children)
      BY <2>1 DEF FrontType
    <2>3. WalkIs(w, seen, Len(seen))
      BY <2>2, WalkTold
    <2>4. /\ m \in Nat /\ Len(seen) = m /\ m <= Len(f.children)
          /\ \A i \in 1 .. m : seen[i] = f.children[i] /\ i \in DOMAIN f.children
      BY <2>2, MaxChildrenAssumption DEF Lesser
    <2>5. /\ request.layout # NoLayout =>
               idCues \in DOMAIN w.seek /\ request.layout.CueStart = f.data + w.seek[idCues]
          /\ (f.header /\ idCues \in DOMAIN w.seek) =>
               IF f.data + w.seek[idCues] \in 0..(size - 1)
               THEN request.layout.CueStart = f.data + w.seek[idCues]
               ELSE request.layout = NoLayout
      BY <2>1, LayoutFromWalk
    <2> HIDE DEF w, seen
    <2>6. ASSUME f.header, f.children # <<>>, f.children[1].id = "SeekHead", MaxChildren > 0,
                 NEW n \in Sound(seeks), \A k \in Sound(seeks) : n <= k
          PROVE  IF f.data + seeks[n].value \in 0..(size - 1)
                 THEN request.layout.CueStart = f.data + seeks[n].value
                 ELSE request.layout = NoLayout
      <3>1. m > 0
        BY <2>2, <2>6, MaxChildrenAssumption DEF Lesser
      <3> HIDE DEF m
      <3>2. seen[1] = f.children[1]
        BY <2>4, <3>1
      <3>3. idCues \in DOMAIN w.seek /\ w.seek[idCues] = seeks[n].value
        BY <2>3, <2>4, <2>6, <3>1, <3>2 DEF WalkIs
      <3>4. QED
        BY <2>5, <2>6, <3>3
    <2>7. ASSUME request.layout # NoLayout
          PROVE  \E i \in DOMAIN f.children :
                    \E n \in Sound(f.children[i].seeks) :
                       request.layout.CueStart = f.data + f.children[i].seeks[n].value
      <3>1. PICK i \in 1 .. m : \E n \in Sound(seen[i].seeks) : w.seek[idCues] = seen[i].seeks[n].value
        BY <2>3, <2>4, <2>5, <2>7 DEF WalkIs
      <3>2. seen[i] = f.children[i] /\ i \in DOMAIN f.children
        BY <2>4
      <3>3. QED
        BY <2>5, <2>7, <3>1, <3>2
    <2>8. QED
      BY <2>6, <2>7 DEF IndexFoundAsWritten
  <1>2. QED
    BY <1>1, PlanIsAnswer, PTL
=============================================================================
