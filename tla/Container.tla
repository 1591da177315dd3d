----------------------------- MODULE Container -----------------------------
(***************************************************************************)
(* What container.Inspect finds at the front of a Matroska file            *)
(* (internal/container/container.go): where the front metadata ends and    *)
(* where the seek index (Cues) starts.  A front is what readVint makes of  *)
(* the first frontReadCap bytes: whether the EBML and Segment headers are  *)
(* there, where the segment's data starts, its children with their offsets *)
(* and, for a SeekHead, the elements in the order they are met (a Seek     *)
(* master is descended into, so it is none of them).  An element readVint  *)
(* cannot read ends the loop it occurs in, so the sequences end before it. *)
(***************************************************************************)
EXTENDS WarmPlan, SequencesExt

CONSTANT MaxChildren   \* how many children of the Segment are looked at

ASSUME MaxChildrenAssumption == MaxChildren \in Nat

\* fits: the declared size is at most 8 bytes.
SeekElements == [id : {"SeekID", "SeekPosition", "other"}, fits : BOOLEAN, value : Int]

Children ==
    [id : {"SeekHead", "Cluster", "other"}, at : 1..(frontReadCap - 1), seeks : Seq(SeekElements)]

FrontType ==
    {f \in [header : BOOLEAN, data : Nat, children : Seq(Children)] :
        f.header => f.data \in 1..frontReadCap}

-----------------------------------------------------------------------------
idCues == 475249515   \* 0x1C53BB6B

\* Mutant: an oversized SeekID leaves the ID read before it in place.
SeekID_stale(st, e) == IF e.fits THEN [st EXCEPT !.curID = e.value] ELSE st

\* curID: the ID the next position belongs to, or -1.
SeekID(st, e) == [st EXCEPT !.curID = IF e.fits THEN e.value ELSE -1]

\* seek: the positions recorded so far, by ID; the first one counts.
SeekPosition(st, e) ==
    IF st.curID < 0 THEN st
    ELSE [curID |-> -1,
          seek  |-> IF e.fits
                    THEN [id \in DOMAIN st.seek \cup {st.curID} |->
                            IF id \in DOMAIN st.seek THEN st.seek[id] ELSE e.value]
                    ELSE st.seek]

SeekElement(st, e) ==
    CASE e.id = "SeekID"       -> SeekID(st, e)
      [] e.id = "SeekPosition" -> SeekPosition(st, e)
      [] OTHER                 -> st

parseSeekHead(elements) ==
    FoldLeft(SeekElement, [curID |-> -1, seek |-> <<>>], elements).seek

\* Nothing counts behind the first Cluster, and a SeekHead only while nothing has
\* been recorded.
SegmentChild(w, c) ==
    [firstCluster |-> IF w.firstCluster < 0 /\ c.id = "Cluster" THEN c.at ELSE w.firstCluster,
     seek |-> IF w.firstCluster < 0 /\ c.id = "SeekHead" /\ DOMAIN w.seek = {}
              THEN parseSeekHead(c.seeks) ELSE w.seek]

Walk(children) ==
    FoldLeft(SegmentChild, [firstCluster |-> -1, seek |-> <<>>],
             SubSeq(children, 1, Lesser(Len(children), MaxChildren)))

\* The position recorded for Cues counts if it lies in the file; no Cluster in
\* sight means that the whole front is metadata.
Inspect(f, size) ==
    LET w        == Walk(f.children)
        cueStart == f.data + w.seek[idCues]
        frontEnd == IF w.firstCluster < 0 THEN frontReadCap ELSE w.firstCluster
    IN  IF f.header /\ idCues \in DOMAIN w.seek /\ cueStart \in 0..(size - 1)
        THEN [FrontEnd |-> Lesser(frontEnd, size), CueStart |-> cueStart]
        ELSE NoLayout
=============================================================================
