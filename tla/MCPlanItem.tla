----------------------------- MODULE MCPlanItem -----------------------------
(***************************************************************************)
(* Small files: up to 12 bytes, heads of 3 to 5, a front read of 3, tails  *)
(* of up to 3.  Bitrates cover unknown, derived from size and runtime,     *)
(* below the floor, in range and past the cap; resume points cover none,   *)
(* inside the metadata, mid-file and past the end.  Fronts: no Matroska    *)
(* file, a SeekHead of up to two entries of every kind with and without a  *)
(* Cluster in sight, an entry cut short before them, other elements inside *)
(* an entry, a second SeekHead, one behind the Cluster, one too far down,  *)
(* stray positions and a position used up by an oversized one.             *)
(***************************************************************************)
EXTENDS PlanItem

MCItems ==
    [BitrateBps : {-8, 0, 16, 24}, SizeBytes : {12}, Runtime : {0, 6},
     ResumeOffset : {0, 1, 3, 20}]

MCSizes == {0, 1, 4, 7, 12}

ID(value) == [id |-> "SeekID", fits |-> TRUE, value |-> value]
At(value) == [id |-> "SeekPosition", fits |-> TRUE, value |-> value]

Void == [id |-> "other", fits |-> TRUE, value |-> 0]

OversizedID == [ID(idCues) EXCEPT !.fits = FALSE]
OversizedAt == [At(2) EXCEPT !.fits = FALSE]

Entries == {<<i, p>> : i \in {ID(idCues), ID(291), ID(-7), OversizedID},
                       p \in {At(-3), At(0), At(5), OversizedAt}}

Child(id, at, seeks) == [id |-> id, at |-> at, seeks |-> seeks]

Cluster == Child("Cluster", 2, <<>>)
Tracks(at) == Child("other", at, <<>>)

SeekHead(at, seeks) == Child("SeekHead", at, seeks)

Segment(children) == [header |-> TRUE, data |-> 1, children |-> children]

Listed ==
    Entries \cup {e \o <<ID(idCues), At(2)>> : e \in Entries}
            \cup {<<ID(idCues)>> \o e \o <<ID(idCues), At(2)>> : e \in Entries}
            \cup {<<e[1], Void, e[2]>> : e \in Entries}
            \cup {<<Void, ID(idCues), OversizedAt, At(5), Void>>, <<ID(idCues), OversizedID, Void, At(5)>>}

MCFronts ==
    {Segment(<<SeekHead(1, seeks), Cluster>>) : seeks \in Listed}
    \cup {Segment(<<SeekHead(1, seeks), Tracks(2)>>) : seeks \in Entries}
    \cup {Segment(children) : children \in
            {<<>>, <<Tracks(1), SeekHead(1, <<ID(idCues), At(5)>>)>>,
             <<SeekHead(1, <<ID(291), At(3)>>), SeekHead(2, <<ID(idCues), At(5)>>)>>,
             <<SeekHead(1, <<ID(idCues)>>), SeekHead(2, <<ID(idCues), At(5)>>)>>,
             <<Cluster, SeekHead(2, <<ID(idCues), At(5)>>)>>,
             <<Tracks(1), Tracks(1), Tracks(1), SeekHead(2, <<ID(idCues), At(5)>>)>>,
             <<SeekHead(1, <<At(5), ID(idCues), ID(291), At(4), At(3), ID(idCues), At(6)>>)>>}}
    \cup {[Segment(<<>>) EXCEPT !.header = FALSE]}
=============================================================================
