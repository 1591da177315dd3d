----------------------------- MODULE Projection -----------------------------
(***************************************************************************)
(* The budget meter: ProjectWarmSet ranks everything a sweep could ever    *)
(* want, under a config that turns every tier on                           *)
(* (internal/app/estimate.go), and the settings page filters those rows by *)
(* the boxes ticked at the moment (js/meter.js, wapAggregate), and adds up *)
(* their bytes.  The ranking is Scorer's, on the call fullCfg makes.  The  *)
(* sweep it foretells would run on the same answers of the server, and     *)
(* would charge a target what the projection sizes it at, or less          *)
(* (module PlanItem).                                                      *)
(***************************************************************************)
EXTENDS ScorerProps

CONSTANTS
    Libraries,    \* <<[ID, Locations], ...>> in the server's order
    Located,      \* [item -> locations its path is under]
    Mapped,       \* locations a path rule applies to
    NoLibrary,    \* the library of an item under none
    Selections,   \* [users, libraries : sets, {} for all; max : [tiers on -> cap]]
    HeadAndTail,  \* [item -> the bytes of its sized head and its tail]
    estimateResumeFrontBytes

ASSUME LibrariesAssumption ==
    /\ Libraries \in Seq(ToSet(Libraries)) /\ \A l \in ToSet(Libraries) : l.ID # NoLibrary
    /\ \A s \in Selections : s.max \in [DOMAIN s.max -> Nat] /\ DOMAIN s.max \subseteq ToSet(AllTiers)

\* Mutant: the projection keeps to the tiers that are on by default.
fullCfg_default ==
    [Enabled |-> <<>>, OrderDefined |-> TRUE, Order |-> DefaultTierOrder,
     Stated |-> <<>>, Override |-> <<>>]

\* Every user at equal rank, every tier.
fullCfg ==
    [Enabled |-> <<>>, OrderDefined |-> TRUE, Order |-> AllTiers,
     Stated |-> <<>>, Override |-> <<>>]

\* CollectCandidates asks for the tiers it knows, for the users it was given.
ASSUME UniverseAssumption ==
    \A c \in Calls : c.cfg = fullCfg =>
        \A d \in c.pool : d.Item.UserID \in IDs(c.users) /\ d.Tier \in ToSet(AllTiers)

ASSUME BytesAssumption ==
    /\ estimateResumeFrontBytes \in Nat
    /\ \A c \in Calls : \A d \in c.pool : c.cfg = fullCfg => HeadAndTail[d.Item.ID] \in Nat

Estimated == pc = "done" /\ call.cfg = fullCfg

-----------------------------------------------------------------------------
\* A library can claim items when one of its locations maps.
prefixes(l) == l.Locations \cap Mapped

Claims(item) == {i \in DOMAIN Libraries : Located[item] \cap prefixes(Libraries[i]) # {}}

\* newLibraryAttributor: the first library an item falls under.
attribute(item) ==
    IF Claims(item) = {} THEN NoLibrary ELSE Libraries[Min(Claims(item))].ID

projectBytes(c) ==
    HeadAndTail[c.Item.ID] + (IF c.Tier = "resume" THEN estimateResumeFrontBytes ELSE 0)

\* The rows of estimate.json; their index is their rank.
rows ==
    [r \in DOMAIN targets |->
        [u |-> targets[r].Item.UserID, t |-> targets[r].Tier,
         l |-> attribute(targets[r].Item.ID), b |-> projectBytes(targets[r])]]

admits(set, x) == set = {} \/ x \in set

ticked(sel) ==
    {r \in DOMAIN rows : /\ admits(sel.users, rows[r].u) /\ admits(sel.libraries, rows[r].l)
                         /\ rows[r].t \in DOMAIN sel.max}

\* Of each user and tier the first max rows by rank; 0 is no cap.
capped(sel) ==
    {r \in ticked(sel) :
        \/ sel.max[rows[r].t] = 0
        \/ Cardinality({q \in ticked(sel) : q < r /\ rows[q].u = rows[r].u /\ rows[q].t = rows[r].t})
             < sel.max[rows[r].t]}

Total(bytes) == FoldLeft(LAMBDA sum, b : sum + b, 0, bytes)

\* The bytes the meter shows as projected.
wapAggregate(sel) == Total([r \in DOMAIN rows |-> IF r \in capped(sel) THEN rows[r].b ELSE 0])

-----------------------------------------------------------------------------
\* What a sweep under that selection collects: of each user and tier the first
\* max candidates in the server's order, then those the library scope allows.
collected(sel) ==
    {i \in DOMAIN listed :
        LET c == listed[i]
        IN  /\ admits(sel.users, c.Item.UserID) /\ c.Tier \in DOMAIN sel.max
            /\ \/ sel.max[c.Tier] = 0
               \/ Cardinality({k \in 1..(i - 1) : /\ listed[k].Item.UserID = c.Item.UserID
                                                  /\ listed[k].Tier = c.Tier})
                    < sel.max[c.Tier]}

scope(sel) == UNION {prefixes(l) : l \in {k \in ToSet(Libraries) : k.ID \in sel.libraries}}

\* Its warm set, every item once, where it was first collected; how it is
\* ordered does not matter here.
swept(sel) ==
    {i \in collected(sel) :
        LET item == listed[i].Item.ID
        IN  /\ item \notin call.nowPlaying
            /\ scope(sel) = {} \/ Located[item] \cap scope(sel) # {}
            /\ \A k \in collected(sel) : listed[k].Item.ID = item => i <= k}

sweptBytes(sel) ==
    Total([i \in DOMAIN listed |-> IF i \in swept(sel) THEN projectBytes(listed[i]) ELSE 0])

\* Every item is offered to one user by one tier.
Unshared == \A c, d \in ToSet(listed) : c.Item.ID = d.Item.ID => c = d

\* Every item is in at most one library, and the selected ones can be told.
Attributable(sel) ==
    /\ \A c \in ToSet(listed) : Cardinality(Claims(c.Item.ID)) <= 1
    /\ sel.libraries # {} => scope(sel) # {}

\* Resume is off or has no cap.
ResumeUncapped(sel) == "resume" \in DOMAIN sel.max => sel.max["resume"] = 0

\* "the meter's whole job is to let the operator explore selections the engine is
\* not currently running" (estimate.go:145): for every selection the boxes can
\* express, a meter whose rows stand for one user, tier and library each shows at
\* least the bytes of the targets a sweep would warm, although it counts items
\* off by rank, and after the page's filters, that the sweep counts off in the
\* server's order and before them.  Resume under a cap is excepted: its rank is
\* depth (scorer.go:123-129), so that meter and sweep keep different items of it,
\* and the meter's may be the smaller ones.
MeterErrsHighOnUnsharedItems ==
    (Estimated /\ Unshared) =>
        \A sel \in Selections :
            Attributable(sel) /\ ResumeUncapped(sel) => sweptBytes(sel) <= wapAggregate(sel)

\* "the meter must err high, never low" (estimate.go:129), also when users and
\* tiers share items and resume is capped.
MeterErrsHigh ==
    Estimated =>
        \A sel \in Selections :
            Attributable(sel) => sweptBytes(sel) <= wapAggregate(sel)
=============================================================================
