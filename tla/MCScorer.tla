------------------------------ MODULE MCScorer ------------------------------
(***************************************************************************)
(* Four families of cases.  Names: up to three users, one dashed ID whose *)
(* .cfg-key spelling is another's ID or name, every short enabled list and *)
(* every set of override keys.  Flags: every combination of legacy         *)
(* `enabled` flags.  Lists: up to four candidates of two users, items      *)
(* shared between users and tiers, at equal rank, ranked, and with one     *)
(* user's own order.  Estimates: the projection's own call, on items of    *)
(* two libraries of which one shares a location, for selections of users,  *)
(* libraries and tiers with and without caps.                              *)
(***************************************************************************)
EXTENDS Projection

MCSpellings == <<"a", "b-1", "b_1", "zoe">>

MCNormalize == [s \in ToSet(MCSpellings) |-> IF s = "b-1" THEN "b_1" ELSE s]

User(id, name) == [ID |-> id, Name |-> name]

Cfg(enabled, override) ==
    [Enabled |-> enabled, OrderDefined |-> TRUE,
     Order |-> DefaultTierOrder, Stated |-> <<>>, Override |-> override]

Call(users, cfg, pool, playing) ==
    [users |-> users, cfg |-> cfg, pool |-> pool, nowPlaying |-> playing]

\* A different order for every key, so that it shows which one was applied.
OwnOrder == [s \in ToSet(MCSpellings) |->
    CASE s = "a"   -> <<"resume">>
      [] s = "b-1" -> <<"next-up">>
      [] s = "b_1" -> <<"recently-added", "resume">>
      [] s = "zoe" -> <<>>]

NameLists ==
    {<<User("a", n), User("b-1", m)>> : n, m \in {"zoe", "b_1", "b-1"}}
    \cup {<<User("b_1", n), User("a", m), User("b-1", k)>> :
            n, m, k \in {"zoe", "b_1", "a"}}

Names ==
    {Call(users, Cfg(enabled, [k \in keys |-> OwnOrder[k]]), {}, {}) :
        users \in NameLists,
        enabled \in BoundedSeq(ToSet(MCSpellings), 3),
        keys \in SUBSET ToSet(MCSpellings)}

Flags ==
    {Call(<<User("a", "zoe")>>,
          [Cfg(<<>>, <<>>) EXCEPT !.OrderDefined = FALSE, !.Stated = stated], {}, {}) :
        stated \in UNION {[S -> BOOLEAN] : S \in SUBSET ToSet(AllTiers)}}

-----------------------------------------------------------------------------
Proposal(item, user, tier, depth) ==
    [Item |-> [ID |-> item, UserID |-> user, ResumeOffset |-> depth], Tier |-> tier]

Pool ==
    {Proposal("m1", "a", "resume", 1), Proposal("m1", "zoe", "resume", 2),
     Proposal("m1", "a", "recently-added", 0),
     Proposal("m2", "a", "resume", 2), Proposal("m2", "zoe", "next-up", 0),
     Proposal("m3", "zoe", "next-up", 0), Proposal("m3", "a", "next-up", 0),
     Proposal("m4", "zoe", "recently-added", 0)}

Lists ==
    {Call(<<User("a", "a"), User("zoe", "zoe")>>, cfg, Pool, playing) :
        cfg \in {Cfg(<<>>, <<>>), Cfg(<<"zoe", "a">>, <<>>),
                 Cfg(<<>>, [k \in {"zoe"} |-> <<"next-up", "resume">>])},
        playing \in {{}, {"m2"}}}

-----------------------------------------------------------------------------
MCLibraries ==
    <<[ID |-> "films", Locations |-> {"disk"}], [ID |-> "shows", Locations |-> {"tv", "usb"}],
      [ID |-> "kids", Locations |-> {"usb"}]>>

MCLocated == [m \in {"m1", "m2", "m3", "m4"} |->
    CASE m = "m1" -> {"disk"} [] m = "m2" -> {"tv"} [] m = "m3" -> {"tv"} [] m = "m4" -> {}]

MCMapped == {"disk", "tv"}

Universe ==
    {Proposal("m1", "a", "resume", 1), Proposal("m2", "a", "resume", 2),
     Proposal("m1", "zoe", "recently-added", 0), Proposal("m2", "zoe", "next-up", 0),
     Proposal("m3", "zoe", "binge-ahead", 0), Proposal("m4", "zoe", "next-up", 0)}

MCSelections ==
    [users : {{}, {"zoe"}}, libraries : {{}, {"films"}, {"shows"}, {"kids"}},
     max : {[t \in tiers |-> IF t = "resume" THEN 0 ELSE n] :
              tiers \in {ToSet(AllTiers), {"resume"}, {"next-up", "binge-ahead"},
                         {"next-up", "recently-added"}},
              n \in {0, 1}}
           \cup {[t \in {"resume"} |-> 1]}]

MCHeadAndTail == [m \in {"m1", "m2", "m3", "m4"} |->
    CASE m = "m1" -> 7 [] m = "m2" -> 3 [] m = "m3" -> 5 [] m = "m4" -> 4]

Estimates ==
    {Call(<<User("a", "a"), User("zoe", "zoe")>>, fullCfg, Universe, playing) :
        playing \in {{}, {"m2"}}}

MCCalls == Names \cup Flags \cup Lists \cup Estimates
=============================================================================
