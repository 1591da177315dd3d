------------------------------- MODULE Ranks -------------------------------
(***************************************************************************)
(* From configuration to priority: the user a configured name means, and   *)
(* the rank and tier positions each enrolled user gets                     *)
(* (internal/app/ranks.go).                                                *)
(***************************************************************************)
EXTENDS Config

CONSTANTS
    cfgKeyNormalize,  \* [spellings -> spellings]: '-' to '_'
    Spellings,        \* every spelling in sorted order: IDs, names, override keys
    NoUser            \* what an unresolved key resolves to

ASSUME SpellingsAssumption ==
    /\ cfgKeyNormalize \in [ToSet(Spellings) -> ToSet(Spellings)]
    /\ \A s \in ToSet(Spellings) : cfgKeyNormalize[cfgKeyNormalize[s]] = cfgKeyNormalize[s]
    /\ Spellings \in Seq(ToSet(Spellings)) /\ NoUser \notin ToSet(Spellings)

\* The users a server lists, and what config.Load hands over.
UserType == [ID : ToSet(Spellings), Name : ToSet(Spellings)]

IsOrder(order) == order \in Seq(ToSet(AllTiers))

IsCfg(cfg) ==
    /\ cfg.Enabled \in Seq(ToSet(Spellings))
    /\ cfg.OrderDefined \in BOOLEAN /\ IsOrder(cfg.Order)
    /\ cfg.Stated \in [DOMAIN cfg.Stated -> BOOLEAN] /\ DOMAIN cfg.Stated \subseteq ToSet(AllTiers)
    /\ DOMAIN cfg.Override \subseteq ToSet(Spellings)
    /\ \A key \in DOMAIN cfg.Override : IsOrder(cfg.Override[key])

tierPositions(order) == [t \in ToSet(order) |-> (CHOOSE i \in DOMAIN order : order[i] = t) - 1]

-----------------------------------------------------------------------------
IDs(users) == {users[i].ID : i \in DOMAIN users}

\* The users called key, and those who share its .cfg-key spelling.
named(users, key) == {u.ID : u \in {v \in ToSet(users) : v.Name = key}}

keyed(users, key) ==
    {u.ID : u \in {v \in ToSet(users) :
                     cfgKeyNormalize[key] \in {cfgKeyNormalize[v.ID], cfgKeyNormalize[v.Name]}}}

Reference(id, ref) == [id |-> id, ref |-> ref]

\* Mutant: a unique display name is taken before the spellings are looked at.
resolveUserKey_nameFirst(users, key) ==
    CASE key \in IDs(users) -> Reference(key, "exactID")
      [] key \notin IDs(users) /\ Cardinality(named(users, key)) = 1 ->
           Reference(CHOOSE id \in named(users, key) : TRUE, "name")
      [] key \notin IDs(users) /\ named(users, key) = {}
           /\ Cardinality(keyed(users, key)) = 1 ->
           Reference(CHOOSE id \in keyed(users, key) : TRUE, "cfgKey")
      [] OTHER -> Reference(NoUser, "none")

\* An ID is always itself; a name or a spelling only when nobody else answers.
resolveUserKey(users, key) ==
    CASE key \in IDs(users) -> Reference(key, "exactID")
      [] key \notin IDs(users) /\ Cardinality(named(users, key)) = 1
           /\ keyed(users, key) \subseteq named(users, key) ->
           Reference(CHOOSE id \in named(users, key) : TRUE, "name")
      [] key \notin IDs(users) /\ named(users, key) = {}
           /\ Cardinality(keyed(users, key)) = 1 ->
           Reference(CHOOSE id \in keyed(users, key) : TRUE, "cfgKey")
      [] OTHER -> Reference(NoUser, "none")

\* The map with one more entry, or another value for it.
put(map, key, value) == [k \in DOMAIN map \cup {key} |-> IF k = key THEN value ELSE map[k]]

\* The overrides whose keys bind in the given ways, put over others in sorted order.
Applied(users, cfg, refs, others) ==
    FoldLeft(LAMBDA own, key :
                 IF key \in DOMAIN cfg.Override /\ resolveUserKey(users, key).ref \in refs
                 THEN put(own, resolveUserKey(users, key).id, cfg.Override[key])
                 ELSE own,
             others, Spellings)

\* Mutant: the keys are applied in sorted order, however they bind.
overrides_unordered(users, cfg) == Applied(users, cfg, {"cfgKey", "name", "exactID"}, <<>>)

\* Weakest binding first, so that a stronger one overwrites it.
overrides(users, cfg) ==
    LET byCfgKey == Applied(users, cfg, {"cfgKey"}, <<>>)
        byName   == Applied(users, cfg, {"name"}, byCfgKey)
    IN  Applied(users, cfg, {"exactID"}, byName)

\* Mutant: a user named twice takes the later rank.
assign_again(ranks, id) ==
    IF id = NoUser THEN ranks ELSE put(ranks, id, Cardinality(DOMAIN ranks))

\* A user keeps the first rank; the next one gets the number enrolled so far.
assign(ranks, id) ==
    IF id = NoUser \/ id \in DOMAIN ranks
    THEN ranks
    ELSE put(ranks, id, Cardinality(DOMAIN ranks))

\* No list means every user, at equal rank.
UserRank(users, cfg) ==
    IF cfg.Enabled = <<>>
    THEN [id \in IDs(users) |-> 0]
    ELSE FoldLeft(LAMBDA ranks, key : assign(ranks, resolveUserKey(users, key).id),
                  <<>>, cfg.Enabled)

ResolveRanks(users, cfg) ==
    LET ranks == UserRank(users, cfg)
        own   == overrides(users, cfg)
    IN  [UserRank |-> ranks,
         TierRank |-> [id \in DOMAIN ranks |->
                         tierPositions(IF id \in DOMAIN own THEN own[id] ELSE globalOrder(cfg))]]
=============================================================================
