----------------------------- MODULE ScorerProps -----------------------------
(***************************************************************************)
(* What the operator who wrote the configuration may expect of the list.   *)
(***************************************************************************)
EXTENDS Scorer

-----------------------------------------------------------------------------
(***************************************************************************)
(* Resolution.                                                             *)
(***************************************************************************)
Resolved == pc # "resolve"

\* Where an enabled list first names a user.
FirstMention(id) ==
    Min({i \in DOMAIN call.cfg.Enabled : resolveUserKey(call.users, call.cfg.Enabled[i]).id = id})

\* ResolveRanks: list order is rank, a user named twice keeps the first and must
\* not hand the "next user a colliding rank" (ranks.go:170): the enrolled users
\* have the ranks 0 .. n-1, in the order in which the list first names them.
RanksFollowTheList ==
    (Resolved /\ call.cfg.Enabled # <<>>) =>
        LET enrolled == DOMAIN opts.UserRank
        IN  /\ {opts.UserRank[id] : id \in enrolled} = 0 .. (Cardinality(enrolled) - 1)
            /\ \A id, other \in enrolled :
                 FirstMention(id) < FirstMention(other) => opts.UserRank[id] < opts.UserRank[other]

\* ResolveRanks: "a stronger one always wins: .cfg-key spelling, then display
\* name, then the exact ID" (ranks.go:120), and a user no key names inherits.
StrongestOverrideWins ==
    Resolved => \A id \in DOMAIN opts.TierRank :
        LET keys(ref) == {key \in DOMAIN call.cfg.Override :
                            resolveUserKey(call.users, key) = Reference(id, ref)}
            follows(key) == opts.TierRank[id] = tierPositions(call.cfg.Override[key])
        IN  IF keys("exactID") # {} THEN follows(id)
            ELSE IF keys("name") # {} THEN \E key \in keys("name") : follows(key)
            ELSE IF keys("cfgKey") # {} THEN \E key \in keys("cfgKey") : follows(key)
            ELSE opts.TierRank[id] = tierPositions(globalOrder(call.cfg))

\* resolveUserKey: a bystander never collects "another user's override with no
\* warning at all" (ranks.go:55): a key that is nobody's ID binds to a user only
\* if no other user could be meant by it, as a name or as a .cfg-key spelling.
NoBystander ==
    \A key \in DOMAIN call.cfg.Override \cup ToSet(call.cfg.Enabled) :
        LET bound == resolveUserKey(call.users, key).id
        IN  bound \notin {NoUser, key} =>
                \A u \in ToSet(call.users) : u.ID # bound =>
                    cfgKeyNormalize[key] \notin {cfgKeyNormalize[u.ID], cfgKeyNormalize[u.Name]}

\* deriveLegacyOrder: a tier stated on is on and one stated off is off; an
\* unstated original tier is on unless another was opted in; binge-ahead is on
\* only when stated, and stating it costs no other tier.
LegacyFlagsHonoured ==
    (Resolved /\ ~call.cfg.OrderDefined /\ DOMAIN call.cfg.Override = {}) =>
        \A id \in DOMAIN opts.TierRank, t \in ToSet(AllTiers) :
            LET stated   == call.cfg.Stated
                original == ToSet(DefaultTierOrder)
                on       == t \in DOMAIN opts.TierRank[id]
            IN  IF t \in DOMAIN stated THEN on = stated[t]
                ELSE on = (t \in original /\ ~\E s \in original \cap DOMAIN stated : stated[s])

-----------------------------------------------------------------------------
(***************************************************************************)
(* Ranking.                                                                *)
(***************************************************************************)
\* Rank: "A shared item keeps the better (slot, user rank) pair" (scorer.go:90):
\* however users and tiers share items, at every moment of the loop each item
\* seen so far is kept once, unless it is playing or off for everyone who
\* surfaced it, and no candidate for it was better than the one that is kept.
BestClaimKept ==
    Resolved =>
        /\ {c.Item.ID : c \in ToSet(best)} = {c.Item.ID : c \in {d \in ToSet(listed) : Ranked(d)}}
        /\ \A i, j \in DOMAIN best : best[i].Item.ID = best[j].Item.ID => i = j
        /\ \A c \in ToSet(best) : Ranked(c) /\
             \A d \in ToSet(listed) :
               Ranked(d) /\ d.Item.ID = c.Item.ID =>
                 slot(c) < slot(d) \/ (slot(c) = slot(d) /\ rank(c) <= rank(d))

\* Rank: "every user's first-choice signal precedes any second choice, with user
\* rank breaking ties within a slot" (scorer.go:59), and within those resumes
\* come first, the deepest ahead; what no key tells apart keeps the order in which
\* it was fetched ("stable: preserve input order", scorer.go:131).  No pair of the
\* list is in the wrong order, adjacent or not, and no kept item is missing.
StablePriorityOrder ==
    /\ \A i, j \in DOMAIN targets : i < j =>
         LET c == targets[i]
             d == targets[j]
         IN  /\ slot(c) <= slot(d)
             /\ slot(c) = slot(d) => rank(c) <= rank(d)
             /\ (slot(c) = slot(d) /\ rank(c) = rank(d) /\ d.Tier = "resume") =>
                  c.Tier = "resume" /\ c.Item.ResumeOffset >= d.Item.ResumeOffset
    /\ pc = "done" =>
         /\ Len(targets) = Len(best) /\ ToSet(targets) = ToSet(best)
         /\ \A i, j \in DOMAIN best :
              LET c == best[i]
                  d == best[j]
              IN  (i < j /\ slot(c) = slot(d) /\ rank(c) = rank(d) /\ resumeKey(c) = resumeKey(d))
                    => \E k, l \in DOMAIN targets : k < l /\ targets[k] = c /\ targets[l] = d
=============================================================================
