------------------------------- MODULE Scorer -------------------------------
(***************************************************************************)
(* One call of scorer.Rank (internal/scorer/scorer.go) on the candidates a *)
(* sweep collected, under the priority ResolveRanks made of the config.    *)
(* The loop over the candidates, which are chosen as it reads them, and    *)
(* the insertion sort that sort.SliceStable is on short lists take one     *)
(* step per element.                                                       *)
(***************************************************************************)
EXTENDS Ranks

CONSTANTS
    Calls,          \* records [users, cfg, pool, nowPlaying]: what may be asked
    MaxCandidates   \* bound: the length of the candidate list

ASSUME CallsAssumption ==
    /\ \A c \in Calls :
         /\ c.users \in Seq(UserType) /\ IsCfg(c.cfg)
         /\ \A d \in c.pool : d.Item.ResumeOffset \in Int
    /\ MaxCandidates \in Nat

VARIABLES
    pc,       \* "resolve", then "dedupe", "sort", "done"
    call,     \* the configuration, and the candidates that may be listed
    opts,     \* [UserRank, TierRank]
    listed,   \* the candidate list, as far as the loop has read it
    next,     \* index of the kept candidate to be placed
    best,     \* one candidate per item ID, in order of first appearance
    targets   \* the list under construction

vars == <<pc, call, opts, listed, next, best, targets>>

NoRanks == [UserRank |-> <<>>, TierRank |-> <<>>]

Init ==
    /\ pc = "resolve" /\ call \in Calls
    /\ opts = NoRanks /\ listed = <<>> /\ next = 1 /\ best = <<>> /\ targets = <<>>

Resolve ==
    /\ pc = "resolve" /\ pc' = "dedupe"
    /\ opts' = ResolveRanks(call.users, call.cfg)
    /\ UNCHANGED <<call, listed, next, best, targets>>

-----------------------------------------------------------------------------
\* The candidate's tier is on for its user, who is enrolled.
slotted(c) ==
    /\ c.Item.UserID \in DOMAIN opts.TierRank
    /\ c.Tier \in DOMAIN opts.TierRank[c.Item.UserID]

slot(c) == opts.TierRank[c.Item.UserID][c.Tier]
rank(c) == opts.UserRank[c.Item.UserID]

Ranked(c) == c.Item.ID \notin call.nowPlaying /\ slotted(c)

\* Mutant: rank before slot.
better_rankFirst(c, d) == rank(c) < rank(d) \/ (rank(c) = rank(d) /\ slot(c) < slot(d))

better(c, d) == slot(c) < slot(d) \/ (slot(c) = slot(d) /\ rank(c) < rank(d))

\* Where the item of c is kept, if it is.
Held(c) == {i \in DOMAIN best : best[i].Item.ID = c.Item.ID}

\* The list's next candidate; the loop reads it to its end.
Candidate(c) ==
    /\ pc = "dedupe" /\ Len(listed) < MaxCandidates
    /\ listed' = Append(listed, c)
    /\ UNCHANGED <<pc, call, opts, next, targets>>

\* Playing now, or off for its user.
Ignore(c) == Candidate(c) /\ ~Ranked(c) /\ UNCHANGED best

Keep(c) == Candidate(c) /\ Ranked(c) /\ Held(c) = {} /\ best' = Append(best, c)

\* A shared item keeps the better (slot, rank) pair, and on equal pairs the
\* candidate that was fetched first.
Compare(c) ==
    /\ Candidate(c) /\ Ranked(c)
    /\ \E i \in Held(c) : best' = IF better(c, best[i]) THEN [best EXCEPT ![i] = c] ELSE best

StartSort ==
    /\ pc = "dedupe" /\ pc' = "sort"
    /\ UNCHANGED <<call, opts, listed, next, best, targets>>

-----------------------------------------------------------------------------
\* Resumes first and the deepest of them first; the others tie.
resumeKey(c) == IF c.Tier = "resume" THEN <<0, -c.Item.ResumeOffset>> ELSE <<1, 0>>

\* Mutant: depth is compared only between two resumes, and class not at all.
less_depthOnly(c, d) ==
    \/ better(c, d)
    \/ /\ ~better(d, c) /\ c.Tier = "resume" /\ d.Tier = "resume"
       /\ c.Item.ResumeOffset > d.Item.ResumeOffset

less(c, d) ==
    \/ better(c, d)
    \/ /\ ~better(d, c)
       /\ \/ resumeKey(c)[1] < resumeKey(d)[1]
          \/ resumeKey(c)[1] = resumeKey(d)[1] /\ resumeKey(c)[2] < resumeKey(d)[2]

\* Insertion from the right: past every element that c is less than, up to the
\* first that it is not.
Place ==
    /\ pc = "sort" /\ next <= Len(best)
    /\ LET c == best[next]
           before == {k \in DOMAIN targets : ~less(c, targets[k])}
       IN  targets' = InsertAt(targets, Max(before \cup {0}) + 1, c)
    /\ next' = next + 1
    /\ UNCHANGED <<pc, call, opts, listed, best>>

Finish ==
    /\ pc = "sort" /\ next > Len(best)
    /\ pc' = "done"
    /\ UNCHANGED <<call, opts, listed, next, best, targets>>

Dedupe == \E c \in call.pool : Ignore(c) \/ Keep(c) \/ Compare(c)

Rank == Dedupe \/ StartSort \/ Place \/ Finish

Next == Resolve \/ Rank

Spec == Init /\ [][Next]_vars
=============================================================================
