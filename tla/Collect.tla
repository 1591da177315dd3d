------------------------------ MODULE Collect ------------------------------
(***************************************************************************)
(* How a sweep collects its candidates (internal/app/pipeline.go,          *)
(* CollectCandidates): one request to the media server after another, for  *)
(* the now-playing set, then user by user and tier by tier, then for the   *)
(* libraries.  The server answers what it likes and may fail, and the      *)
(* daemon's context may end at any moment.  An estimate collects the same  *)
(* way, from everyone and every tier, up to ceilings of its own and with a *)
(* limit on look-ahead requests (internal/app/estimate.go).  The selected  *)
(* libraries are told apart by host paths (internal/libscope), which the   *)
(* mapper of PathMap finds, built when the process starts.                 *)
(***************************************************************************)
EXTENDS PathMap

CONSTANTS
    Users,        \* the user list of the sweep, in the server's order
    Situations,   \* [enrolled, cap, scope, world]: the [user -> tiers that are on] rank
                  \* resolution produced, the [tier -> max_items] configured (0 is no
                  \* cap), the libraries selected, and the world: what containers docker
                  \* runs, which is the media server's, the operator's path rules
    Replies,      \* [tier -> item lists the server may answer with]
    Successors,   \* items EpisodeAfter may answer with
    NoItem,       \* or none
    Libraries,    \* [library -> paths of its locations], as the server answers
    NoPath,       \* the path of an item without a file
    Ceilings,     \* the caps of an estimate
    LookupsPerUser  \* how many successors an estimate asks for, per user

AllTiers == <<"resume", "next-up", "recently-added", "binge-ahead">>

\* Items are records [Path, Series]: where the server has the file, and whether
\* the item is an episode of a known series.
Items == Successors \cup UNION {ToSet(list) : list \in UNION {Replies[t] : t \in DOMAIN Replies}}

\* The paths a media server reports, of files and of libraries.
Reported ==
    (UNION {Libraries[l] : l \in DOMAIN Libraries})
        \cup {it.Path : it \in {i \in Items : i.Path # NoPath}}

ASSUME CollectAssumption ==
    /\ Users \in Seq(ToSet(Users)) /\ IsInjective(Users)
    /\ \A s \in Situations :
         /\ s.enrolled \in [DOMAIN s.enrolled -> SUBSET ToSet(AllTiers)]
         /\ s.cap \in [ToSet(AllTiers) -> Nat]
    /\ \A t \in {"resume", "next-up", "recently-added"} : Replies[t] \subseteq Seq(Items)
    /\ NoItem \notin Items
    /\ Ceilings \in [ToSet(AllTiers) -> Nat \ {0}] /\ Ceilings["binge-ahead"] = LookupsPerUser

\* A server reports clean paths, an UNC path with its host and share; docker mounts
\* nothing at "/" and no two mounts of a container in the same place.
ASSUME PathsAssumption ==
    /\ \A p \in Reported :
         /\ p \in Paths /\ ToSet(p.names) \cap {".", ".."} = {}
         /\ p.unc => Len(p.names) >= 2
    /\ \A s \in Situations : LET w == s.world IN
         /\ w.manual \in Seq(Rules) /\ \A r \in ToSet(w.manual) : r.From.unc => r.From.names # <<>>
         /\ w.containers \in Seq(ToSet(w.containers))
         /\ \A c \in ToSet(w.containers) : c.mounts \in Seq(Mounts)
         /\ w.server \in DOMAIN w.containers
         /\ LET mounts == ToSet(w.containers[w.server].mounts)
            IN  \A m, o \in mounts : m.Destination = o.Destination => m = o

VARIABLES
    pc,         \* "playing", "tier", "follow", "libraries", then "done" or "failed"
    enrolled,   \* [user -> tiers on]; other users are not enrolled
    cap,        \* [tier -> max_items]
    scope,      \* the selected libraries, {} for all
    world,      \* the containers and rules at hand
    mapper,     \* the path rules of this process
    user, tier, \* indices of the user and the tier at hand
    nextUp,     \* [user -> next-up list, once fetched]
    queue,      \* next-up items still to be looked ahead from
    out,        \* the successors found for the others
    cands,      \* the candidates, [Item, UserID, Tier]
    canceled,   \* the context is done
    estimating, \* collecting for an estimate
    used,       \* [user -> look-ahead requests an estimate has made]
    limited,    \* an estimate has left a look-ahead out
    asked,      \* history: requests made, [user, what, got]
    offered,    \* history: tiers collected, [user, tier, files]
    failures    \* history: requests that failed

loopVars == <<user, tier, nextUp, queue, out>>
limiter  == <<used, limited>>
histVars == <<asked, offered, failures>>
vars == <<pc, enrolled, cap, scope, world, mapper, estimating, loopVars, cands, canceled, limiter, histVars>>

NotFetched == <<NoItem>>   \* no list the server answers with

Init ==
    /\ pc = "playing" /\ estimating \in BOOLEAN
    /\ \E s \in Situations :
         /\ world = s.world
         /\ \/ ~estimating /\ enrolled = s.enrolled /\ cap = s.cap /\ scope = s.scope
            \/ /\ estimating
               /\ enrolled = [u \in ToSet(Users) |-> ToSet(AllTiers)]
               /\ cap = Ceilings /\ scope = {}
    /\ \E detected \in {DetectDockerRules(world.containers), <<>>} :
         mapper = buildMapper(world.manual, detected)
    /\ used = [u \in ToSet(Users) |-> 0] /\ limited = FALSE
    /\ user = 1 /\ tier = 1
    /\ nextUp = [u \in ToSet(Users) |-> NotFetched]
    /\ queue = <<>> /\ out = <<>> /\ cands = <<>> /\ canceled = FALSE
    /\ asked = <<>> /\ offered = <<>> /\ failures = <<>>

config == <<enrolled, cap, scope, world, mapper, estimating>>

-----------------------------------------------------------------------------
withMediaFile(items) == Keep(items, {it \in Items : it.Path # NoPath})

capItems(items, limit) ==
    IF limit > 0 /\ Len(items) > limit THEN SubSeq(items, 1, limit) ELSE items

currentUser == Users[user]
currentTier == AllTiers[tier]

\* A request is made under the sweep's context.
Ask(what, got) ==
    /\ ~canceled
    /\ asked' = Append(asked, [user |-> currentUser, what |-> what, got |-> got])

\* Now playing first; the sweep's users are known by then.
NowPlaying ==
    /\ pc = "playing" /\ ~canceled
    /\ pc' = "tier"
    /\ UNCHANGED <<config, loopVars, cands, canceled, limiter, histVars>>

\* The tier after this one, or the next user's first.
Advance ==
    /\ tier' = IF tier < Len(AllTiers) THEN tier + 1 ELSE 1
    /\ user' = IF tier < Len(AllTiers) THEN user ELSE user + 1

InLoop == pc = "tier" /\ user <= Len(Users)

On == currentUser \in DOMAIN enrolled /\ currentTier \in enrolled[currentUser]

SkipTier ==
    /\ InLoop /\ ~On
    /\ Advance
    /\ UNCHANGED <<pc, config, nextUp, queue, out, cands, canceled, limiter, histVars>>

Stamped(items) ==
    [i \in DOMAIN items |-> [Item |-> items[i], UserID |-> currentUser, Tier |-> currentTier]]

\* Mutant: the cap is applied before items without a file are dropped.
Contribute_capFirst(items) ==
    /\ cands' = cands \o Stamped(withMediaFile(capItems(items, cap[currentTier])))
    /\ offered' = Append(offered, [user |-> currentUser, tier |-> currentTier,
                                   files |-> Len(withMediaFile(items))])
    /\ Advance

\* What a tier adds: its items that have a file, up to its cap, stamped.
Contribute(items) ==
    /\ cands' = cands \o Stamped(capItems(withMediaFile(items), cap[currentTier]))
    /\ offered' = Append(offered, [user |-> currentUser, tier |-> currentTier,
                                   files |-> Len(withMediaFile(items))])
    /\ Advance

FetchList ==
    /\ InLoop /\ On /\ currentTier \in {"resume", "recently-added"}
    /\ Ask(currentTier, TRUE)
    /\ \E items \in Replies[currentTier] : Contribute(items)
    /\ UNCHANGED <<pc, config, nextUp, queue, out, canceled, limiter, failures>>

\* Mutant: the list is not kept.
Remember_never(items) == UNCHANGED nextUp

Remember(items) == nextUp' = [nextUp EXCEPT ![currentUser] = withMediaFile(items)]

\* getNextUp, for the tier that emits the list.
FetchNextUp ==
    /\ InLoop /\ On /\ currentTier = "next-up"
    /\ Ask("next-up", TRUE)
    /\ \E items \in Replies["next-up"] : Remember(items) /\ Contribute(withMediaFile(items))
    /\ UNCHANGED <<pc, config, queue, out, canceled, limiter, failures>>

-----------------------------------------------------------------------------
(***************************************************************************)
(* Binge-ahead: one request per next-up episode.                           *)
(***************************************************************************)
LookAhead(items) ==
    /\ queue' = capItems(items, cap["next-up"])
    /\ out' = <<>>
    /\ pc' = "follow"

\* getNextUp, for the tier that reads the list: asked for once per user.
StartBinge ==
    /\ InLoop /\ On /\ currentTier = "binge-ahead"
    /\ \/ /\ nextUp[currentUser] # NotFetched
          /\ LookAhead(nextUp[currentUser])
          /\ UNCHANGED <<nextUp, asked>>
       \/ /\ nextUp[currentUser] = NotFetched
          /\ Ask("next-up", TRUE)
          /\ \E items \in Replies["next-up"] :
               Remember(items) /\ LookAhead(withMediaFile(items))
    /\ UNCHANGED <<config, user, tier, cands, canceled, limiter, offered, failures>>

Filled == cap["binge-ahead"] > 0 /\ Len(out) >= cap["binge-ahead"]

Following == pc = "follow" /\ queue # <<>> /\ ~Filled

NoSeries ==
    /\ Following /\ ~Head(queue).Series
    /\ queue' = Tail(queue)
    /\ UNCHANGED <<pc, config, user, tier, nextUp, out, cands, canceled, limiter, histVars>>

\* The estimate's limit on requests, whether they are answered or not.
Permitted == estimating => used[currentUser] < LookupsPerUser

Spend ==
    /\ used' = IF estimating THEN [used EXCEPT ![currentUser] = @ + 1] ELSE used
    /\ UNCHANGED limited

\* "Nothing to warm", without a request.
Refuse ==
    /\ Following /\ Head(queue).Series /\ ~Permitted
    /\ limited' = TRUE
    /\ queue' = Tail(queue)
    /\ UNCHANGED <<pc, config, user, tier, nextUp, out, cands, canceled, used, histVars>>

\* Only a successor with a file counts toward the cap.
Follow ==
    /\ Following /\ Head(queue).Series /\ Permitted /\ Spend
    /\ \E it \in Successors \cup {NoItem} :
         LET warmable == it # NoItem /\ it.Path # NoPath
         IN  /\ Ask("follow", warmable)
             /\ out' = IF warmable THEN Append(out, it) ELSE out
    /\ queue' = Tail(queue)
    /\ UNCHANGED <<pc, config, user, tier, nextUp, cands, canceled, offered, failures>>

Fail(what) == failures' = Append(failures, [user |-> currentUser, what |-> what])

\* Mutant: one series the server cannot answer for ends the sweep.
FollowFails_aborts ==
    /\ Following /\ Head(queue).Series
    /\ Fail("follow")
    /\ pc' = "failed"
    /\ UNCHANGED <<config, loopVars, cands, canceled, limiter, asked, offered>>

\* One series is skipped, unless the context is done.
FollowFails ==
    /\ Following /\ Head(queue).Series /\ Permitted /\ Spend
    /\ Fail("follow")
    /\ IF canceled THEN pc' = "failed" /\ UNCHANGED <<queue, asked>>
       ELSE queue' = Tail(queue) /\ pc' = pc /\ Ask("follow", FALSE)
    /\ UNCHANGED <<config, user, tier, nextUp, out, cands, canceled, offered>>

EndBinge ==
    /\ pc = "follow" /\ (queue = <<>> \/ Filled)
    /\ Contribute(out)
    /\ pc' = "tier"
    /\ UNCHANGED <<config, nextUp, queue, out, canceled, limiter, asked, failures>>

-----------------------------------------------------------------------------
EndLoop ==
    /\ pc = "tier" /\ user > Len(Users)
    /\ pc' = IF scope = {} THEN "done" ELSE "libraries"
    /\ UNCHANGED <<config, loopVars, cands, canceled, limiter, histVars>>

\* The host locations of the selected libraries.
prefixes ==
    {ToHost(mapper, loc) : loc \in UNION {Libraries[l] : l \in scope \cap DOMAIN Libraries}}
        \ {NoHost}

\* Mutant: paths are compared as the server spells them.
Allowed_unmapped(it) ==
    \/ prefixes = {}
    \/ \E loc \in UNION {Libraries[l] : l \in scope \cap DOMAIN Libraries} : Under(it.Path, loc)

\* A scope that resolves to nothing is ignored.
Allowed(it) ==
    \/ prefixes = {}
    \/ LET host == ToHost(mapper, it.Path)
       IN  host # NoHost /\ \E p \in prefixes : IsPrefix(p, host)

filterByLibraries ==
    /\ pc = "libraries" /\ ~canceled
    /\ cands' = Keep(cands, {c \in ToSet(cands) : Allowed(c.Item)})
    /\ pc' = "done"
    /\ UNCHANGED <<config, loopVars, canceled, limiter, histVars>>

\* Any other request that fails ends the sweep.
RequestFails ==
    /\ \/ pc = "playing" /\ failures' = Append(failures, [user |-> NoItem, what |-> "playing"])
       \/ pc = "libraries" /\ failures' = Append(failures, [user |-> NoItem, what |-> "libraries"])
       \/ /\ InLoop /\ On
          /\ currentTier = "binge-ahead" => nextUp[currentUser] = NotFetched
          /\ Fail(currentTier)
    /\ pc' = "failed"
    /\ UNCHANGED <<config, loopVars, cands, canceled, limiter, asked, offered>>

Cancel ==
    /\ ~canceled /\ pc \notin {"done", "failed"}
    /\ canceled' = TRUE
    /\ UNCHANGED <<pc, config, loopVars, cands, limiter, histVars>>

bingeAhead == StartBinge \/ NoSeries \/ Refuse \/ Follow \/ FollowFails \/ EndBinge

CollectCandidates ==
    \/ NowPlaying \/ SkipTier \/ FetchList \/ FetchNextUp \/ bingeAhead
    \/ EndLoop \/ filterByLibraries \/ RequestFails

Next == CollectCandidates \/ Cancel

\* Mutant: only what exceeds the ceiling counts as truncated.
CeilingTruncated_above ==
    \/ limited
    \/ \E u \in ToSet(Users), t \in ToSet(AllTiers) :
         Cardinality({i \in DOMAIN cands : cands[i].UserID = u /\ cands[i].Tier = t}) > Ceilings[t]

\* What the estimate says of itself: a look-ahead was left out, or a user's tier
\* is as long as its ceiling.
CeilingTruncated ==
    \/ limited
    \/ \E u \in ToSet(Users), t \in ToSet(AllTiers) :
         Cardinality({i \in DOMAIN cands : cands[i].UserID = u /\ cands[i].Tier = t}) >= Ceilings[t]

Spec == Init /\ [][Next]_vars
=============================================================================
