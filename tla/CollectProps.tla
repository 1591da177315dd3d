---------------------------- MODULE CollectProps ----------------------------
(***************************************************************************)
(* What collection owes the operator's caps and libraries, the server's    *)
(* load and the other tiers and users when one request fails.              *)
(***************************************************************************)
EXTENDS Collect

Requests(u, what) == {i \in DOMAIN asked : asked[i].user = u /\ asked[i].what = what}

Contribution(u, t) == {i \in DOMAIN cands : cands[i].UserID = u /\ cands[i].Tier = t}

\* userFetchers: "enabling both costs one /Shows/NextUp request, and enabling
\* neither costs none" (pipeline.go:129); bingeAhead: "the operator's NextUp cap
\* is what bounds this tier's load on the server" (pipeline.go:163), and a filled
\* cap saves the requests that are left; an estimate makes "at most
\* estimateBingeLookupsPerUser per user" (estimate.go:130).
RequestsBounded ==
    \A u \in ToSet(Users) :
        LET follows == Requests(u, "follow")
            on == IF u \in DOMAIN enrolled THEN enrolled[u] ELSE {}
        IN  /\ Cardinality(Requests(u, "next-up")) <= 1
            /\ on \cap {"next-up", "binge-ahead"} = {} => Requests(u, "next-up") = {}
            /\ cap["next-up"] > 0 => Cardinality(follows) <= cap["next-up"]
            /\ estimating => Cardinality(follows) <= LookupsPerUser
            /\ cap["binge-ahead"] > 0 =>
                 Cardinality({i \in follows : asked[i].got}) <= cap["binge-ahead"]

\* withMediaFile: items with no file would "occupy a tier's MaxItems slots ahead
\* of real files" (pipeline.go:40): a tier that stays below its cap has added
\* every file it was offered, and a binge-ahead tier that does has asked for the
\* successor of every episode its input's cap admits.
CapsCountFiles ==
    pc \notin {"done", "failed"} =>
        \A i \in DOMAIN offered :
            LET u == offered[i].user
                t == offered[i].tier
                added == Cardinality(Contribution(u, t))
                input == capItems(nextUp[u], cap["next-up"])
            IN  /\ cap[t] > 0 => added <= cap[t]
                /\ (cap[t] = 0 \/ added < cap[t]) =>
                     /\ added = offered[i].files
                     /\ (t = "binge-ahead" /\ ~limited) =>
                          Cardinality(Requests(u, "follow"))
                            = Cardinality({j \in DOMAIN input : input[j].Series})

\* bingeAhead: "a single series the server cannot answer for [...] would
\* otherwise abort every sweep for every user" (pipeline.go:171): a follow-up
\* that fails ends the sweep only when the context is done, and a sweep that is
\* not ended has collected every tier of every enrolled user, once.
SeriesFailureIsLocal ==
    /\ (pc = "failed" /\ Last(failures).what = "follow") => canceled
    /\ pc = "done" =>
         /\ \A i \in DOMAIN failures : failures[i].what = "follow"
         /\ {<<offered[i].user, offered[i].tier>> : i \in DOMAIN offered}
              = UNION {{u} \X enrolled[u] : u \in DOMAIN enrolled \cap ToSet(Users)}
         /\ \A i, j \in DOMAIN offered :
              offered[i].user = offered[j].user /\ offered[i].tier = offered[j].tier => i = j

-----------------------------------------------------------------------------
(***************************************************************************)
(* Where the files really are: a container sees a path through the deepest *)
(* of its mounts, and an UNC path names a share of this host.              *)
(***************************************************************************)
Over(p) ==
    {m \in ToSet(world.containers[world.server].mounts) : Under(p, m.Destination)}

Deepest(p) ==
    CHOOSE m \in Over(p) :
        \A o \in Over(p) : Len(o.Destination.names) <= Len(m.Destination.names)

Real(p) ==
    IF p.unc THEN <<"mnt", "user">> \o Tail(p.names)
    ELSE IF Over(p) = {} THEN NoHost
    ELSE Deepest(p).Source \o rest(p, Deepest(p).Destination)

\* A rule is wrong only where the operator has a right one for the same place.
Honest ==
    \A i \in DOMAIN mapper :
        \/ mapper[i].To = Real(mapper[i].From)
        \/ \E j \in DOMAIN world.manual :
             world.manual[j].From = mapper[i].From /\ j < i /\ world.manual[j].To = Real(mapper[i].From)

\* The mount that decides a path has a rule, or needs none.
Known(p) ==
    \/ p.unc
    \/ /\ Over(p) # {}
       /\ \/ \E r \in ToSet(mapper) : r.From = Deepest(p).Destination
          \/ /\ Deepest(p).Destination.names = Deepest(p).Source /\ UnderMnt(Deepest(p).Source)
             /\ ~\E r \in ToSet(mapper) : Under(Deepest(p).Destination, r.From)

\* buildMapper: docker's rules and the operator's, "resolved by longest matching
\* prefix (so a manual rule wins over a docker rule of equal specificity)"
\* (cmd/preloadd/pathmap.go:30).  A path whose mount the mapper was told of is
\* mapped to where the file is, whether docker answered or not, whatever mounts
\* are nested in it and whatever another container has in the same place.  (The
\* mapper is built once: the first state shows it.)
MappedPathsAreReal ==
    (pc = "playing" /\ Honest) => \A p \in Reported : Known(p) => ToHost(mapper, p) = Real(p)

\* What is selected, and what of it a host path is known of.
selected == UNION {Libraries[l] : l \in scope \cap DOMAIN Libraries}
located  == {loc \in selected : ToHost(mapper, loc) # NoHost}

\* On disk, the file lies in a selected location.
onDisk(p) == \E loc \in located : IsPrefix(Real(loc), Real(p))

\* The server reports the file in a selected location, and no rule is below that
\* for part of it.
inside(p) ==
    \E loc \in located :
      /\ Under(p, loc) /\ loc # Root
      /\ ~\E r \in ToSet(mapper) : Under(r.From, loc) /\ r.From # loc /\ Under(p, r.From)

KeepsTheScope ==
    \A c \in ToSet(cands) :
      LET p == c.Item.Path
          keeps == c \in ToSet(cands')
      IN  /\ (located = {} \/ inside(p)) => keeps
          /\ (located # {} /\ Honest /\ \A q \in located \cup {p} : Known(q)) =>
               (keeps <=> onDisk(p))

\* libscope: item paths and locations "land in a common host-path namespace"
\* (libscope.go:8), and a scope that cannot be applied "warms all libraries rather
\* than failing silently" (pipeline.go:212).  Filtering keeps the candidates whose
\* files lie in a selected location on disk, however server and library spell
\* them; a candidate the server reports inside a location is lost only to a rule
\* of its own below it; and without a location that maps it keeps everything.
ScopeHonoured == [][pc = "libraries" /\ pc' = "done" => KeepsTheScope]_vars

\* ProjectWarmSet counts candidates "as the safe direction for an advisory flag
\* (over-report, never under-report)" (estimate.go:182): an estimate that does not
\* own up to a truncation has listed every file it was offered, and has asked for
\* the successor of every next-up episode there is.
TruncationNeverHidden ==
    (estimating /\ pc = "done" /\ ~CeilingTruncated) =>
        /\ \A i \in DOMAIN offered :
             Cardinality(Contribution(offered[i].user, offered[i].tier)) = offered[i].files
        /\ \A u \in ToSet(Users) :
             Cardinality(Requests(u, "follow"))
               = Cardinality({i \in DOMAIN nextUp[u] : nextUp[u][i].Series})
=============================================================================
