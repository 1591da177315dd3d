------------------------------ MODULE PathMap ------------------------------
(***************************************************************************)
(* From the paths a media server reports to paths of the host              *)
(* (internal/pathmap, cmd/preloadd/pathmap.go).  A path is the sequence of *)
(* its names; unc tells \\host\Share\rest, whose first name is the host,   *)
(* from /a/b.  A host path is its names alone.                             *)
(***************************************************************************)
EXTENDS Integers, SequencesExt

NoHost == <<"no host path">>

Root == [unc |-> FALSE, names |-> <<>>]

Under(p, dir) == p.unc = dir.unc /\ IsPrefix(dir.names, p.names)

rest(p, dir) == SubSeq(p.names, Len(dir.names) + 1, Len(p.names))

Names     == STRING \ {NoHost[1]}
HostPaths == Seq(Names)
Paths     == [unc : BOOLEAN, names : HostPaths]
Rules     == [From : Paths, To : HostPaths]
Mounts    == [Type : STRING, Destination : {p \in Paths : ~p.unc /\ p.names # <<>>}, Source : HostPaths]

\* The elements of a list that are wanted, in order.
Keep(list, wanted) ==
    FoldLeft(LAMBDA kept, x : IF x \in wanted THEN Append(kept, x) ELSE kept, <<>>, list)

\* Below /mnt, as strings tell it.
UnderMnt(names) == Len(names) > 1 /\ names[1] = "mnt"

-----------------------------------------------------------------------------
\* A boundary is looked for behind From, so "/" itself, which ends in one, meets
\* no path but itself and what begins with two of them.
matches(r, p) == IF r.From = Root THEN p = Root \/ p.unc ELSE Under(p, r.From)

\* path.Clean of an absolute path.
Clean(names) ==
    FoldLeft(LAMBDA out, n : CASE n = "."  -> out
                               [] n = ".." -> IF out = <<>> THEN out ELSE Front(out)
                               [] OTHER    -> Append(out, n),
             <<>>, names)

containedUnderMnt(names) ==
    LET clean == Clean(names)
    IN  IF clean # <<>> /\ clean[1] = "mnt" THEN clean ELSE NoHost

\* Mutant: rules are tried as they come.
first_unsorted(rules, p) ==
    CHOOSE i \in {i \in DOMAIN rules : matches(rules[i], p)} :
        \A j \in {j \in DOMAIN rules : matches(rules[j], p)} : i <= j

\* New's stable sort: the longest From first, equal ones as they come.
first(rules, p) ==
    LET matching == {i \in DOMAIN rules : matches(rules[i], p)}
        length(i) == Len(rules[i].From.names)
    IN  CHOOSE i \in matching :
          \A j \in matching : length(j) < length(i) \/ (length(j) = length(i) /\ i <= j)

\* A rule, else the Unraid convention for UNC paths, else a path of the host.
ToHost(rules, p) ==
    IF \E i \in DOMAIN rules : matches(rules[i], p)
    THEN LET r == rules[first(rules, p)] IN r.To \o rest(p, r.From)
    ELSE IF p.unc
    THEN IF Len(p.names) >= 2 THEN containedUnderMnt(<<"mnt", "user">> \o Tail(p.names)) ELSE NoHost
    ELSE IF UnderMnt(p.names) THEN containedUnderMnt(p.names) ELSE NoHost

-----------------------------------------------------------------------------
\* The mounts of a container that become rules.
BindRulesFromInspect(mounts) ==
    LET media(m) ==
          /\ m.Type = "bind" /\ UnderMnt(m.Source)
          /\ m.Destination.names \notin {<<"config">>, <<"tmp">>}
        kept == Keep(mounts, {m \in ToSet(mounts) : media(m)})
    IN  [i \in DOMAIN kept |-> [From |-> kept[i].Destination, To |-> kept[i].Source]]

\* The first container docker lists whose image looks like a media server.
DetectDockerRules(containers) ==
    LET servers == {i \in DOMAIN containers : containers[i].matches}
    IN  IF servers = {} THEN <<>>
        ELSE BindRulesFromInspect(containers[CHOOSE i \in servers : \A j \in servers : i <= j].mounts)

buildMapper(manual, docker) == manual \o docker
=============================================================================
