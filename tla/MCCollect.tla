----------------------------- MODULE MCCollect -----------------------------
(***************************************************************************)
(* Two users.  Lists mix files with entries that have none, episodes with  *)
(* items of no series; caps of one and two bite on lists of up to three.   *)
(* An estimate's ceilings are four files, two of them for look-aheads.     *)
(* Files are reported by container path, by UNC path and by host path; the *)
(* library of everything has a mount of its own inside it, another mount   *)
(* is none that detection takes; a library on a disc is not mapped.  The   *)
(* worlds are one container, one with the operator's own rule, and a       *)
(* second server's container that docker lists first.                      *)
(***************************************************************************)
EXTENDS CollectProps, TLC

CONSTANTS ann, bob

Posix(names) == [unc |-> FALSE, names |-> names]
Unc(names)   == [unc |-> TRUE, names |-> names]

It(path, series) == [Path |-> path, Series |-> series]

Film    == It(Posix(<<"share", "films", "f">>), FALSE)
Episode == It(Unc(<<"tower", "video", "shows", "e">>), TRUE)
Cartoon == It(Posix(<<"share", "kids", "c">>), FALSE)
Clip    == It(Posix(<<"mnt", "user", "clips", "c">>), FALSE)
Stick   == It(Posix(<<"share", "usb", "s">>), FALSE)
Folder  == It(NoPath, TRUE)

MCUsers == <<ann, bob>>

Enrollments ==
    {(ann :> {"resume", "next-up", "binge-ahead"}) @@ (bob :> {"recently-added", "binge-ahead"}),
     (bob :> ToSet(AllTiers)),
     (ann :> {}) @@ (bob :> {"resume"})}

Caps ==
    {[t \in ToSet(AllTiers) |-> 0],
     [t \in ToSet(AllTiers) |-> 1],
     [t \in ToSet(AllTiers) |-> IF t = "next-up" THEN 2 ELSE 1]}

MCCeilings == [t \in ToSet(AllTiers) |-> IF t = "binge-ahead" THEN 2 ELSE 4]

MCReplies ==
    [t \in {"resume", "next-up", "recently-added"} |->
        IF t = "next-up"
        THEN {<<Folder, Episode, Cartoon, Episode, Episode>>, <<Episode, Episode>>, <<>>}
        ELSE {<<Folder, Film, Clip>>, <<Stick, Cartoon, Film>>}]

MCSuccessors == {Episode, Folder}

MCLibraries ==
    ("films" :> {Posix(<<"share", "films">>), Posix(<<"mnt", "user", "clips">>)})
    @@ ("shows" :> {Posix(<<"share", "shows">>)})
    @@ ("all" :> {Posix(<<"share">>)})
    @@ ("disc" :> {Posix(<<"dvd">>)})

Mount(type, destination, source) ==
    [Type |-> type, Destination |-> Posix(destination), Source |-> source]

Server ==
    [matches |-> TRUE,
     mounts  |-> <<Mount("bind", <<"share">>, <<"mnt", "user", "video">>),
                   Mount("bind", <<"config">>, <<"mnt", "user", "appdata">>),
                   Mount("bind", <<"share", "kids">>, <<"mnt", "disks", "kids">>),
                   Mount("bind", <<"mnt", "user", "clips">>, <<"mnt", "user", "clips">>),
                   Mount("volume", <<"share", "usb">>, <<"var", "usb">>)>>]

Other ==
    [matches |-> TRUE,
     mounts  |-> <<Mount("bind", <<"share">>, <<"mnt", "user", "music">>)>>]

Database == [matches |-> FALSE, mounts |-> <<Mount("bind", <<"share">>, <<"mnt", "user", "db">>)>>]

Share == [From |-> Posix(<<"share">>), To |-> <<"mnt", "user", "video">>]

Host(containers, manual) == [containers |-> containers, server |-> 2, manual |-> manual]

\* Every enrollment and cap without a scope, and every scope in every world.
MCSituations ==
    [enrolled : Enrollments, cap : Caps, scope : {{}}, world : {Host(<<Database, Server>>, <<>>)}]
    \cup
    [enrolled : {(ann :> {"resume", "binge-ahead"}) @@ (bob :> {"recently-added"})},
     cap      : {[t \in ToSet(AllTiers) |-> 0]},
     scope    : {{"films"}, {"typo", "shows"}, {"all"}, {"disc"}},
     world    : {Host(<<Database, Server>>, <<>>), Host(<<Database, Server>>, <<Share>>),
                 Host(<<Other, Server>>, <<Share>>)}]
=============================================================================
