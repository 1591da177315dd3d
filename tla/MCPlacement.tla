---------------------------- MODULE MCPlacement -----------------------------
(***************************************************************************)
(* A pool of two SSDs, a pool of an SSD and a hard disk, an array disk, a  *)
(* directory that is sometimes a bind mount of the array disk, and what    *)
(* the kernel may withhold of them.  `stale' is what a replaced volume     *)
(* leaves in sysfs.                                                        *)
(***************************************************************************)
EXTENDS Placement, TLC

MCItems == [BitrateBps : {16}, SizeBytes : {6}, Runtime : {0}, ResumeOffset : {0}]

MCPaths == {<<"mnt", "user", "f">>, <<"mnt", "user0", "f">>}

MCRoot == <<"mnt", "user">>

Mount(n, type, source) == [at |-> n, fstype |-> type, source |-> source]

MountTable(aliased) ==
    <<Mount("disk1", "xfs", "md1"), Mount("mixed", "btrfs", "ssd1"),
      Mount("cache", "btrfs", "ssd1"), Mount("mixed", "btrfs", "ssd3"),
      Mount("user", "fuse", "shfs")>>
    \o (IF aliased THEN <<Mount("alias", "xfs", "md1")>> ELSE <<>>)

Clean == ("c" :> {"ssd1", "ssd2"}) @@ ("m" :> {"ssd3", "hdd"})

Stale == "s" :> {"ssd3"}

Lists == {Clean, Clean @@ Stale, [Clean EXCEPT !["m"] = Undetermined] @@ Stale, Undetermined}

Queue == [d \in Devices |-> IF d \in {"md1", "hdd"} THEN "1" ELSE "0"]

MCHost(aliased, mountinfo, volumes, queue, branches, transparent) ==
    [at |-> [n \in Directories |->
               CASE n = "cache" -> "C" [] n = "mixed" -> "M" [] n = "disk1" -> "D"
                 [] n = "alias" /\ aliased -> "D" [] OTHER -> NoFs],
     devices |-> ("C" :> {"ssd1", "ssd2"}) @@ ("M" :> {"ssd3", "hdd"}) @@ ("D" :> {"md1"}),
     spins |-> {"md1", "hdd"},
     listing |-> Directories, statable |-> Directories,
     mountinfo |-> mountinfo, volumes |-> volumes, queue |-> queue,
     branches |-> branches, transparent |-> transparent]

ArrayFirst == <<"disk1", "mixed", "cache">>
PoolFirst  == <<"cache", "mixed", "disk1">>

Common == MCHost(FALSE, MountTable(FALSE), Clean, Queue, PoolFirst, TRUE)

MCHosts ==
    {MCHost(aliased, MountTable(aliased), volumes, Queue, branches, TRUE) :
        aliased \in BOOLEAN, volumes \in Lists, branches \in {ArrayFirst, PoolFirst}}
    \cup {MCHost(TRUE, Undetermined, v, Queue, PoolFirst, TRUE) : v \in Lists}
    \cup {[Common EXCEPT !.queue["ssd2"] = Undetermined],
          [Common EXCEPT !.transparent = FALSE],
          [Common EXCEPT !.statable = @ \ {"cache"}],
          [Common EXCEPT !.listing = Undetermined]}
=============================================================================
