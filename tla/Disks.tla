------------------------------- MODULE Disks --------------------------------
(***************************************************************************)
(* Which directories under /mnt are pools, storage that does not spin down *)
(* (internal/diskresolve: Discover, isPool and the /proc and /sys probes   *)
(* under it).  A host is a record of two halves: what there is,            *)
(*                                                                         *)
(*   at         filesystem mounted at each directory, or NoFs              *)
(*   devices    the block devices each filesystem is built on              *)
(*   spins      the devices that rotate                                    *)
(*                                                                         *)
(* and what the kernel lets the program read of it, each part of which may *)
(* be Undetermined:                                                        *)
(*                                                                         *)
(*   listing    the directories ReadDir finds                              *)
(*   statable   the directories stat answers for                           *)
(*   mountinfo  a sequence of [at, fstype, source], oldest mount first     *)
(*   volumes    /sys/fs/btrfs: the device list of each fsid                *)
(*   queue      queue/rotational of each device: "0", "1"                  *)
(***************************************************************************)
EXTENDS Integers, Sequences

CONSTANTS
    Directories,   \* the directories under /mnt
    Numbered,      \* those named disk<digits>
    NonMembers,    \* "user", "user0", "addons", "remotes", "disks", "rootshare"
    Filesystems, Devices,
    btrfs,         \* the filesystem type that spans devices
    NoFs, Undetermined

ASSUME DisksAssumption ==
    /\ NoFs \notin Filesystems
    /\ Undetermined \notin Devices
    /\ \A D \in SUBSET Devices : D # Undetermined
    /\ Undetermined \notin BOOLEAN

\* The members: what ReadDir lists, without the known non-members.
Discover(h) == IF h.listing = Undetermined THEN {} ELSE h.listing \ NonMembers

nameLooksLikePool(n) == n \notin Numbered

\* A mount root is on another device than its parent.
IsMountpoint(h, n) == IF n \notin h.statable THEN Undetermined ELSE h.at[n] # NoFs

\* The newest mount at n: it shadows the earlier ones.
mountSource(h, n) ==
    LET lines == {i \in DOMAIN h.mountinfo : h.mountinfo[i].at = n}
    IN  IF h.mountinfo = Undetermined \/ lines = {} THEN Undetermined
        ELSE h.mountinfo[CHOOSE i \in lines : \A j \in lines : j <= i]

claims(h, d) == {v \in DOMAIN h.volumes : d \in h.volumes[v]}

\* Mutant: a list that cannot be read is skipped.
btrfsDevices_skipsUnreadable(h, d) ==
    LET readable == {v \in DOMAIN h.volumes : h.volumes[v] # Undetermined}
        claiming == {v \in readable : d \in h.volumes[v]}
    IN  IF h.volumes = Undetermined \/ ~\E v \in readable : claiming = {v}
        THEN Undetermined
        ELSE h.volumes[CHOOSE v \in readable : claiming = {v}]

\* All devices of the one volume that lists d; a list that cannot be read may be
\* that volume's, and two volumes that list d cannot be told apart.
btrfsDevices(h, d) ==
    IF \/ h.volumes = Undetermined
       \/ \E v \in DOMAIN h.volumes : h.volumes[v] = Undetermined
       \/ ~\E v \in DOMAIN h.volumes : claims(h, d) = {v}
    THEN Undetermined
    ELSE h.volumes[CHOOSE v \in DOMAIN h.volumes : claims(h, d) = {v}]

\* A source that is no bare device name (a mapper, shfs, an export) has no status.
backingDevices(h, n) ==
    LET mount == mountSource(h, n)
    IN  IF mount = Undetermined \/ mount.source \notin Devices THEN Undetermined
        ELSE IF mount.fstype = btrfs THEN btrfsDevices(h, mount.source)
        ELSE {mount.source}

rotational(h, d) ==
    CASE h.queue[d] = "0" -> FALSE
      [] h.queue[d] = "1" -> TRUE
      [] OTHER -> Undetermined

\* One device that spins, or does not tell, decides the member: isPool does not
\* distinguish Undetermined from FALSE.
AllNonRotational(h, n) ==
    LET devs == backingDevices(h, n)
    IN  IF devs = Undetermined \/ devs = {} THEN Undetermined
        ELSE \A d \in devs : rotational(h, d) = FALSE

isPool(h, n) ==
    /\ nameLooksLikePool(n)
    /\ IsMountpoint(h, n) = TRUE
    /\ AllNonRotational(h, n) = TRUE

-----------------------------------------------------------------------------
\* Whether reading the directory's files can wait for a platter.
Spinning(h, n) == h.at[n] # NoFs /\ h.devices[h.at[n]] \cap h.spins # {}

\* The kernel may withhold an answer but does not give a false one: the newest
\* mount names the filesystem that is there, by one of its devices if by any;
\* a filesystem other than btrfs has one device; a mounted btrfs has a list of
\* its own, readable or not; a queue that says "0" does not spin.
Consistent(h) ==
    /\ \A n \in Directories :
         (h.at[n] # NoFs /\ mountSource(h, n) # Undetermined /\ mountSource(h, n).source \in Devices)
           => LET devs == h.devices[h.at[n]]
                  m    == mountSource(h, n)
              IN  /\ m.source \in devs
                  /\ m.fstype # btrfs => devs = {m.source}
                  /\ (m.fstype = btrfs /\ h.volumes # Undetermined)
                        => \E v \in DOMAIN h.volumes : h.volumes[v] \in {devs, Undetermined}
    /\ \A d \in Devices : h.queue[d] = "0" => d \notin h.spins

IsHost(h) ==
    /\ h.at \in [Directories -> Filesystems \cup {NoFs}]
    /\ h.listing = Undetermined \/ h.listing \subseteq Directories
    /\ h.devices \in [Filesystems -> SUBSET Devices] /\ h.spins \subseteq Devices
    /\ h.volumes # Undetermined
         => \A v \in DOMAIN h.volumes : h.volumes[v] \in {Undetermined} \cup SUBSET Devices
    /\ h.branches \in Seq(Directories)
    /\ h.transparent \in BOOLEAN
=============================================================================
