------------------------------ MODULE CephDriver ------------------------------
(***************************************************************************)
(* The ceph driver on one host: how Format, Mount and Unmount of several   *)
(* volumes map images to devices, mount the devices on directories and     *)
(* undo both, with the retries and failures of the commands they run.      *)
(*                                                                         *)
(* The operations on one volume follow each other (they have its lock, see *)
(* MountProtocol and VolumeLifecycle); those on different volumes overlap. *)
(* The kernel gives a mapped image a free device, a name that was some     *)
(* other image's before; it refuses to unmap a device that is mounted or   *)
(* that mkfs is writing.  A command fails in the ways that Faults allows.  *)
(***************************************************************************)
EXTENDS Naturals, FiniteSets

CONSTANTS
    Volumes,
    Devices,      \* /dev/rbd0, /dev/rbd1, ...
    None,         \* no volume, no device
    MapTries,     \* how often a failed rbd map is repeated (10)
    UnmountTries, \* how often the unmount of a busy directory is tried (3)
    UnmapTries,   \* how often doUnmap is called (10)
    Faults        \* the failures that may happen, a subset of AllFaults

(* Failures of rbd map, of one that is killed after it has mapped the      *)
(* image, of mkfs, of preparing the directory and mounting, EBUSY of       *)
(* umount, failure of rmdir, of rbd showmapped, EBUSY and other failures   *)
(* of rbd unmap.                                                           *)
AllFaults == {"map", "maptimeout", "mkfs", "mount", "umount", "rmdir", "showmapped", "busy", "unmap"}

ASSUME DriverAssumption ==
    /\ None \notin Volumes \cup Devices
    /\ MapTries \in Nat
    /\ UnmountTries \in Nat \ {0}
    /\ UnmapTries \in Nat \ {0}
    /\ Faults \subseteq AllFaults

VARIABLES
    mapped,  \* mapped[d]: the volume whose image is mapped to d, or None
    mnt,     \* mnt[v]: the device mounted on the directory of v, or None
    dir,     \* dir[v]: whether the directory exists
    job,     \* job[v]: "idle", "format", "badformat" (mkfs has failed),
             \* "mount", "clear" (the Unmount of clearMount, after a failed
             \* Mount) or "unmount"
    at,      \* at[v]: the step of the job that is next
    dev,     \* dev[v]: the device that mapImage has returned
    rbdmap,  \* rbdmap[v]: the devices of v when unmapImage listed them
    tries,   \* tries[v]: the failed tries of the present step
    twice,   \* history: some image has been mapped to two devices at once
    result   \* result[v]: the operation that ended last and whether it
             \* succeeded, until the next one

vars == <<mapped, mnt, dir, job, at, dev, rbdmap, tries, twice, result>>

Results == ({"format", "mount", "unmount"} \X {"ok", "error"}) \cup {<<"none", "ok">>}

Init ==
    /\ mapped = [d \in Devices |-> None]
    /\ mnt = [v \in Volumes |-> None]
    /\ dir = [v \in Volumes |-> FALSE]
    /\ job = [v \in Volumes |-> "idle"]
    /\ at = [v \in Volumes |-> "end"]
    /\ dev = [v \in Volumes |-> None]
    /\ rbdmap = [v \in Volumes |-> {}]
    /\ tries = [v \in Volumes |-> 0]
    /\ twice = FALSE
    /\ result = [v \in Volumes |-> <<"none", "ok">>]

Steps == {"end", "map", "find", "findpause", "mkfs", "mkfsrun", "attach", "umount", "rmdir",
          "list", "listpause", "unmap", "check", "checkpause"}

DriverTypeOK ==
    /\ mapped \in [Devices -> Volumes \cup {None}]
    /\ mnt \in [Volumes -> Devices \cup {None}]
    /\ dir \in [Volumes -> BOOLEAN]
    /\ job \in [Volumes -> {"idle", "format", "badformat", "mount", "clear", "unmount"}]
    /\ at \in [Volumes -> Steps]
    /\ dev \in [Volumes -> Devices \cup {None}]
    /\ rbdmap \in [Volumes -> SUBSET Devices]
    /\ tries \in [Volumes -> 0 .. (MapTries + UnmountTries + UnmapTries)]
    /\ twice \in BOOLEAN
    /\ result \in [Volumes -> Results]

--------------------------------------------------------------------------------
(* The devices of a volume, as rbd showmapped lists them. *)
DevicesOf(v) == {d \in Devices : mapped[d] = v}

(* showMapped: the steps that call it, and the pause before it tries again. *)
Pauses == {<<"find", "findpause">>, <<"list", "listpause">>, <<"check", "checkpause">>}

(* rbd showmapped fails, or its list cannot be parsed ...                  *)
ShowMappedFails(v) ==
    /\ "showmapped" \in Faults
    /\ \E p \in Pauses : at[v] = p[1] /\ at' = [at EXCEPT ![v] = p[2]]
    /\ UNCHANGED <<mapped, twice, mnt, dir, job, dev, rbdmap, tries, result>>

(* ... and is called again, as often as it takes.                          *)
ShowMappedAgain(v) ==
    /\ \E p \in Pauses : at[v] = p[2] /\ at' = [at EXCEPT ![v] = p[1]]
    /\ UNCHANGED <<mapped, twice, mnt, dir, job, dev, rbdmap, tries, result>>

(* What the kernel does not unmap. *)
Busy(d) == \E v \in Volumes : mnt[v] = d \/ (at[v] = "mkfsrun" /\ dev[v] = d)

Goto(v, step) ==
    /\ at' = [at EXCEPT ![v] = step]
    /\ tries' = [tries EXCEPT ![v] = 0]

Again(v) == tries' = [tries EXCEPT ![v] = @ + 1]

(* The operation that a job belongs to. *)
Operation(v) ==
    CASE job[v] \in {"format", "badformat"} -> "format"
      [] job[v] \in {"mount", "clear"}      -> "mount"
      [] OTHER                              -> "unmount"

Return(v, r) ==
    /\ job' = [job EXCEPT ![v] = "idle"]
    /\ dev' = [dev EXCEPT ![v] = None]
    /\ rbdmap' = [rbdmap EXCEPT ![v] = {}]
    /\ result' = [result EXCEPT ![v] = <<Operation(v), r>>]
    /\ Goto(v, "end")

Begin(v, operation, step) ==
    /\ job[v] = "idle"
    /\ job' = [job EXCEPT ![v] = operation]
    /\ result' = [result EXCEPT ![v] = <<"none", "ok">>]
    /\ Goto(v, step)
    /\ UNCHANGED <<mapped, twice, mnt, dir, dev, rbdmap>>

(* createVolume formats, Mount mounts (MountsOnce of MountProtocol:        *)
(* what is not mounted) and Unmount unmounts.                              *)
Format(v) == mnt[v] = None /\ Begin(v, "format", "map")
Mount(v)  == mnt[v] = None /\ Begin(v, "mount", "map")
Unmount(v) == Begin(v, "unmount", "umount")

--------------------------------------------------------------------------------
(* mapImage.                                                               *)

(* A failed Mount is undone by clearMount's Unmount; a failed Format is    *)
(* just an error.                                                          *)
MapFailed(v) ==
    IF job[v] = "mount"
    THEN /\ job' = [job EXCEPT ![v] = "clear"]
         /\ Goto(v, "umount")
         /\ UNCHANGED <<dev, rbdmap, result>>
    ELSE Return(v, "error")

(* rbd maps an image that is mapped already to one more device. *)
RbdMap(v, d) ==
    /\ mapped[d] = None
    /\ mapped' = [mapped EXCEPT ![d] = v]
    /\ twice' = (twice \/ DevicesOf(v) # {})

MapImage(v) ==
    /\ at[v] = "map"
    /\ \E d \in Devices : RbdMap(v, d)
    /\ Goto(v, "find")
    /\ UNCHANGED <<mnt, dir, job, dev, rbdmap, result>>

(* An rbd map that reports an error has mapped nothing, or was killed when *)
(* it had mapped the image.                                                *)
RbdMapFails(v) ==
    \/ /\ "map" \in Faults \/ \A d \in Devices : mapped[d] # None
       /\ UNCHANGED <<mapped, twice>>
    \/ /\ "maptimeout" \in Faults
       /\ \E d \in Devices : RbdMap(v, d)

MapImageRetries(v) ==
    /\ at[v] = "map"
    /\ tries[v] < MapTries
    /\ RbdMapFails(v)
    /\ Again(v)
    /\ UNCHANGED <<mnt, dir, job, at, dev, rbdmap, result>>

MapImageFails(v) ==
    /\ at[v] = "map"
    /\ tries[v] = MapTries
    /\ RbdMapFails(v)
    /\ MapFailed(v)
    /\ UNCHANGED <<mnt, dir>>

(* Mutant: the names are not compared. *)
FindAny(v) ==
    /\ at[v] = "find"
    /\ \E d \in Devices : mapped[d] # None /\ dev' = [dev EXCEPT ![v] = d]
    /\ Goto(v, IF job[v] = "format" THEN "mkfs" ELSE "attach")
    /\ UNCHANGED <<mapped, twice, mnt, dir, job, rbdmap, result>>

(* The device is looked up by the name of the image: any one that has it. *)
FindDevice(v) ==
    /\ at[v] = "find"
    /\ \E d \in DevicesOf(v) : dev' = [dev EXCEPT ![v] = d]
    /\ Goto(v, IF job[v] = "format" THEN "mkfs" ELSE "attach")
    /\ UNCHANGED <<mapped, twice, mnt, dir, job, rbdmap, result>>

FindNothing(v) ==
    /\ at[v] = "find"
    /\ DevicesOf(v) = {}
    /\ MapFailed(v)
    /\ UNCHANGED <<mapped, twice, mnt, dir>>

--------------------------------------------------------------------------------
(* Format: mkfs opens the device, and the image is unmapped when it has    *)
(* ended, well or badly.                                                   *)
MkfsStarts(v) ==
    /\ at[v] = "mkfs"
    /\ Goto(v, "mkfsrun")
    /\ UNCHANGED <<mapped, twice, mnt, dir, job, dev, rbdmap, result>>

MkfsEnds(v) ==
    /\ at[v] = "mkfsrun"
    /\ job' \in {job} \cup {[job EXCEPT ![v] = "badformat"] : f \in Faults \cap {"mkfs"}}
    /\ dev' = [dev EXCEPT ![v] = None]
    /\ Goto(v, "list")
    /\ UNCHANGED <<mapped, twice, mnt, dir, rbdmap, result>>

(* Mount: the directory is made and the device is mounted on it. *)
Attach(v) ==
    /\ at[v] = "attach"
    /\ mapped[dev[v]] # None
    /\ dir' = [dir EXCEPT ![v] = TRUE]
    /\ mnt' = [mnt EXCEPT ![v] = dev[v]]
    /\ Return(v, "ok")
    /\ UNCHANGED <<mapped, twice>>

AttachFails(v) ==
    /\ at[v] = "attach"
    /\ "mount" \in Faults \/ mapped[dev[v]] = None
    /\ dir' \in {dir, [dir EXCEPT ![v] = TRUE]}
    /\ job' = [job EXCEPT ![v] = "clear"]
    /\ dev' = [dev EXCEPT ![v] = None]
    /\ Goto(v, "umount")
    /\ UNCHANGED <<mapped, twice, mnt, rbdmap, result>>

--------------------------------------------------------------------------------
(* Unmount.                                                                *)

(* A directory that is no mount point, or is not there, counts as          *)
(* unmounted.                                                              *)
Umount(v) ==
    /\ at[v] = "umount"
    /\ mnt' = [mnt EXCEPT ![v] = None]
    /\ at' = [at EXCEPT ![v] = "rmdir"]
    /\ UNCHANGED <<mapped, twice, dir, job, dev, rbdmap, tries, result>>

UmountRetries(v) ==
    /\ at[v] = "umount"
    /\ "umount" \in Faults /\ mnt[v] # None
    /\ tries[v] + 1 < UnmountTries
    /\ Again(v)
    /\ UNCHANGED <<mapped, twice, mnt, dir, job, at, dev, rbdmap, result>>

UmountFails(v) ==
    /\ at[v] = "umount"
    /\ "umount" \in Faults /\ mnt[v] # None
    /\ tries[v] + 1 = UnmountTries
    /\ Return(v, "error")
    /\ UNCHANGED <<mapped, twice, mnt, dir>>

Rmdir(v) ==
    /\ at[v] = "rmdir"
    /\ dir' = [dir EXCEPT ![v] = FALSE]
    /\ Goto(v, "list")
    /\ UNCHANGED <<mapped, twice, mnt, job, dev, rbdmap, result>>

(* All over again, and this try is not counted. *)
RmdirFails(v) ==
    /\ at[v] = "rmdir"
    /\ "rmdir" \in Faults /\ dir[v]
    /\ at' = [at EXCEPT ![v] = "umount"]
    /\ UNCHANGED <<mapped, twice, mnt, dir, job, dev, rbdmap, tries, result>>

--------------------------------------------------------------------------------
(* unmapImage and doUnmap.                                                 *)

(* The list is made once, for all the calls of doUnmap. *)
ListDevices(v) ==
    /\ at[v] = "list"
    /\ rbdmap' = [rbdmap EXCEPT ![v] = DevicesOf(v)]
    /\ Goto(v, "unmap")
    /\ UNCHANGED <<mapped, twice, mnt, dir, job, dev, result>>

(* The listed devices whose device file exists. *)
Present(v) == {d \in rbdmap[v] : mapped[d] # None}

(* What the end of unmapImage makes of the operation. *)
Outcome(v) == IF job[v] \in {"badformat", "clear"} THEN "error" ELSE "ok"

(* Mutant: a device that is gone is waited for. *)
UnmapWaits(v) ==
    /\ at[v] = "unmap"
    /\ Present(v) = {}
    /\ UNCHANGED vars

UnmapNothing(v) ==
    /\ at[v] = "unmap"
    /\ Present(v) = {}
    /\ Return(v, Outcome(v))
    /\ UNCHANGED <<mapped, twice, mnt, dir>>

Unmap(v) ==
    /\ at[v] = "unmap"
    /\ \E d \in Present(v) :
        /\ ~Busy(d)
        /\ mapped' = [mapped EXCEPT ![d] = None]
    /\ at' = [at EXCEPT ![v] = "check"]
    /\ UNCHANGED <<twice, mnt, dir, job, dev, rbdmap, tries, result>>

(* EBUSY, or an image that is still mapped: doUnmap is called again. *)
UnmapBusy(v) ==
    /\ \/ /\ at[v] = "unmap"
          /\ \E d \in Present(v) : "busy" \in Faults \/ Busy(d)
       \/ /\ at[v] = "check"
          /\ DevicesOf(v) # {}
    /\ IF tries[v] + 1 < UnmapTries
       THEN /\ at' = [at EXCEPT ![v] = "unmap"]
            /\ Again(v)
            /\ UNCHANGED <<job, dev, rbdmap, result>>
       ELSE Return(v, "error")
    /\ UNCHANGED <<mapped, twice, mnt, dir>>

UnmapFails(v) ==
    /\ at[v] = "unmap"
    /\ Present(v) # {}
    /\ "unmap" \in Faults
    /\ mapped' \in {mapped} \cup {[mapped EXCEPT ![d] = None] : d \in {d \in Present(v) : ~Busy(d)}}
    /\ Return(v, "error")
    /\ UNCHANGED <<twice, mnt, dir>>

(* Mutant: rbd unmap is believed. *)
CheckSkipped(v) ==
    /\ at[v] = "check"
    /\ Return(v, Outcome(v))
    /\ UNCHANGED <<mapped, twice, mnt, dir>>

CheckUnmapped(v) ==
    /\ at[v] = "check"
    /\ DevicesOf(v) = {}
    /\ Return(v, Outcome(v))
    /\ UNCHANGED <<mapped, twice, mnt, dir>>

--------------------------------------------------------------------------------
Starts(v) == Format(v) \/ Mount(v) \/ Unmount(v)

Maps(v) ==
    \/ MapImage(v) \/ MapImageRetries(v) \/ MapImageFails(v)
    \/ FindDevice(v) \/ FindNothing(v)
    \/ MkfsStarts(v) \/ MkfsEnds(v)
    \/ Attach(v) \/ AttachFails(v)

Unmaps(v) ==
    \/ Umount(v) \/ UmountRetries(v) \/ UmountFails(v)
    \/ Rmdir(v) \/ RmdirFails(v)
    \/ ListDevices(v)
    \/ UnmapNothing(v) \/ Unmap(v) \/ UnmapBusy(v) \/ UnmapFails(v)
    \/ CheckUnmapped(v)

Shows(v) == ShowMappedFails(v) \/ ShowMappedAgain(v)

Next == \E v \in Volumes : Starts(v) \/ Maps(v) \/ Unmaps(v) \/ Shows(v)

Spec == Init /\ [][Next]_vars

(* Commands and system calls end, well or badly (the commands have a       *)
(* timeout), and the operation goes on.  Nothing is assumed of what they   *)
(* achieve.                                                                *)
FairSpec ==
    /\ Spec
    /\ \A v \in Volumes : WF_vars(Maps(v) \/ Unmaps(v) \/ Shows(v))

--------------------------------------------------------------------------------
(* PROPERTIES *)

(* Mounted: the mount points whose device is mapped, which is what a       *)
(* restarted volplugin believes to be mounted.                             *)
Mounted == {v \in Volumes : mnt[v] # None /\ mapped[mnt[v]] = v}

(* What the caller of an operation relies on: after a successful Unmount   *)
(* or Format no device, mount or directory of the volume is left, whatever *)
(* earlier operations have left behind; after a successful Mount the       *)
(* volume's own image is mounted, unless an image was mapped twice.        *)
SuccessIsComplete ==
    \A v \in Volumes : job[v] = "idle" =>
        /\ result[v] = <<"unmount", "ok">> => mnt[v] = None /\ ~dir[v]
        /\ result[v] \in {<<"unmount", "ok">>, <<"format", "ok">>} => DevicesOf(v) = {}
        /\ result[v] = <<"mount", "ok">> /\ ~twice => v \in Mounted

(* mkfs and mount get a device of their own volume: the device that        *)
(* mapImage has found is still the image's when it is used.                *)
UsesOwnDevice ==
    \A v \in Volumes : at[v] \in {"mkfs", "mkfsrun", "attach"} => mapped[dev[v]] = v

(* A device is taken from a volume by its own operation only. *)
UnmapsOwnDevice ==
    \A d \in Devices, v \in Volumes :
        mapped[d] = v /\ mapped'[d] # v => at[v] = "unmap" /\ at'[v] # "unmap"

(* No operation touches a device of another volume: what mapImage has      *)
(* found and what unmapImage has listed is still its own when it comes to  *)
(* mkfs, mount and, at every call of doUnmap, the unmapping.  All of this  *)
(* only until an image was mapped twice: the lists are stale then.         *)
OwnDevicesOnly ==
    /\ [](twice \/ UsesOwnDevice)
    /\ [][twice \/ UnmapsOwnDevice]_vars

(* Every operation of the driver returns, whatever fails in its loops,     *)
(* unless it fails again and again in one of the two that have no limit:   *)
(* rmdir in Unmount and rbd showmapped in showMapped.                      *)
OperationsReturn ==
    \A v \in Volumes :
        <>[](job[v] # "idle") => []<><<RmdirFails(v) \/ ShowMappedFails(v)>>_vars
================================================================================
