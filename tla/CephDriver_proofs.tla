-------------------------- MODULE CephDriver_proofs --------------------------
(***************************************************************************)
(* The proofs about the ceph driver, for any numbers of volumes, devices   *)
(* and tries and whatever commands fail: what an operation reports as done *)
(* is done, no operation touches a device of another volume as long as no  *)
(* image has been mapped twice, and every operation has a bounded number   *)
(* of steps left.                                                          *)
(***************************************************************************)
EXTENDS CephDriver, TLAPS

(* The steps of each job. *)
StepsOf(j) ==
    CASE j = "idle"      -> {"end"}
      [] j = "format"    -> {"map", "find", "findpause", "mkfs", "mkfsrun",
                             "list", "listpause", "unmap", "check", "checkpause"}
      [] j = "badformat" -> {"list", "listpause", "unmap", "check", "checkpause"}
      [] j = "mount"     -> {"map", "find", "findpause", "attach"}
      [] OTHER           -> {"umount", "rmdir", "list", "listpause", "unmap", "check", "checkpause"}

DriverTypes ==
    /\ mapped \in [Devices -> Volumes \cup {None}]
    /\ mnt \in [Volumes -> Devices \cup {None}]
    /\ dir \in [Volumes -> BOOLEAN]
    /\ job \in [Volumes -> {"idle", "format", "badformat", "mount", "clear", "unmount"}]
    /\ at \in [Volumes -> Steps]
    /\ dev \in [Volumes -> Devices \cup {None}]
    /\ rbdmap \in [Volumes -> SUBSET Devices]
    /\ twice \in BOOLEAN
    /\ result \in [Volumes -> Results]

(* What unmapImage listed has every device of the volume; what Unmount has *)
(* undone stays undone.                                                    *)
Undone(v) ==
    /\ at[v] \in StepsOf(job[v])
    /\ at[v] \in {"unmap", "check", "checkpause"} => DevicesOf(v) \subseteq rbdmap[v]
    /\ job[v] \in {"unmount", "clear"} =>
        /\ at[v] # "umount" => mnt[v] = None
        /\ at[v] \notin {"umount", "rmdir"} => ~dir[v]

Complete(v) ==
    job[v] = "idle" =>
        /\ result[v] = <<"unmount", "ok">> => mnt[v] = None /\ ~dir[v]
        /\ result[v] \in {<<"unmount", "ok">>, <<"format", "ok">>} => DevicesOf(v) = {}

(* The rest is up to the first image that is mapped twice: an image has    *)
(* one device at most, the device that was found is the volume's and so is *)
(* what unmapImage has listed and not unmapped.                            *)
Own(v) ==
    /\ \A d1, d2 \in DevicesOf(v) : d1 = d2
    /\ at[v] \in {"mkfs", "mkfsrun", "attach"} => dev[v] \in DevicesOf(v)
    /\ at[v] = "unmap" => rbdmap[v] = DevicesOf(v)
    /\ at[v] \in {"check", "checkpause"} => DevicesOf(v) = {}
    /\ job[v] = "idle" /\ result[v] = <<"mount", "ok">> => mnt[v] \in DevicesOf(v)

DriverInv ==
    /\ DriverTypes
    /\ \A v \in Volumes : Undone(v) /\ Complete(v)
    /\ twice \/ \A v \in Volumes : Own(v)

--------------------------------------------------------------------------------
LEMMA DriverInitial == Init => DriverInv
<1> SUFFICES ASSUME Init PROVE DriverInv
  OBVIOUS
<1>1. DriverTypes
  BY DEF Init, DriverTypes, Steps, Results
<1>2. \A v \in Volumes : Undone(v) /\ Complete(v)
  BY DEF Init, Undone, Complete, StepsOf
<1>3. \A v \in Volumes : Own(v)
  BY DriverAssumption DEF Init, Own, DevicesOf
<1> QED BY <1>1, <1>2, <1>3 DEF DriverInv

(* What a step of v may do to the devices: none, one more for v, or one of *)
(* those that it has listed no longer.                                     *)
Keeps == UNCHANGED <<mapped, twice>>
Adds(v) == at[v] = "map" /\ \E d \in Devices : RbdMap(v, d)
Takes(v) ==
    /\ at[v] = "unmap" /\ at'[v] # "unmap"
    /\ UNCHANGED twice
    /\ \E d \in Present(v) : mapped' = [mapped EXCEPT ![d] = None]

(* showMapped only pauses and tries again.                                 *)
LEMMA ShowsShape ==
    ASSUME at \in [Volumes -> Steps], NEW v \in Volumes, Shows(v)
    PROVE  /\ UNCHANGED <<mapped, twice, mnt, dir, job, dev, rbdmap, tries, result>>
           /\ at' \in [Volumes -> Steps]
           /\ \A w \in Volumes : w # v => at'[w] = at[w]
           /\ \/ at[v] = "find" /\ at'[v] = "findpause" /\ ShowMappedFails(v)
              \/ at[v] = "list" /\ at'[v] = "listpause" /\ ShowMappedFails(v)
              \/ at[v] = "check" /\ at'[v] = "checkpause" /\ ShowMappedFails(v)
              \/ at[v] = "findpause" /\ at'[v] = "find"
              \/ at[v] = "listpause" /\ at'[v] = "list"
              \/ at[v] = "checkpause" /\ at'[v] = "check"
<1>1. UNCHANGED <<mapped, twice, mnt, dir, job, dev, rbdmap, tries, result>>
  BY DEF Shows, ShowMappedFails, ShowMappedAgain
<1>2. CASE ShowMappedFails(v)
  <2>1. PICK p \in Pauses : at[v] = p[1] /\ at' = [at EXCEPT ![v] = p[2]]
    BY <1>2 DEF ShowMappedFails
  <2> QED BY <1>1, <1>2, <2>1 DEF Pauses, Steps
<1>3. CASE ShowMappedAgain(v)
  <2>1. PICK p \in Pauses : at[v] = p[2] /\ at' = [at EXCEPT ![v] = p[1]]
    BY <1>3 DEF ShowMappedAgain
  <2> QED BY <1>1, <2>1 DEF Pauses, Steps
<1> QED BY <1>2, <1>3 DEF Shows

(* No step of v changes what belongs to another volume.                    *)
LEMMA StepShape ==
    ASSUME DriverTypes, NEW v \in Volumes, Starts(v) \/ Maps(v) \/ Unmaps(v) \/ Shows(v)
    PROVE  /\ Keeps \/ Adds(v) \/ Takes(v)
           /\ \A w \in Volumes : w # v =>
                /\ job'[w] = job[w] /\ at'[w] = at[w] /\ dev'[w] = dev[w] /\ rbdmap'[w] = rbdmap[w]
                /\ mnt'[w] = mnt[w] /\ dir'[w] = dir[w] /\ result'[w] = result[w]
<1> USE DEF DriverTypes, Keeps, Goto, Return, Begin, MapFailed
<1>1. CASE Starts(v)
  BY <1>1 DEF Starts, Format, Mount, Unmount
<1>2. CASE MapImage(v) \/ MapImageRetries(v) \/ MapImageFails(v)
  BY <1>2 DEF MapImage, MapImageRetries, MapImageFails, RbdMapFails, Adds
<1>3. CASE FindDevice(v) \/ FindNothing(v) \/ MkfsStarts(v) \/ MkfsEnds(v)
  BY <1>3 DEF FindDevice, FindNothing, MkfsStarts, MkfsEnds
<1>4. CASE Attach(v) \/ AttachFails(v) \/ Umount(v) \/ UmountRetries(v) \/ UmountFails(v)
  BY <1>4 DEF Attach, AttachFails, Umount, UmountRetries, UmountFails
<1>5. CASE Rmdir(v) \/ RmdirFails(v) \/ ListDevices(v) \/ UnmapNothing(v) \/ UnmapBusy(v) \/ CheckUnmapped(v)
  BY <1>5 DEF Rmdir, RmdirFails, ListDevices, UnmapNothing, UnmapBusy, CheckUnmapped
<1>6. CASE Unmap(v)
  BY <1>6 DEF Unmap, Takes
<1>7. CASE UnmapFails(v)
  BY <1>7 DEF UnmapFails, Takes
<1>8. CASE Shows(v)
  BY <1>8, ShowsShape
<1> QED BY <1>1, <1>2, <1>3, <1>4, <1>5, <1>6, <1>7, <1>8 DEF Maps, Unmaps

(* The devices after a step, *)
LEMMA DevicesAfter ==
    ASSUME DriverTypes, NEW v \in Volumes, Keeps \/ Adds(v) \/ Takes(v)
    PROVE  /\ mapped' \in [Devices -> Volumes \cup {None}] /\ twice' \in BOOLEAN
           /\ twice => twice'
           /\ ~Adds(v) => DevicesOf(v)' \subseteq DevicesOf(v)
           /\ \A w \in Volumes : w # v => DevicesOf(w)' \subseteq DevicesOf(w)
<1> USE DEF DriverTypes, DevicesOf
<1>1. CASE Keeps
  BY <1>1 DEF Keeps
<1>2. CASE Adds(v)
  BY <1>2 DEF Adds, RbdMap
<1>3. CASE Takes(v)
  BY <1>3, DriverAssumption DEF Takes, Present
<1> QED BY <1>1, <1>2, <1>3

(* and until an image is mapped twice.                                     *)
LEMMA DevicesOwn ==
    ASSUME DriverTypes, NEW v \in Volumes, Own(v), ~twice', Keeps \/ Adds(v) \/ Takes(v)
    PROVE  /\ ~twice
           /\ \A w \in Volumes : w # v => DevicesOf(w)' = DevicesOf(w)
           /\ Keeps => DevicesOf(v)' = DevicesOf(v)
           /\ Adds(v) => \A d1, d2 \in DevicesOf(v)' : d1 = d2
           /\ Takes(v) => DevicesOf(v)' = {}
<1> USE DEF DriverTypes, DevicesOf
<1>1. CASE Keeps
  <2>1. ~twice /\ \A w \in Volumes : DevicesOf(w)' = DevicesOf(w)
    BY <1>1 DEF Keeps
  <2>2. ~Adds(v) /\ ~Takes(v)
    BY <1>1, DriverAssumption DEF Keeps, Adds, RbdMap, Takes, Present
  <2> QED BY <2>1, <2>2
<1>2. CASE Adds(v)
  <2>1. PICK d \in Devices : RbdMap(v, d)
    BY <1>2 DEF Adds
  <2>2. ~twice /\ DevicesOf(v) = {} /\ mapped[d] = None /\ mapped' = [mapped EXCEPT ![d] = v]
    BY <2>1 DEF RbdMap
  <2>3. \A w \in Volumes : w # v => DevicesOf(w)' = DevicesOf(w)
    BY <2>2, DriverAssumption
  <2>4. \A d1 \in DevicesOf(v)' : d1 = d
    BY <2>2
  <2>5. ~Keeps /\ ~Takes(v)
    BY <1>2, <2>2, DriverAssumption DEF Keeps, Takes, Adds
  <2> QED BY <2>2, <2>3, <2>4, <2>5
<1>3. CASE Takes(v)
  <2>1. PICK d \in Present(v) : mapped' = [mapped EXCEPT ![d] = None]
    BY <1>3 DEF Takes
  <2>2. ~twice /\ d \in DevicesOf(v) /\ d \in Devices /\ mapped[d] = v
    BY <1>3, <2>1 DEF Takes, Own, Present
  <2>3. \A w \in Volumes : w # v => DevicesOf(w)' = DevicesOf(w)
    BY <2>1, <2>2, DriverAssumption
  <2>4. DevicesOf(v)' = {}
    BY <2>1, <2>2, DriverAssumption DEF Own
  <2>5. ~Keeps /\ ~Adds(v)
    BY <1>3, <2>1, <2>2, DriverAssumption DEF Keeps, Takes, Adds
  <2> QED BY <2>2, <2>3, <2>4, <2>5
<1> QED BY <1>1, <1>2, <1>3

(* The volumes that a step is not about.                                   *)
LEMMA OthersKept ==
    ASSUME DriverInv, NEW v \in Volumes, Starts(v) \/ Maps(v) \/ Unmaps(v) \/ Shows(v),
           NEW w \in Volumes, w # v
    PROVE  Undone(w)' /\ Complete(w)' /\ (twice' \/ Own(w)')
<1>0. DriverTypes /\ Undone(w) /\ Complete(w) /\ (twice \/ (Own(w) /\ Own(v)))
  BY DEF DriverInv
<1>1. /\ job'[w] = job[w] /\ at'[w] = at[w] /\ dev'[w] = dev[w] /\ rbdmap'[w] = rbdmap[w]
      /\ mnt'[w] = mnt[w] /\ dir'[w] = dir[w] /\ result'[w] = result[w]
      /\ Keeps \/ Adds(v) \/ Takes(v)
  BY <1>0, StepShape
<1>2. DevicesOf(w)' \subseteq DevicesOf(w) /\ (twice => twice')
  BY <1>0, <1>1, DevicesAfter
<1>3. ~twice' => DevicesOf(w)' = DevicesOf(w)
  BY <1>0, <1>1, <1>2, DevicesOwn
<1> QED BY <1>0, <1>1, <1>2, <1>3 DEF Undone, Complete, Own

--------------------------------------------------------------------------------
(* The volume that a step is about: its state in each case.                *)

(* An operation that returns an error promises nothing.                    *)
LEMMA ErrorReturns ==
    ASSUME DriverTypes, NEW v \in Volumes, Return(v, "error"),
           twice' \/ \A d1, d2 \in DevicesOf(v)' : d1 = d2
    PROVE  Undone(v)' /\ Complete(v)' /\ (twice' \/ Own(v)')
<1>1. job'[v] = "idle" /\ at'[v] = "end" /\ result'[v] = <<Operation(v), "error">>
  BY DEF Return, Goto, DriverTypes
<1> QED BY <1>1 DEF Undone, Complete, Own, StepsOf

(* unmapImage is done: what it listed is gone.                             *)
LEMMA UnmappedReturns ==
    ASSUME DriverInv, NEW v \in Volumes, at[v] \in {"unmap", "check"},
           Return(v, Outcome(v)), DevicesOf(v) = {}, UNCHANGED <<mapped, twice, mnt, dir>>
    PROVE  Undone(v)' /\ Complete(v)' /\ (twice' \/ Own(v)')
<1>1. /\ job'[v] = "idle" /\ at'[v] = "end" /\ result'[v] = <<Operation(v), Outcome(v)>>
      /\ DevicesOf(v)' = {}
  BY DEF Return, Goto, DriverInv, DriverTypes, DevicesOf
<1>2. job[v] \in {"format", "badformat", "clear", "unmount"}
  BY DEF DriverInv, DriverTypes, Undone, StepsOf
<1>3. Operation(v) \in {"format", "mount", "unmount"}
      /\ (Operation(v) = "unmount" => job[v] = "unmount")
      /\ (Operation(v) = "mount" => Outcome(v) = "error")
  BY <1>2 DEF Operation, Outcome
<1>4. result'[v] = <<"unmount", "ok">> => mnt'[v] = None /\ ~dir'[v]
  BY <1>1, <1>3 DEF DriverInv, Undone
<1>5. result'[v] # <<"mount", "ok">>
  BY <1>1, <1>3
<1> QED BY <1>1, <1>4, <1>5 DEF Undone, Complete, Own, StepsOf

(* An operation begins, maps the image and looks for its device,           *)
LEMMA MapKeeps ==
    ASSUME DriverInv, NEW v \in Volumes,
           \/ Starts(v)
           \/ MapImage(v) \/ MapImageRetries(v) \/ MapImageFails(v)
           \/ FindDevice(v) \/ FindNothing(v)
    PROVE  Undone(v)' /\ Complete(v)' /\ (twice' \/ Own(v)')
<1>0. DriverTypes /\ Undone(v) /\ (twice \/ Own(v))
  BY DEF DriverInv
<1>1. Keeps \/ Adds(v) \/ Takes(v)
  BY <1>0, StepShape DEF Maps
<1>2. at[v] # "unmap" => twice' \/ \A d1, d2 \in DevicesOf(v)' : d1 = d2
  BY <1>0, <1>1, DevicesAfter, DevicesOwn DEF Own, Takes
<1>3. CASE Starts(v)
  <2>1. /\ job'[v] \in {"format", "mount", "unmount"}
        /\ at'[v] = IF job'[v] = "unmount" THEN "umount" ELSE "map"
        /\ at[v] # "unmap"
    BY <1>0, <1>3 DEF Starts, Format, Mount, Unmount, Begin, Goto, DriverTypes, Undone, StepsOf
  <2> QED BY <1>2, <2>1 DEF Undone, Complete, Own, StepsOf
<1>4. CASE MapFailed(v) /\ at[v] \in {"map", "find"}
  <2>1. CASE job[v] = "mount"
    <3>1. job'[v] = "clear" /\ at'[v] = "umount"
      BY <1>0, <1>4, <2>1 DEF MapFailed, Goto, DriverTypes
    <3> QED BY <1>2, <1>4, <3>1 DEF Undone, Complete, Own, StepsOf
  <2>2. CASE job[v] # "mount"
    BY <1>0, <1>2, <1>4, <2>2, ErrorReturns DEF MapFailed
  <2> QED BY <2>1, <2>2
<1>5. CASE MapImage(v) \/ MapImageRetries(v)
  <2>1. /\ at[v] = "map" /\ at'[v] \in {"map", "find"} /\ job'[v] = job[v]
        /\ job[v] \in {"format", "mount"}
    BY <1>0, <1>5 DEF MapImage, MapImageRetries, Goto, DriverTypes, Undone, StepsOf
  <2> QED BY <1>2, <2>1 DEF Undone, Complete, Own, StepsOf
<1>6. CASE FindDevice(v)
  <2>1. PICK d \in DevicesOf(v) : dev' = [dev EXCEPT ![v] = d]
    BY <1>6 DEF FindDevice
  <2>2. /\ at[v] = "find" /\ at'[v] = (IF job[v] = "format" THEN "mkfs" ELSE "attach")
        /\ job'[v] = job[v] /\ job[v] \in {"format", "mount"} /\ dev'[v] = d
        /\ DevicesOf(v)' = DevicesOf(v)
    BY <1>0, <1>6, <2>1 DEF FindDevice, Goto, DriverTypes, Undone, StepsOf, DevicesOf
  <2> QED BY <1>2, <2>2 DEF Undone, Complete, Own, StepsOf
<1>7. MapImageFails(v) \/ FindNothing(v) => MapFailed(v) /\ at[v] \in {"map", "find"}
  BY DEF MapImageFails, FindNothing
<1> QED BY <1>3, <1>4, <1>5, <1>6, <1>7

(* uses it,                                                                *)
LEMMA UseKeeps ==
    ASSUME DriverInv, NEW v \in Volumes,
           MkfsStarts(v) \/ MkfsEnds(v) \/ Attach(v) \/ AttachFails(v)
    PROVE  Undone(v)' /\ Complete(v)' /\ (twice' \/ Own(v)')
<1>0. DriverTypes /\ Undone(v) /\ (twice \/ Own(v))
  BY DEF DriverInv
<1>1. DevicesOf(v)' = DevicesOf(v) /\ twice' = twice
  BY DEF MkfsStarts, MkfsEnds, Attach, AttachFails, DevicesOf
<1>2. CASE MkfsStarts(v)
  <2>1. at[v] = "mkfs" /\ at'[v] = "mkfsrun" /\ job'[v] = job[v] /\ dev'[v] = dev[v] /\ job[v] = "format"
    BY <1>0, <1>2 DEF MkfsStarts, Goto, DriverTypes, Undone, StepsOf
  <2> QED BY <1>0, <1>1, <2>1 DEF Undone, Complete, Own, StepsOf
<1>3. CASE MkfsEnds(v)
  <2>1. at'[v] = "list" /\ job'[v] \in {"format", "badformat"}
    BY <1>0, <1>3 DEF MkfsEnds, Goto, DriverTypes, Undone, StepsOf
  <2> QED BY <1>0, <1>1, <2>1 DEF Undone, Complete, Own, StepsOf
<1>4. CASE Attach(v)
  <2>1. /\ at[v] = "attach" /\ at'[v] = "end" /\ job'[v] = "idle" /\ mnt'[v] = dev[v]
        /\ job[v] = "mount" /\ result'[v] = <<Operation(v), "ok">>
    BY <1>0, <1>4 DEF Attach, Return, Goto, DriverTypes, Undone, StepsOf
  <2>2. result'[v] = <<"mount", "ok">>
    BY <2>1 DEF Operation
  <2> QED BY <1>0, <1>1, <2>1, <2>2 DEF Undone, Complete, Own, StepsOf
<1>5. CASE AttachFails(v)
  <2>1. at'[v] = "umount" /\ job'[v] = "clear"
    BY <1>0, <1>5 DEF AttachFails, Goto, DriverTypes
  <2> QED BY <1>0, <1>1, <2>1 DEF Undone, Complete, Own, StepsOf
<1> QED BY <1>2, <1>3, <1>4, <1>5

(* unmounts it and lists what is mapped,                                   *)
LEMMA UnmountKeeps ==
    ASSUME DriverInv, NEW v \in Volumes,
           \/ Umount(v) \/ UmountRetries(v) \/ UmountFails(v)
           \/ Rmdir(v) \/ RmdirFails(v) \/ ListDevices(v)
    PROVE  Undone(v)' /\ Complete(v)' /\ (twice' \/ Own(v)')
<1>0. DriverTypes /\ Undone(v) /\ (twice \/ Own(v))
  BY DEF DriverInv
<1>1. DevicesOf(v)' = DevicesOf(v) /\ twice' = twice
  BY DEF Umount, UmountRetries, UmountFails, Rmdir, RmdirFails, ListDevices, DevicesOf
<1>2. CASE Umount(v) \/ UmountRetries(v) \/ RmdirFails(v)
  <2>1. /\ job'[v] = job[v] /\ job[v] \in {"unmount", "clear"}
        /\ at'[v] = "umount" \/ (at'[v] = "rmdir" /\ mnt'[v] = None)
    BY <1>0, <1>2 DEF Umount, UmountRetries, RmdirFails, DriverTypes, Undone, StepsOf
  <2> QED BY <1>0, <1>1, <2>1 DEF Undone, Complete, Own, StepsOf
<1>3. CASE UmountFails(v)
  BY <1>0, <1>1, <1>3, ErrorReturns DEF UmountFails, Own
<1>4. CASE Rmdir(v)
  <2>1. /\ job'[v] = job[v] /\ job[v] \in {"unmount", "clear"}
        /\ at'[v] = "list" /\ mnt'[v] = None /\ dir'[v] = FALSE
    BY <1>0, <1>4 DEF Rmdir, Goto, DriverTypes, Undone, StepsOf
  <2> QED BY <1>0, <1>1, <2>1 DEF Undone, Complete, Own, StepsOf
<1>5. CASE ListDevices(v)
  <2>1. /\ job'[v] = job[v] /\ job[v] \in {"format", "badformat", "unmount", "clear"}
        /\ at[v] = "list" /\ at'[v] = "unmap" /\ mnt'[v] = mnt[v] /\ dir'[v] = dir[v]
        /\ rbdmap'[v] = DevicesOf(v)
    BY <1>0, <1>5 DEF ListDevices, Goto, DriverTypes, Undone, StepsOf
  <2> QED BY <1>0, <1>1, <2>1 DEF Undone, Complete, Own, StepsOf
<1> QED BY <1>2, <1>3, <1>4, <1>5

(* and unmaps it.                                                          *)
LEMMA UnmapKeeps ==
    ASSUME DriverInv, NEW v \in Volumes,
           UnmapNothing(v) \/ Unmap(v) \/ UnmapBusy(v) \/ UnmapFails(v) \/ CheckUnmapped(v)
    PROVE  Undone(v)' /\ Complete(v)' /\ (twice' \/ Own(v)')
<1>0. DriverTypes /\ Undone(v) /\ (twice \/ Own(v))
  BY DEF DriverInv
<1>1. Keeps \/ Adds(v) \/ Takes(v)
  BY <1>0, StepShape DEF Unmaps
<1>2. ~Adds(v)
  BY DEF UnmapNothing, Unmap, UnmapBusy, UnmapFails, CheckUnmapped, Adds
<1>3. DevicesOf(v)' \subseteq DevicesOf(v) /\ (twice => twice')
  BY <1>0, <1>1, <1>2, DevicesAfter
<1>4. twice' \/ \A d1, d2 \in DevicesOf(v)' : d1 = d2
  BY <1>0, <1>3 DEF Own
<1>5. CASE UnmapNothing(v)
  <2>1. DevicesOf(v) = {}
    BY <1>0, <1>5, DriverAssumption DEF UnmapNothing, Undone, Present, DevicesOf
  <2> QED BY <1>5, <2>1, UnmappedReturns DEF UnmapNothing
<1>6. CASE CheckUnmapped(v)
  BY <1>6, UnmappedReturns DEF CheckUnmapped
<1>7. CASE Unmap(v)
  <2>1. /\ job'[v] = job[v] /\ at[v] = "unmap" /\ at'[v] = "check" /\ mnt'[v] = mnt[v] /\ dir'[v] = dir[v]
        /\ rbdmap'[v] = rbdmap[v] /\ job[v] \in {"format", "badformat", "unmount", "clear"}
    BY <1>0, <1>7 DEF Unmap, DriverTypes, Undone, StepsOf
  <2>2. Takes(v)
    BY <1>7, <2>1 DEF Unmap, Takes
  <2>3. twice' \/ DevicesOf(v)' = {}
    BY <1>0, <1>3, <2>2, DevicesOwn
  <2> QED BY <1>0, <1>3, <1>4, <2>1, <2>3 DEF Undone, Complete, Own, StepsOf
<1>8. CASE UnmapBusy(v)
  <2>1. Keeps /\ DevicesOf(v)' = DevicesOf(v)
    BY <1>8 DEF UnmapBusy, Keeps, DevicesOf
  <2>2. CASE Return(v, "error")
    BY <1>0, <1>4, <2>2, ErrorReturns
  <2>3. CASE ~Return(v, "error")
    <3>1. /\ job'[v] = job[v] /\ at[v] \in {"unmap", "check"} /\ at'[v] = "unmap"
          /\ mnt'[v] = mnt[v] /\ dir'[v] = dir[v]
          /\ rbdmap'[v] = rbdmap[v] /\ job[v] \in {"format", "badformat", "unmount", "clear"}
      BY <1>0, <1>8, <2>3 DEF UnmapBusy, DriverTypes, Undone, StepsOf
    <3>2. at[v] = "unmap" \/ DevicesOf(v) # {}
      BY <1>8 DEF UnmapBusy
    <3> QED BY <1>0, <1>3, <1>4, <2>1, <3>1, <3>2 DEF Undone, Complete, Own, StepsOf
  <2> QED BY <2>2, <2>3
<1>9. CASE UnmapFails(v)
  BY <1>0, <1>4, <1>9, ErrorReturns DEF UnmapFails
<1> QED BY <1>5, <1>6, <1>7, <1>8, <1>9

(* The pauses of showMapped change nothing.                                *)
LEMMA ShowsKeeps ==
    ASSUME DriverInv, NEW v \in Volumes, Shows(v)
    PROVE  Undone(v)' /\ Complete(v)' /\ (twice' \/ Own(v)')
<1>0. DriverTypes /\ Undone(v) /\ Complete(v) /\ (twice \/ Own(v))
  BY DEF DriverInv
<1>1. at \in [Volumes -> Steps] /\ job \in [Volumes -> {"idle", "format", "badformat", "mount", "clear", "unmount"}]
  BY <1>0 DEF DriverTypes
<1>2. DevicesOf(v)' = DevicesOf(v)
  BY <1>1, ShowsShape DEF DevicesOf
<1>3. job[v] # "idle"
  BY <1>0, <1>1, ShowsShape DEF Undone, StepsOf
<1>4. Undone(v)'
  BY <1>0, <1>1, <1>2, <1>3, ShowsShape DEF Undone, StepsOf
<1>5. Complete(v)'
  BY <1>1, <1>3, ShowsShape DEF Complete
<1>6. twice' \/ Own(v)'
  BY <1>0, <1>1, <1>2, <1>3, ShowsShape DEF Own
<1> QED BY <1>4, <1>5, <1>6

--------------------------------------------------------------------------------
LEMMA DriverTypesStep ==
    ASSUME DriverTypes, NEW v \in Volumes, Starts(v) \/ Maps(v) \/ Unmaps(v) \/ Shows(v)
    PROVE  DriverTypes'
<1>0. Keeps \/ Adds(v) \/ Takes(v)
  BY StepShape
<1>1. mapped' \in [Devices -> Volumes \cup {None}] /\ twice' \in BOOLEAN
  BY <1>0, DevicesAfter
<1> USE DEF DriverTypes
<1>2. <<Operation(v), "ok">> \in Results /\ <<Operation(v), "error">> \in Results
      /\ <<Operation(v), Outcome(v)>> \in Results /\ <<"none", "ok">> \in Results
  BY DEF Operation, Results, Outcome
<1>3. ASSUME NEW r \in {"ok", "error"}, Return(v, r)
      PROVE  /\ job' \in [Volumes -> {"idle", "format", "badformat", "mount", "clear", "unmount"}]
             /\ at' \in [Volumes -> Steps] /\ dev' \in [Volumes -> Devices \cup {None}]
             /\ rbdmap' \in [Volumes -> SUBSET Devices] /\ result' \in [Volumes -> Results]
  BY <1>2, <1>3 DEF Return, Goto, Steps
<1>4. CASE Starts(v)
  BY <1>1, <1>2, <1>4 DEF Starts, Format, Mount, Unmount, Begin, Goto, Steps
<1>5. CASE MapFailed(v) /\ UNCHANGED <<mnt, dir>>
  <2>1. CASE job[v] = "mount"
    BY <1>1, <1>5, <2>1 DEF MapFailed, Goto, Steps
  <2>2. CASE job[v] # "mount"
    BY <1>1, <1>3, <1>5, <2>2 DEF MapFailed
  <2> QED BY <2>1, <2>2
<1>6. CASE MapImage(v) \/ MapImageRetries(v)
  BY <1>1, <1>6 DEF MapImage, MapImageRetries, Goto, Steps
<1>7. CASE FindDevice(v)
  BY <1>1, <1>7 DEF FindDevice, DevicesOf, Goto, Steps
<1>8. CASE MkfsStarts(v) \/ MkfsEnds(v) \/ AttachFails(v)
  <2>1. /\ dir' \in {dir, [dir EXCEPT ![v] = TRUE]} /\ UNCHANGED <<mnt, rbdmap, result>>
        /\ dev' = dev \/ dev' = [dev EXCEPT ![v] = None]
    BY <1>8 DEF MkfsStarts, MkfsEnds, AttachFails
  <2>2. \/ job' = job \/ job' = [job EXCEPT ![v] = "badformat"]
        \/ job' = [job EXCEPT ![v] = "clear"]
    BY <1>8 DEF MkfsStarts, MkfsEnds, AttachFails
  <2>3. at' \in [Volumes -> Steps]
    BY <1>8 DEF MkfsStarts, MkfsEnds, AttachFails, Goto, Steps
  <2>4. /\ dir' \in [Volumes -> BOOLEAN]
        /\ job' \in [Volumes -> {"idle", "format", "badformat", "mount", "clear", "unmount"}]
    BY <2>1, <2>2
  <2> QED BY <1>1, <2>1, <2>3, <2>4
<1>9. CASE Attach(v)
  <2>1. Return(v, "ok") /\ dir' = [dir EXCEPT ![v] = TRUE] /\ mnt' = [mnt EXCEPT ![v] = dev[v]]
    BY <1>9 DEF Attach
  <2> QED BY <1>1, <1>3, <2>1
<1>10. CASE Umount(v) \/ UmountRetries(v) \/ Rmdir(v) \/ RmdirFails(v)
  BY <1>1, <1>10 DEF Umount, UmountRetries, Rmdir, RmdirFails, Goto, Steps
<1>11. CASE ListDevices(v) \/ Unmap(v)
  BY <1>1, <1>11 DEF ListDevices, Unmap, DevicesOf, Goto, Steps
<1>12. ASSUME NEW r \in {"ok", "error"}, Return(v, r), UNCHANGED <<mnt, dir>>
       PROVE  DriverTypes'
  BY <1>1, <1>3, <1>12
<1>13. CASE UmountFails(v) \/ UnmapNothing(v) \/ UnmapFails(v) \/ CheckUnmapped(v)
  BY <1>12, <1>13 DEF UmountFails, UnmapNothing, UnmapFails, CheckUnmapped, Outcome
<1>14. CASE UnmapBusy(v)
  <2>1. CASE Return(v, "error")
    BY <1>12, <1>14, <2>1 DEF UnmapBusy
  <2>2. CASE ~Return(v, "error")
    BY <1>1, <1>14, <2>2 DEF UnmapBusy, Steps
  <2> QED BY <2>1, <2>2
<1>15. CASE Shows(v)
  BY <1>15, ShowsShape
<1> QED BY <1>4, <1>5, <1>6, <1>7, <1>8, <1>9, <1>10, <1>11, <1>13, <1>14, <1>15
        DEF Maps, Unmaps, MapImageFails, FindNothing

LEMMA DriverStep == DriverInv /\ [Next]_vars => DriverInv'
<1> SUFFICES ASSUME DriverInv, [Next]_vars PROVE DriverInv'
  OBVIOUS
<1>1. ASSUME NEW v \in Volumes, Starts(v) \/ Maps(v) \/ Unmaps(v) \/ Shows(v)
      PROVE  DriverInv'
  <2>1. DriverTypes'
    BY <1>1, DriverTypesStep DEF DriverInv
  <2>2. Undone(v)' /\ Complete(v)' /\ (twice' \/ Own(v)')
    BY <1>1, MapKeeps, UseKeeps, UnmountKeeps, UnmapKeeps, ShowsKeeps DEF Maps, Unmaps
  <2>3. \A w \in Volumes : w # v => Undone(w)' /\ Complete(w)' /\ (twice' \/ Own(w)')
    BY <1>1, OthersKept
  <2> QED BY <2>1, <2>2, <2>3 DEF DriverInv
<1>2. CASE UNCHANGED vars
  BY <1>2 DEF vars, DriverInv, DriverTypes, Undone, Complete, Own, DevicesOf
<1> QED BY <1>1, <1>2 DEF Next

(* Mount, Unmount and Format: what a caller is told was done is done, for  *)
(* any volumes, devices and numbers of tries, whatever commands fail.      *)
THEOREM SuccessIsCompleteHolds == Spec => []SuccessIsComplete
<1>1. DriverInv => SuccessIsComplete
  BY DriverAssumption DEF DriverInv, DriverTypes, Complete, Own, SuccessIsComplete, Mounted, DevicesOf
<1> QED BY <1>1, DriverInitial, DriverStep, PTL DEF Spec

(* mkfs, mount and unmap get devices of their own volume, although devices *)
(* are given to other images between the look and the use: until some      *)
(* image has been mapped twice.                                            *)
THEOREM OwnDevicesOnlyHolds == Spec => OwnDevicesOnly
<1>1. DriverInv => twice \/ UsesOwnDevice
  BY DEF DriverInv, Own, UsesOwnDevice, DevicesOf
<1>2. DriverInv /\ [Next]_vars => [twice \/ UnmapsOwnDevice]_vars
  <2> SUFFICES ASSUME DriverInv, Next, ~twice,
                      NEW d \in Devices, NEW w \in Volumes, mapped[d] = w, mapped'[d] # w
               PROVE  at[w] = "unmap" /\ at'[w] # "unmap"
    BY DEF UnmapsOwnDevice
  <2>1. PICK v \in Volumes : Starts(v) \/ Maps(v) \/ Unmaps(v) \/ Shows(v)
    BY DEF Next
  <2>2. DriverTypes /\ Own(v)
    BY DEF DriverInv
  <2>3. Keeps \/ Adds(v) \/ Takes(v)
    BY <2>1, <2>2, StepShape
  <2>4. ~Keeps /\ ~Adds(v)
    BY <2>2, DriverAssumption DEF Keeps, Adds, RbdMap, DriverTypes
  <2>5. at[v] = "unmap" /\ at'[v] # "unmap" /\ d \in Present(v)
    BY <2>2, <2>3, <2>4 DEF Takes, DriverTypes
  <2>6. mapped[d] = v
    BY <2>2, <2>5 DEF Own, Present, DevicesOf
  <2> QED BY <2>5, <2>6
<1> QED BY <1>1, <1>2, DriverInitial, DriverStep, PTL DEF Spec, OwnDevicesOnly

--------------------------------------------------------------------------------
(* Operations do not go on for ever.                                       *)

(* An upper bound of the steps that an operation has left, the failures of *)
(* rmdir and rbd showmapped aside: those of the step it is at, those of an Unmount after it   *)
(* (clearMount's) and two for every call of doUnmap.                       *)
Left(v) ==
    IF at[v] = "map" THEN (MapTries - tries[v]) + UnmountTries + 2 * UnmapTries + 9 ELSE
    IF at[v] = "findpause" THEN UnmountTries + 2 * UnmapTries + 9 ELSE
    IF at[v] = "find" THEN UnmountTries + 2 * UnmapTries + 8 ELSE
    IF at[v] = "mkfs" THEN UnmountTries + 2 * UnmapTries + 7 ELSE
    IF at[v] = "mkfsrun" THEN UnmountTries + 2 * UnmapTries + 6 ELSE
    IF at[v] = "attach" THEN UnmountTries + 2 * UnmapTries + 5 ELSE
    IF at[v] = "umount" THEN (UnmountTries - tries[v]) + 2 * UnmapTries + 4 ELSE
    IF at[v] \in {"rmdir", "listpause"} THEN 2 * UnmapTries + 3 ELSE
    IF at[v] = "list" THEN 2 * UnmapTries + 2 ELSE
    IF at[v] \in {"unmap", "checkpause"} THEN 2 * (UnmapTries - tries[v]) + 1 ELSE
    IF at[v] = "check" THEN 2 * (UnmapTries - tries[v]) ELSE 0

(* The counters stay below the limits of the loops they belong to. *)
Tries(v) ==
    /\ tries[v] \in Nat
    /\ at[v] = "map" => tries[v] <= MapTries
    /\ at[v] \in {"umount", "rmdir"} => tries[v] < UnmountTries
    /\ at[v] \in {"unmap", "check", "checkpause"} => tries[v] < UnmapTries

TriesInv == DriverTypes /\ tries \in [Volumes -> Nat] /\ \A v \in Volumes : Tries(v)

(* Whatever happens, an operation comes nearer to its end, waits, or has   *)
(* failed to remove the directory or to list the devices, which are the    *)
(* only ways back.                                                         *)
WorkGoesDown(v) ==
    job[v] # "idle" =>
        \/ Left(v)' < Left(v)
        \/ UNCHANGED <<job[v], at[v], tries[v]>>
        \/ RmdirFails(v) \/ ShowMappedFails(v)

BoundedWork == \A v \in Volumes : WorkGoesDown(v)

(* The bound, for an operation at its first step. *)
WorkLeft ==
    \A v \in Volumes : Left(v) \in 0 .. (MapTries + UnmountTries + 2 * UnmapTries + 9)

(* The other volumes' operations are where they were.                      *)
LEMMA OthersWait ==
    ASSUME TriesInv, NEW v \in Volumes, Starts(v) \/ Maps(v) \/ Unmaps(v) \/ Shows(v)
    PROVE  /\ tries' \in [Volumes -> Nat]
           /\ \A w \in Volumes : w # v =>
                job'[w] = job[w] /\ at'[w] = at[w] /\ tries'[w] = tries[w]
<1>1. \A w \in Volumes : w # v => job'[w] = job[w] /\ at'[w] = at[w]
  BY StepShape DEF TriesInv
<1>2. \/ tries' = tries
      \/ tries' = [tries EXCEPT ![v] = 0]
      \/ tries' = [tries EXCEPT ![v] = tries[v] + 1]
  <2> USE DEF Goto, Again, Return, Begin, MapFailed
  <2>1. CASE Starts(v)
    BY <2>1 DEF Starts, Format, Mount, Unmount
  <2>2. CASE Maps(v)
    BY <2>2 DEF Maps, MapImage, MapImageRetries, MapImageFails, FindDevice, FindNothing,
                MkfsStarts, MkfsEnds, Attach, AttachFails
  <2>3. CASE Unmaps(v)
    BY <2>3 DEF Unmaps, Umount, UmountRetries, UmountFails, Rmdir, RmdirFails, ListDevices,
                UnmapNothing, Unmap, UnmapBusy, UnmapFails, CheckUnmapped
  <2>4. CASE Shows(v)
    BY <2>4 DEF Shows, ShowMappedFails, ShowMappedAgain
  <2> QED BY <2>1, <2>2, <2>3, <2>4
<1> QED BY <1>1, <1>2 DEF TriesInv

(* A step to a later point of the operation, with the tries counted anew,  *)
LEMMA GoesOn ==
    ASSUME TriesInv, NEW v \in Volumes, at'[v] \in Steps, tries'[v] = 0, at[v] # "end",
           \/ at[v] = "map" /\ at'[v] \in {"find", "umount", "end"}
           \/ at[v] = "find" /\ at'[v] \in {"mkfs", "attach", "umount", "end"}
           \/ at[v] = "mkfs" /\ at'[v] = "mkfsrun"
           \/ at[v] = "mkfsrun" /\ at'[v] = "list"
           \/ at[v] = "attach" /\ at'[v] \in {"umount", "end"}
           \/ at[v] = "rmdir" /\ at'[v] = "list"
           \/ at[v] = "list" /\ at'[v] = "unmap"
           \/ at[v] \in {"umount", "unmap", "check"} /\ at'[v] = "end"
    PROVE  Tries(v)' /\ Left(v)' < Left(v)
<1>1. Tries(v) /\ tries[v] \in Nat /\ MapTries \in Nat /\ UnmountTries \in Nat /\ UnmountTries > 0
      /\ UnmapTries \in Nat /\ UnmapTries > 0
  BY DriverAssumption DEF TriesInv, Tries
<1>2. Tries(v)'
  BY <1>1 DEF Tries
<1> USE <1>1 DEF Left, Tries
<1>3. CASE at[v] = "map"
  BY <1>3
<1>4. CASE at[v] = "find"
  BY <1>4
<1>5. CASE at[v] \in {"mkfs", "mkfsrun", "attach"}
  BY <1>5
<1>6. CASE at[v] \in {"rmdir", "list"}
  BY <1>6
<1>7. CASE at[v] \in {"umount", "unmap", "check"}
  BY <1>7
<1> QED BY <1>2, <1>3, <1>4, <1>5, <1>6, <1>7

(* and one more try, or the one step that keeps their number.              *)
LEMMA TriesAgain ==
    ASSUME TriesInv, NEW v \in Volumes,
           \/ at[v] = "map" /\ at'[v] = "map" /\ tries[v] < MapTries /\ tries'[v] = tries[v] + 1
           \/ at[v] = "umount" /\ at'[v] = "umount" /\ tries[v] + 1 < UnmountTries /\ tries'[v] = tries[v] + 1
           \/ at[v] = "umount" /\ at'[v] = "rmdir" /\ tries'[v] = tries[v]
           \/ at[v] \in {"unmap", "check"} /\ at'[v] = "unmap" /\ tries[v] + 1 < UnmapTries
              /\ tries'[v] = tries[v] + 1
           \/ at[v] = "unmap" /\ at'[v] = "check" /\ tries'[v] = tries[v]
    PROVE  Tries(v)' /\ Left(v)' < Left(v)
<1>1. Tries(v) /\ tries[v] \in Nat /\ MapTries \in Nat /\ UnmountTries \in Nat /\ UnmapTries \in Nat
  BY DriverAssumption DEF TriesInv, Tries
<1> USE <1>1 DEF Left, Tries
<1>2. CASE at[v] = "map"
  BY <1>2
<1>3. CASE at[v] = "umount"
  BY <1>3
<1>4. CASE at[v] \in {"unmap", "check"}
  BY <1>4
<1> QED BY <1>2, <1>3, <1>4

(* Every step of the operation is one of these, or of a loop without limit. *)
LEMMA WorkStep ==
    ASSUME TriesInv, NEW v \in Volumes, Starts(v) \/ Maps(v) \/ Unmaps(v) \/ Shows(v)
    PROVE  Tries(v)' /\ WorkGoesDown(v)
<1>0. /\ at \in [Volumes -> Steps] /\ at' \in [Volumes -> Steps]
      /\ tries \in [Volumes -> Nat]
      /\ job \in [Volumes -> {"idle", "format", "badformat", "mount", "clear", "unmount"}]
  BY DriverTypesStep DEF TriesInv, DriverTypes
<1> USE <1>0
<1>1. CASE Starts(v)
  <2>1. job[v] = "idle" /\ tries'[v] = 0 /\ at'[v] \in {"map", "umount"}
    BY <1>1 DEF Starts, Format, Mount, Unmount, Begin, Goto
  <2> QED BY <2>1, DriverAssumption DEF Tries, WorkGoesDown
<1>2. CASE MapImage(v)
  BY <1>2, GoesOn DEF MapImage, Goto, WorkGoesDown
<1>3. CASE MapImageRetries(v)
  BY <1>3, TriesAgain DEF MapImageRetries, Again, WorkGoesDown
<1>4. CASE MapFailed(v) /\ at[v] \in {"map", "find"}
  <2>1. tries'[v] = 0 /\ at'[v] \in {"umount", "end"}
    BY <1>4 DEF MapFailed, Goto, Return
  <2> QED BY <1>4, <2>1, GoesOn DEF WorkGoesDown
<1>5. CASE FindDevice(v)
  <2>1. tries'[v] = 0 /\ at[v] = "find" /\ at'[v] \in {"mkfs", "attach"}
    BY <1>5 DEF FindDevice, Goto
  <2> QED BY <2>1, GoesOn DEF WorkGoesDown
<1>6. CASE MkfsStarts(v) \/ MkfsEnds(v)
  <2>1. tries'[v] = 0 /\ \/ at[v] = "mkfs" /\ at'[v] = "mkfsrun"
                         \/ at[v] = "mkfsrun" /\ at'[v] = "list"
    BY <1>6 DEF MkfsStarts, MkfsEnds, Goto
  <2> QED BY <2>1, GoesOn DEF WorkGoesDown
<1>7. CASE Attach(v) \/ AttachFails(v)
  <2>1. tries'[v] = 0 /\ at[v] = "attach" /\ at'[v] \in {"umount", "end"}
    BY <1>7 DEF Attach, AttachFails, Return, Goto
  <2> QED BY <2>1, GoesOn DEF WorkGoesDown
<1>8. CASE Umount(v) \/ UmountRetries(v)
  <2>1. \/ at[v] = "umount" /\ at'[v] = "umount" /\ tries[v] + 1 < UnmountTries /\ tries'[v] = tries[v] + 1
        \/ at[v] = "umount" /\ at'[v] = "rmdir" /\ tries'[v] = tries[v]
    BY <1>8 DEF Umount, UmountRetries, Again
  <2> QED BY <2>1, TriesAgain DEF WorkGoesDown
<1>9. CASE Rmdir(v) \/ ListDevices(v)
  <2>1. tries'[v] = 0 /\ \/ at[v] = "rmdir" /\ at'[v] = "list"
                         \/ at[v] = "list" /\ at'[v] = "unmap"
    BY <1>9 DEF Rmdir, ListDevices, Goto
  <2> QED BY <2>1, GoesOn DEF WorkGoesDown
<1>10. CASE RmdirFails(v)
  <2>1. at[v] = "rmdir" /\ at'[v] = "umount" /\ tries'[v] = tries[v]
    BY <1>10 DEF RmdirFails
  <2> QED BY <1>10, <2>1 DEF WorkGoesDown, TriesInv, Tries
<1>11. CASE Return(v, "error") /\ at[v] \in {"umount", "unmap", "check"}
  BY <1>11, GoesOn DEF Return, Goto, WorkGoesDown
<1>12. CASE UnmapNothing(v) \/ CheckUnmapped(v)
  BY <1>12, GoesOn DEF UnmapNothing, CheckUnmapped, Return, Goto, WorkGoesDown
<1>13. CASE Unmap(v)
  BY <1>13, TriesAgain DEF Unmap, WorkGoesDown
<1>14. CASE UnmapBusy(v)
  <2>1. at[v] \in {"unmap", "check"}
    BY <1>14 DEF UnmapBusy
  <2>2. CASE tries[v] + 1 < UnmapTries
    BY <1>14, <2>1, <2>2, TriesAgain DEF UnmapBusy, Again, WorkGoesDown
  <2> QED BY <1>11, <1>14, <2>1, <2>2 DEF UnmapBusy
<1>15. MapImageFails(v) \/ FindNothing(v) => MapFailed(v) /\ at[v] \in {"map", "find"}
  BY DEF MapImageFails, FindNothing
<1>16. UmountFails(v) \/ UnmapFails(v) => Return(v, "error") /\ at[v] \in {"umount", "unmap", "check"}
  BY DEF UmountFails, UnmapFails
<1>17. CASE Shows(v)
  <2>1. Tries(v) /\ tries'[v] = tries[v] /\ tries[v] \in Nat /\ UnmountTries \in Nat /\ UnmapTries \in Nat
    BY <1>17, ShowsShape, DriverAssumption DEF TriesInv
  <2>2. Tries(v)'
    BY <1>17, <2>1, ShowsShape DEF Tries
  <2>3. ShowMappedFails(v) \/ Left(v)' < Left(v)
    BY <1>17, <2>1, ShowsShape DEF Left
  <2> QED BY <2>2, <2>3 DEF WorkGoesDown
<1> QED BY <1>1, <1>2, <1>3, <1>4, <1>5, <1>6, <1>7, <1>8, <1>9, <1>10, <1>11, <1>12, <1>13, <1>14,
           <1>15, <1>16, <1>17 DEF Maps, Unmaps

(* Format, Mount and Unmount are loops within loops (mapImage's retries,   *)
(* unmounts of a busy directory, calls of doUnmap), and other operations   *)
(* take and give back devices meanwhile.  Still every step of an operation *)
(* takes it nearer to its end, except a failure of rmdir or rbd            *)
(* showmapped: what OperationsReturn needs besides the fairness of the     *)
(* commands, for any numbers of volumes, devices and tries.                *)
THEOREM BoundedWorkHolds == Spec => []WorkLeft /\ [][BoundedWork]_vars
<1>1. Init => TriesInv
  BY DriverInitial, DriverAssumption DEF Init, DriverInv, TriesInv, Tries
<1>2. ASSUME TriesInv, Next PROVE TriesInv' /\ BoundedWork
  <2>1. PICK v \in Volumes : Starts(v) \/ Maps(v) \/ Unmaps(v) \/ Shows(v)
    BY <1>2 DEF Next
  <2>2. DriverTypes' /\ tries' \in [Volumes -> Nat]
    BY <1>2, <2>1, DriverTypesStep, OthersWait DEF TriesInv
  <2>3. \A w \in Volumes : w # v =>
          job'[w] = job[w] /\ at'[w] = at[w] /\ tries'[w] = tries[w]
    BY <1>2, <2>1, OthersWait
  <2>4. \A w \in Volumes : w # v => Tries(w)' /\ WorkGoesDown(w)
    BY <1>2, <2>3 DEF TriesInv, Tries, WorkGoesDown
  <2>5. Tries(v)' /\ WorkGoesDown(v)
    BY <1>2, <2>1, WorkStep
  <2> QED BY <2>2, <2>4, <2>5 DEF TriesInv, BoundedWork
<1>3. TriesInv /\ UNCHANGED vars => TriesInv'
  BY DEF vars, TriesInv, DriverTypes, Tries
<1>4. ASSUME TriesInv, NEW v \in Volumes
      PROVE  Left(v) \in 0 .. (MapTries + UnmountTries + 2 * UnmapTries + 9)
  <2>1. Tries(v) /\ tries[v] \in Nat /\ MapTries \in Nat /\ UnmountTries \in Nat /\ UnmapTries \in Nat
    BY <1>4, DriverAssumption DEF TriesInv, Tries
  <2> DEFINE most == MapTries + UnmountTries + 2 * UnmapTries + 9
  <2>2. \A n \in Nat : n <= most => n \in 0 .. most
    BY <2>1
  <2>3. CASE at[v] \in {"map", "find", "findpause", "mkfs", "mkfsrun", "attach"}
    <3>1. Left(v) \in Nat /\ Left(v) <= most
      BY <2>1, <2>3 DEF Left, Tries
    <3> QED BY <2>2, <3>1
  <2>4. CASE at[v] \in {"umount", "rmdir", "list", "listpause", "end"}
    <3>1. Left(v) \in Nat /\ Left(v) <= most
      BY <2>1, <2>4 DEF Left, Tries
    <3> QED BY <2>2, <3>1
  <2>5. CASE at[v] \in {"unmap", "check", "checkpause"}
    <3>1. Left(v) \in Nat /\ Left(v) <= most
      BY <2>1, <2>5 DEF Left, Tries
    <3> QED BY <2>2, <3>1
  <2> QED BY <1>4, <2>3, <2>4, <2>5 DEF TriesInv, DriverTypes, Steps
<1>5. TriesInv => WorkLeft
  BY <1>4 DEF WorkLeft
<1> QED BY <1>1, <1>2, <1>3, <1>5, PTL DEF Spec
================================================================================
