--------------------------------- MODULE Msc ---------------------------------
(***************************************************************************)
(* Mass storage (esp_tinyusb: tinyusb_msc.c, over the media of             *)
(* storage_spiflash.c and storage_sdmmc.c): storages that the application  *)
(* creates and deletes, each given a LUN, and that are mounted either by   *)
(* the application's file system or by the host.  The application's task   *)
(* and the TinyUSB task, on which the host's commands, plugging and the    *)
(* deferred writes run, share them.                                        *)
(*                                                                         *)
(* TinyUSB hands its task one event after the other; a deferred write is   *)
(* such an event, so it comes before the host's next command, though not   *)
(* before a plugging or unplugging that was in the queue already.  The     *)
(* application opens no medium that a storage has, and gives each medium   *)
(* a path of its own.  A medium's blocks are one; its writes do not fail;  *)
(* what is in a buffer with no write counted is left out.  What runs on    *)
(* memory already freed ends the behaviour ("wild"), as a failed           *)
(* ESP_ERROR_CHECK does ("abort").                                         *)
(***************************************************************************)
EXTENDS Integers, Sequences, FiniteSets, Functions

CONSTANTS
    Flash, Card,    \* the two media: the code of each keeps one handle
    HasFs,          \* those that have a file system at first
    Data,           \* what the host writes
    Blank,          \* a medium just formatted
    MaxLuns,        \* TINYUSB_MSC_STORAGE_MAX_LUNS
    Volumes,        \* FF_VOLUMES, FatFS's drive numbers
    MaxStorages,    \* bound: storages created
    MaxCalls        \* bound: the application's calls and the host's commands

ASSUME MscAssumption ==
    /\ MaxLuns \in Nat \ {0} /\ Volumes \in Nat \ {0}
    /\ Flash # Card /\ {Flash, Card} \cap {"free", "lost"} = {}
    /\ MaxStorages \in Nat /\ MaxCalls \in Nat

Media == {Flash, Card}
App == "app"
Usb == "usb"
Tasks == {App, Usb}
Storages == 1 .. MaxStorages
Luns == 0 .. MaxLuns - 1
Drives == 0 .. Volumes - 1

VARIABLES
    driver,         \* p_msc_driver: "none", or how it was installed
    lun, lunCount,  \* its storage[], 0 for NULL, and lun_count
    obj, lock,      \* the storages, keep being do_not_format; each mux_lock's holder
    drives, vfs,    \* the medium FatFS has under a number; media's paths in VFS
    fs, disk,       \* a medium has a file system; what is on it
    events,         \* deferred writes queued with TinyUSB
    job,            \* what each task is doing: [op, at, s, n, drive]
    accepted,       \* history: each storage's last data the host was told is taken
    spoilt,         \* history: media that another storage's write or formatting reached
    byApp, byUsb,   \* history: see HostOwnsAlone
    made, calls     \* used up of the bounds

media == <<drives, vfs, fs, disk>>
luns == <<driver, lun, lunCount>>
history == <<accepted, spoilt, byApp, byUsb>>
used == <<made, calls>>
vars == <<luns, obj, lock, media, events, job, history, used>>

\* What runs for storage s, at its first step.
Job0(op, at, s, n) == [op |-> op, at |-> at, s |-> s, n |-> n, drive |-> 0]
NoJob == Job0("none", "idle", 0, 0)
NoObj == [state |-> "none", medium |-> "none", mount |-> Usb, keep |-> FALSE,
          deferred |-> 0, buf |-> [lun |-> 0, data |-> Blank]]

Init ==
    /\ driver = "none" /\ lun = [l \in Luns |-> 0] /\ lunCount = 0
    /\ obj = [s \in Storages |-> NoObj] /\ lock = [s \in Storages |-> "free"]
    /\ drives = [d \in Drives |-> "free"] /\ vfs = [m \in Media |-> FALSE]
    /\ fs = [m \in Media |-> m \in HasFs] /\ disk = [m \in Media |-> Blank]
    /\ events = <<>> /\ job = [t \in Tasks |-> NoJob]
    /\ accepted = [s \in Storages |-> Blank] /\ spoilt = {} /\ byApp = {} /\ byUsb = FALSE
    /\ made = 0 /\ calls = 0

At(t, where) == job[t].at = where
To(t, where) == job' = [job EXCEPT ![t].at = where]
End(t) == job' = [job EXCEPT ![t] = NoJob]
S(t) == job[t].s
Medium(t) == obj[S(t)].medium

\* _msc_storage_get_by_lun.
ByLun(l) == lun[l]

Running == \A t \in Tasks : job[t].at \notin {"wild", "abort"}
Live(s) == obj[s].state = "live"

\* A step that would use a storage already freed.
Dangling(t) ==
    /\ job[t].at \notin {"idle", "lun", "wild", "abort"}
    /\ ~Live(S(t))

Wild(t) ==
    /\ Dangling(t) /\ To(t, "wild")
    /\ UNCHANGED <<luns, obj, lock, media, events, history, used>>

\* Back from mounting or unmounting, with success or not.
Return(t, ok) ==
    \/ job[t].op = "new" /\ IF ok THEN End(t) ELSE To(t, "map_err")
    \/ job[t].op = "delete" /\ To(t, IF ok THEN "unmap" ELSE "abort")
    \/ job[t].op = "set" /\ To(t, "overwrite")
    \/ /\ job[t].op \in {"to_app", "to_usb"}
       /\ job' = [job EXCEPT ![t].at = "lun", ![t].n = @ + 1]

-----------------------------------------------------------------------------
(* msc_storage_mount and msc_storage_unmount, on either task. *)

Of(m) == {d \in Drives : drives[d] = m}
Lowest(d, ds) == d \in ds /\ \A e \in ds : d <= e

\* ff_diskio_get_drive takes the lowest vacant number, before the lock and without
\* keeping it from anybody.
Mount(t) ==
    /\ At(t, "mount")
    /\ IF obj[S(t)].mount = App THEN Return(t, TRUE)
       ELSE \/ Of("free") = {} /\ Return(t, FALSE)
            \/ \E d \in Drives : Lowest(d, Of("free"))
                  /\ job' = [job EXCEPT ![t].at = "register", ![t].drive = d]
    /\ UNCHANGED <<luns, obj, lock, media, events, history, used>>

Unmount(t) ==
    /\ At(t, "unmount")
    /\ IF obj[S(t)].mount = Usb THEN Return(t, TRUE) ELSE To(t, "unmounting")
    /\ UNCHANGED <<luns, obj, lock, media, events, history, used>>

\* xSemaphoreTake of mux_lock: waited for, and held from there.  What is done under
\* it in one step takes it and gives it back.
Unlocked(t) == lock[S(t)] = "free"

\* Mutant of Give: a storage whose path cannot be registered keeps its lock.
GiveUnless(t, reached) ==
    lock' = [lock EXCEPT ![S(t)] = IF reached = "path" THEN t ELSE "free"]
Give(t, reached) == lock' = [lock EXCEPT ![S(t)] = "free"]

\* The medium's mount, under the lock; in formatting without it.
Register(t) ==
    /\ At(t, "register") /\ (job[t].op # "format" => Unlocked(t))
    /\ \/ /\ drives' = [drives EXCEPT ![job[t].drive] = Medium(t)]
          /\ IF job[t].op = "format" THEN To(t, "formatting") /\ UNCHANGED lock
             ELSE To(t, "mounting") /\ lock' = [lock EXCEPT ![S(t)] = t]
       \/ /\ IF job[t].op = "format" THEN End(t) ELSE To(t, "exit")
          /\ UNCHANGED <<drives, lock>>
    /\ UNCHANGED <<luns, obj, vfs, fs, disk, events, history, used>>

\* A host's write still to be done comes after the formatting.
Pending(s) ==
    \/ s \in Range(events)
    \/ job[Usb].op = "deferred" /\ job[Usb].n = s /\ ~At(Usb, "done")

\* vfs_fat_format formats the default volume: drive 0, whatever medium is there.
CanFormat(t) ==
    LET here == drives[job[t].drive] IN here \in Media /\ ~fs[here] /\ drives[0] \in Media
Formatted(s) ==
    LET m == drives[0] IN
    /\ disk' = [disk EXCEPT ![m] = Blank] /\ fs' = [fs EXCEPT ![m] = TRUE]
    /\ IF m = obj[s].medium
         THEN /\ accepted' = [accepted EXCEPT ![s] = IF Pending(s) THEN @ ELSE Blank]
              /\ UNCHANGED spoilt
         ELSE spoilt' = spoilt \cup {m} /\ UNCHANGED accepted

\* How far mounting comes: the path is registered already, and without a FATFS
\* object no mounting succeeds; it cannot be registered; it is, and formatting or
\* mounting fails; it succeeds; the drive is left unformatted if that is what is
\* wanted, which is told as success.
Reaches(t) ==
    LET here == drives[job[t].drive] IN
    IF vfs[Medium(t)] THEN {"taken"}
    ELSE {"path", "failed"} \cup
         IF here \in Media /\ fs[here] THEN {"done"}
         ELSE IF here \in Media /\ obj[S(t)].keep THEN {"unformatted"}
         ELSE IF CanFormat(t) THEN {"formatted"} ELSE {}

MountingTo(t, reached) ==
    /\ vfs' = [vfs EXCEPT ![Medium(t)] = @ \/ reached # "path"]
    /\ obj' = [obj EXCEPT ![S(t)].mount = IF reached = "path" THEN @ ELSE App]
    /\ IF reached = "formatted" THEN Formatted(S(t))
       ELSE UNCHANGED <<fs, disk, accepted, spoilt>>
    /\ Give(t, reached)
    /\ IF reached \in {"done", "formatted"} THEN Return(t, TRUE)
       ELSE To(t, IF reached = "unformatted" THEN "exit_ok"
                  ELSE IF reached = "failed" THEN "exit_path" ELSE "exit")
Mounting(t) ==
    /\ At(t, "mounting")
    /\ \E reached \in Reaches(t) : MountingTo(t, reached)
    /\ UNCHANGED <<luns, drives, events, byApp, byUsb, used>>

\* The medium's unmount gives back the lowest of its numbers, and forgets the flash
\* under all of them.
Released(m) ==
    [d \in Drives |-> IF Lowest(d, Of(m)) THEN "free"
                      ELSE IF drives[d] = m /\ m = Flash THEN "lost" ELSE drives[d]]

\* Mutant of Withdrawn: the path stays registered after a failure.
WithdrawnNot(t) == vfs
\* The path, if it was this mounting that registered it.
Withdrawn(t) == [vfs EXCEPT ![Medium(t)] = @ /\ At(t, "exit")]

\* Cleaning up, without the lock.
Exit(t) ==
    /\ job[t].at \in {"exit", "exit_path", "exit_ok"}
    /\ drives' = Released(Medium(t)) /\ vfs' = Withdrawn(t)
    /\ Return(t, At(t, "exit_ok"))
    /\ UNCHANGED <<luns, obj, lock, fs, disk, events, history, used>>

Unmounting(t) ==
    /\ At(t, "unmounting") /\ Unlocked(t)
    /\ LET found == Of(Medium(t)) # {}
           ok == found /\ vfs[Medium(t)]
       IN  /\ drives' = Released(Medium(t))
           /\ vfs' = [vfs EXCEPT ![Medium(t)] = @ /\ ~found]
           /\ obj' = [obj EXCEPT ![S(t)].mount = IF ok THEN Usb ELSE @]
           /\ Return(t, ok)
    /\ Give(t, "unmounted")
    /\ UNCHANGED <<luns, fs, disk, events, history, used>>

-----------------------------------------------------------------------------
(* The application's calls. *)

Counted == calls < MaxCalls /\ calls' = calls + 1 /\ UNCHANGED made
Calls == At(App, "idle") /\ Counted

InstallDriver ==
    /\ At(App, "idle") /\ UNCHANGED used
    /\ driver = "none" /\ driver' \in {"auto", "manual"}
    /\ UNCHANGED <<lun, lunCount, obj, lock, media, events, job, history>>

UninstallDriver ==
    /\ Calls /\ driver # "none" /\ lunCount = 0 /\ driver' = "none"
    /\ UNCHANGED <<lun, lunCount, obj, lock, media, events, job, history>>

\* msc_storage_new: the host has it until it is mounted.
NewObj(m, keep) == [NoObj EXCEPT !.state = "live", !.medium = m, !.keep = keep]

\* do_not_format, which matters as long as there is no file system.
Keeps(m) == IF fs[m] THEN {FALSE} ELSE BOOLEAN

\* Mutant of MapToLun: the LUN is not counted.
MapToLunNot(s) == lun' = [lun EXCEPT ![lunCount] = s] /\ UNCHANGED lunCount
MapToLun(s) == lun' = [lun EXCEPT ![lunCount] = s] /\ lunCount' = lunCount + 1

\* Up to having a LUN; what fails before that is undone.  The LUN given is the
\* one numbered lunCount, whoever has it.
NewStorage(m) ==
    /\ At(App, "idle") /\ made < MaxStorages /\ lunCount < MaxLuns
    /\ made' = made + 1 /\ UNCHANGED calls
    /\ \A o \in Storages : Live(o) => obj[o].medium # m
    /\ LET s == made + 1 IN
       \E mount \in Tasks, keep \in Keeps(m) :
         /\ obj' = [obj EXCEPT ![s] = NewObj(m, keep)]
         /\ accepted' = [accepted EXCEPT ![s] = disk[m]]
         /\ byApp' = IF vfs[m] THEN byApp \cup {s} ELSE byApp
         /\ MapToLun(s)
         /\ driver' = IF driver = "none" THEN "internal" ELSE driver
         /\ job' = [job EXCEPT ![App] = IF mount = Usb THEN NoJob ELSE Job0("new", "mount", s, 0)]
    /\ UNCHANGED <<lock, media, events, spoilt, byUsb>>

NewStorageSpiflash == NewStorage(Flash)
NewStorageSdmmc == NewStorage(Card)

\* msc_storage_delete.
Release(s) ==
    /\ obj' = [obj EXCEPT ![s] = [NoObj EXCEPT !.state = "freed"]]
    /\ lock' = [lock EXCEPT ![s] = "free"]
    /\ accepted' = [accepted EXCEPT ![s] = Blank]
    /\ spoilt' = spoilt \ {obj[s].medium} /\ byApp' = byApp \ {s}

\* The storage goes, its LUN stays; the driver does not uninstall with a LUN.
MapErr ==
    /\ At(App, "map_err")
    /\ Release(S(App)) /\ End(App)
    /\ UNCHANGED <<luns, media, events, byUsb, used>>

DeleteStorage(s) ==
    /\ Calls /\ Live(s) /\ driver # "none" /\ lunCount > 0 /\ obj[s].deferred = 0
    /\ job' = [job EXCEPT ![App] =
                  Job0("delete", IF obj[s].mount = App THEN "unmount" ELSE "unmap", s, 0)]
    /\ UNCHANGED <<luns, obj, lock, media, events, history>>

\* A storage another has taken the LUN of is not found, and stays.
Unmap ==
    /\ At(App, "unmap")
    /\ lun' = [l \in Luns |-> IF lun[l] = S(App) THEN 0 ELSE lun[l]]
    /\ IF S(App) \in Range(lun) THEN lunCount' = lunCount - 1 /\ To(App, "free")
       ELSE UNCHANGED lunCount /\ End(App)
    /\ UNCHANGED <<driver, obj, lock, media, events, history, used>>

Free ==
    /\ At(App, "free")
    /\ driver' = IF lunCount = 0 /\ driver = "internal" THEN "none" ELSE driver
    /\ Release(S(App)) /\ End(App)
    /\ UNCHANGED <<lun, lunCount, media, events, byUsb, used>>

SetMountPoint(s) ==
    /\ Calls /\ driver # "none" /\ Live(s)
    /\ byApp' = byApp \cup {s}
    /\ job' = [job EXCEPT ![App] = IF obj[s].mount = Usb THEN Job0("set", "mount", s, 0)
                                                      ELSE Job0("set", "unmount", s, 1)]
    /\ UNCHANGED <<luns, obj, lock, media, events, accepted, spoilt, byUsb>>

\* Whatever came of it.
Overwrite ==
    /\ At(App, "overwrite")
    /\ obj' = [obj EXCEPT ![S(App)].mount = IF job[App].n = 1 THEN Usb ELSE App]
    /\ End(App)
    /\ UNCHANGED <<luns, lock, media, events, history, used>>

ConfigStorageFatFs(s) ==
    /\ Calls /\ driver # "none" /\ Live(s)
    /\ \E keep \in Keeps(obj[s].medium) : obj' = [obj EXCEPT ![s].keep = keep]
    /\ UNCHANGED <<luns, lock, media, events, job, history>>

FormatStorage(s) ==
    /\ Calls /\ driver # "none" /\ Live(s) /\ obj[s].mount = App
    /\ byApp' = byApp \cup {s}
    /\ \E d \in Drives : Lowest(d, Of("free"))
          /\ job' = [job EXCEPT ![App] = [Job0("format", "register", s, 0) EXCEPT !.drive = d]]
    /\ UNCHANGED <<luns, obj, lock, media, events, accepted, spoilt, byUsb>>

\* An error, of a path that is registered already or of a file system that is found
\* as well, undoes nothing.
Formatting ==
    /\ At(App, "formatting") /\ End(App)
    /\ \/ UNCHANGED <<vfs, fs, disk, accepted, spoilt>>
       \/ /\ ~vfs[Medium(App)] /\ vfs' = [vfs EXCEPT ![Medium(App)] = TRUE]
          /\ \/ UNCHANGED <<fs, disk, accepted, spoilt>>
             \/ CanFormat(App) /\ Formatted(S(App))
    /\ UNCHANGED <<luns, obj, lock, drives, events, byApp, byUsb, used>>

-----------------------------------------------------------------------------
(* The TinyUSB task. *)

UsbFree == At(Usb, "idle") /\ events = <<>>

Commands ==
    /\ At(Usb, "idle") /\ Counted
    /\ UNCHANGED <<luns, obj, lock, media, events, history>>

\* Plugged in, or unplugged or ejected: every storage is to change hands.
Plugging ==
    /\ Commands /\ driver # "none"
    /\ \E op \in {"to_app", "to_usb"} : job' = [job EXCEPT ![Usb] = Job0(op, "lun", 0, 0)]

\* One turn of the loop over the LUNs, which reads the driver unprotected.
NextLun ==
    /\ At(Usb, "lun")
    /\ LET n == job[Usb].n IN
       IF n = MaxLuns THEN End(Usb) /\ UNCHANGED byUsb
       ELSE IF driver = "none" THEN To(Usb, "wild") /\ UNCHANGED byUsb
       ELSE IF ByLun(n) = 0 \/ driver = "manual"
         THEN job' = [job EXCEPT ![Usb].n = n + 1] /\ UNCHANGED byUsb
       ELSE /\ byUsb' = TRUE
            /\ job' = [job EXCEPT ![Usb].s = ByLun(n),
                          ![Usb].at = IF job[Usb].op = "to_app" THEN "mount" ELSE "unmount"]
    /\ UNCHANGED <<luns, obj, lock, media, events, accepted, spoilt, byApp, used>>

\* tud_msc_test_unit_ready_cb: the LUN is the host's.
Ready(l) == ByLun(l) # 0 /\ obj[ByLun(l)].mount = Usb

\* READ(10) and WRITE(10) of a LUN that has a storage; without a driver the lookup
\* uses a null pointer.
HostCommand ==
    /\ Commands /\ UsbFree
    /\ \E l \in Luns :
         IF driver = "none" THEN To(Usb, "wild")
         ELSE /\ ByLun(l) # 0
              /\ \/ job' = [job EXCEPT ![Usb] = Job0("read", "io", ByLun(l), 0)]
                 \/ job' = [job EXCEPT ![Usb] = Job0("write", "accept", ByLun(l), l)]

\* Mutant of OneMore: the deferred write is not counted.
OneMoreNot(n) == n
OneMore(n) == n + 1

\* The rest of msc_storage_write_sector_deferred; TinyUSB's queue may be full,
\* which nobody notices.
Accept ==
    /\ At(Usb, "accept")
    /\ \E d \in Data :
         /\ obj' = [obj EXCEPT ![S(Usb)].buf = [lun |-> job[Usb].n, data |-> d],
                               ![S(Usb)].deferred = OneMore(@)]
         /\ accepted' = [accepted EXCEPT ![S(Usb)] = d]
    /\ events' \in {Append(events, S(Usb)), events}
    /\ End(Usb)
    /\ UNCHANGED <<luns, lock, media, spoilt, byApp, byUsb, used>>

\* tusb_write_func: n is the storage whose buffer it writes, s the one that has
\* the LUN by now.
Deferred ==
    /\ At(Usb, "idle") /\ events # <<>>
    /\ events' = Tail(events)
    /\ job' = [job EXCEPT ![Usb] = Job0("deferred", "find", Head(events), Head(events))]
    /\ UNCHANGED <<luns, obj, lock, media, history, used>>

Find ==
    /\ At(Usb, "find")
    /\ LET found == ByLun(obj[S(Usb)].buf.lun) IN
       IF driver = "none" THEN To(Usb, "wild")
       ELSE IF found = 0 THEN To(Usb, "done")
       ELSE job' = [job EXCEPT ![Usb].at = "io", ![Usb].s = found]
    /\ UNCHANGED <<luns, obj, lock, media, events, history, used>>

\* The medium's write: flash is erased first, a card is not.
Written(m, d) == disk' = [disk EXCEPT ![m] = d]

ReadSector ==
    /\ At(Usb, "io") /\ job[Usb].op = "read" /\ Unlocked(Usb)
    /\ End(Usb) /\ Give(Usb, "io")
    /\ UNCHANGED <<luns, obj, media, events, history, used>>

WriteSector ==
    /\ At(Usb, "io") /\ job[Usb].op = "deferred" /\ Unlocked(Usb)
    /\ Written(Medium(Usb), obj[job[Usb].n].buf.data)
    /\ spoilt' = IF S(Usb) = job[Usb].n THEN spoilt ELSE spoilt \cup {Medium(Usb)}
    /\ job' = [job EXCEPT ![Usb].at = "done", ![Usb].s = job[Usb].n]
    /\ Give(Usb, "io")
    /\ UNCHANGED <<luns, obj, drives, vfs, fs, events, accepted, byApp, byUsb, used>>

Done ==
    /\ At(Usb, "done")
    /\ LET left == obj[S(Usb)].deferred - 1 IN
       IF left < 0 THEN To(Usb, "abort") /\ UNCHANGED obj
       ELSE /\ obj' = [obj EXCEPT ![S(Usb)].deferred = left,
                                  ![S(Usb)].buf = IF left = 0 THEN NoObj.buf ELSE @]
            /\ End(Usb)
    /\ UNCHANGED <<luns, lock, media, events, history, used>>

-----------------------------------------------------------------------------

\* What a task goes on with by itself.
Continue(t) ==
    \/ Mount(t) \/ Unmount(t) \/ Register(t) \/ Mounting(t) \/ Unmounting(t) \/ Exit(t)
    \/ t = App /\ (MapErr \/ Unmap \/ Free \/ Overwrite \/ Formatting)
    \/ t = Usb /\ (NextLun \/ Accept \/ Deferred \/ Find
                    \/ ReadSector \/ WriteSector \/ Done)

Step(t) == Running /\ (Wild(t) \/ (~Dangling(t) /\ Continue(t)))

Next ==
    \/ \E t \in Tasks : Step(t)
    \/ Running /\
         \/ InstallDriver \/ UninstallDriver \/ NewStorageSpiflash \/ NewStorageSdmmc
         \/ \E s \in Storages :
              DeleteStorage(s) \/ SetMountPoint(s) \/ ConfigStorageFatFs(s) \/ FormatStorage(s)
         \/ Plugging \/ HostCommand

\* Both are tasks of their own, and none of their priorities starves the other
\* for ever.
Spec == Init /\ [][Next]_vars /\ WF_vars(Step(App)) /\ WF_vars(Step(Usb))

-----------------------------------------------------------------------------

Blocks == Data \cup {Blank}
Object == [state : {"none", "live", "freed"}, medium : Media \cup {"none"},
           mount : Tasks, keep : BOOLEAN, deferred : Nat,
           buf : [lun : Luns, data : Blocks]]
Ops == {"none", "new", "delete", "set", "format", "to_app", "to_usb", "read", "write", "deferred"}
Places == {"idle", "mount", "unmount", "register", "mounting", "formatting",
           "unmounting", "exit", "exit_path", "exit_ok", "map_err", "unmap", "free",
           "overwrite", "lun", "accept", "find", "io", "done", "wild", "abort"}
Job == [op : Ops, at : Places, s : Storages \cup {0}, n : Nat, drive : Drives]

\* Every LUN that is somebody's is counted; one that was given away counts twice.
Taken == {l \in Luns : lun[l] # 0}
LunsCounted == Cardinality(Taken) <= lunCount

MscTypeOK ==
    /\ driver \in {"none", "internal", "auto", "manual"}
    /\ lun \in [Luns -> Storages \cup {0}]
    /\ obj \in [Storages -> Object] /\ lock \in [Storages -> Tasks \cup {"free"}]
    /\ drives \in [Drives -> Media \cup {"free", "lost"}] /\ vfs \in [Media -> BOOLEAN]
    /\ fs \in [Media -> BOOLEAN] /\ disk \in [Media -> Blocks]
    /\ events \in Seq(Storages) /\ Len(events) <= 1
    /\ job \in [Tasks -> Job] /\ accepted \in [Storages -> Blocks]
    /\ spoilt \subseteq Media /\ byApp \subseteq Storages /\ byUsb \in BOOLEAN
    /\ made \in 0 .. MaxStorages /\ calls \in 0 .. MaxCalls
    /\ lunCount \in 0 .. MaxLuns /\ LunsCounted

Mapped(s) == Live(s) /\ s \in Range(lun)

\* What the host was told is taken is on the medium as soon as the storage
\* counts no deferred write, which is when it may be deleted: the buffer is not
\* used again before it is written, and no loss, unplugging or mounting in between
\* takes the write away.  Not so on a medium that another storage has reached, with
\* a write under a LUN it was given or in formatting drive 0.  (tusb_write_func is
\* to "perform write operations to the underlying storage", tinyusb_msc.c:300.)
AcceptedIsWritten ==
    Running => \A s \in Storages :
        (Mapped(s) /\ obj[s].deferred = 0 /\ obj[s].medium \notin spoilt) =>
            disk[obj[s].medium] = accepted[s]

\* While the host is told that a storage is ready, the application has no path to
\* it, whatever failed before and however creating, mounting, unmounting and
\* deleting interleave ("Storage is exclusively used by USB host",
\* include/tinyusb_msc.h:31), unless both sides have a hand in it: the TinyUSB task
\* mounts by itself (byUsb), and the application has set this storage's mount point,
\* formatted it, which take no lock, or created it over a path still in use (byApp).
HostOwnsAlone ==
    Running => \A l \in Luns :
        LET s == ByLun(l) IN
        (Ready(l) /\ Live(s) /\ ~(byUsb /\ s \in byApp)) => ~vfs[obj[s].medium]

\* No failure leaves a storage locked: the TinyUSB task, which serves every
\* class of the device, always comes back from a command and a deferred write.
HostAnswered == []<>(~Running \/ UsbFree)
=============================================================================
