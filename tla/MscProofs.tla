------------------------------ MODULE MscProofs ------------------------------
(***************************************************************************)
(* Proofs about mass storage, for any number of LUNs, drive numbers,       *)
(* storages, calls and commands: the types, that the host has its storages *)
(* alone, and that what it was told is taken is written.                   *)
(*                                                                         *)
(* The two tasks interleave at every step of a call, on storages that one  *)
(* of them may free; a step onto freed memory ends the behaviour, so the   *)
(* invariant (MscInv) is about states in which both tasks run (Running,    *)
(* Steady) and keeps, besides, only the types.  It says where a task is in *)
(* its call (ShapeInv), that a number not yet used is nowhere (FreshInv),  *)
(* that media and LUNs have one storage each (MediumInv, LunInv), that the *)
(* application works on a storage it has not freed (LiveInv), and on these *)
(* who has a medium (OwnInv; SoleInv as long as the application alone      *)
(* mounts) and where an accepted write is (WriteInv).  Each is shown kept  *)
(* for the steps of a call, which either task makes, for the TinyUSB       *)
(* task's own and for the application's.                                   *)
(***************************************************************************)
EXTENDS Msc, FiniteSetTheorems, SequenceTheorems, TLAPS

-----------------------------------------------------------------------------
(* The invariant. *)

\* Where a task is in its call, and that the call is about a storage.
Mounts == {"mount", "register", "mounting", "exit", "exit_path", "exit_ok"}
Unmounts == {"unmount", "unmounting"}
AppJob(j) ==
    \/ j = NoJob
    \/ /\ j.s \in Storages
       /\ \/ j.op = "new" /\ j.at \in Mounts \cup {"map_err"}
          \/ j.op = "delete" /\ j.at \in Unmounts \cup {"unmap", "free"}
          \/ j.op = "set" /\ j.at \in Mounts \cup {"overwrite"} /\ j.n = 0
          \/ j.op = "set" /\ j.at \in Unmounts \cup {"overwrite"} /\ j.n = 1
          \/ j.op = "format" /\ j.at \in {"register", "formatting"}
UsbJob(j) ==
    \/ j = NoJob
    \/ j.op \in {"to_app", "to_usb"} /\ j.at = "lun" /\ j.n \in 0 .. MaxLuns
    \/ /\ j.s \in Storages
       /\ \/ j.op \in {"to_app", "to_usb"} /\ j.at \in Mounts \cup Unmounts /\ j.n \in Luns
          \/ j.op = "read" /\ j.at = "io"
          \/ j.op = "write" /\ j.at = "accept" /\ j.n \in Luns
          \/ j.op = "deferred" /\ j.at = "io" /\ j.n \in Storages
          \/ j.op = "deferred" /\ j.at \in {"find", "done"} /\ j.n = j.s
ShapeInv ==
    /\ AppJob(job[App]) /\ UsbJob(job[Usb])
    /\ job[Usb].at \in {"accept", "find", "io", "done"} => events = <<>>

\* What has not been created yet is nowhere.
FreshInv ==
    /\ \A s \in Storages : Live(s) => s <= made
    /\ \A l \in Luns : lun[l] <= made
    /\ \A k \in DOMAIN events : events[k] <= made
    /\ \A t \in Tasks : S(t) <= made
    /\ job[Usb].op = "deferred" => job[Usb].n <= made

\* A medium is one storage's, and a storage has one LUN.
MediumInv ==
    /\ \A s \in Storages : Live(s) => obj[s].medium \in Media
    /\ \A s, o \in Storages :
           Live(s) /\ Live(o) /\ obj[s].medium = obj[o].medium => s = o
LunInv == \A k, l \in Luns : lun[k] # 0 /\ lun[k] = lun[l] => k = l

\* Nobody but the application frees a storage.
LiveInv == At(App, "idle") \/ Live(S(App))

IdsInv == FreshInv /\ MediumInv /\ LunInv /\ LiveInv

\* A storage whose mount point the application has not set is the host's only when
\* it has no path.
OwnInv ==
    /\ \A s \in Storages :
           Live(s) /\ s \notin byApp /\ obj[s].mount = Usb => ~vfs[obj[s].medium]
    /\ job[App].op \in {"set", "format"} => S(App) \in byApp

\* The same of every storage as long as the TinyUSB task has mounted none: a path is
\* a live storage's, with a drive number that unmounting finds, and the application
\* begins to mount without a path and ends its unmounting without one.
AppAt(ats) == job[App].at \in ats
AppOwn ==
    /\ At(App, "register") => drives[job[App].drive] = "free"
    /\ AppAt({"register", "mounting", "exit"}) /\ job[App].op # "format" =>
           obj[S(App)].mount = Usb
    /\ AppAt({"mounting", "formatting"}) => Of(Medium(App)) # {}
    /\ job[App].op = "format" => obj[S(App)].mount = App
    /\ AppAt({"map_err", "unmap", "free"}) => ~vfs[Medium(App)]
    /\ At(App, "overwrite") /\ job[App].n = 1 => ~vfs[Medium(App)]
Has(m) == \E s \in Storages : Live(s) /\ obj[s].medium = m
PathInv ==
    /\ \A s \in Storages : Live(s) /\ obj[s].mount = Usb => ~vfs[obj[s].medium]
    /\ \A m \in Media : vfs[m] => Of(m) # {} /\ Has(m)
SoleInv == ~byUsb => /\ job[Usb].at \notin Mounts \cup Unmounts
                     /\ PathInv /\ AppOwn

\* Of a storage with a LUN, on a medium no other has reached: as long as its write
\* is pending it is counted, in its buffer, and under its LUN; as soon as it is
\* written it is on the medium.
Owed(s) == Mapped(s) /\ obj[s].medium \notin spoilt
Finishing(s) == job[Usb].op = "deferred" /\ At(Usb, "done") /\ S(Usb) = s
Due(s) ==
    /\ Pending(s) => /\ obj[s].deferred > 0 /\ obj[s].buf.data = accepted[s]
                     /\ lun[obj[s].buf.lun] = s
    /\ ~Pending(s) /\ (obj[s].deferred = 0 \/ Finishing(s)) =>
           disk[obj[s].medium] = accepted[s]
WriteInv ==
    /\ \A s \in Storages : Owed(s) => Due(s)
    /\ job[Usb].op = "write" /\ S(Usb) \in Range(lun) => lun[job[Usb].n] = S(Usb)
    /\ At(Usb, "io") /\ job[Usb].op = "deferred" /\ Owed(job[Usb].n) => S(Usb) = job[Usb].n

-----------------------------------------------------------------------------
(* Where a task is in its call. *)

LEMMA GoesOn ==
    ASSUME job \in [Tasks -> Job], NEW t \in Tasks, NEW at \in Places
    PROVE  [job EXCEPT ![t].at = at] \in [Tasks -> Job]
BY DEF Job

LEMMA GoesTo ==
    ASSUME MscTypeOK, NEW t \in Tasks, NEW at \in Places, To(t, at)
    PROVE  job' \in [Tasks -> Job]
BY GoesOn DEF MscTypeOK, To

LEMMA Takes ==
    ASSUME job \in [Tasks -> Job], NEW t \in Tasks, NEW j \in Job
    PROVE  [job EXCEPT ![t] = j] \in [Tasks -> Job]
OBVIOUS

LEMMA NoneTyped == NoJob \in Job
BY MscAssumption DEF NoJob, Job0, Job, Ops, Places, Drives

LEMMA ReturnTyped ==
    ASSUME job \in [Tasks -> Job], NEW t \in Tasks, NEW ok \in BOOLEAN, Return(t, ok)
    PROVE  job' \in [Tasks -> Job]
<1>1. CASE End(t)
    BY <1>1, Takes, NoneTyped DEF End
<1>2. ASSUME NEW at \in Places, To(t, at)
      PROVE  job' \in [Tasks -> Job]
    BY <1>2, GoesOn DEF To
<1>3. CASE job' = [job EXCEPT ![t].at = "lun", ![t].n = @ + 1]
    BY <1>3 DEF Job, Places
<1> QED BY <1>1, <1>2, <1>3 DEF Return, Places

LEMMA MountTyped ==
    ASSUME obj \in [Storages -> Object], NEW s \in Storages, NEW m \in Tasks
    PROVE  [obj EXCEPT ![s].mount = m] \in [Storages -> Object]
BY DEF Object

LEMMA JobTyped ==
    ASSUME NEW op \in Ops, NEW at \in Places, NEW s \in Storages \cup {0}, NEW n \in Nat
    PROVE  Job0(op, at, s, n) \in Job
BY MscAssumption DEF Job, Job0, Drives

\* The storage of a task that is anywhere in a call and does not dangle.
LEMMA InUse ==
    ASSUME MscTypeOK, NEW t \in Tasks, ~Dangling(t),
           job[t].at \notin {"idle", "lun", "wild", "abort"}, ShapeInv
    PROVE  S(t) \in Storages /\ Live(S(t))
BY DEF Dangling, ShapeInv, AppJob, UsbJob, NoJob, Job0, S, Tasks, Mounts, Unmounts

-----------------------------------------------------------------------------
(* Types. *)

LEMMA TakenFinite == IsFiniteSet(Taken) /\ Cardinality(Taken) \in Nat
<1>1. IsFiniteSet(Luns)
    BY MscAssumption, FS_Interval DEF Luns
<1>2. Taken \in SUBSET Luns
    BY DEF Taken
<1> QED BY <1>1, <1>2, FS_Subset, FS_CardinalityType

\* A number given or taken back, and what it does to a type.
LEMMA DrivesTyped ==
    ASSUME drives \in [Drives -> Media \cup {"free", "lost"}], NEW d, NEW m \in Media
    PROVE  /\ [drives EXCEPT ![d] = m] \in [Drives -> Media \cup {"free", "lost"}]
           /\ Released(m) \in [Drives -> Media \cup {"free", "lost"}]
BY DEF Released

LEMMA PutTyped ==
    ASSUME NEW V, NEW f \in [Media -> V], NEW m, NEW v \in V
    PROVE  [f EXCEPT ![m] = v] \in [Media -> V]
OBVIOUS

LEMMA AcceptedTyped ==
    ASSUME accepted \in [Storages -> Blocks], NEW s \in Storages, NEW d \in Blocks
    PROVE  [accepted EXCEPT ![s] = d] \in [Storages -> Blocks]
OBVIOUS

LEMMA FormattedTyped ==
    ASSUME MscTypeOK, NEW s \in Storages, Formatted(s), drives[0] \in Media
    PROVE  /\ fs' \in [Media -> BOOLEAN] /\ disk' \in [Media -> Blocks]
           /\ accepted' \in [Storages -> Blocks] /\ spoilt' \subseteq Media
<1> DEFINE d == IF Pending(s) THEN accepted[s] ELSE Blank
<1>1. Blank \in Blocks /\ d \in Blocks
    BY DEF Blocks, MscTypeOK
<1>2. fs' \in [Media -> BOOLEAN] /\ disk' \in [Media -> Blocks]
    BY <1>1, PutTyped DEF Formatted, MscTypeOK
<1>3. accepted' = [accepted EXCEPT ![s] = d] \/ accepted' = accepted
    BY DEF Formatted
<1>4. spoilt' \subseteq Media
    BY DEF Formatted, MscTypeOK
<1> HIDE DEF d
<1> QED BY <1>1, <1>2, <1>3, <1>4, AcceptedTyped DEF MscTypeOK

\* What every task may do in a call.
LEMMA CallTyped ==
    ASSUME MscTypeOK, ShapeInv, MediumInv, LunsCounted', NEW t \in Tasks, ~Dangling(t),
           Mount(t) \/ Unmount(t) \/ Register(t) \/ Mounting(t) \/ Unmounting(t) \/ Exit(t)
    PROVE  MscTypeOK'
<1>1. CASE Mount(t)
    <2>1. job' \in [Tasks -> Job]
        <3>1. ASSUME NEW d \in Drives, job' = [job EXCEPT ![t].at = "register", ![t].drive = d]
              PROVE  job' \in [Tasks -> Job]
            <4> DEFINE j == [job[t] EXCEPT !.at = "register", !.drive = d]
            <4>1. job' = [job EXCEPT ![t] = j]
                BY <3>1
            <4>2. job[t] \in Job /\ "register" \in Places
                BY DEF MscTypeOK, Places
            <4>3. j \in Job
                BY <4>2 DEF Job
            <4> QED BY <4>1, <4>3, Takes DEF MscTypeOK
        <3>2. Return(t, TRUE) \/ Return(t, FALSE) => job' \in [Tasks -> Job]
            BY ReturnTyped DEF MscTypeOK
        <3> QED BY <1>1, <3>1, <3>2 DEF Mount
    <2> QED BY <1>1, <2>1 DEF Mount, MscTypeOK, luns, media, history, used
<1>2. CASE Unmount(t)
    <2>1. job' \in [Tasks -> Job]
        <3>1. Return(t, TRUE) \/ To(t, "unmounting")
            BY <1>2 DEF Unmount
        <3>2. Return(t, TRUE) => job' \in [Tasks -> Job]
            BY ReturnTyped DEF MscTypeOK
        <3>3. To(t, "unmounting") => job' \in [Tasks -> Job]
            BY GoesTo DEF Places
        <3> QED BY <3>1, <3>2, <3>3
    <2> QED BY <1>2, <2>1 DEF Unmount, MscTypeOK, luns, media, history, used
<1>3. CASE Register(t)
    <2>1. S(t) \in Storages /\ Medium(t) \in Media
        BY <1>3, InUse DEF Register, At, MediumInv, Medium
    <2>2. job' \in [Tasks -> Job]
        <3>1. ASSUME NEW at \in {"formatting", "mounting", "exit"}, To(t, at)
              PROVE  job' \in [Tasks -> Job]
            BY <3>1, GoesTo DEF Places
        <3>2. End(t) => job' \in [Tasks -> Job]
            BY Takes, NoneTyped DEF End, MscTypeOK
        <3> QED BY <1>3, <3>1, <3>2 DEF Register
    <2>3. drives' \in [Drives -> Media \cup {"free", "lost"}]
        BY <1>3, <2>1, DrivesTyped DEF Register, MscTypeOK
    <2>4. lock' \in [Storages -> Tasks \cup {"free"}]
        BY <1>3 DEF Register, MscTypeOK
    <2> QED BY <1>3, <2>2, <2>3, <2>4 DEF Register, MscTypeOK, luns, history, used
<1>4. CASE Mounting(t)
    <2>0. S(t) \in Storages /\ Live(S(t))
        BY <1>4, InUse DEF Mounting, At
    <2>1. PICK reached \in Reaches(t) : MountingTo(t, reached)
        BY <1>4 DEF Mounting
    <2>2. job' \in [Tasks -> Job]
        <3>1. Return(t, TRUE) => job' \in [Tasks -> Job]
            BY ReturnTyped DEF MscTypeOK
        <3>2. ASSUME NEW at \in {"exit", "exit_path", "exit_ok"}, To(t, at)
              PROVE  job' \in [Tasks -> Job]
            BY <3>2, GoesOn DEF MscTypeOK, To, Places
        <3> QED BY <2>1, <3>1, <3>2 DEF MountingTo
    <2>3. vfs' \in [Media -> BOOLEAN]
        BY <2>1 DEF MountingTo, MscTypeOK
    <2>4. obj' \in [Storages -> Object]
        <3> DEFINE m == IF reached = "path" THEN obj[S(t)].mount ELSE App
        <3>1. obj' = [obj EXCEPT ![S(t)].mount = m]
            BY <2>1 DEF MountingTo
        <3>2. m \in Tasks
            BY <2>0 DEF MscTypeOK, Object, Tasks
        <3> QED BY <3>1, <3>2, <2>0, MountTyped DEF MscTypeOK
    <2>5. lock' \in [Storages -> Tasks \cup {"free"}]
        BY <2>1 DEF MountingTo, Give, MscTypeOK
    <2>6. /\ fs' \in [Media -> BOOLEAN] /\ disk' \in [Media -> Blocks]
          /\ accepted' \in [Storages -> Blocks] /\ spoilt' \subseteq Media
        <3>1. reached = "formatted" => drives[0] \in Media
            BY DEF Reaches, CanFormat
        <3> QED BY <2>0, <2>1, <3>1, FormattedTyped DEF MountingTo, MscTypeOK
    <2> QED BY <1>4, <2>2, <2>3, <2>4, <2>5, <2>6 DEF Mounting, MscTypeOK, luns, used
<1>5. CASE Unmounting(t)
    <2>0. S(t) \in Storages /\ Medium(t) \in Media
        BY <1>5, InUse DEF Unmounting, At, MediumInv, Medium
    <2>1. job' \in [Tasks -> Job]
        BY <1>5, ReturnTyped DEF Unmounting, MscTypeOK
    <2>2. vfs' \in [Media -> BOOLEAN] /\ drives' \in [Drives -> Media \cup {"free", "lost"}]
        BY <1>5, <2>0, DrivesTyped DEF Unmounting, MscTypeOK
    <2>3. obj' \in [Storages -> Object]
        <3>1. PICK m \in Tasks : obj' = [obj EXCEPT ![S(t)].mount = m]
            <4>1. obj[S(t)].mount \in Tasks /\ Usb \in Tasks
                BY <2>0 DEF MscTypeOK, Object, Tasks
            <4> QED BY <1>5, <4>1 DEF Unmounting
        <3> QED BY <3>1, <2>0, MountTyped DEF MscTypeOK
    <2>4. lock' \in [Storages -> Tasks \cup {"free"}]
        BY <1>5 DEF Unmounting, Give, MscTypeOK
    <2> QED BY <1>5, <2>1, <2>2, <2>3, <2>4 DEF Unmounting, MscTypeOK, luns, history, used
<1>6. CASE Exit(t)
    <2>0. Medium(t) \in Media
        BY <1>6, InUse DEF Exit, At, MediumInv, Medium
    <2>1. job' \in [Tasks -> Job]
        BY <1>6, ReturnTyped DEF Exit, At, MscTypeOK
    <2>2. vfs' \in [Media -> BOOLEAN] /\ drives' \in [Drives -> Media \cup {"free", "lost"}]
        BY <1>6, <2>0, DrivesTyped DEF Exit, Withdrawn, At, MscTypeOK
    <2> QED BY <1>6, <2>1, <2>2 DEF Exit, MscTypeOK, luns, history, used
<1> QED BY <1>1, <1>2, <1>3, <1>4, <1>5, <1>6

LEMMA NullBuffer == NoObj.buf \in [lun : Luns, data : Blocks]
<1>1. 0 \in Luns
    BY MscAssumption DEF Luns
<1> QED BY <1>1 DEF NoObj, Blocks

LEMMA NewTyped ==
    ASSUME obj \in [Storages -> Object], NEW s \in Storages, NEW m \in Media,
           NEW keep \in BOOLEAN
    PROVE  [obj EXCEPT ![s] = NewObj(m, keep)] \in [Storages -> Object]
<1>1. NewObj(m, keep) \in Object
    BY NullBuffer DEF NewObj, NoObj, Object, Tasks
<1> QED BY <1>1

LEMMA FreedTyped ==
    ASSUME obj \in [Storages -> Object], NEW s \in Storages
    PROVE  [obj EXCEPT ![s] = [NoObj EXCEPT !.state = "freed"]] \in [Storages -> Object]
<1>1. [NoObj EXCEPT !.state = "freed"] \in Object
    BY NullBuffer DEF NoObj, Object, Tasks
<1> QED BY <1>1

LEMMA KeepTyped ==
    ASSUME obj \in [Storages -> Object], NEW s \in Storages, NEW keep \in BOOLEAN
    PROVE  [obj EXCEPT ![s].keep = keep] \in [Storages -> Object]
BY DEF Object

LEMMA BufferTyped ==
    ASSUME obj \in [Storages -> Object], NEW s \in Storages,
           NEW b \in [lun : Luns, data : Blocks], NEW n \in Nat
    PROVE  /\ [obj EXCEPT ![s].buf = b, ![s].deferred = n] \in [Storages -> Object]
           /\ [obj EXCEPT ![s].deferred = n, ![s].buf = b] \in [Storages -> Object]
<1>1. [obj[s] EXCEPT !.buf = b, !.deferred = n] \in Object
    BY DEF Object
<1>2. [obj[s] EXCEPT !.deferred = n, !.buf = b] \in Object
    BY DEF Object
<1>3. /\ [obj EXCEPT ![s].buf = b, ![s].deferred = n]
            = [obj EXCEPT ![s] = [obj[s] EXCEPT !.buf = b, !.deferred = n]]
      /\ [obj EXCEPT ![s].deferred = n, ![s].buf = b]
            = [obj EXCEPT ![s] = [obj[s] EXCEPT !.deferred = n, !.buf = b]]
    OBVIOUS
<1> QED BY <1>1, <1>2, <1>3

\* What the application's calls do.
LEMMA AppTyped ==
    ASSUME MscTypeOK, ShapeInv, MediumInv, LunsCounted', ~Dangling(App),
           \/ MapErr \/ Unmap \/ Free \/ Overwrite \/ Formatting \/ InstallDriver \/ UninstallDriver
           \/ \E m \in Media : NewStorage(m)
           \/ \E s \in Storages :
                DeleteStorage(s) \/ SetMountPoint(s) \/ ConfigStorageFatFs(s) \/ FormatStorage(s)
    PROVE  MscTypeOK'
<1>0. App \in Tasks /\ Blank \in Blocks /\ NoJob \in Job
    BY NoneTyped DEF Tasks, Blocks
<1>1. ASSUME S(App) \in Storages, Release(S(App)), lock \in [Storages -> Tasks \cup {"free"}]
      PROVE  /\ obj' \in [Storages -> Object] /\ lock' \in [Storages -> Tasks \cup {"free"}]
             /\ accepted' \in [Storages -> Blocks] /\ spoilt' \subseteq Media
             /\ byApp' \subseteq Storages
    BY <1>0, <1>1, FreedTyped, AcceptedTyped DEF Release, MscTypeOK
<1>2. End(App) => job' \in [Tasks -> Job]
    BY <1>0, Takes DEF End, MscTypeOK
<1>3. CASE MapErr
    <2>1. S(App) \in Storages
        BY <1>0, <1>3, InUse DEF MapErr, At
    <2> QED BY <1>1, <1>2, <1>3, <2>1 DEF MapErr, MscTypeOK, luns, media, used
<1>4. CASE Unmap
    <2>1. S(App) \in Storages
        BY <1>0, <1>4, InUse DEF Unmap, At
    <2>2. lun' \in [Luns -> Storages \cup {0}]
        BY <1>4 DEF Unmap, MscTypeOK
    <2>3. job' \in [Tasks -> Job]
        BY <1>0, <1>2, <1>4, GoesTo DEF Unmap, Places
    <2>4. lunCount' \in 0 .. MaxLuns
        <3>1. CASE S(App) \in Range(lun)
            <4>1. \E l \in Luns : lun[l] = S(App)
                BY <3>1 DEF Range, MscTypeOK
            <4>2. Taken # {}
                BY <4>1, <2>1 DEF Taken, Storages
            <4>3. IsFiniteSet(Taken)
                BY TakenFinite
            <4>4. Cardinality(Taken) \in Nat /\ Cardinality(Taken) # 0
                BY <4>2, <4>3, FS_EmptySet, FS_CardinalityType
            <4> HIDE DEF Taken
            <4>5. lunCount > 0 /\ lunCount' = lunCount - 1
                BY <1>4, <3>1, <4>4 DEF Unmap, MscTypeOK, LunsCounted
            <4> QED BY <4>5, MscAssumption DEF MscTypeOK
        <3>2. CASE S(App) \notin Range(lun)
            BY <1>4, <3>2 DEF Unmap, MscTypeOK
        <3> QED BY <3>1, <3>2
    <2> QED BY <1>4, <2>2, <2>3, <2>4 DEF Unmap, MscTypeOK, media, history, used
<1>5. CASE Free
    <2>1. S(App) \in Storages
        BY <1>0, <1>5, InUse DEF Free, At
    <2>2. driver' \in {"none", "internal", "auto", "manual"}
        BY <1>5 DEF Free, MscTypeOK
    <2> QED BY <1>1, <1>2, <1>5, <2>1, <2>2 DEF Free, MscTypeOK, media, used
<1>6. CASE Overwrite
    <2>1. S(App) \in Storages
        BY <1>0, <1>6, InUse DEF Overwrite, At
    <2>2. obj' \in [Storages -> Object]
        <3> DEFINE m == IF job[App].n = 1 THEN Usb ELSE App
        <3>1. obj' = [obj EXCEPT ![S(App)].mount = m] /\ m \in Tasks
            BY <1>6 DEF Overwrite, Tasks
        <3> QED BY <3>1, <2>1, MountTyped DEF MscTypeOK
    <2> QED BY <1>2, <1>6, <2>2 DEF Overwrite, MscTypeOK, luns, media, history, used
<1>7. CASE InstallDriver
    BY <1>7 DEF InstallDriver, MscTypeOK, media, history, used
<1>8. CASE UninstallDriver
    BY <1>8, MscAssumption DEF UninstallDriver, Calls, Counted, MscTypeOK, media, history
<1>9. ASSUME NEW m \in Media, NewStorage(m)
      PROVE  MscTypeOK'
    <2> DEFINE s == made + 1
    <2>1. s \in Storages /\ made' \in 0 .. MaxStorages /\ s \in Nat
        BY <1>9, MscAssumption DEF NewStorage, MscTypeOK, Storages
    <2>2. PICK mount \in Tasks, keep \in Keeps(m) :
              /\ obj' = [obj EXCEPT ![s] = NewObj(m, keep)]
              /\ accepted' = [accepted EXCEPT ![s] = disk[m]]
              /\ MapToLun(s)
              /\ driver' = IF driver = "none" THEN "internal" ELSE driver
              /\ job' = [job EXCEPT ![App] = IF mount = Usb THEN NoJob
                        ELSE Job0("new", "mount", s, 0)]
              /\ byApp' = IF vfs[m] THEN byApp \cup {s} ELSE byApp
        BY <1>9 DEF NewStorage
    <2> HIDE DEF s
    <2>3. keep \in BOOLEAN /\ disk[m] \in Blocks
        BY DEF Keeps, MscTypeOK
    <2>4. obj' \in [Storages -> Object] /\ accepted' \in [Storages -> Blocks]
        BY <2>1, <2>2, <2>3, NewTyped, AcceptedTyped DEF MscTypeOK
    <2>5. job' \in [Tasks -> Job]
        <3>1. Job0("new", "mount", s, 0) \in Job
            BY <2>1, JobTyped DEF Ops, Places
        <3> QED BY <3>1, <2>2, <1>0, Takes DEF MscTypeOK
    <2>6. lun' \in [Luns -> Storages \cup {0}] /\ lunCount' \in 0 .. MaxLuns
        <3>1. lunCount < MaxLuns /\ lunCount \in 0 .. MaxLuns
            BY <1>9 DEF NewStorage, MscTypeOK
        <3>2. lunCount' \in 0 .. MaxLuns
            BY <2>2, <3>1, MscAssumption DEF MapToLun
        <3>3. lun' \in [Luns -> Storages \cup {0}]
            BY <2>1, <2>2 DEF MapToLun, MscTypeOK
        <3> QED BY <3>2, <3>3
    <2>7. driver' \in {"none", "internal", "auto", "manual"}
        BY <2>2 DEF MscTypeOK
    <2>8. byApp' \subseteq Storages
        BY <2>1, <2>2 DEF MscTypeOK
    <2> QED BY <1>9, <2>1, <2>4, <2>5, <2>6, <2>7, <2>8 DEF NewStorage, MscTypeOK, media
<1>10. ASSUME Calls, MscTypeOK
       PROVE  calls' \in 0 .. MaxCalls /\ made' \in 0 .. MaxStorages
    BY <1>10, MscAssumption DEF Calls, Counted, MscTypeOK
<1>11. ASSUME NEW s \in Storages, DeleteStorage(s)
       PROVE  MscTypeOK'
    <2>1. PICK at \in {"unmount", "unmap"} :
              job' = [job EXCEPT ![App] = Job0("delete", at, s, 0)]
        BY <1>11 DEF DeleteStorage
    <2>2. job' \in [Tasks -> Job]
        <3>1. Job0("delete", at, s, 0) \in Job
            BY JobTyped DEF Ops, Places
        <3> QED BY <3>1, <2>1, <1>0, Takes DEF MscTypeOK
    <2> QED BY <1>10, <1>11, <2>2 DEF DeleteStorage, MscTypeOK, luns, media, history
<1>12. ASSUME NEW s \in Storages, SetMountPoint(s)
       PROVE  MscTypeOK'
    <2>1. PICK at \in {"mount", "unmount"}, n \in {0, 1} :
              job' = [job EXCEPT ![App] = Job0("set", at, s, n)]
        BY <1>12 DEF SetMountPoint
    <2>2. job' \in [Tasks -> Job]
        <3>1. Job0("set", at, s, n) \in Job
            BY JobTyped DEF Ops, Places
        <3> QED BY <3>1, <2>1, <1>0, Takes DEF MscTypeOK
    <2> QED BY <1>10, <1>12, <2>2 DEF SetMountPoint, MscTypeOK, luns, media
<1>13. ASSUME NEW s \in Storages, ConfigStorageFatFs(s)
       PROVE  MscTypeOK'
    <2>1. obj' \in [Storages -> Object]
        <3>1. PICK keep \in Keeps(obj[s].medium) : obj' = [obj EXCEPT ![s].keep = keep]
            BY <1>13 DEF ConfigStorageFatFs
        <3>2. keep \in BOOLEAN
            BY DEF Keeps
        <3> QED BY <3>1, <3>2, KeepTyped DEF MscTypeOK
    <2> QED BY <1>10, <1>13, <2>1 DEF ConfigStorageFatFs, MscTypeOK, luns, media, history
<1>14. ASSUME NEW s \in Storages, FormatStorage(s)
       PROVE  MscTypeOK'
    <2>1. PICK d \in Drives :
              job' = [job EXCEPT ![App] = [Job0("format", "register", s, 0) EXCEPT !.drive = d]]
        BY <1>14 DEF FormatStorage
    <2>2. job' \in [Tasks -> Job]
        <3>1. Job0("format", "register", s, 0) \in Job
            BY JobTyped DEF Ops, Places
        <3>2. [Job0("format", "register", s, 0) EXCEPT !.drive = d] \in Job
            BY <3>1 DEF Job
        <3> QED BY <3>2, <2>1, <1>0, Takes DEF MscTypeOK
    <2> QED BY <1>10, <1>14, <2>2 DEF FormatStorage, MscTypeOK, luns, media
<1>15. CASE Formatting
    <2>1. S(App) \in Storages
        BY <1>0, <1>15, InUse DEF Formatting, At
    <2>2. vfs' \in [Media -> BOOLEAN]
        BY <1>15 DEF Formatting, MscTypeOK
    <2>3. UNCHANGED <<fs, disk, accepted, spoilt>> \/ (drives[0] \in Media /\ Formatted(S(App)))
        BY <1>15 DEF Formatting, CanFormat
    <2>4. /\ fs' \in [Media -> BOOLEAN] /\ disk' \in [Media -> Blocks]
          /\ accepted' \in [Storages -> Blocks] /\ spoilt' \subseteq Media
        BY <2>1, <2>3, FormattedTyped DEF MscTypeOK
    <2> QED BY <1>2, <1>15, <2>2, <2>4 DEF Formatting, MscTypeOK, luns, used
<1> QED BY <1>3, <1>4, <1>5, <1>6, <1>7, <1>8, <1>9, <1>11, <1>12, <1>13, <1>14, <1>15

\* What the TinyUSB task does.
LEMMA UsbTyped ==
    ASSUME MscTypeOK, ShapeInv, MediumInv, LunsCounted', ~Dangling(Usb),
           NextLun \/ Accept \/ Deferred \/ Find \/ ReadSector \/ WriteSector
              \/ Done \/ Plugging \/ HostCommand
    PROVE  MscTypeOK'
<1>0. Usb \in Tasks /\ NoJob \in Job
    BY NoneTyped DEF Tasks
<1>1. End(Usb) => job' \in [Tasks -> Job]
    BY <1>0, Takes DEF End, MscTypeOK
<1>2. ASSUME NEW at \in Places, To(Usb, at)
      PROVE  job' \in [Tasks -> Job]
    BY <1>0, <1>2, GoesTo
<1>3. job \in [Tasks -> Job] /\ job[Usb] \in Job
    BY <1>0 DEF MscTypeOK
<1>4. CASE NextLun
    <2>1. ASSUME job' = [job EXCEPT ![Usb].n = job[Usb].n + 1]
          PROVE  job' \in [Tasks -> Job]
        BY <1>0, <1>3, <2>1 DEF Job
    <2>2. ASSUME NEW s \in Storages, NEW at \in Places,
                 job' = [job EXCEPT ![Usb].s = s, ![Usb].at = at]
          PROVE  job' \in [Tasks -> Job]
        BY <1>0, <1>3, <2>2 DEF Job
    <2>3. \/ End(Usb) \/ To(Usb, "wild")
          \/ job' = [job EXCEPT ![Usb].n = job[Usb].n + 1]
          \/ \E at \in {"mount", "unmount"} :
                /\ job' = [job EXCEPT ![Usb].s = ByLun(job[Usb].n), ![Usb].at = at]
                /\ ByLun(job[Usb].n) # 0 /\ job[Usb].n # MaxLuns
        BY <1>4 DEF NextLun
    <2>4. job[Usb].n # MaxLuns => job[Usb].n \in Luns
        BY <1>4, MscAssumption DEF NextLun, At, ShapeInv, UsbJob, NoJob, Job0, Mounts, Unmounts, Luns
    <2>5. job[Usb].n # MaxLuns /\ ByLun(job[Usb].n) # 0 => ByLun(job[Usb].n) \in Storages
        BY <2>4 DEF ByLun, MscTypeOK
    <2>7. byUsb' \in BOOLEAN
        BY <1>4 DEF NextLun, MscTypeOK
    <2>6. job' \in [Tasks -> Job]
        BY <1>1, <1>2, <2>1, <2>2, <2>3, <2>5 DEF Places
    <2> QED BY <1>4, <2>6, <2>7 DEF NextLun, MscTypeOK, luns, media, used
<1>6. CASE Accept
    <2>1. S(Usb) \in Storages /\ job[Usb].n \in Luns
        BY <1>0, <1>6 DEF Accept, At, S, ShapeInv, UsbJob, NoJob, Job0, Mounts, Unmounts
    <2>2. PICK d \in Data :
              /\ obj' = [obj EXCEPT ![S(Usb)].buf = [lun |-> job[Usb].n, data |-> d],
                                    ![S(Usb)].deferred = OneMore(@)]
              /\ accepted' = [accepted EXCEPT ![S(Usb)] = d]
        BY <1>6 DEF Accept
    <2>3. d \in Blocks /\ accepted' \in [Storages -> Blocks]
        BY <2>1, <2>2 DEF Blocks, MscTypeOK
    <2>4. obj' \in [Storages -> Object]
        <3>1. [lun |-> job[Usb].n, data |-> d] \in [lun : Luns, data : Blocks]
            BY <2>1, <2>3
        <3>2. OneMore(obj[S(Usb)].deferred) \in Nat
            BY <2>1 DEF OneMore, MscTypeOK, Object
        <3> QED BY <2>1, <2>2, <3>1, <3>2, BufferTyped DEF MscTypeOK
    <2>5. events = <<>>
        BY <1>6 DEF Accept, At, ShapeInv
    <2>6. events' \in Seq(Storages) /\ Len(events') <= 1
        <3>1. events' = events \/ events' = <<S(Usb)>>
            BY <1>6, <2>5 DEF Accept
        <3>2. events \in Seq(Storages) /\ Len(events) <= 1
            BY DEF MscTypeOK
        <3>3. ASSUME NEW s \in Storages
              PROVE  <<s>> \in Seq(Storages) /\ Len(<<s>>) <= 1
            OBVIOUS
        <3> QED BY <2>1, <3>1, <3>2, <3>3
    <2>7. job' \in [Tasks -> Job]
        BY <1>1, <1>6 DEF Accept
    <2> QED BY <1>6, <2>3, <2>4, <2>6, <2>7 DEF Accept, MscTypeOK, luns, media, used
<1>7. CASE Deferred
    <2>1. Head(events) \in Storages /\ events' \in Seq(Storages) /\ Len(events') <= 1
        BY <1>7 DEF Deferred, MscTypeOK
    <2>2. Job0("deferred", "find", Head(events), Head(events)) \in Job
        <3>1. "deferred" \in Ops /\ "find" \in Places /\ Head(events) \in Nat
            BY <2>1 DEF Ops, Places, Storages
        <3> QED BY <2>1, <3>1, JobTyped
    <2>3. job' \in [Tasks -> Job]
        BY <1>0, <1>3, <1>7, <2>2, Takes DEF Deferred
    <2> QED BY <1>7, <2>1, <2>3 DEF Deferred, MscTypeOK, luns, media, history, used
<1>8. CASE Find
    <2>1. S(Usb) \in Storages
        BY <1>0, <1>8, InUse DEF Find, At
    <2>2. obj[S(Usb)].buf.lun \in Luns
        BY <2>1 DEF MscTypeOK, Object
    <2>3. ByLun(obj[S(Usb)].buf.lun) \in Storages \cup {0}
        BY <2>2 DEF ByLun, MscTypeOK
    <2>4. ASSUME NEW s \in Storages \cup {0},
                 job' = [job EXCEPT ![Usb].at = "io", ![Usb].s = s]
          PROVE  job' \in [Tasks -> Job]
        BY <1>0, <1>3, <2>4 DEF Job, Places
    <2>5. job' \in [Tasks -> Job]
        BY <1>2, <1>8, <2>3, <2>4 DEF Find, Places
    <2> QED BY <1>8, <2>5 DEF Find, MscTypeOK, luns, media, history, used
<1>9. CASE ReadSector
    <2>1. lock' \in [Storages -> Tasks \cup {"free"}]
        BY <1>9 DEF ReadSector, Give, MscTypeOK
    <2> QED BY <1>1, <1>9, <2>1 DEF ReadSector, MscTypeOK, luns, media, history, used
<1>10. CASE WriteSector
    <2>1. job[Usb].n \in Storages
        BY <1>10 DEF WriteSector, At, ShapeInv, UsbJob, NoJob, Job0, Mounts, Unmounts
    <2>2. job' \in [Tasks -> Job]
        BY <1>0, <1>3, <1>10, <2>1 DEF WriteSector, Job, Places
    <2>3. disk' \in [Media -> Blocks]
        <3>1. obj[job[Usb].n].buf.data \in Blocks
            BY <2>1 DEF MscTypeOK, Object
        <3> QED BY <1>10, <3>1, PutTyped DEF WriteSector, Written, MscTypeOK
    <2>4. lock' \in [Storages -> Tasks \cup {"free"}]
        BY <1>10 DEF WriteSector, Give, MscTypeOK
    <2>5. spoilt' \subseteq Media
        <3>1. Medium(Usb) \in Media
            BY <1>0, <1>10, InUse DEF WriteSector, At, MediumInv, Medium
        <3> QED BY <1>10, <3>1 DEF WriteSector, MscTypeOK
    <2> QED BY <1>10, <2>2, <2>3, <2>4, <2>5 DEF WriteSector, MscTypeOK, luns, used
<1>11. CASE Done
    <2>1. S(Usb) \in Storages
        BY <1>0, <1>11, InUse DEF Done, At
    <2> DEFINE left == obj[S(Usb)].deferred - 1
               buf == IF left = 0 THEN NoObj.buf ELSE obj[S(Usb)].buf
    <2>2. CASE left < 0
        <3>1. To(Usb, "abort") /\ UNCHANGED obj
            BY <1>11, <2>2 DEF Done
        <3> QED BY <1>2, <1>11, <3>1 DEF Done, MscTypeOK, luns, media, history, used, Places
    <2>3. CASE ~(left < 0)
        <3>1. End(Usb) /\ obj' = [obj EXCEPT ![S(Usb)].deferred = left, ![S(Usb)].buf = buf]
            BY <1>11, <2>1, <2>3 DEF Done, MscTypeOK
        <3>2. left \in Nat
            BY <2>1, <2>3 DEF MscTypeOK, Object
        <3>3. buf \in [lun : Luns, data : Blocks]
            BY <2>1, NullBuffer DEF MscTypeOK, Object
        <3>4. obj' \in [Storages -> Object]
            BY <2>1, <3>1, <3>2, <3>3, BufferTyped DEF MscTypeOK
        <3> QED BY <1>1, <1>11, <3>1, <3>4 DEF Done, MscTypeOK, luns, media, history, used
    <2> QED BY <2>2, <2>3
<1>12. ASSUME Commands
       PROVE  calls' \in 0 .. MaxCalls /\ made' = made
    BY <1>12, MscAssumption DEF Commands, Counted, MscTypeOK
<1>13. CASE Plugging
    <2>1. PICK op \in {"to_app", "to_usb"} :
              job' = [job EXCEPT ![Usb] = Job0(op, "lun", 0, 0)]
        BY <1>13 DEF Plugging
    <2>2. Job0(op, "lun", 0, 0) \in Job
        BY JobTyped DEF Ops, Places
    <2>3. job' \in [Tasks -> Job]
        BY <1>0, <1>3, <2>1, <2>2, Takes
    <2> QED BY <1>12, <1>13, <2>3 DEF Plugging, Commands, MscTypeOK, luns, media, history
<1>14. CASE HostCommand
    <2>1. PICK l \in Luns :
            IF driver = "none" THEN To(Usb, "wild")
            ELSE /\ ByLun(l) # 0
                 /\ \E op \in {"read", "write"}, at \in {"io", "accept"}, n \in {0, l} :
                      job' = [job EXCEPT ![Usb] = Job0(op, at, ByLun(l), n)]
        BY <1>14 DEF HostCommand
    <2>2. CASE driver = "none"
        <3>1. To(Usb, "wild")
            BY <2>1, <2>2
        <3> QED BY <1>2, <1>12, <1>14, <3>1 DEF HostCommand, Commands, MscTypeOK, luns, media, history, Places
    <2>3. CASE driver # "none"
        <3>1. PICK op \in {"read", "write"}, at \in {"io", "accept"}, n \in {0, l} :
                  job' = [job EXCEPT ![Usb] = Job0(op, at, ByLun(l), n)]
            BY <2>1, <2>3
        <3>2. ByLun(l) \in Storages \cup {0} /\ n \in Nat
            BY MscAssumption DEF ByLun, MscTypeOK, Luns
        <3>3. Job0(op, at, ByLun(l), n) \in Job
            <4>1. op \in Ops /\ at \in Places
                BY DEF Ops, Places
            <4> QED BY <3>2, <4>1, JobTyped
        <3>4. job' \in [Tasks -> Job]
            BY <1>0, <1>3, <3>1, <3>3, Takes
        <3> QED BY <1>12, <1>14, <3>4 DEF HostCommand, Commands, MscTypeOK, luns, media, history
    <2> QED BY <2>2, <2>3
<1> QED BY <1>4, <1>6, <1>7, <1>8, <1>9, <1>10, <1>11, <1>13, <1>14

-----------------------------------------------------------------------------
(* Calls keep their shape: ShapeInv. *)

\* A task's step to a job, which the other task has no part in.
LEMMA ShapeKept ==
    ASSUME MscTypeOK, ShapeInv, NEW t \in Tasks, NEW j \in Job,
           job' = [job EXCEPT ![t] = j],
           t = App => AppJob(j), t = Usb => UsbJob(j),
           events' = events \/ (t = Usb /\ j = NoJob) \/ events' = <<>>,
           t = Usb /\ j.at \in {"accept", "find", "io", "done"} => events' = <<>>
    PROVE  ShapeInv'
<1>1. job'[t] = j /\ \A u \in Tasks : u # t => job'[u] = job[u]
    BY DEF MscTypeOK
<1>2. CASE t = App
    <2>1. job'[App] = j /\ job'[Usb] = job[Usb]
        BY <1>1, <1>2 DEF Tasks, App, Usb
    <2>2. AppJob(job'[App]) /\ UsbJob(job'[Usb])
        BY <1>2, <2>1 DEF ShapeInv
    <2>3. job'[Usb].at \in {"accept", "find", "io", "done"} => events' = <<>>
        BY <1>2, <2>1 DEF ShapeInv, App, Usb
    <2> QED BY <2>2, <2>3 DEF ShapeInv, AppJob, UsbJob, NoJob, Job0
<1>3. CASE t = Usb
    <2>1. job'[Usb] = j /\ job'[App] = job[App]
        BY <1>1, <1>3 DEF Tasks, App, Usb
    <2>2. AppJob(job'[App]) /\ UsbJob(job'[Usb])
        BY <1>3, <2>1 DEF ShapeInv
    <2>3. job'[Usb].at \in {"accept", "find", "io", "done"} => events' = <<>>
        BY <1>3, <2>1
    <2> QED BY <2>2, <2>3 DEF ShapeInv, AppJob, UsbJob, NoJob, Job0
<1> QED BY <1>2, <1>3 DEF Tasks

LEMMA ReturnShape ==
    ASSUME MscTypeOK, ShapeInv, NEW t \in Tasks, NEW ok, Return(t, ok),
           job[t].at \in Mounts \cup Unmounts, Running', UNCHANGED events
    PROVE  ShapeInv'
<1>1. job[t] \in Job /\ job \in [Tasks -> Job]
    BY DEF MscTypeOK
<1>2. CASE End(t)
    BY <1>1, <1>2, NoneTyped, ShapeKept DEF End, AppJob, UsbJob, NoJob, Job0
<1>3. ASSUME NEW at \in Places, To(t, at), t = App, AppJob([job[t] EXCEPT !.at = at])
      PROVE  ShapeInv'
    <2>1. job' = [job EXCEPT ![t] = [job[t] EXCEPT !.at = at]] /\ [job[t] EXCEPT !.at = at] \in Job
        BY <1>1, <1>3 DEF To, Job
    <2> QED BY <1>1, <1>3, <2>1, ShapeKept DEF App, Usb
<1>4. CASE t = App
    <2>1. \/ job[t].op = "new" /\ job[t].at \in Mounts /\ (End(t) \/ To(t, "map_err"))
          \/ job[t].op = "delete" /\ (To(t, "unmap") \/ To(t, "abort"))
          \/ job[t].op = "set" /\ job[t].at \in Mounts /\ job[t].n = 0 /\ To(t, "overwrite")
          \/ job[t].op = "set" /\ job[t].at \in Unmounts /\ job[t].n = 1 /\ To(t, "overwrite")
        BY <1>4 DEF Return, ShapeInv, AppJob, NoJob, Job0, Mounts, Unmounts
    <2>2. job[t].s \in Storages
        BY <1>4 DEF ShapeInv, AppJob, NoJob, Job0, Mounts, Unmounts
    <2>3. To(t, "abort") => ~Running'
        BY <1>1 DEF To, Running
    <2>4. ASSUME NEW at \in {"map_err", "unmap", "overwrite"}, To(t, at),
                 \/ job[t].op = "new" /\ at = "map_err"
                 \/ job[t].op = "delete" /\ at = "unmap"
                 \/ job[t].op = "set" /\ job[t].n \in {0, 1} /\ at = "overwrite"
          PROVE  ShapeInv'
        <3>1. AppJob([job[t] EXCEPT !.at = at])
            BY <1>1, <2>2, <2>4 DEF AppJob, Job
        <3> QED BY <1>3, <1>4, <2>4, <3>1 DEF Places
    <2> QED BY <1>2, <2>1, <2>3, <2>4
<1>5. CASE t = Usb
    <2>1. /\ job[t].op \in {"to_app", "to_usb"} /\ job[t].n \in Luns
          /\ job' = [job EXCEPT ![t].at = "lun", ![t].n = job[t].n + 1]
        BY <1>1, <1>5 DEF Return, ShapeInv, UsbJob, NoJob, Job0, Mounts, Unmounts
    <2> DEFINE j == [job[t] EXCEPT !.at = "lun", !.n = job[t].n + 1]
    <2>2. job' = [job EXCEPT ![t] = j] /\ j \in Job
        BY <1>1, <2>1, MscAssumption DEF Job, Luns, Places
    <2>3. UsbJob(j)
        BY <1>1, <2>1, MscAssumption DEF UsbJob, Job, Luns
    <2>4. j.at = "lun"
        BY <1>1, <2>1 DEF Job
    <2> QED BY <1>1, <1>5, <2>2, <2>3, <2>4, ShapeKept DEF App, Usb
<1> QED BY <1>4, <1>5 DEF Tasks

\* A step within mounting or unmounting, which leaves the call what it was.
LEMMA InsideShape ==
    ASSUME MscTypeOK, ShapeInv, NEW t \in Tasks, NEW at \in Places, To(t, at),
           \/ job[t].at \in Mounts /\ at \in Mounts /\ job[t].op # "format"
           \/ job[t].at \in Unmounts /\ at \in Unmounts,
           UNCHANGED events
    PROVE  ShapeInv'
<1> DEFINE j == [job[t] EXCEPT !.at = at]
<1>1. job[t] \in Job
    BY DEF MscTypeOK
<1>2. job' = [job EXCEPT ![t] = j] /\ j \in Job
    BY <1>1 DEF To, Job
<1>3. t = App => AppJob(j)
    BY <1>1 DEF ShapeInv, AppJob, Job, NoJob, Job0, Mounts, Unmounts
<1>4. t = Usb => UsbJob(j)
    BY <1>1 DEF ShapeInv, UsbJob, Job, NoJob, Job0, Mounts, Unmounts
<1>5. j.at \notin {"accept", "find", "io", "done"}
    BY <1>1 DEF Job, Mounts, Unmounts
<1> QED BY <1>2, <1>3, <1>4, <1>5, ShapeKept DEF App, Usb

LEMMA CallShape ==
    ASSUME MscTypeOK, ShapeInv, NEW t \in Tasks, ~Dangling(t), Running',
           Mount(t) \/ Unmount(t) \/ Register(t) \/ Mounting(t) \/ Unmounting(t) \/ Exit(t)
    PROVE  ShapeInv'
<1>1. CASE Mount(t)
    <2>1. job[t].at = "mount" /\ UNCHANGED events
        BY <1>1 DEF Mount, At
    <2>2. ASSUME NEW d \in Drives, job' = [job EXCEPT ![t].at = "register", ![t].drive = d]
          PROVE  ShapeInv'
        <3> DEFINE j == [job[t] EXCEPT !.at = "register", !.drive = d]
        <3>1. job' = [job EXCEPT ![t] = j] /\ job[t] \in Job
            BY <2>2 DEF MscTypeOK
        <3>2. "register" \in Places
            BY DEF Places
        <3>3. j \in Job
            BY <3>1, <3>2 DEF Job
        <3>4. t = App => AppJob(j)
            BY <2>1, <3>1 DEF ShapeInv, AppJob, Job, NoJob, Job0, Mounts, Unmounts
        <3>5. t = Usb => UsbJob(j)
            BY <2>1, <3>1 DEF ShapeInv, UsbJob, Job, NoJob, Job0, Mounts, Unmounts
        <3> QED BY <2>1, <3>1, <3>3, <3>4, <3>5, ShapeKept DEF App, Usb, Job
    <2>3. Return(t, TRUE) \/ Return(t, FALSE) => ShapeInv'
        BY <2>1, ReturnShape DEF Mounts
    <2> QED BY <1>1, <2>2, <2>3 DEF Mount
<1>2. CASE Unmount(t)
    <2>1. job[t].at = "unmount" /\ UNCHANGED events
        BY <1>2 DEF Unmount, At
    <2>2. Return(t, TRUE) \/ To(t, "unmounting")
        BY <1>2 DEF Unmount
    <2>3. To(t, "unmounting") => ShapeInv'
        BY <2>1, InsideShape DEF Unmounts, Places
    <2>4. Return(t, TRUE) => ShapeInv'
        BY <2>1, ReturnShape DEF Unmounts
    <2> QED BY <2>2, <2>3, <2>4
<1>3. CASE Register(t)
    <2>1. job[t].at = "register" /\ UNCHANGED events
        BY <1>3 DEF Register, At
    <2>2. CASE job[t].op = "format"
        <3>1. t = App /\ job[t].s \in Storages /\ job[t] \in Job /\ App \in Tasks
            BY <2>1, <2>2 DEF ShapeInv, UsbJob, AppJob, NoJob, Job0, Tasks, MscTypeOK
        <3> DEFINE j == [job[t] EXCEPT !.at = "formatting"]
        <3>2. j \in Job /\ AppJob(j)
            BY <2>2, <3>1 DEF Job, AppJob, Places
        <3>3. End(t) => ShapeInv'
            BY <2>1, <3>1, NoneTyped, ShapeKept DEF End, AppJob, NoJob, Job0, App, Usb
        <3>4. To(t, "formatting") => job' = [job EXCEPT ![t] = j]
            BY DEF To
        <3>5. job' = [job EXCEPT ![t] = j] => ShapeInv'
            BY <2>1, <3>1, <3>2, ShapeKept DEF App, Usb
        <3> QED BY <1>3, <2>2, <3>3, <3>4, <3>5 DEF Register
    <2>3. CASE job[t].op # "format"
        <3>1. To(t, "mounting") \/ To(t, "exit")
            BY <1>3, <2>3 DEF Register
        <3>2. ASSUME NEW at \in {"mounting", "exit"}, To(t, at)
              PROVE  ShapeInv'
            BY <2>1, <2>3, <3>2, InsideShape DEF Mounts, Places
        <3> QED BY <3>1, <3>2
    <2> QED BY <2>2, <2>3
<1>4. CASE Mounting(t)
    <2>1. job[t].at = "mounting" /\ UNCHANGED events /\ job[t].op # "format"
        BY <1>4 DEF Mounting, At, ShapeInv, AppJob, UsbJob, NoJob, Job0, Tasks
    <2>2. Return(t, TRUE) \/ \E at \in {"exit", "exit_path", "exit_ok"} : To(t, at)
        BY <1>4 DEF Mounting, MountingTo
    <2>3. Return(t, TRUE) => ShapeInv'
        BY <2>1, ReturnShape DEF Mounts
    <2>4. ASSUME NEW at \in {"exit", "exit_path", "exit_ok"}, To(t, at)
          PROVE  ShapeInv'
        BY <2>1, <2>4, InsideShape DEF Mounts, Places
    <2> QED BY <2>2, <2>3, <2>4
<1>5. CASE Unmounting(t)
    <2>1. job[t].at = "unmounting" /\ UNCHANGED events
        BY <1>5 DEF Unmounting, At
    <2>2. Return(t, TRUE) \/ Return(t, FALSE)
        BY <1>5 DEF Unmounting, Return
    <2> QED BY <2>1, <2>2, ReturnShape DEF Unmounts
<1>6. CASE Exit(t)
    <2>1. job[t].at \in Mounts /\ UNCHANGED events
        BY <1>6 DEF Exit, Mounts
    <2>2. Return(t, TRUE) \/ Return(t, FALSE)
        BY <1>6 DEF Exit, Return
    <2> QED BY <2>1, <2>2, ReturnShape
<1> QED BY <1>1, <1>2, <1>3, <1>4, <1>5, <1>6

LEMMA AppShape ==
    ASSUME MscTypeOK, ShapeInv, ~Dangling(App), Running',
           \/ MapErr \/ Unmap \/ Free \/ Overwrite \/ Formatting \/ InstallDriver \/ UninstallDriver
           \/ \E m \in Media : NewStorage(m)
           \/ \E s \in Storages :
                DeleteStorage(s) \/ SetMountPoint(s) \/ ConfigStorageFatFs(s) \/ FormatStorage(s)
    PROVE  ShapeInv'
<1>0. App \in Tasks /\ App # Usb
    BY DEF Tasks, App, Usb
<1>1. ASSUME End(App), UNCHANGED events
      PROVE  ShapeInv'
    BY <1>0, <1>1, NoneTyped, ShapeKept DEF End, AppJob, NoJob, Job0
<1>2. ASSUME UNCHANGED <<job, events>>
      PROVE  ShapeInv'
    BY <1>2 DEF ShapeInv, AppJob, UsbJob, At
<1>3. ASSUME NEW j \in Job, AppJob(j), job' = [job EXCEPT ![App] = j], UNCHANGED events
      PROVE  ShapeInv'
    BY <1>0, <1>3, ShapeKept
<1>4. CASE MapErr \/ Free \/ Overwrite \/ Formatting
    BY <1>1, <1>4 DEF MapErr, Free, Overwrite, Formatting
<1>5. CASE Unmap
    <2>1. job[App].at = "unmap" /\ UNCHANGED events /\ (To(App, "free") \/ End(App))
        BY <1>5 DEF Unmap, At
    <2> DEFINE j == [job[App] EXCEPT !.at = "free"]
    <2>2. job[App] \in Job
        BY <1>0 DEF MscTypeOK
    <2>3. j \in Job /\ AppJob(j)
        BY <2>1, <2>2 DEF ShapeInv, AppJob, Job, NoJob, Job0, Mounts, Unmounts, Places
    <2>4. To(App, "free") => job' = [job EXCEPT ![App] = j]
        BY DEF To
    <2> QED BY <1>1, <1>3, <2>1, <2>3, <2>4
<1>6. CASE InstallDriver \/ UninstallDriver \/ \E s \in Storages : ConfigStorageFatFs(s)
    BY <1>2, <1>6 DEF InstallDriver, UninstallDriver, ConfigStorageFatFs
<1>7. ASSUME NEW m \in Media, NewStorage(m)
      PROVE  ShapeInv'
    <2> DEFINE s == made + 1
               j == Job0("new", "mount", s, 0)
    <2>1. s \in Storages
        BY <1>7, MscAssumption DEF NewStorage, MscTypeOK, Storages
    <2>2. UNCHANGED events /\ (End(App) \/ job' = [job EXCEPT ![App] = j])
        BY <1>7 DEF NewStorage, media, End
    <2>3. j \in Job
        BY <2>1, JobTyped DEF Ops, Places
    <2>4. AppJob(j)
        BY <2>1 DEF AppJob, Mounts, Job0
    <2> QED BY <1>1, <1>3, <2>2, <2>3, <2>4
<1>8. ASSUME NEW s \in Storages, DeleteStorage(s)
      PROVE  ShapeInv'
    <2>1. PICK at \in {"unmount", "unmap"} :
              job' = [job EXCEPT ![App] = Job0("delete", at, s, 0)]
        BY <1>8 DEF DeleteStorage
    <2> DEFINE j == Job0("delete", at, s, 0)
    <2>2. j \in Job
        BY JobTyped DEF Ops, Places
    <2>3. AppJob(j)
        BY DEF AppJob, Unmounts, Job0
    <2> QED BY <1>3, <1>8, <2>1, <2>2, <2>3 DEF DeleteStorage
<1>9. ASSUME NEW s \in Storages, SetMountPoint(s)
      PROVE  ShapeInv'
    <2> DEFINE on == Job0("set", "mount", s, 0)
               off == Job0("set", "unmount", s, 1)
    <2>1. UNCHANGED events /\ (job' = [job EXCEPT ![App] = on] \/ job' = [job EXCEPT ![App] = off])
        BY <1>9 DEF SetMountPoint
    <2>2. on \in Job /\ off \in Job
        BY JobTyped DEF Ops, Places
    <2>3. AppJob(on) /\ AppJob(off)
        BY DEF AppJob, Mounts, Unmounts, Job0
    <2> QED BY <1>3, <2>1, <2>2, <2>3
<1>10. ASSUME NEW s \in Storages, FormatStorage(s)
       PROVE  ShapeInv'
    <2>1. PICK d \in Drives :
              job' = [job EXCEPT ![App] = [Job0("format", "register", s, 0) EXCEPT !.drive = d]]
        BY <1>10 DEF FormatStorage
    <2> DEFINE j == [Job0("format", "register", s, 0) EXCEPT !.drive = d]
    <2>2. Job0("format", "register", s, 0) \in Job
        BY JobTyped DEF Ops, Places
    <2>3. j \in Job
        BY <2>2 DEF Job
    <2>4. AppJob(j)
        BY DEF AppJob, Job0
    <2> QED BY <1>3, <1>10, <2>1, <2>3, <2>4 DEF FormatStorage
<1> QED BY <1>4, <1>5, <1>6, <1>7, <1>8, <1>9, <1>10

LEMMA UsbShape ==
    ASSUME MscTypeOK, ShapeInv, ~Dangling(Usb), Running',
           NextLun \/ Accept \/ Deferred \/ Find \/ ReadSector \/ WriteSector
              \/ Done \/ Plugging \/ HostCommand
    PROVE  ShapeInv'
<1>0. Usb \in Tasks /\ App # Usb /\ job[Usb] \in Job /\ UsbJob(job[Usb])
    BY DEF Tasks, App, Usb, MscTypeOK, ShapeInv
<1>1. ASSUME End(Usb)
      PROVE  ShapeInv'
    BY <1>0, <1>1, NoneTyped, ShapeKept DEF End, UsbJob, NoJob, Job0
<1>2. ASSUME NEW j \in Job, UsbJob(j), job' = [job EXCEPT ![Usb] = j],
             events' = <<>> \/ (j.op \in {"to_app", "to_usb"} /\ UNCHANGED events)
      PROVE  ShapeInv'
    <2>1. j.op \in {"to_app", "to_usb"} => j.at \notin {"accept", "find", "io", "done"}
        BY <1>2 DEF UsbJob, NoJob, Job0, Mounts, Unmounts
    <2> QED BY <1>0, <1>2, <2>1, ShapeKept
<1>3. To(Usb, "wild") \/ To(Usb, "abort") => ~Running'
    <2>1. ASSUME NEW at \in {"wild", "abort"}, To(Usb, at)
          PROVE  ~Running'
        <3>1. job'[Usb].at = at
            BY <1>0, <2>1 DEF To, MscTypeOK, Job
        <3> QED BY <1>0, <3>1 DEF Running
    <2> QED BY <2>1
<1>4. ASSUME job[Usb].at \in {"accept", "find", "io", "done"}, UNCHANGED events
      PROVE  events' = <<>>
    BY <1>4 DEF ShapeInv
<1>5. CASE NextLun
    <2>1. At(Usb, "lun") /\ UNCHANGED events
        BY <1>5 DEF NextLun, At
    <2>2. job[Usb].op \in {"to_app", "to_usb"} /\ job[Usb].n \in 0 .. MaxLuns
        BY <1>0, <2>1 DEF UsbJob, NoJob, Job0, At, Mounts, Unmounts
    <2> DEFINE n == job[Usb].n
               next == [job[Usb] EXCEPT !.n = n + 1]
               go(at) == [job[Usb] EXCEPT !.s = ByLun(n), !.at = at]
    <2>3. \/ End(Usb) \/ To(Usb, "wild")
          \/ n # MaxLuns /\ job' = [job EXCEPT ![Usb] = next]
          \/ \E at \in {"mount", "unmount"} :
                n # MaxLuns /\ ByLun(n) # 0 /\ job' = [job EXCEPT ![Usb] = go(at)]
        BY <1>0, <1>5 DEF NextLun
    <2>4. ASSUME n # MaxLuns
          PROVE  next \in Job /\ UsbJob(next) /\ next.op \in {"to_app", "to_usb"}
        BY <1>0, <2>1, <2>2, <2>4, MscAssumption DEF UsbJob, Job, At
    <2>5. ASSUME n # MaxLuns, ByLun(n) # 0, NEW at \in {"mount", "unmount"}
          PROVE  go(at) \in Job /\ UsbJob(go(at)) /\ go(at).op \in {"to_app", "to_usb"}
        <3>1. n \in Luns
            BY <2>2, <2>5, MscAssumption DEF Luns
        <3>2. ByLun(n) \in Storages
            BY <2>5, <3>1 DEF ByLun, MscTypeOK
        <3>3. go(at) \in Job
            BY <1>0, <3>2 DEF Job, Places
        <3> QED BY <1>0, <2>2, <3>1, <3>2, <3>3 DEF UsbJob, Job, Mounts, Unmounts
    <2> QED BY <1>1, <1>2, <1>3, <2>1, <2>3, <2>4, <2>5
<1>6. CASE Accept \/ ReadSector
    BY <1>1, <1>6 DEF Accept, ReadSector
<1>7. CASE Deferred
    <2> DEFINE j == Job0("deferred", "find", Head(events), Head(events))
    <2>1. Head(events) \in Storages /\ events' = <<>>
        BY <1>7 DEF Deferred, MscTypeOK
    <2>2. j \in Job
        <3>1. "deferred" \in Ops /\ "find" \in Places /\ Head(events) \in Nat
            BY <2>1 DEF Ops, Places, Storages
        <3> QED BY <2>1, <3>1, JobTyped
    <2>3. UsbJob(j)
        BY <2>1 DEF UsbJob, Job0
    <2>4. job' = [job EXCEPT ![Usb] = j]
        BY <1>7 DEF Deferred
    <2> QED BY <1>2, <2>1, <2>2, <2>3, <2>4
<1>8. CASE Find
    <2>1. At(Usb, "find") /\ events' = <<>>
        BY <1>4, <1>8 DEF Find, At
    <2>2. job[Usb].op = "deferred" /\ job[Usb].n = job[Usb].s /\ job[Usb].s \in Storages
        BY <1>0, <2>1 DEF UsbJob, NoJob, Job0, At, Mounts, Unmounts
    <2>3. ByLun(obj[S(Usb)].buf.lun) \in Storages \cup {0}
        BY <2>2 DEF ByLun, MscTypeOK, Object, S
    <2> DEFINE done == [job[Usb] EXCEPT !.at = "done"]
               go(s) == [job[Usb] EXCEPT !.at = "io", !.s = s]
    <2>4. \/ To(Usb, "wild") \/ job' = [job EXCEPT ![Usb] = done]
          \/ \E s \in Storages : job' = [job EXCEPT ![Usb] = go(s)]
        BY <1>0, <1>8, <2>3 DEF Find, To
    <2>5. done \in Job /\ UsbJob(done)
        BY <1>0, <2>2 DEF UsbJob, Job, Places
    <2>6. ASSUME NEW s \in Storages
          PROVE  go(s) \in Job /\ UsbJob(go(s))
        BY <1>0, <2>2 DEF UsbJob, Job, Places
    <2> QED BY <1>2, <1>3, <2>1, <2>4, <2>5, <2>6
<1>9. CASE WriteSector
    <2>1. At(Usb, "io") /\ job[Usb].op = "deferred" /\ events' = <<>>
        BY <1>4, <1>9 DEF WriteSector, At
    <2>2. job[Usb].n \in Storages
        BY <1>0, <2>1 DEF UsbJob, NoJob, Job0, At, Mounts, Unmounts
    <2> DEFINE j == [job[Usb] EXCEPT !.at = "done", !.s = job[Usb].n]
    <2>3. job' = [job EXCEPT ![Usb] = j]
        BY <1>0, <1>9 DEF WriteSector
    <2>4. j \in Job /\ UsbJob(j)
        BY <1>0, <2>1, <2>2 DEF UsbJob, Job, Places
    <2> QED BY <1>2, <2>1, <2>3, <2>4
<1>10. CASE Done
    <2>1. To(Usb, "abort") \/ End(Usb)
        BY <1>10 DEF Done
    <2> QED BY <1>1, <1>3, <2>1
<1>11. CASE Plugging
    <2>1. PICK op \in {"to_app", "to_usb"} :
              job' = [job EXCEPT ![Usb] = Job0(op, "lun", 0, 0)]
        BY <1>11 DEF Plugging
    <2> DEFINE j == Job0(op, "lun", 0, 0)
    <2>2. j \in Job
        BY JobTyped DEF Ops, Places
    <2>3. UsbJob(j)
        BY MscAssumption DEF UsbJob, Job0
    <2>4. UNCHANGED events /\ j.op \in {"to_app", "to_usb"}
        BY <1>11 DEF Plugging, Commands, Job0
    <2> QED BY <1>2, <2>1, <2>2, <2>3, <2>4
<1>12. CASE HostCommand
    <2>1. PICK l \in Luns :
            \/ To(Usb, "wild")
            \/ /\ ByLun(l) # 0
               /\ \/ job' = [job EXCEPT ![Usb] = Job0("read", "io", ByLun(l), 0)]
                  \/ job' = [job EXCEPT ![Usb] = Job0("write", "accept", ByLun(l), l)]
        BY <1>12 DEF HostCommand
    <2>2. events' = <<>>
        BY <1>12 DEF HostCommand, Commands, UsbFree
    <2>3. ByLun(l) # 0 => ByLun(l) \in Storages
        BY DEF ByLun, MscTypeOK
    <2>4. l \in Nat
        BY MscAssumption DEF Luns
    <2>5. ASSUME ByLun(l) # 0, NEW op \in Ops, NEW at \in Places, NEW n \in Nat,
                 \/ op = "read" /\ at = "io" /\ n = 0
                 \/ op = "write" /\ at = "accept" /\ n = l,
                 job' = [job EXCEPT ![Usb] = Job0(op, at, ByLun(l), n)]
          PROVE  ShapeInv'
        <3> DEFINE j == Job0(op, at, ByLun(l), n)
        <3>1. j \in Job
            BY <2>3, <2>5, JobTyped
        <3>2. UsbJob(j)
            BY <2>3, <2>5 DEF UsbJob, Job0
        <3> QED BY <1>2, <2>2, <2>5, <3>1, <3>2
    <2> QED BY <1>3, <2>1, <2>4, <2>5 DEF Ops, Places
<1> QED BY <1>5, <1>6, <1>7, <1>8, <1>9, <1>10, <1>11, <1>12

-----------------------------------------------------------------------------
(* What a step leaves alone. *)

LEMMA TwoTasks ==
    /\ App \in Tasks /\ Usb \in Tasks /\ Tasks = {App, Usb} /\ App # Usb
    /\ MscTypeOK => job \in [Tasks -> Job] /\ made \in Nat
BY MscAssumption DEF Tasks, App, Usb, MscTypeOK

\* Nobody gets or loses a LUN, a medium or life.
LunsFrame ==
    /\ UNCHANGED <<lun, lunCount, made>>
    /\ \A s \in Storages : /\ obj'[s].state = obj[s].state
                           /\ obj'[s].medium = obj[s].medium

\* The task t keeps to its storage and its call.
CallFrame(t) ==
    /\ UNCHANGED <<events, byApp, byUsb>>
    /\ \A s \in Storages : /\ obj'[s].deferred = obj[s].deferred /\ obj'[s].buf = obj[s].buf
                           /\ s # S(t) => obj'[s].mount = obj[s].mount
    /\ \A m \in Media \ {Medium(t)} : vfs'[m] = vfs[m]
    /\ \A u \in Tasks \ {t} : job'[u] = job[u]
    /\ \/ job'[t] = NoJob
       \/ /\ job'[t].s = job[t].s /\ job'[t].op = job[t].op
          /\ job[t].op \notin {"to_app", "to_usb"} => job'[t].n = job[t].n

\* The application keeps to its storage, and takes up none that it has freed.
AppFrame ==
    /\ UNCHANGED <<events, drives, byUsb>>
    /\ \A s \in Storages : obj'[s].deferred = obj[s].deferred /\ obj'[s].buf = obj[s].buf
    /\ job'[Usb] = job[Usb]
    /\ \/ job'[App] = NoJob \/ job'[App] = job[App]
       \/ At(App, "idle") /\ job'[App].s \in Storages /\ Live(job'[App].s)

\* The TinyUSB task's own steps.
UsbFrame ==
    /\ UNCHANGED <<drives, vfs, byApp>> /\ job'[App] = job[App]
    /\ \A s \in Storages : obj'[s].mount = obj[s].mount

LEMMA ToFrame ==
    ASSUME MscTypeOK, NEW t \in Tasks, NEW at \in Places, To(t, at)
    PROVE  /\ \A u \in Tasks \ {t} : job'[u] = job[u]
           /\ job'[t].s = job[t].s /\ job'[t].op = job[t].op /\ job'[t].n = job[t].n
           /\ job'[t].at = at
BY DEF MscTypeOK, Job, To

LEMMA EndFrame ==
    ASSUME MscTypeOK, NEW t \in Tasks, End(t)
    PROVE  /\ \A u \in Tasks \ {t} : job'[u] = job[u]
           /\ job'[t] = NoJob /\ job'[t].s = 0 /\ job'[t].op = "none" /\ job'[t].at = "idle" /\ job'[t].n = 0
BY DEF MscTypeOK, NoJob, Job0, End

LEMMA ReturnFrame ==
    ASSUME MscTypeOK, NEW t \in Tasks, NEW ok, Return(t, ok)
    PROVE  /\ \A u \in Tasks \ {t} : job'[u] = job[u]
           /\ \/ job'[t] = NoJob
              \/ /\ job'[t].s = job[t].s /\ job'[t].op = job[t].op
                 /\ job[t].op \notin {"to_app", "to_usb"} => job'[t].n = job[t].n
           /\ job'[t].at \in {"idle", "map_err", "unmap", "abort", "overwrite", "lun"}
<1>1. CASE End(t)
    BY <1>1, EndFrame
<1>2. ASSUME NEW at \in {"map_err", "unmap", "abort", "overwrite"}, To(t, at)
      PROVE  /\ \A u \in Tasks \ {t} : job'[u] = job[u]
             /\ job'[t].s = job[t].s /\ job'[t].op = job[t].op /\ job'[t].n = job[t].n
             /\ job'[t].at = at
    BY <1>2, ToFrame DEF Places
<1>3. CASE /\ job[t].op \in {"to_app", "to_usb"}
           /\ job' = [job EXCEPT ![t].at = "lun", ![t].n = @ + 1]
    BY <1>3 DEF MscTypeOK, Job
<1> QED BY <1>1, <1>2, <1>3 DEF Return

LEMMA MountFrame ==
    ASSUME MscTypeOK, NEW s \in Storages, NEW m, obj' = [obj EXCEPT ![s].mount = m]
    PROVE  /\ \A o \in Storages : /\ obj'[o].state = obj[o].state
                                  /\ obj'[o].medium = obj[o].medium
                                  /\ obj'[o].deferred = obj[o].deferred
                                  /\ obj'[o].buf = obj[o].buf
                                  /\ obj'[o].keep = obj[o].keep
                                  /\ o # s => obj'[o].mount = obj[o].mount
           /\ obj'[s].mount = m
BY DEF MscTypeOK, Object

LEMMA BufferFrame ==
    ASSUME MscTypeOK, NEW s \in Storages, NEW n, NEW b,
           obj' = [obj EXCEPT ![s].deferred = n, ![s].buf = b]
    PROVE  /\ \A o \in Storages : /\ obj'[o].state = obj[o].state
                                  /\ obj'[o].medium = obj[o].medium
                                  /\ obj'[o].mount = obj[o].mount
                                  /\ o # s => obj'[o] = obj[o]
           /\ obj'[s].deferred = n /\ obj'[s].buf = b
<1>1. obj \in [Storages -> Object] /\ obj[s] \in Object
    BY DEF MscTypeOK
<1>2. obj' = [obj EXCEPT ![s] = [[obj[s] EXCEPT !.deferred = n] EXCEPT !.buf = b]]
    BY <1>1
<1> QED BY <1>1, <1>2 DEF Object

\* A call's steps.
LEMMA CallFrames ==
    ASSUME MscTypeOK, ShapeInv, NEW t \in Tasks, ~Dangling(t),
           Mount(t) \/ Unmount(t) \/ Register(t) \/ Mounting(t) \/ Unmounting(t) \/ Exit(t)
    PROVE  LunsFrame /\ CallFrame(t)
<1>1. UNCHANGED <<lun, lunCount, made, events, byApp, byUsb>>
    BY DEF Mount, Unmount, Register, Mounting, Unmounting, Exit, luns, used, history
<1>2. job[t].at \notin {"idle", "lun", "wild", "abort"}
    BY DEF Mount, Unmount, Register, Mounting, Unmounting, Exit, At
<1>3. S(t) \in Storages
    BY <1>2, InUse
<1>4. \/ \E at \in Places : To(t, at)
      \/ \E d \in Drives : job' = [job EXCEPT ![t].at = "register", ![t].drive = d]
      \/ End(t) \/ Return(t, TRUE) \/ Return(t, FALSE)
    <2>1. CASE Mount(t)
        BY <2>1 DEF Mount
    <2>2. CASE Unmount(t)
        BY <2>2 DEF Unmount, Places
    <2>3. CASE Register(t)
        BY <2>3 DEF Register, Places
    <2>4. CASE Mounting(t)
        BY <2>4 DEF Mounting, MountingTo, Places
    <2>5. CASE Unmounting(t)
        BY <2>5 DEF Unmounting, Return
    <2>6. CASE Exit(t)
        BY <2>6 DEF Exit, Return
    <2> QED BY <2>1, <2>2, <2>3, <2>4, <2>5, <2>6
<1>5. /\ \A u \in Tasks \ {t} : job'[u] = job[u]
      /\ \/ job'[t] = NoJob
         \/ /\ job'[t].s = job[t].s /\ job'[t].op = job[t].op
            /\ job[t].op \notin {"to_app", "to_usb"} => job'[t].n = job[t].n
    <2>1. ASSUME NEW d \in Drives, job' = [job EXCEPT ![t].at = "register", ![t].drive = d]
          PROVE  /\ \A u \in Tasks \ {t} : job'[u] = job[u]
                 /\ job'[t].s = job[t].s /\ job'[t].op = job[t].op /\ job'[t].n = job[t].n
        BY <2>1 DEF MscTypeOK, Job
    <2> QED BY <1>4, <2>1, ToFrame, EndFrame, ReturnFrame
<1>6. UNCHANGED obj \/ \E m \in Tasks : obj' = [obj EXCEPT ![S(t)].mount = m]
    <2>1. CASE Mount(t) \/ Unmount(t) \/ Register(t) \/ Exit(t)
        BY <2>1 DEF Mount, Unmount, Register, Exit
    <2>2. obj[S(t)].mount \in Tasks
        BY <1>3 DEF MscTypeOK, Object
    <2>3. CASE Mounting(t)
        BY <2>2, <2>3, TwoTasks DEF Mounting, MountingTo
    <2>4. CASE Unmounting(t)
        BY <2>2, <2>4, TwoTasks DEF Unmounting
    <2> QED BY <2>1, <2>3, <2>4
<1>7. \A s \in Storages :
         /\ obj'[s].state = obj[s].state /\ obj'[s].medium = obj[s].medium
         /\ obj'[s].deferred = obj[s].deferred /\ obj'[s].buf = obj[s].buf
         /\ s # S(t) => obj'[s].mount = obj[s].mount
    BY <1>3, <1>6, MountFrame
<1>8. \A m \in Media \ {Medium(t)} : vfs'[m] = vfs[m]
    <2>1. CASE Mount(t) \/ Unmount(t) \/ Register(t)
        BY <2>1 DEF Mount, Unmount, Register, media
    <2>2. CASE Mounting(t)
        BY <2>2 DEF Mounting, MountingTo, MscTypeOK
    <2>3. CASE Unmounting(t)
        BY <2>3 DEF Unmounting, MscTypeOK
    <2>4. CASE Exit(t)
        BY <2>4 DEF Exit, Withdrawn, MscTypeOK
    <2> QED BY <2>1, <2>2, <2>3, <2>4
<1> QED BY <1>1, <1>5, <1>7, <1>8 DEF LunsFrame, CallFrame

LEMMA UsbFrames ==
    ASSUME MscTypeOK, ShapeInv, ~Dangling(Usb),
           NextLun \/ Accept \/ Deferred \/ Find \/ ReadSector \/ WriteSector
              \/ Done \/ Plugging \/ HostCommand
    PROVE  LunsFrame /\ UsbFrame
<1>1. UNCHANGED <<lun, lunCount, made, drives, vfs, byApp>>
    BY DEF NextLun, Accept, Deferred, Find, ReadSector, WriteSector, Done,
           Plugging, HostCommand, Commands, Counted, luns, media, history, used
<1>2. job'[App] = job[App]
    <2>1. App \in Tasks /\ Usb \in Tasks /\ App # Usb /\ job \in [Tasks -> Job]
        BY TwoTasks
    <2>2. ASSUME NEW at, To(Usb, at)
          PROVE  job'[App] = job[App]
        BY <2>1, <2>2 DEF To
    <2>3. End(Usb) => job'[App] = job[App]
        BY <2>1 DEF End
    <2>4. CASE NextLun
        BY <2>1, <2>2, <2>3, <2>4 DEF NextLun
    <2>5. CASE Accept \/ ReadSector \/ Done
        BY <2>1, <2>2, <2>3, <2>5 DEF Accept, ReadSector, Done
    <2>6. CASE Deferred \/ WriteSector \/ Plugging
        BY <2>1, <2>6 DEF Deferred, WriteSector, Plugging
    <2>7. CASE Find
        BY <2>1, <2>2, <2>7 DEF Find
    <2>8. CASE HostCommand
        BY <2>1, <2>2, <2>8 DEF HostCommand
    <2> QED BY <2>4, <2>5, <2>6, <2>7, <2>8
<1>3. \A s \in Storages : /\ obj'[s].state = obj[s].state /\ obj'[s].medium = obj[s].medium
                          /\ obj'[s].mount = obj[s].mount
    <2>1. CASE UNCHANGED obj
        BY <2>1
    <2>2. CASE Accept
        BY <2>2 DEF Accept, MscTypeOK, Object
    <2>3. CASE Done
        <3> DEFINE n == obj[S(Usb)].deferred - 1
                   b == IF n = 0 THEN NoObj.buf ELSE obj[S(Usb)].buf
        <3>1. UNCHANGED obj \/ obj' = [obj EXCEPT ![S(Usb)].deferred = n, ![S(Usb)].buf = b]
            BY <2>3 DEF Done
        <3>2. S(Usb) \in Storages
            BY <2>3, InUse DEF Done, At, Tasks
        <3> HIDE DEF n, b
        <3> QED BY <3>1, <3>2, BufferFrame
    <2> QED BY <2>1, <2>2, <2>3 DEF NextLun, Deferred, Find, ReadSector,
                WriteSector, Plugging, HostCommand, Commands
<1> QED BY <1>1, <1>2, <1>3 DEF LunsFrame, UsbFrame

\* The application's steps that give nobody a LUN or a medium.
LEMMA AppFrames ==
    ASSUME MscTypeOK, ShapeInv, ~Dangling(App),
           \/ Overwrite \/ Formatting \/ InstallDriver \/ UninstallDriver
           \/ \E s \in Storages :
                DeleteStorage(s) \/ SetMountPoint(s) \/ ConfigStorageFatFs(s) \/ FormatStorage(s)
    PROVE  LunsFrame /\ AppFrame
<1>1. UNCHANGED <<lun, lunCount, made, events, drives, byUsb>>
    BY DEF Overwrite, Formatting, InstallDriver, UninstallDriver, DeleteStorage, SetMountPoint,
           ConfigStorageFatFs, FormatStorage, Calls, Counted, luns, media, history, used
<1>2. /\ job'[Usb] = job[Usb]
      /\ \/ job'[App] = NoJob \/ job'[App] = job[App]
         \/ At(App, "idle") /\ job'[App].s \in Storages /\ Live(job'[App].s)
    <2>1. ASSUME End(App)
          PROVE  job'[Usb] = job[Usb] /\ job'[App] = NoJob
        BY <2>1, EndFrame, TwoTasks
    <2>2. ASSUME UNCHANGED job
          PROVE  job'[Usb] = job[Usb] /\ job'[App] = job[App]
        BY <2>2
    <2>3. ASSUME NEW s \in Storages, NEW j, j.s = s, job' = [job EXCEPT ![App] = j], Live(s),
                 At(App, "idle")
          PROVE  <1>2!:
        BY <2>3, TwoTasks
    <2>5. ASSUME NEW s \in Storages, DeleteStorage(s)
          PROVE  <1>2!:
        <3>1. PICK at : job' = [job EXCEPT ![App] = Job0("delete", at, s, 0)]
            BY <2>5 DEF DeleteStorage
        <3>2. Job0("delete", at, s, 0).s = s
            BY DEF Job0
        <3> QED BY <2>3, <2>5, <3>1, <3>2 DEF DeleteStorage, Calls
    <2>6. ASSUME NEW s \in Storages, SetMountPoint(s)
          PROVE  <1>2!:
        <3>1. PICK at, n : job' = [job EXCEPT ![App] = Job0("set", at, s, n)]
            BY <2>6 DEF SetMountPoint
        <3>2. Job0("set", at, s, n).s = s
            BY DEF Job0
        <3> QED BY <2>3, <2>6, <3>1, <3>2 DEF SetMountPoint, Calls
    <2>7. ASSUME NEW s \in Storages, FormatStorage(s)
          PROVE  <1>2!:
        <3>1. PICK d :
                job' = [job EXCEPT ![App] = [Job0("format", "register", s, 0) EXCEPT !.drive = d]]
            BY <2>7 DEF FormatStorage
        <3>2. [Job0("format", "register", s, 0) EXCEPT !.drive = d].s = s
            BY DEF Job0
        <3> QED BY <2>3, <2>7, <3>1, <3>2 DEF FormatStorage, Calls
    <2> QED BY <2>1, <2>2, <2>5, <2>6, <2>7 DEF Overwrite, Formatting, InstallDriver,
                UninstallDriver, ConfigStorageFatFs
<1>3. \A s \in Storages : /\ obj'[s].state = obj[s].state /\ obj'[s].medium = obj[s].medium
                          /\ obj'[s].deferred = obj[s].deferred /\ obj'[s].buf = obj[s].buf
    <2>1. CASE UNCHANGED obj
        BY <2>1
    <2>2. CASE Overwrite
        <3>1. S(App) \in Storages
            BY <2>2, InUse DEF Overwrite, At, Tasks
        <3>2. PICK m : obj' = [obj EXCEPT ![S(App)].mount = m]
            BY <2>2 DEF Overwrite
        <3> QED BY <3>1, <3>2, MountFrame
    <2>3. ASSUME NEW s \in Storages, ConfigStorageFatFs(s)
          PROVE  <1>3!:
        BY <2>3 DEF ConfigStorageFatFs, MscTypeOK, Object
    <2> QED BY <2>1, <2>2, <2>3 DEF Formatting, InstallDriver, UninstallDriver, DeleteStorage,
                SetMountPoint, FormatStorage
<1> QED BY <1>1, <1>2, <1>3 DEF LunsFrame, AppFrame

-----------------------------------------------------------------------------
(* Who has which LUN and which medium: MediumInv, LunInv, and the count of *)
(* LUNs.                                                                   *)

\* In a state the count of LUNs follows from who has them.
LEMMA LunsFrameKept ==
    ASSUME LunsFrame, MscTypeOK, MediumInv, LunInv
    PROVE  MediumInv' /\ LunInv' /\ LunsCounted'
<1>1. \A s \in Storages : (Live(s)' <=> Live(s)) /\ obj'[s].medium = obj[s].medium
    BY DEF LunsFrame, Live
<1>2. MediumInv' /\ LunInv'
    BY <1>1 DEF LunsFrame, MediumInv, LunInv, Live
<1>3. LunsCounted'
    BY DEF LunsFrame, LunsCounted, Taken, MscTypeOK
<1> QED BY <1>2, <1>3

\* A storage that is released, and what goes with it.
LEMMA ReleaseFrame ==
    ASSUME MscTypeOK, NEW s \in Storages, Release(s)
    PROVE  /\ \A o \in Storages \ {s} : obj'[o] = obj[o] /\ accepted'[o] = accepted[o]
           /\ ~Live(s)'
           /\ spoilt' = spoilt \ {obj[s].medium} /\ byApp' = byApp \ {s}
BY DEF Release, Live, NoObj, MscTypeOK

LEMMA ReleaseLuns ==
    ASSUME MscTypeOK, ShapeInv, MediumInv, LunInv, MapErr \/ Free, ~Dangling(App)
    PROVE  MediumInv' /\ LunInv' /\ LunsCounted'
<1>1. S(App) \in Storages /\ Release(S(App)) /\ UNCHANGED <<lun, lunCount>>
    BY InUse DEF MapErr, Free, At, Tasks, luns
<1>2. \A s \in Storages : Live(s)' => Live(s) /\ obj'[s] = obj[s]
    BY <1>1, ReleaseFrame DEF Live
<1>3. MediumInv' /\ LunInv'
    BY <1>1, <1>2 DEF MediumInv, LunInv, Live
<1>4. LunsCounted'
    BY <1>1 DEF LunsCounted, Taken, MscTypeOK
<1> QED BY <1>3, <1>4

LEMMA UnmapLuns ==
    ASSUME MscTypeOK, ShapeInv, MediumInv, LunInv, Unmap, ~Dangling(App)
    PROVE  MediumInv' /\ LunInv' /\ LunsCounted'
<1>1. S(App) \in Storages /\ S(App) # 0 /\ UNCHANGED obj
    BY InUse, MscAssumption DEF Unmap, At, Tasks, Storages
<1>2. lun' = [l \in Luns |-> IF lun[l] = S(App) THEN 0 ELSE lun[l]]
    BY DEF Unmap
<1>3. CASE S(App) \notin Range(lun)
    <2>1. lun' = lun /\ UNCHANGED lunCount
        BY <1>2, <1>3 DEF Unmap, Range, MscTypeOK
    <2>2. LunsFrame
        BY <1>1, <2>1 DEF LunsFrame, Unmap, used
    <2> QED BY <2>2, LunsFrameKept
<1>4. CASE S(App) \in Range(lun)
    <2>1. PICK l \in Luns : lun[l] = S(App)
        BY <1>4 DEF Range, MscTypeOK
    <2>2. \A k \in Luns : lun'[k] = IF k = l THEN 0 ELSE lun[k]
        BY <1>1, <1>2, <2>1 DEF LunInv
    <2>3. LunInv'
        BY <2>2 DEF LunInv
    <2>4. Taken' = Taken \ {l} /\ l \in Taken
        BY <1>1, <2>1, <2>2 DEF Taken
    <2>5. lunCount' = lunCount - 1 /\ lunCount \in Nat
        BY <1>4, MscAssumption DEF Unmap, MscTypeOK
    <2>6. Cardinality(Taken') = Cardinality(Taken) - 1
        BY <2>4, TakenFinite, FS_RemoveElement
    <2>7. LunsCounted'
        <3> HIDE DEF Taken
        <3>1. Cardinality(Taken) <= lunCount
            BY DEF MscTypeOK, LunsCounted
        <3> QED BY <2>5, <2>6, <3>1, TakenFinite DEF LunsCounted
    <2>8. MediumInv'
        BY <1>1 DEF MediumInv, Live
    <2> QED BY <2>3, <2>7, <2>8
<1> QED BY <1>3, <1>4

\* What a new storage is, and where.
LEMMA NewFrame ==
    ASSUME MscTypeOK, FreshInv, NEW m \in Media, NewStorage(m)
    PROVE  /\ made + 1 \in Storages /\ made + 1 # 0 /\ made' = made + 1
           /\ lunCount \in Luns /\ lunCount' = lunCount + 1 /\ ~Live(made + 1)
           /\ \A l \in Luns : /\ lun[l] # made + 1
                              /\ lun'[l] = IF l = lunCount THEN made + 1 ELSE lun[l]
           /\ \A o \in Storages :
                 /\ o # made + 1 => obj'[o] = obj[o] /\ accepted'[o] = accepted[o]
                 /\ Live(o)' <=> Live(o) \/ o = made + 1
                 /\ o = made + 1 => /\ obj'[o].medium = m /\ obj'[o].mount = Usb
                                    /\ obj'[o].deferred = 0 /\ accepted'[o] = disk[m]
                 /\ Live(o) => obj[o].medium # m
           /\ byApp' = IF vfs[m] THEN byApp \cup {made + 1} ELSE byApp
           /\ job[App].at = "idle" /\ job'[Usb] = job[Usb]
           /\ job'[App] = NoJob \/ job'[App] = Job0("new", "mount", made + 1, 0)
           /\ UNCHANGED <<lock, media, events, spoilt, byUsb>>
<1> DEFINE s == made + 1
<1>1. s \in Storages /\ s # 0 /\ made \in Nat /\ made' = s
    BY MscAssumption DEF NewStorage, MscTypeOK, Storages
<1>2. lunCount \in Luns /\ lunCount \in Nat
    BY MscAssumption DEF NewStorage, MscTypeOK, Luns
<1>3. PICK mount \in Tasks, keep \in Keeps(m) :
          /\ obj' = [obj EXCEPT ![s] = NewObj(m, keep)]
          /\ accepted' = [accepted EXCEPT ![s] = disk[m]]
          /\ byApp' = IF vfs[m] THEN byApp \cup {s} ELSE byApp
          /\ MapToLun(s)
          /\ job' = [job EXCEPT ![App] = IF mount = Usb THEN NoJob ELSE Job0("new", "mount", s, 0)]
    BY DEF NewStorage
<1>4. /\ \A o \in Storages : Live(o) => obj[o].medium # m
      /\ job[App].at = "idle" /\ UNCHANGED <<lock, media, events, spoilt, byUsb>>
    BY DEF NewStorage, At
<1>5. lun' = [lun EXCEPT ![lunCount] = s] /\ lunCount' = lunCount + 1
    BY <1>3 DEF MapToLun
<1>6. \A l \in Luns : lun[l] # s /\ lun'[l] = IF l = lunCount THEN s ELSE lun[l]
    BY <1>1, <1>2, <1>5 DEF FreshInv, MscTypeOK, Storages
<1>7. /\ NewObj(m, keep).state = "live" /\ NewObj(m, keep).medium = m
      /\ NewObj(m, keep).mount = Usb /\ NewObj(m, keep).deferred = 0
    BY DEF NewObj, NoObj
<1>8. \A o \in Storages : /\ o # s => obj'[o] = obj[o] /\ accepted'[o] = accepted[o]
                          /\ o = s => obj'[o] = NewObj(m, keep) /\ accepted'[o] = disk[m]
    BY <1>1, <1>3 DEF MscTypeOK
<1>9. ~Live(s)
    BY <1>1 DEF FreshInv
<1>10. job'[App] = (IF mount = Usb THEN NoJob ELSE Job0("new", "mount", s, 0)) /\ job'[Usb] = job[Usb]
    BY <1>3, TwoTasks
<1>11. \A o \in Storages : Live(o)' <=> Live(o) \/ o = s
    BY <1>7, <1>8, <1>9 DEF Live
<1> HIDE DEF s
<1>12. \A o \in Storages : o = s => /\ obj'[o].medium = m /\ obj'[o].mount = Usb
                                    /\ obj'[o].deferred = 0 /\ accepted'[o] = disk[m]
    BY <1>7, <1>8
<1>13. job'[App] = NoJob \/ job'[App] = Job0("new", "mount", s, 0)
    BY <1>10
<1> USE DEF s
<1> QED BY <1>1, <1>2, <1>3, <1>4, <1>5, <1>6, <1>8, <1>9, <1>10, <1>11, <1>12, <1>13

LEMMA NewLuns ==
    ASSUME MscTypeOK, FreshInv, MediumInv, LunInv, NEW m \in Media, NewStorage(m)
    PROVE  MediumInv' /\ LunInv' /\ LunsCounted'
<1> DEFINE s == made + 1
<1>1. /\ s \in Storages /\ s # 0 /\ lunCount \in Luns /\ lunCount' = lunCount + 1
      /\ \A l \in Luns : lun[l] # s /\ lun'[l] = IF l = lunCount THEN s ELSE lun[l]
    BY NewFrame
<1>2. \A o \in Storages : /\ o # s => obj'[o] = obj[o]
                          /\ Live(o)' <=> Live(o) \/ o = s
                          /\ o = s => obj'[o].medium = m
                          /\ Live(o) => obj[o].medium # m
    BY NewFrame
<1> HIDE DEF s
<1>3. MediumInv'
    BY <1>2 DEF MediumInv, Live
<1>4. LunInv'
    BY <1>1 DEF LunInv
<1>5. Taken' = Taken \cup {lunCount}
    BY <1>1 DEF Taken
<1>6. LunsCounted'
    <2>1. Cardinality(Taken') = IF lunCount \in Taken THEN Cardinality(Taken) ELSE Cardinality(Taken) + 1
        BY <1>5, TakenFinite, FS_AddElement
    <2>2. Cardinality(Taken) <= lunCount /\ lunCount \in Nat
        BY MscAssumption DEF MscTypeOK, LunsCounted
    <2> HIDE DEF Taken
    <2> QED BY <1>1, <2>1, <2>2, TakenFinite DEF LunsCounted
<1> QED BY <1>3, <1>4, <1>6

\* Every step of a running device, by kind.
Kinds ==
    \/ \E t \in Tasks : Wild(t)
    \/ \E t \in Tasks :
          /\ ~Dangling(t)
          /\ Mount(t) \/ Unmount(t) \/ Register(t) \/ Mounting(t) \/ Unmounting(t) \/ Exit(t)
    \/ ~Dangling(App) /\ (MapErr \/ Unmap \/ Free)
    \/ ~Dangling(Usb) /\ (NextLun \/ Accept \/ Deferred \/ Find \/ ReadSector
                            \/ WriteSector \/ Done \/ Plugging \/ HostCommand)
    \/ ~Dangling(App) /\ \E m \in Media : NewStorage(m)
    \/ /\ ~Dangling(App)
       /\ \/ Overwrite \/ Formatting \/ InstallDriver \/ UninstallDriver
          \/ \E s \in Storages :
               DeleteStorage(s) \/ SetMountPoint(s) \/ ConfigStorageFatFs(s) \/ FormatStorage(s)

LEMMA StepKinds == Next => Running /\ Kinds
<1>1. ASSUME NEW t \in Tasks, Step(t)
      PROVE  Running /\ Kinds
    BY <1>1 DEF Step, Continue, Kinds
<1>2. ASSUME At(App, "idle")
      PROVE  ~Dangling(App)
    BY <1>2 DEF Dangling, At
<1>3. ASSUME InstallDriver \/ UninstallDriver \/ NewStorageSpiflash \/ NewStorageSdmmc
      PROVE  Kinds
    <2>1. At(App, "idle")
        BY <1>3 DEF InstallDriver, UninstallDriver, NewStorageSpiflash, NewStorageSdmmc,
                    NewStorage, Calls
    <2>2. CASE InstallDriver \/ UninstallDriver
        BY <1>2, <2>1, <2>2 DEF Kinds
    <2>3. CASE NewStorageSpiflash \/ NewStorageSdmmc
        <3>1. PICK m \in Media : NewStorage(m)
            BY <2>3 DEF NewStorageSpiflash, NewStorageSdmmc, Media
        <3> QED BY <1>2, <2>1, <3>1 DEF Kinds
    <2> QED BY <1>3, <2>2, <2>3
<1>4. ASSUME NEW s \in Storages,
             DeleteStorage(s) \/ SetMountPoint(s) \/ ConfigStorageFatFs(s) \/ FormatStorage(s)
      PROVE  Kinds
    <2>1. At(App, "idle")
        BY <1>4 DEF DeleteStorage, SetMountPoint, ConfigStorageFatFs, FormatStorage, Calls
    <2> QED BY <1>2, <1>4, <2>1 DEF Kinds
<1>5. ASSUME Plugging \/ HostCommand
      PROVE  Kinds
    <2>1. job[Usb].at = "idle"
        BY <1>5 DEF Plugging, HostCommand, Commands, At
    <2>2. ~Dangling(Usb)
        BY <2>1 DEF Dangling
    <2> QED BY <1>5, <2>2 DEF Kinds
<1> QED BY <1>1, <1>3, <1>4, <1>5 DEF Next

\* A step onto freed memory is the last one.
LEMMA WildStops ==
    ASSUME MscTypeOK, NEW t \in Tasks, Wild(t)
    PROVE  MscTypeOK' /\ ~Running'
<1>1. To(t, "wild") /\ UNCHANGED <<luns, obj, lock, media, events, history, used>>
    BY DEF Wild
<1>2. job' \in [Tasks -> Job] /\ job'[t].at = "wild"
    BY <1>1, GoesTo, ToFrame DEF Places
<1>3. LunsCounted'
    BY <1>1 DEF LunsCounted, Taken, MscTypeOK, luns
<1> QED BY <1>1, <1>2, <1>3 DEF MscTypeOK, Running, luns, media, history, used

LEMMA LunsKept ==
    ASSUME MscTypeOK, ShapeInv, FreshInv, MediumInv, LunInv, Kinds
    PROVE  LunsCounted' /\ (Running' => MediumInv' /\ LunInv')
<1>1. ASSUME NEW t \in Tasks, Wild(t)
      PROVE  LunsCounted' /\ ~Running'
    BY <1>1, WildStops DEF MscTypeOK
<1>2. ASSUME NEW t \in Tasks, ~Dangling(t),
             Mount(t) \/ Unmount(t) \/ Register(t) \/ Mounting(t) \/ Unmounting(t) \/ Exit(t)
      PROVE  LunsFrame
    BY <1>2, CallFrames
<1> QED BY <1>1, <1>2, LunsFrameKept, UsbFrames, AppFrames, ReleaseLuns, UnmapLuns, NewLuns
        DEF Kinds

\* Every state that is reached has the type, whatever stopped it.
LEMMA TypeKept ==
    ASSUME MscTypeOK, ShapeInv, FreshInv, MediumInv, LunInv, Kinds
    PROVE  MscTypeOK'
<1>1. LunsCounted'
    BY LunsKept
<1> QED BY <1>1, WildStops, CallTyped, AppTyped, UsbTyped DEF Kinds

-----------------------------------------------------------------------------
(* What is not created yet is nowhere, and what the application works on lives: *)
(* FreshInv, LiveInv.                                                           *)

\* The parts of FreshInv a step that gives nobody a LUN leaves.
LEMMA FreshFrame ==
    ASSUME MscTypeOK, FreshInv, LunsFrame,
           \A k \in DOMAIN events' : events'[k] <= made,
           \A t \in Tasks : job'[t].s <= made,
           job'[Usb].op = "deferred" => job'[Usb].n <= made
    PROVE  FreshInv'
<1>1. \A s \in Storages : Live(s)' => Live(s)
    BY DEF LunsFrame, Live
<1>2. made' = made /\ lun' = lun
    BY DEF LunsFrame
<1> QED BY <1>1, <1>2 DEF FreshInv, S

LEMMA CallFresh ==
    ASSUME MscTypeOK, FreshInv, NEW t \in Tasks, LunsFrame, CallFrame(t)
    PROVE  FreshInv'
<1>1. \A u \in Tasks : job'[u].s \in {job[u].s, 0}
    BY DEF CallFrame, NoJob, Job0
<1>2. \A u \in Tasks : job'[u].s <= made
    BY <1>1, MscAssumption DEF FreshInv, S, MscTypeOK
<1>3. job'[Usb].op = "deferred" => job[Usb].op = "deferred" /\ job'[Usb].n = job[Usb].n
    BY DEF CallFrame, Tasks, NoJob, Job0
<1>4. job'[Usb].op = "deferred" => job'[Usb].n <= made
    BY <1>3 DEF FreshInv
<1>5. \A k \in DOMAIN events' : events'[k] <= made
    BY DEF CallFrame, FreshInv
<1> QED BY <1>2, <1>4, <1>5, FreshFrame

LEMMA UsbFresh ==
    ASSUME MscTypeOK, ShapeInv, FreshInv, ~Dangling(Usb), LunsFrame, UsbFrame,
           NextLun \/ Accept \/ Deferred \/ Find \/ ReadSector \/ WriteSector
              \/ Done \/ Plugging \/ HostCommand
    PROVE  FreshInv'
<1>0. /\ Usb \in Tasks /\ App \in Tasks /\ Tasks = {App, Usb}
      /\ job \in [Tasks -> Job] /\ made \in Nat /\ 0 <= made
    BY MscAssumption DEF Tasks, MscTypeOK
<1>1. job[Usb].s <= made /\ job[App].s <= made /\ (job[Usb].op = "deferred" => job[Usb].n <= made)
    BY <1>0 DEF FreshInv, S
<1>2. \A l \in Luns : ByLun(l) <= made
    BY DEF FreshInv, ByLun
<1>3. ASSUME UNCHANGED events,
             job'[Usb].s <= made, job'[Usb].op = "deferred" => job'[Usb].n <= made
      PROVE  FreshInv'
    <2>1. \A t \in Tasks : job'[t].s <= made
        BY <1>0, <1>1, <1>3 DEF UsbFrame
    <2>2. \A k \in DOMAIN events' : events'[k] <= made
        BY <1>3 DEF FreshInv
    <2> QED BY <1>3, <2>1, <2>2, FreshFrame
<1>4. ASSUME End(Usb)
      PROVE  job'[Usb].s <= made /\ (job'[Usb].op = "deferred" => job'[Usb].n <= made)
    BY <1>0, <1>4, EndFrame
<1>5. ASSUME NEW at \in Places, To(Usb, at)
      PROVE  job'[Usb].s <= made /\ (job'[Usb].op = "deferred" => job'[Usb].n <= made)
    BY <1>0, <1>1, <1>5, ToFrame
<1>6. CASE NextLun
    <2>1. job[Usb].n \in Luns \/ job[Usb].n = MaxLuns
        BY <1>6, MscAssumption DEF NextLun, At, ShapeInv, UsbJob, NoJob, Job0, Mounts, Unmounts, Luns
    <2>2. \/ End(Usb) \/ To(Usb, "wild")
          \/ job' = [job EXCEPT ![Usb].n = job[Usb].n + 1]
          \/ /\ job[Usb].n # MaxLuns
             /\ \E at \in {"mount", "unmount"} :
                  job' = [job EXCEPT ![Usb].s = ByLun(job[Usb].n), ![Usb].at = at]
        BY <1>6 DEF NextLun
    <2>3. job[Usb].op \in {"to_app", "to_usb"} /\ UNCHANGED events
        BY <1>6 DEF NextLun, At, ShapeInv, UsbJob, NoJob, Job0, Mounts, Unmounts
    <2>4. CASE job' = [job EXCEPT ![Usb].n = job[Usb].n + 1]
        <3>1. job'[Usb].s = job[Usb].s /\ job'[Usb].op = job[Usb].op
            BY <1>0, <2>4 DEF Job
        <3> QED BY <1>1, <1>3, <2>3, <3>1
    <2>5. ASSUME job[Usb].n # MaxLuns, NEW at \in {"mount", "unmount"},
                 job' = [job EXCEPT ![Usb].s = ByLun(job[Usb].n), ![Usb].at = at]
          PROVE  FreshInv'
        <3>1. job'[Usb].s = ByLun(job[Usb].n) /\ job'[Usb].op = job[Usb].op
            BY <1>0, <2>5 DEF Job
        <3> QED BY <1>2, <1>3, <2>1, <2>3, <2>5, <3>1
    <2> QED BY <1>3, <1>4, <1>5, <2>2, <2>3, <2>4, <2>5 DEF Places
<1>7. CASE ReadSector
    BY <1>3, <1>4, <1>7 DEF ReadSector
<1>8. CASE Accept
    <2>1. \A t \in Tasks : job'[t].s <= made
        BY <1>0, <1>1, <1>4, <1>8 DEF Accept, UsbFrame
    <2>2. job'[Usb].op = "deferred" => job'[Usb].n <= made
        BY <1>4, <1>8 DEF Accept
    <2>3. S(Usb) \in Storages /\ events = <<>>
        BY <1>0, <1>8, InUse DEF Accept, At, ShapeInv
    <2>4. events' = events \/ events' = <<S(Usb)>>
        BY <1>8, <2>3 DEF Accept
    <2>5. \A k \in DOMAIN events' : events'[k] <= made
        BY <1>1, <2>3, <2>4 DEF S, FreshInv
    <2> QED BY <2>1, <2>2, <2>5, FreshFrame
<1>9. CASE Deferred
    <2>1. events # <<>> /\ events \in Seq(Storages) /\ events' = Tail(events)
        BY <1>9 DEF Deferred, MscTypeOK
    <2>2. Head(events) <= made
        BY <2>1 DEF FreshInv
    <2>3. job'[Usb].s = Head(events) /\ job'[Usb].n = Head(events)
        BY <1>0, <1>9 DEF Deferred, Job0
    <2>4. \A t \in Tasks : job'[t].s <= made
        BY <1>0, <1>1, <2>2, <2>3 DEF UsbFrame
    <2>5. events' = <<>>
        BY <2>1 DEF MscTypeOK
    <2> QED BY <2>2, <2>3, <2>4, <2>5, FreshFrame
<1>10. CASE Find
    <2>1. S(Usb) \in Storages /\ UNCHANGED events
        BY <1>0, <1>10, InUse DEF Find, At
    <2>2. ByLun(obj[S(Usb)].buf.lun) <= made
        BY <1>2, <2>1 DEF MscTypeOK, Object
    <2>3. \/ To(Usb, "wild") \/ To(Usb, "done")
          \/ job' = [job EXCEPT ![Usb].at = "io", ![Usb].s = ByLun(obj[S(Usb)].buf.lun)]
        BY <1>10 DEF Find
    <2>4. CASE job' = [job EXCEPT ![Usb].at = "io", ![Usb].s = ByLun(obj[S(Usb)].buf.lun)]
        <3>1. /\ job'[Usb].s = ByLun(obj[S(Usb)].buf.lun)
              /\ job'[Usb].op = job[Usb].op /\ job'[Usb].n = job[Usb].n
            BY <1>0, <2>4 DEF Job
        <3> QED BY <1>1, <1>3, <2>1, <2>2, <3>1
    <2> QED BY <1>3, <1>5, <2>1, <2>3, <2>4 DEF Places
<1>11. CASE WriteSector
    <2>1. /\ job'[Usb].s = job[Usb].n /\ job'[Usb].n = job[Usb].n
          /\ job[Usb].op = "deferred" /\ UNCHANGED events
        BY <1>0, <1>11 DEF WriteSector, Job
    <2> QED BY <1>1, <1>3, <2>1
<1>12. CASE Done
    BY <1>3, <1>4, <1>5, <1>12 DEF Done, Places
<1>13. CASE Plugging
    <2>1. job'[Usb].s = 0 /\ job'[Usb].op # "deferred" /\ UNCHANGED events
        BY <1>0, <1>13 DEF Plugging, Commands, Job0
    <2> QED BY <1>0, <1>3, <2>1
<1>14. CASE HostCommand
    <2>1. UNCHANGED events
        BY <1>14 DEF HostCommand, Commands
    <2>2. PICK l \in Luns :
            \/ To(Usb, "wild")
            \/ \E op \in {"read", "write"} : \E at, n :
                  job' = [job EXCEPT ![Usb] = Job0(op, at, ByLun(l), n)]
        BY <1>14 DEF HostCommand
    <2>3. ASSUME NEW op \in {"read", "write"}, NEW at, NEW n,
                 job' = [job EXCEPT ![Usb] = Job0(op, at, ByLun(l), n)]
          PROVE  FreshInv'
        <3>1. job'[Usb].s = ByLun(l) /\ job'[Usb].op # "deferred"
            BY <1>0, <2>3 DEF Job0
        <3> QED BY <1>2, <1>3, <2>1, <3>1
    <2> QED BY <1>3, <1>5, <2>1, <2>2, <2>3 DEF Places
<1> QED BY <1>6, <1>7, <1>8, <1>9, <1>10, <1>11, <1>12, <1>13, <1>14

LEMMA AppFresh ==
    ASSUME MscTypeOK, ShapeInv, FreshInv, ~Dangling(App),
           \/ MapErr \/ Unmap \/ Free \/ (\E m \in Media : NewStorage(m)) \/ (LunsFrame /\ AppFrame)
    PROVE  FreshInv'
<1>0. /\ Usb \in Tasks /\ App \in Tasks /\ Tasks = {App, Usb} /\ App # Usb
      /\ job \in [Tasks -> Job] /\ made \in Nat
    BY MscAssumption DEF Tasks, App, Usb, MscTypeOK
<1>1. ASSUME made' \in {made, made + 1},
             \A s \in Storages : Live(s)' => Live(s) \/ s <= made',
             \A l \in Luns : lun'[l] <= made', UNCHANGED events,
             job'[App].s <= made', job'[Usb] = job[Usb]
      PROVE  FreshInv'
    <2>1. \A n \in Int : n <= made => n <= made'
        BY <1>0, <1>1
    <2>2. \A s \in Storages : Live(s)' => s <= made'
        BY <1>1, <2>1 DEF FreshInv, Storages
    <2>3. ASSUME NEW k \in DOMAIN events
          PROVE  events[k] <= made'
        <3>1. events \in Seq(Storages)
            BY DEF MscTypeOK
        <3>2. events[k] \in Storages
            BY <3>1
        <3>3. events[k] \in Int
            BY <3>2 DEF Storages
        <3> QED BY <2>1, <3>3 DEF FreshInv
    <2>4. job'[Usb].s <= made' /\ (job'[Usb].op = "deferred" => job'[Usb].n <= made')
        BY <1>0, <1>1, <2>1 DEF FreshInv, S, Job, Storages
    <2> QED BY <1>0, <1>1, <2>2, <2>3, <2>4 DEF FreshInv, S
<1>2. \A l \in Luns : lun[l] <= made
    BY DEF FreshInv
<1>3. ASSUME End(App)
      PROVE  job'[App].s <= made /\ job'[Usb] = job[Usb]
    BY <1>0, <1>3, EndFrame
<1>4. job[App].s <= made /\ \A s \in Storages : Live(s) => s <= made
    BY <1>0 DEF FreshInv, S
<1>5. CASE MapErr \/ Free
    <2>1. S(App) \in Storages
        BY <1>0, <1>5, InUse DEF MapErr, Free, At
    <2>2. Release(S(App)) /\ End(App) /\ UNCHANGED <<lun, events, made>>
        BY <1>5 DEF MapErr, Free, luns, used
    <2>3. \A s \in Storages : Live(s)' => Live(s)
        BY <2>1, <2>2 DEF Release, Live, NoObj, MscTypeOK
    <2> QED BY <1>1, <1>2, <1>3, <2>2, <2>3
<1>6. CASE Unmap
    <2>1. UNCHANGED <<obj, events, made>>
        BY <1>6 DEF Unmap, used
    <2>2. \A l \in Luns : lun'[l] <= made
        BY <1>0, <1>2, <1>6 DEF Unmap
    <2>3. job'[App].s <= made /\ job'[Usb] = job[Usb]
        <3>1. To(App, "free") \/ End(App)
            BY <1>6 DEF Unmap
        <3> QED BY <1>0, <1>3, <1>4, <3>1, ToFrame DEF Places
    <2> QED BY <1>1, <2>1, <2>2, <2>3 DEF Live
<1>7. CASE LunsFrame /\ AppFrame
    <2>1. \A s \in Storages : Live(s)' => Live(s)
        BY <1>7 DEF LunsFrame, Live
    <2>2. job'[App].s <= made
        BY <1>0, <1>4, <1>7, MscAssumption DEF AppFrame, NoJob, Job0, MscTypeOK
    <2> QED BY <1>1, <1>2, <1>7, <2>1, <2>2 DEF LunsFrame, AppFrame
<1>8. ASSUME NEW m \in Media, NewStorage(m)
      PROVE  FreshInv'
    <2>1. /\ made' = made + 1 /\ UNCHANGED events /\ job'[Usb] = job[Usb]
          /\ \A o \in Storages : Live(o)' => Live(o) \/ o <= made'
        BY <1>8, NewFrame DEF Storages
    <2>2. \A l \in Luns : lun'[l] <= made'
        <3>1. \A l \in Luns : lun'[l] = made + 1 \/ lun'[l] = lun[l]
            BY <1>8, NewFrame
        <3>2. \A l \in Luns : lun[l] <= made + 1
            BY <1>0, <1>2 DEF MscTypeOK, Storages
        <3> QED BY <1>0, <2>1, <3>1, <3>2
    <2>3. job'[App].s <= made'
        <3>1. job'[App] = NoJob \/ job'[App] = Job0("new", "mount", made + 1, 0)
            BY <1>8, NewFrame
        <3> QED BY <1>0, <2>1, <3>1 DEF NoJob, Job0
    <2> QED BY <1>1, <2>1, <2>2, <2>3
<1> QED BY <1>5, <1>6, <1>7, <1>8

LEMMA FreshKept ==
    ASSUME MscTypeOK, ShapeInv, FreshInv, Kinds, Running'
    PROVE  FreshInv'
BY WildStops, CallFrames, CallFresh, UsbFrames, UsbFresh, AppFrames, AppFresh DEF Kinds

LEMMA LiveKept ==
    ASSUME MscTypeOK, ShapeInv, FreshInv, LiveInv, Kinds, Running'
    PROVE  LiveInv'
<1>1. ASSUME LunsFrame, job'[App] = NoJob \/ job'[App].s = S(App), ~At(App, "idle")
      PROVE  LiveInv'
    <2>1. S(App) \in Storages /\ Live(S(App))
        BY <1>1 DEF LiveInv, ShapeInv, AppJob, NoJob, Job0, At, S
    <2> QED BY <1>1, <2>1 DEF LiveInv, LunsFrame, Live, At, S, NoJob, Job0
<1>2. ASSUME LunsFrame, At(App, "idle"),
             \/ job'[App] = job[App] \/ job'[App] = NoJob
             \/ job'[App].s \in Storages /\ Live(job'[App].s)
      PROVE  LiveInv'
    BY <1>2 DEF LiveInv, LunsFrame, Live, At, S, NoJob, Job0
<1>3. ASSUME NEW t \in Tasks, LunsFrame, CallFrame(t), ~At(t, "idle")
      PROVE  LiveInv'
    <2>1. CASE t = App
        BY <1>1, <1>3, <2>1 DEF CallFrame, S
    <2>2. CASE t = Usb
        <3>1. job'[App] = job[App]
            BY <1>3, <2>2, TwoTasks DEF CallFrame
        <3> QED BY <1>1, <1>2, <1>3, <3>1 DEF S
    <2> QED BY <2>1, <2>2, TwoTasks
<1>4. ASSUME NEW t \in Tasks, ~Dangling(t),
             Mount(t) \/ Unmount(t) \/ Register(t) \/ Mounting(t) \/ Unmounting(t) \/ Exit(t)
      PROVE  LiveInv'
    <2>1. ~At(t, "idle")
        BY <1>4 DEF Mount, Unmount, Register, Mounting, Unmounting, Exit, At
    <2> QED BY <1>3, <1>4, <2>1, CallFrames
<1>5. ASSUME LunsFrame, UsbFrame
      PROVE  LiveInv'
    BY <1>1, <1>2, <1>5 DEF UsbFrame, S
<1>6. ASSUME LunsFrame, AppFrame
      PROVE  LiveInv'
    BY <1>1, <1>2, <1>6 DEF AppFrame, S
<1>7. ASSUME MapErr \/ Free \/ (Unmap /\ End(App))
      PROVE  LiveInv'
    <2>1. End(App)
        BY <1>7 DEF MapErr, Free
    <2> QED BY <2>1, EndFrame, TwoTasks DEF LiveInv, At
<1>8. ASSUME Unmap, To(App, "free")
      PROVE  LiveInv'
    <2>1. job'[App].s = S(App) /\ UNCHANGED obj /\ ~At(App, "idle")
        BY <1>8, ToFrame, TwoTasks DEF Unmap, S, At, Places
    <2> QED BY <2>1 DEF LiveInv, Live, S
<1>9. ASSUME NEW m \in Media, NewStorage(m)
      PROVE  LiveInv'
    <2>1. job'[App] = NoJob \/ job'[App] = Job0("new", "mount", made + 1, 0)
        BY <1>9, NewFrame
    <2>2. PICK s \in Storages : s = made + 1 /\ Live(s)'
        BY <1>9, NewFrame
    <2>3. s = job'[App].s \/ job'[App].at = "idle"
        BY <2>1, <2>2 DEF NoJob, Job0
    <2> QED BY <2>2, <2>3 DEF LiveInv, Live, At, S
<1> QED BY <1>4, <1>5, <1>6, <1>7, <1>8, <1>9, WildStops, UsbFrames, AppFrames DEF Kinds, Unmap

-----------------------------------------------------------------------------
(* Who has a medium: OwnInv. *)

\* Where the application is in its call, from what its call is.
LEMMA AppCall ==
    ASSUME MscTypeOK, ShapeInv, LiveInv, ~At(App, "idle")
    PROVE  /\ S(App) \in Storages /\ Live(S(App)) /\ job[App].s = S(App)
           /\ job[App] \in Job /\ AppJob(job[App]) /\ job[App] # NoJob
<1>1. job[App] # NoJob /\ AppJob(job[App])
    BY DEF ShapeInv, At, NoJob, Job0
<1>2. S(App) \in Storages /\ job[App].s = S(App)
    BY <1>1 DEF AppJob, S
<1> QED BY <1>1, <1>2, TwoTasks DEF LiveInv, MscTypeOK

\* A step of a call leaves no path to a storage that is the host's then.
LEMMA CallGives ==
    ASSUME MscTypeOK, ShapeInv, MediumInv, NEW t \in Tasks, ~Dangling(t),
           Mount(t) \/ Unmount(t) \/ Register(t) \/ Mounting(t) \/ Unmounting(t) \/ Exit(t)
    PROVE  /\ S(t) \in Storages /\ Live(S(t)) /\ Medium(t) \in Media
           /\ (obj[S(t)].mount = Usb => ~vfs[Medium(t)]) /\ obj'[S(t)].mount = Usb =>
                 ~vfs'[Medium(t)]
<1>1. job[t].at \notin {"idle", "lun", "wild", "abort"}
    BY DEF Mount, Unmount, Register, Mounting, Unmounting, Exit, At
<1>2. S(t) \in Storages /\ Live(S(t))
    BY <1>1, InUse
<1>3. Medium(t) \in Media
    BY <1>2 DEF MediumInv, Medium
<1>4. ASSUME obj[S(t)].mount = Usb => ~vfs[Medium(t)], obj'[S(t)].mount = Usb
      PROVE  ~vfs'[Medium(t)]
    <2>1. CASE Mount(t) \/ Unmount(t) \/ Register(t)
        <3>1. UNCHANGED <<obj, vfs>>
            BY <2>1 DEF Mount, Unmount, Register, media
        <3> QED BY <1>4, <3>1
    <2>2. CASE Mounting(t)
        <3>1. PICK reached \in Reaches(t) : MountingTo(t, reached)
            BY <2>2 DEF Mounting
        <3>2. obj'[S(t)].mount = IF reached = "path" THEN obj[S(t)].mount ELSE App
            BY <1>2, <3>1 DEF MountingTo, MscTypeOK, Object
        <3>3. reached = "path" /\ obj[S(t)].mount = Usb
            BY <1>4, <3>2, TwoTasks
        <3>4. vfs'[Medium(t)] = vfs[Medium(t)]
            BY <1>3, <3>1, <3>3 DEF MountingTo, MscTypeOK
        <3> QED BY <1>4, <3>3, <3>4
    <2>3. CASE Unmounting(t)
        <3> DEFINE found == Of(Medium(t)) # {}
        <3>1. vfs'[Medium(t)] <=> vfs[Medium(t)] /\ ~found
            BY <1>3, <2>3 DEF Unmounting, MscTypeOK
        <3>2. CASE found
            BY <3>1, <3>2
        <3>3. CASE ~found
            <4>1. obj'[S(t)].mount = obj[S(t)].mount
                BY <1>2, <2>3, <3>3 DEF Unmounting, MscTypeOK, Object
            <4> QED BY <1>4, <3>1, <4>1
        <3> QED BY <3>2, <3>3
    <2>4. CASE Exit(t)
        <3>1. vfs'[Medium(t)] => vfs[Medium(t)]
            BY <1>3, <2>4 DEF Exit, Withdrawn, MscTypeOK
        <3>2. UNCHANGED obj
            BY <2>4 DEF Exit
        <3> QED BY <1>4, <3>1, <3>2
    <2> QED BY <2>1, <2>2, <2>3, <2>4
<1> QED BY <1>2, <1>3, <1>4

\* The storages a call is not about keep their mount points and paths.
LEMMA CallOthers ==
    ASSUME MscTypeOK, ShapeInv, MediumInv, NEW t \in Tasks, ~Dangling(t),
           Mount(t) \/ Unmount(t) \/ Register(t) \/ Mounting(t) \/ Unmounting(t) \/ Exit(t),
           NEW s \in Storages, Live(s), s # S(t)
    PROVE  /\ obj'[s].mount = obj[s].mount /\ obj[s].medium # Medium(t)
           /\ vfs'[obj[s].medium] = vfs[obj[s].medium]
<1>1. CallFrame(t) /\ S(t) \in Storages /\ Live(S(t))
    BY CallFrames, CallGives
<1>2. obj[s].medium # Medium(t) /\ obj[s].medium \in Media
    BY <1>1 DEF MediumInv, Medium
<1> QED BY <1>1, <1>2 DEF CallFrame

LEMMA CallOwns ==
    ASSUME MscTypeOK, ShapeInv, MediumInv, OwnInv, NEW t \in Tasks, ~Dangling(t),
           Mount(t) \/ Unmount(t) \/ Register(t) \/ Mounting(t) \/ Unmounting(t) \/ Exit(t)
    PROVE  OwnInv'
<1>1. LunsFrame /\ CallFrame(t)
    BY CallFrames
<1>2. byApp' = byApp
    BY <1>1 DEF CallFrame
<1>3. ASSUME NEW s \in Storages, Live(s)', s \notin byApp, obj'[s].mount = Usb
      PROVE  ~vfs'[obj'[s].medium]
    <2>1. Live(s) /\ obj'[s].medium = obj[s].medium
        BY <1>1, <1>3 DEF LunsFrame, Live
    <2>2. obj[s].mount = Usb => ~vfs[obj[s].medium]
        BY <1>3, <2>1 DEF OwnInv
    <2>3. CASE s = S(t)
        BY <1>3, <2>1, <2>2, <2>3, CallGives DEF Medium
    <2>4. CASE s # S(t)
        BY <1>3, <2>1, <2>2, <2>4, CallOthers
    <2> QED BY <2>3, <2>4
<1>4. job'[App].op \in {"set", "format"} => job'[App].s \in byApp
    <2>1. job'[App] = NoJob \/ (job'[App].op = job[App].op /\ job'[App].s = job[App].s)
        BY <1>1, TwoTasks DEF CallFrame
    <2> QED BY <2>1 DEF OwnInv, S, NoJob, Job0
<1> QED BY <1>2, <1>3, <1>4 DEF OwnInv, Live, S

\* What the application does to mount points and paths, in a step of its own.
LEMMA AppOwns ==
    ASSUME MscTypeOK, ShapeInv, FreshInv, MediumInv, LiveInv, OwnInv, ~Dangling(App),
           \/ MapErr \/ Unmap \/ Free \/ (\E m \in Media : NewStorage(m))
           \/ Overwrite \/ Formatting \/ InstallDriver \/ UninstallDriver
           \/ \E s \in Storages :
                DeleteStorage(s) \/ SetMountPoint(s) \/ ConfigStorageFatFs(s) \/ FormatStorage(s)
    PROVE  OwnInv'
<1>1. ASSUME \A s \in Storages : Live(s)' =>
                /\ Live(s) /\ obj'[s].medium = obj[s].medium
                /\ s \notin byApp' => /\ s \notin byApp /\ obj'[s].mount = obj[s].mount
                                     /\ vfs'[obj[s].medium] = vfs[obj[s].medium],
             job'[App].op \in {"set", "format"} => job'[App].s \in byApp'
      PROVE  OwnInv'
    BY <1>1 DEF OwnInv, Live, S
<1>2. ASSUME MapErr \/ Free
      PROVE  OwnInv'
    <2>1. S(App) \in Storages /\ Release(S(App)) /\ UNCHANGED vfs /\ End(App)
        BY <1>2, InUse, TwoTasks DEF MapErr, Free, At, media
    <2>2. job'[App].op = "none"
        BY <2>1, EndFrame, TwoTasks
    <2>3. \A s \in Storages : Live(s)' => Live(s) /\ obj'[s] = obj[s] /\ (s \in byApp => s \in byApp')
        BY <2>1, ReleaseFrame DEF Live
    <2> QED BY <1>1, <2>1, <2>2, <2>3
<1>3. CASE Unmap
    <2>1. UNCHANGED <<obj, vfs, byApp>> /\ ~At(App, "idle") /\ job[App].at = "unmap"
        BY <1>3 DEF Unmap, media, history, At
    <2>2. job[App].op = "delete"
        BY <2>1, AppCall DEF AppJob, Mounts, Unmounts
    <2>3. job'[App].op \in {"delete", "none"}
        <3>1. To(App, "free") \/ End(App)
            BY <1>3 DEF Unmap
        <3> QED BY <2>2, <3>1, EndFrame, ToFrame, TwoTasks DEF Places
    <2> QED BY <1>1, <2>1, <2>3 DEF Live
<1>4. ASSUME NEW m \in Media, NewStorage(m)
      PROVE  OwnInv'
    <2>1. UNCHANGED vfs
        BY <1>4, NewFrame DEF media
    <2>2. job'[App].op \notin {"set", "format"}
        <3>1. job'[App] = NoJob \/ job'[App] = Job0("new", "mount", made + 1, 0)
            BY <1>4, NewFrame
        <3> QED BY <3>1 DEF NoJob, Job0
    <2>3. ASSUME NEW s \in Storages, Live(s)', s \notin byApp', obj'[s].mount = Usb
          PROVE  ~vfs'[obj'[s].medium]
        <3>1. CASE s = made + 1
            BY <1>4, <2>1, <2>3, <3>1, NewFrame
        <3>2. CASE s # made + 1
            <4>1. Live(s) /\ obj'[s] = obj[s] /\ s \notin byApp
                BY <1>4, <2>3, <3>2, NewFrame
            <4> QED BY <2>1, <2>3, <4>1 DEF OwnInv
        <3> QED BY <3>1, <3>2
    <2> QED BY <2>2, <2>3 DEF OwnInv, Live, S
<1>5. CASE Overwrite
    <2>1. job[App].at = "overwrite" /\ ~At(App, "idle") /\ UNCHANGED <<vfs, byApp>> /\ End(App)
        BY <1>5 DEF Overwrite, At, media, history
    <2>2. S(App) \in Storages /\ S(App) \in byApp
        BY <2>1, AppCall DEF AppJob, Mounts, Unmounts, OwnInv
    <2>3. \A s \in Storages : /\ obj'[s].state = obj[s].state /\ obj'[s].medium = obj[s].medium
                              /\ s # S(App) => obj'[s].mount = obj[s].mount
        <3>1. PICK m : obj' = [obj EXCEPT ![S(App)].mount = m]
            BY <1>5 DEF Overwrite
        <3> QED BY <2>2, <3>1, MountFrame
    <2>4. job'[App].op = "none"
        BY <2>1, EndFrame, TwoTasks
    <2> QED BY <1>1, <2>1, <2>2, <2>3, <2>4 DEF Live
<1>6. CASE Formatting
    <2>1. job[App].at = "formatting" /\ ~At(App, "idle") /\ UNCHANGED <<obj, byApp>> /\ End(App)
        BY <1>6 DEF Formatting, At
    <2>2. S(App) \in Storages /\ S(App) \in byApp /\ Live(S(App))
        BY <2>1, AppCall DEF AppJob, Mounts, Unmounts, OwnInv
    <2>3. \A m \in Media : m # Medium(App) => vfs'[m] = vfs[m]
        BY <1>6 DEF Formatting, MscTypeOK
    <2>4. \A s \in Storages : Live(s) /\ s # S(App) => vfs'[obj[s].medium] = vfs[obj[s].medium]
        BY <2>2, <2>3 DEF MediumInv, Medium
    <2>5. job'[App].op = "none"
        BY <2>1, EndFrame, TwoTasks
    <2> QED BY <1>1, <2>1, <2>2, <2>4, <2>5 DEF Live
<1>7. CASE InstallDriver \/ UninstallDriver
    <2>1. UNCHANGED <<obj, vfs, byApp, job>>
        BY <1>7 DEF InstallDriver, UninstallDriver, media, history
    <2> QED BY <1>1, <2>1 DEF OwnInv, S, Live
<1>8. ASSUME NEW s \in Storages, DeleteStorage(s)
      PROVE  OwnInv'
    <2>1. PICK at : job' = [job EXCEPT ![App] = Job0("delete", at, s, 0)]
        BY <1>8 DEF DeleteStorage
    <2>2. job'[App].op = "delete" /\ UNCHANGED <<obj, vfs, byApp>>
        BY <1>8, <2>1, TwoTasks DEF DeleteStorage, media, history, Job0
    <2> QED BY <1>1, <2>2 DEF Live
<1>9. ASSUME NEW s \in Storages, SetMountPoint(s)
      PROVE  OwnInv'
    <2>1. PICK at, n : job' = [job EXCEPT ![App] = Job0("set", at, s, n)]
        BY <1>9 DEF SetMountPoint
    <2>2. job'[App].s = s /\ UNCHANGED <<obj, vfs>> /\ byApp' = byApp \cup {s}
        BY <1>9, <2>1, TwoTasks DEF SetMountPoint, media, Job0
    <2> QED BY <1>1, <2>2 DEF Live
<1>10. ASSUME NEW s \in Storages, FormatStorage(s)
       PROVE  OwnInv'
    <2>1. PICK d : job' = [job EXCEPT ![App] = [Job0("format", "register", s, 0) EXCEPT !.drive = d]]
        BY <1>10 DEF FormatStorage
    <2>2. job'[App].s = s /\ UNCHANGED <<obj, vfs>> /\ byApp' = byApp \cup {s}
        BY <1>10, <2>1, TwoTasks DEF FormatStorage, media, Job0
    <2> QED BY <1>1, <2>2 DEF Live
<1>11. ASSUME NEW s \in Storages, ConfigStorageFatFs(s)
       PROVE  OwnInv'
    <2>1. UNCHANGED <<vfs, byApp, job>>
        BY <1>11 DEF ConfigStorageFatFs, media, history
    <2>2. \A o \in Storages : /\ obj'[o].state = obj[o].state /\ obj'[o].medium = obj[o].medium
                              /\ obj'[o].mount = obj[o].mount
        BY <1>11 DEF ConfigStorageFatFs, MscTypeOK, Object
    <2> QED BY <1>1, <2>1, <2>2 DEF OwnInv, S, Live
<1> QED BY <1>2, <1>3, <1>4, <1>5, <1>6, <1>7, <1>8, <1>9, <1>10, <1>11

LEMMA OwnKept ==
    ASSUME MscTypeOK, ShapeInv, IdsInv, OwnInv, Kinds, Running'
    PROVE  OwnInv'
<1>1. ASSUME LunsFrame, UsbFrame
      PROVE  OwnInv'
    BY <1>1 DEF LunsFrame, UsbFrame, OwnInv, Live, S
<1> QED BY <1>1, WildStops, CallOwns, UsbFrames, AppOwns DEF Kinds, IdsInv

-----------------------------------------------------------------------------
(* As long as the application alone mounts: SoleInv. *)

LEMMA LowestOf ==
    ASSUME NEW m, NEW d, Lowest(d, Of(m))
    PROVE  d \in Drives /\ drives[d] = m
BY DEF Lowest, Of

\* A medium's numbers are its own: registering one takes a vacant one, and giving
\* numbers back takes none of another's.
LEMMA RegisteredOf ==
    ASSUME MscTypeOK, NEW d \in Drives, drives[d] = "free", NEW M \in Media,
           drives' = [drives EXCEPT ![d] = M]
    PROVE  /\ Of(M)' # {}
           /\ \A m \in Media : Of(m) # {} => Of(m)' # {}
<1>1. \A m \in Media : m # "free"
    BY MscAssumption DEF Media
<1> QED BY <1>1 DEF Of, MscTypeOK

LEMMA ReleasedOf ==
    ASSUME MscTypeOK, NEW M \in Media, drives' = Released(M), NEW m \in Media, m # M
    PROVE  Of(m)' = Of(m)
<1>1. m \notin {"free", "lost"}
    BY MscAssumption DEF Media
<1> QED BY <1>1 DEF Of, Released, Lowest, MscTypeOK

LEMMA PathFrame ==
    ASSUME MscTypeOK, LunsFrame,
           \A s \in Storages : Live(s) /\ obj'[s].mount = Usb => ~vfs'[obj[s].medium],
           \A m \in Media : vfs'[m] => Of(m)' # {} /\ Has(m)
    PROVE  PathInv'
<1>1. \A m : Has(m) => Has(m)'
    BY DEF Has, LunsFrame, Live
<1> QED BY <1>1 DEF PathInv, LunsFrame, Live

\* What holds of the application in a call depends on where it is.
LEMMA ToOwn ==
    ASSUME MscTypeOK, LunsFrame, S(App) \in Storages,
           NEW at \in Places, To(App, at),
           at \in {"register", "mounting", "formatting"} => FALSE,
           at = "exit" => obj'[S(App)].mount = Usb,
           at \in {"map_err", "unmap", "free"} => ~vfs'[Medium(App)],
           at = "overwrite" /\ job[App].n = 1 => ~vfs'[Medium(App)],
           job[App].op # "format"
    PROVE  AppOwn'
<1>1. /\ job'[App].s = job[App].s /\ job'[App].op = job[App].op /\ job'[App].n = job[App].n
      /\ job'[App].at = at
    BY ToFrame, TwoTasks
<1>2. Medium(App)' = Medium(App) /\ S(App)' = S(App)
    BY <1>1 DEF Medium, S, LunsFrame
<1> QED BY <1>1, <1>2 DEF AppOwn, AppAt, At

LEMMA EndOwn == ASSUME MscTypeOK, job'[App] = NoJob
                PROVE  AppOwn'
BY DEF AppOwn, AppAt, At, NoJob, Job0

LEMMA ReturnOwn ==
    ASSUME MscTypeOK, ShapeInv, LiveInv, LunsFrame, ~At(App, "idle"), Running',
           NEW ok \in BOOLEAN, Return(App, ok), job[App].op # "format",
           \/ ~vfs'[Medium(App)]
           \/ job[App].op = "new" /\ ok
           \/ job[App].op = "set" /\ job[App].n = 0
    PROVE  AppOwn'
<1>1. S(App) \in Storages /\ AppJob(job[App]) /\ job[App] # NoJob
    BY AppCall
<1>2. CASE job[App].op = "new"
    BY <1>1, <1>2, ToOwn, EndOwn, EndFrame, TwoTasks DEF Return, Places
<1>3. CASE job[App].op = "delete"
    <2>1. To(App, IF ok THEN "unmap" ELSE "abort")
        BY <1>3 DEF Return
    <2>2. CASE ~ok
        <3>1. job'[App].at = "abort"
            BY <2>1, <2>2, ToFrame, TwoTasks DEF Places
        <3> QED BY <3>1, TwoTasks DEF Running
    <2>3. CASE ok
        BY <1>1, <1>3, <2>1, <2>3, ToOwn DEF Places
    <2> QED BY <2>2, <2>3
<1>4. CASE job[App].op = "set"
    <2>1. To(App, "overwrite")
        BY <1>4 DEF Return
    <2> QED BY <1>1, <1>4, <2>1, ToOwn DEF Places
<1> QED BY <1>1, <1>2, <1>3, <1>4 DEF AppJob

\* The application's call.
LEMMA CallSole ==
    ASSUME MscTypeOK, ShapeInv, IdsInv, PathInv, AppOwn, ~Dangling(App), Running',
           \/ Mount(App) \/ Unmount(App) \/ Register(App) \/ Mounting(App)
           \/ Unmounting(App) \/ Exit(App)
    PROVE  PathInv' /\ AppOwn'
<1>0. ~At(App, "idle")
    BY DEF Mount, Unmount, Register, Mounting, Unmounting, Exit, At
<1>1. /\ S(App) \in Storages /\ Live(S(App)) /\ AppJob(job[App]) /\ job[App] # NoJob
      /\ job[App] \in Job
    BY <1>0, AppCall DEF IdsInv
<1>2. PICK M \in Media : Medium(App) = M /\ obj[S(App)].medium = M
    BY <1>1 DEF IdsInv, MediumInv, Medium
<1>3. LunsFrame /\ CallFrame(App)
    BY CallFrames, TwoTasks
<1>4. obj[S(App)].mount = Usb => ~vfs[M]
    BY <1>1, <1>2 DEF PathInv
<1>5. \A s \in Storages : Live(s) /\ obj'[s].mount = Usb => ~vfs'[obj[s].medium]
    <2>1. ASSUME NEW s \in Storages, Live(s), obj'[s].mount = Usb, s # S(App)
          PROVE  ~vfs'[obj[s].medium]
        <3>1. obj'[s].mount = obj[s].mount /\ vfs'[obj[s].medium] = vfs[obj[s].medium]
            BY <2>1, CallOthers, TwoTasks DEF IdsInv
        <3> QED BY <2>1, <3>1 DEF PathInv
    <2>2. obj'[S(App)].mount = Usb => ~vfs'[M]
        BY <1>2, <1>4, CallGives, TwoTasks DEF IdsInv
    <2> QED BY <1>2, <2>1, <2>2
<1>6. ASSUME \A m \in Media \ {M} : Of(m) # {} => Of(m)' # {},
             vfs'[M] => Of(M)' # {}
      PROVE  PathInv'
    <2>1. \A m \in Media \ {M} : vfs'[m] => Of(m)' # {} /\ Has(m)
        BY <1>2, <1>3, <1>6 DEF CallFrame, PathInv
    <2>2. Has(M)
        BY <1>1, <1>2 DEF Has
    <2>3. \A m \in Media : vfs'[m] => Of(m)' # {} /\ Has(m)
        BY <1>6, <2>1, <2>2
    <2> QED BY <1>3, <1>5, <2>3, PathFrame
<1>7. ASSUME UNCHANGED <<drives, vfs>>
      PROVE  PathInv'
    <2>1. \A m \in Media : Of(m)' = Of(m)
        BY <1>7 DEF Of
    <2> QED BY <1>2, <1>6, <1>7, <2>1 DEF PathInv
<1>8. ASSUME drives' = Released(M), ~vfs'[M]
      PROVE  PathInv'
    BY <1>2, <1>6, <1>8, ReleasedOf
<1>9. CASE Mount(App)
    <2>1. job[App].at = "mount" /\ UNCHANGED <<drives, vfs, obj>>
        BY <1>9 DEF Mount, At, media
    <2>2. job[App].op = "new" \/ (job[App].op = "set" /\ job[App].n = 0)
        BY <1>1, <2>1 DEF AppJob, Mounts, Unmounts
    <2>3. ASSUME Return(App, TRUE)
          PROVE  AppOwn'
        BY <1>2, <1>0, <1>3, <2>2, <2>3, ReturnOwn DEF IdsInv
    <2>4. ASSUME Return(App, FALSE), obj[S(App)].mount # App
          PROVE  AppOwn'
        <3>1. ~vfs'[M]
            BY <1>1, <1>4, <2>1, <2>4, TwoTasks DEF MscTypeOK, Object
        <3> QED BY <1>2, <1>0, <1>3, <2>2, <2>4, <3>1, ReturnOwn DEF IdsInv
    <2>5. ASSUME NEW d \in Drives, Lowest(d, Of("free")), obj[S(App)].mount # App,
                 job' = [job EXCEPT ![App].at = "register", ![App].drive = d]
          PROVE  AppOwn'
        <3>1. /\ job'[App].at = "register" /\ job'[App].drive = d /\ job'[App].op = job[App].op
              /\ job'[App].s = job[App].s
            BY <1>1, <2>5, TwoTasks DEF Job
        <3>2. drives'[d] = "free"
            BY <2>1, <2>5, LowestOf
        <3>3. obj'[S(App)'].mount = Usb
            BY <1>1, <2>1, <2>5, <3>1, TwoTasks DEF S, MscTypeOK, Object
        <3> QED BY <2>2, <3>1, <3>2, <3>3 DEF AppOwn, AppAt, At
    <2>6. AppOwn'
        BY <1>9, <2>3, <2>4, <2>5 DEF Mount
    <2> QED BY <1>7, <2>1, <2>6
<1>10. CASE Unmount(App)
    <2>1. job[App].at = "unmount" /\ UNCHANGED <<drives, vfs, obj>>
        BY <1>10 DEF Unmount, At, media
    <2>2. job[App].op \in {"delete", "set"}
        BY <1>1, <2>1 DEF AppJob, Mounts, Unmounts
    <2>3. CASE obj[S(App)].mount = Usb
        <3>1. Return(App, TRUE)
            BY <1>10, <2>3 DEF Unmount
        <3> QED BY <1>2, <1>0, <1>3, <1>4, <1>7, <2>1, <2>2, <2>3, <3>1, ReturnOwn DEF IdsInv
    <2>4. CASE obj[S(App)].mount # Usb
        <3>1. To(App, "unmounting")
            BY <1>10, <2>4 DEF Unmount
        <3>2. AppOwn'
            BY <1>1, <1>3, <2>2, <3>1, ToOwn DEF Places
        <3> QED BY <1>7, <2>1, <3>2
    <2> QED BY <2>3, <2>4
<1>11. CASE Register(App)
    <2>1. /\ job[App].at = "register" /\ UNCHANGED <<obj, vfs>> /\ job[App].drive \in Drives
          /\ drives[job[App].drive] = "free"
        BY <1>1, <1>11 DEF Register, At, AppOwn, Job
    <2>2. job[App].op # "format" => obj'[S(App)].mount = Usb
        BY <2>1 DEF AppOwn, AppAt
    <2>3. ASSUME drives' = [drives EXCEPT ![job[App].drive] = M],
                 NEW at \in {"formatting", "mounting"}, To(App, at),
                 at = "mounting" <=> job[App].op # "format"
          PROVE  PathInv' /\ AppOwn'
        <3>1. /\ \A m \in Media : Of(m) # {} => Of(m)' # {}
              /\ Of(M)' # {}
            BY <1>2, <2>1, <2>3, RegisteredOf
        <3>2. /\ job'[App].s = job[App].s /\ job'[App].op = job[App].op /\ job'[App].n = job[App].n
              /\ job'[App].at = at
            BY <2>3, ToFrame, TwoTasks DEF Places
        <3>3. Medium(App)' = Medium(App) /\ S(App)' = S(App)
            BY <2>1, <3>2 DEF Medium, S
        <3>4. Of(Medium(App))' # {}
            BY <1>2, <3>1, <3>3 DEF Of
        <3>5. job[App].op = "format" => obj'[S(App)].mount = App
            BY <2>1 DEF AppOwn
        <3>6. AppOwn'
            BY <2>2, <2>3, <3>2, <3>3, <3>4, <3>5 DEF AppOwn, AppAt, At
        <3> QED BY <1>6, <3>1, <3>6
    <2>4. ASSUME UNCHANGED drives, IF job[App].op = "format" THEN End(App) ELSE To(App, "exit")
          PROVE  PathInv' /\ AppOwn'
        <3>1. job[App].op = "format" => AppOwn'
            BY <2>4, EndOwn, EndFrame, TwoTasks
        <3>2. job[App].op # "format" => AppOwn'
            BY <1>1, <1>3, <2>2, <2>4, ToOwn DEF Places
        <3> QED BY <1>7, <2>1, <2>4, <3>1, <3>2
    <2> QED BY <1>2, <1>11, <2>3, <2>4 DEF Register
<1>12. CASE Mounting(App)
    <2>1. PICK reached \in Reaches(App) : MountingTo(App, reached)
        BY <1>12 DEF Mounting
    <2>2. job[App].at = "mounting" /\ UNCHANGED drives
        BY <1>12 DEF Mounting, At
    <2>3. job[App].op = "new" \/ (job[App].op = "set" /\ job[App].n = 0)
        BY <1>1, <2>2 DEF AppJob, Mounts, Unmounts
    <2>4. Of(M) # {} /\ obj[S(App)].mount = Usb
        BY <1>2, <2>2, <2>3 DEF AppOwn, AppAt
    <2>5. \A m \in Media : Of(m)' = Of(m)
        BY <2>2 DEF Of
    <2>6. PathInv'
        BY <1>2, <1>6, <2>4, <2>5
    <2>7. reached \in {"path", "failed", "done", "unformatted", "formatted"}
        BY <1>2, <1>4, <2>4 DEF Reaches
    <2>8. CASE reached \in {"done", "formatted"}
        <3>1. Return(App, TRUE)
            BY <2>1, <2>8 DEF MountingTo
        <3>2. AppOwn'
            BY <1>2, <1>0, <1>3, <2>3, <3>1, ReturnOwn DEF IdsInv
        <3> QED BY <2>6, <3>2
    <2>9. CASE reached \in {"unformatted", "failed"}
        <3>1. To(App, "exit_ok") \/ To(App, "exit_path")
            BY <2>1, <2>9 DEF MountingTo
        <3>2. AppOwn'
            BY <1>1, <1>3, <2>3, <3>1, ToOwn DEF Places
        <3> QED BY <2>6, <3>2
    <2>10. CASE reached = "path"
        <3>1. To(App, "exit")
            BY <2>1, <2>10 DEF MountingTo
        <3>2. obj'[S(App)].mount = Usb
            BY <1>1, <2>1, <2>4, <2>10 DEF MountingTo, MscTypeOK, Object
        <3>3. AppOwn'
            BY <1>1, <1>3, <2>3, <3>1, <3>2, ToOwn DEF Places
        <3> QED BY <2>6, <3>3
    <2> QED BY <2>7, <2>8, <2>9, <2>10
<1>13. CASE Unmounting(App)
    <2> DEFINE found == Of(M) # {}
               ok == found /\ vfs[M]
    <2>1. /\ job[App].at = "unmounting" /\ drives' = Released(M) /\ Return(App, ok)
          /\ vfs'[M] <=> vfs[M] /\ ~found
        BY <1>2, <1>13 DEF Unmounting, At, MscTypeOK
    <2>2. job[App].op \in {"delete", "set"}
        BY <1>1, <2>1 DEF AppJob, Mounts, Unmounts
    <2>3. ~vfs'[M]
        BY <1>2, <2>1 DEF PathInv
    <2>4. ok \in BOOLEAN
        BY <1>2 DEF MscTypeOK
    <2> HIDE DEF ok, found
    <2>5. AppOwn'
        BY <1>2, <1>0, <1>3, <2>1, <2>2, <2>3, <2>4, ReturnOwn DEF IdsInv
    <2> QED BY <1>8, <2>1, <2>3, <2>5
<1>14. CASE Exit(App)
    <2>1. /\ drives' = Released(M) /\ Return(App, At(App, "exit_ok"))
          /\ vfs'[M] <=> vfs[M] /\ At(App, "exit")
          /\ job[App].at \in {"exit", "exit_path", "exit_ok"}
        BY <1>2, <1>14 DEF Exit, Withdrawn, MscTypeOK
    <2>2. job[App].op \in {"new", "set"}
        BY <1>1, <2>1 DEF AppJob, Mounts, Unmounts
    <2>3. ~vfs'[M]
        BY <1>4, <2>1, <2>2 DEF At, AppAt, AppOwn
    <2>4. At(App, "exit_ok") \in BOOLEAN
        BY DEF At
    <2>5. AppOwn'
        BY <1>2, <1>0, <1>3, <2>1, <2>2, <2>3, <2>4, ReturnOwn DEF IdsInv
    <2> QED BY <1>8, <2>1, <2>3, <2>5
<1> QED BY <1>9, <1>10, <1>11, <1>12, <1>13, <1>14

\* The application's own steps.
LEMMA AppSole ==
    ASSUME MscTypeOK, ShapeInv, IdsInv, PathInv, AppOwn, ~Dangling(App),
           \/ MapErr \/ Unmap \/ Free \/ (\E m \in Media : NewStorage(m))
           \/ Overwrite \/ Formatting \/ InstallDriver \/ UninstallDriver
           \/ \E s \in Storages :
                DeleteStorage(s) \/ SetMountPoint(s) \/ ConfigStorageFatFs(s) \/ FormatStorage(s)
    PROVE  PathInv' /\ AppOwn'
<1>1. ASSUME UNCHANGED <<drives, vfs>>, LunsFrame,
             \A s \in Storages : Live(s) /\ obj'[s].mount = Usb =>
                obj[s].mount = Usb \/ ~vfs[obj[s].medium]
      PROVE  PathInv'
    <2>1. \A m \in Media : Of(m)' = Of(m)
        BY <1>1 DEF Of
    <2> QED BY <1>1, <2>1, PathFrame DEF PathInv
<1>2. ASSUME ~At(App, "idle")
      PROVE  /\ S(App) \in Storages /\ Live(S(App)) /\ AppJob(job[App]) /\ job[App] # NoJob
             /\ Medium(App) \in Media /\ Medium(App) = obj[S(App)].medium
    BY <1>2, AppCall DEF IdsInv, MediumInv, Medium
<1>3. ASSUME NEW s \in Storages, NEW op \in {"delete", "set"}, NEW at, NEW n,
             job' = [job EXCEPT ![App] = Job0(op, at, s, n)],
             at \in {"mount", "unmount"} \/ (at = "unmap" /\ ~vfs'[obj'[s].medium])
      PROVE  AppOwn'
    <2>1. job'[App].op = op /\ job'[App].at = at /\ job'[App].s = s
        BY <1>3, TwoTasks DEF Job0
    <2> QED BY <1>3, <2>1 DEF AppOwn, AppAt, At, Medium, S
<1>4. CASE MapErr \/ Free
    <2>1. /\ ~At(App, "idle") /\ ~vfs[Medium(App)] /\ Release(S(App)) /\ End(App)
          /\ UNCHANGED <<drives, vfs>>
        BY <1>4 DEF MapErr, Free, At, AppOwn, AppAt, media
    <2>2. \A s \in Storages : Live(s)' => Live(s) /\ obj'[s] = obj[s]
        BY <1>2, <2>1, ReleaseFrame DEF Live
    <2>3. \A s \in Storages : Live(s) /\ s # S(App) => Live(s)' /\ obj'[s] = obj[s]
        BY <1>2, <2>1, ReleaseFrame DEF Live
    <2>4. ASSUME NEW m \in Media, vfs'[m]
          PROVE  Of(m)' # {} /\ Has(m)'
        <3>1. Of(m) # {} /\ Has(m) /\ m # Medium(App)
            BY <2>1, <2>4 DEF PathInv
        <3>2. Of(m)' # {}
            BY <2>1, <3>1 DEF Of
        <3>3. PICK s \in Storages : Live(s) /\ obj[s].medium = m
            BY <3>1 DEF Has
        <3>4. Live(s)' /\ obj'[s].medium = m
            BY <1>2, <2>1, <2>3, <3>1, <3>3
        <3> QED BY <3>2, <3>4 DEF Has
    <2>5. \A s \in Storages : Live(s)' /\ obj'[s].mount = Usb => ~vfs'[obj'[s].medium]
        BY <2>1, <2>2 DEF PathInv
    <2>6. PathInv'
        BY <2>4, <2>5 DEF PathInv
    <2> QED BY <2>1, <2>6, EndFrame, EndOwn, TwoTasks
<1>5. CASE Unmap
    <2>1. ~At(App, "idle") /\ ~vfs[Medium(App)] /\ UNCHANGED <<obj, drives, vfs>>
        BY <1>5 DEF Unmap, At, AppOwn, AppAt, media
    <2>2. PathInv'
        BY <2>1 DEF PathInv, Of, Has, Live
    <2>3. CASE To(App, "free")
        <3>1. /\ job'[App].s = job[App].s /\ job'[App].op = job[App].op /\ job'[App].at = "free"
            BY <2>3, ToFrame, TwoTasks DEF Places
        <3>2. job[App].op = "delete"
            BY <1>2, <1>5, <2>1 DEF Unmap, At, AppJob, Mounts, Unmounts
        <3>3. AppOwn'
            BY <2>1, <3>1, <3>2 DEF AppOwn, AppAt, At, Medium, S
        <3> QED BY <2>2, <3>3
    <2>4. CASE End(App)
        BY <2>2, <2>4, EndFrame, EndOwn, TwoTasks
    <2> QED BY <1>5, <2>3, <2>4 DEF Unmap
<1>6. ASSUME NEW m \in Media, NewStorage(m)
      PROVE  PathInv' /\ AppOwn'
    <2>1. UNCHANGED <<drives, vfs>>
        BY <1>6, NewFrame DEF media, IdsInv
    <2>2. ~vfs[m]
        <3>1. ~Has(m)
            BY <1>6, NewFrame DEF Has, IdsInv
        <3> QED BY <3>1 DEF PathInv
    <2>3. \A s \in Storages : /\ s # made + 1 => obj'[s] = obj[s]
                              /\ Live(s)' <=> Live(s) \/ s = made + 1
                              /\ s = made + 1 => obj'[s].medium = m
        BY <1>6, NewFrame DEF IdsInv
    <2>4. \A s \in Storages : Live(s) => s # made + 1
        BY <1>6, NewFrame DEF IdsInv
    <2>5. \A s \in Storages : Live(s)' /\ obj'[s].mount = Usb => ~vfs'[obj'[s].medium]
        BY <2>1, <2>2, <2>3 DEF PathInv
    <2>6. \A n \in Media : vfs'[n] => Of(n)' # {} /\ Has(n)'
        BY <2>1, <2>3, <2>4 DEF PathInv, Of, Has
    <2>7. PathInv'
        BY <2>5, <2>6 DEF PathInv
    <2>8. job'[App] = NoJob \/ job'[App] = Job0("new", "mount", made + 1, 0)
        BY <1>6, NewFrame DEF IdsInv
    <2>9. AppOwn'
        BY <2>8 DEF AppOwn, AppAt, At, NoJob, Job0
    <2> QED BY <2>7, <2>9
<1>7. CASE Overwrite
    <2>1. /\ ~At(App, "idle") /\ job[App].at = "overwrite" /\ UNCHANGED <<drives, vfs>> /\ End(App)
          /\ obj' = [obj EXCEPT ![S(App)].mount = IF job[App].n = 1 THEN Usb ELSE App]
        BY <1>7 DEF Overwrite, At, media
    <2>2. obj'[S(App)].mount = Usb => ~vfs[Medium(App)]
        <3>1. obj'[S(App)].mount = IF job[App].n = 1 THEN Usb ELSE App
            BY <1>2, <2>1 DEF MscTypeOK, Object
        <3> QED BY <2>1, <3>1, TwoTasks DEF AppOwn, At
    <2>3. \A s \in Storages : s # S(App) => obj'[s].mount = obj[s].mount
        BY <1>2, <2>1, MountFrame
    <2>4. LunsFrame
        BY <1>7, AppFrames
    <2>5. PathInv'
        BY <1>1, <1>2, <2>1, <2>2, <2>3, <2>4
    <2> QED BY <2>1, <2>5, EndFrame, EndOwn, TwoTasks
<1>8. CASE Formatting
    <2>1. /\ ~At(App, "idle") /\ job[App].at = "formatting" /\ UNCHANGED <<drives, obj>> /\ End(App)
        BY <1>8 DEF Formatting, At
    <2>2. Of(Medium(App)) # {} /\ obj[S(App)].mount = App
        <3>1. job[App].op = "format"
            BY <1>2, <2>1 DEF AppJob, Mounts, Unmounts
        <3> QED BY <2>1, <3>1 DEF AppOwn, AppAt
    <2>3. \A m \in Media : m # Medium(App) => vfs'[m] = vfs[m]
        BY <1>8 DEF Formatting, MscTypeOK
    <2>4. LunsFrame
        BY <1>8, AppFrames
    <2>5. ASSUME NEW s \in Storages, Live(s), obj'[s].mount = Usb
          PROVE  ~vfs'[obj[s].medium]
        <3>1. s # S(App)
            BY <2>1, <2>2, <2>5, TwoTasks
        <3>2. obj[s].medium # Medium(App) /\ obj[s].medium \in Media
            BY <1>2, <2>1, <2>5, <3>1 DEF IdsInv, MediumInv
        <3> QED BY <2>1, <2>3, <2>5, <3>2 DEF PathInv
    <2>6. ASSUME NEW m \in Media, vfs'[m]
          PROVE  Of(m)' # {} /\ Has(m)
        <3>1. Of(m)' = Of(m)
            BY <2>1 DEF Of
        <3>2. CASE m = Medium(App)
            BY <1>2, <2>1, <2>2, <3>1, <3>2 DEF Has
        <3>3. CASE m # Medium(App)
            BY <2>3, <2>6, <3>1, <3>3 DEF PathInv
        <3> QED BY <3>2, <3>3
    <2>7. PathInv'
        BY <2>4, <2>5, <2>6, PathFrame
    <2> QED BY <2>1, <2>7, EndFrame, EndOwn, TwoTasks
<1>9. CASE InstallDriver \/ UninstallDriver
    <2>1. UNCHANGED <<obj, drives, vfs, job>>
        BY <1>9 DEF InstallDriver, UninstallDriver, media
    <2> QED BY <2>1 DEF PathInv, AppOwn, AppAt, At, Of, Has, Live, Medium, S
<1>10. ASSUME NEW s \in Storages, ConfigStorageFatFs(s)
       PROVE  PathInv' /\ AppOwn'
    <2>1. UNCHANGED <<drives, vfs, job>> /\ LunsFrame
        BY <1>10, AppFrames DEF ConfigStorageFatFs, media
    <2>2. \A o \in Storages : /\ obj'[o].medium = obj[o].medium /\ obj'[o].mount = obj[o].mount
        BY <1>10 DEF ConfigStorageFatFs, MscTypeOK, Object
    <2>3. PathInv'
        BY <1>1, <2>1, <2>2
    <2>4. job[App].at = "idle" /\ job[App].op # "format"
        <3>1. job[App].at = "idle"
            BY <1>10 DEF ConfigStorageFatFs, Calls, At
        <3> QED BY <3>1 DEF ShapeInv, AppJob, NoJob, Job0, Mounts, Unmounts
    <2>5. AppOwn'
        BY <2>1, <2>4 DEF AppOwn, AppAt, At
    <2> QED BY <2>3, <2>5
<1>11. ASSUME NEW s \in Storages, DeleteStorage(s)
       PROVE  PathInv' /\ AppOwn'
    <2>1. UNCHANGED <<drives, vfs, obj>> /\ LunsFrame /\ Live(s)
        BY <1>11, AppFrames DEF DeleteStorage, media
    <2>2. PathInv'
        BY <1>1, <2>1
    <2>3. obj[s].mount \in Tasks
        BY DEF MscTypeOK, Object
    <2>4. obj[s].mount # App => ~vfs[obj[s].medium]
        BY <2>1, <2>3 DEF PathInv, Tasks
    <2>5. CASE obj[s].mount = App
        BY <1>3, <1>11, <2>2, <2>5 DEF DeleteStorage
    <2>6. CASE obj[s].mount # App
        BY <1>3, <1>11, <2>1, <2>2, <2>4, <2>6 DEF DeleteStorage
    <2> QED BY <2>5, <2>6
<1>12. ASSUME NEW s \in Storages, SetMountPoint(s)
       PROVE  PathInv' /\ AppOwn'
    <2>1. UNCHANGED <<drives, vfs, obj>> /\ LunsFrame
        BY <1>12, AppFrames DEF SetMountPoint, media
    <2>2. PathInv'
        BY <1>1, <2>1
    <2>3. PICK at \in {"mount", "unmount"}, n \in Nat : job' = [job EXCEPT ![App] = Job0("set", at, s, n)]
        BY <1>12 DEF SetMountPoint
    <2> QED BY <1>3, <2>2, <2>3
<1>13. ASSUME NEW s \in Storages, FormatStorage(s)
       PROVE  PathInv' /\ AppOwn'
    <2>1. UNCHANGED <<drives, vfs, obj>> /\ LunsFrame /\ obj[s].mount = App
        BY <1>13, AppFrames DEF FormatStorage, media
    <2>2. PathInv'
        BY <1>1, <2>1
    <2>3. PICK d \in Drives : /\ Lowest(d, Of("free"))
              /\ job' = [job EXCEPT ![App] = [Job0("format", "register", s, 0) EXCEPT !.drive = d]]
        BY <1>13 DEF FormatStorage
    <2>4. /\ job'[App].op = "format" /\ job'[App].at = "register" /\ job'[App].s = s
          /\ job'[App].drive = d
        BY <2>3, TwoTasks DEF Job0
    <2>5. drives'[d] = "free"
        BY <2>1, <2>3, LowestOf
    <2>6. AppOwn'
        BY <2>1, <2>4, <2>5 DEF AppOwn, AppAt, At, S
    <2> QED BY <2>2, <2>6
<1> QED BY <1>4, <1>5, <1>6, <1>7, <1>8, <1>9, <1>10, <1>11, <1>12, <1>13

\* The TinyUSB task's steps, none of them of a call until it mounts.
LEMMA UsbSole ==
    ASSUME MscTypeOK, ShapeInv, PathInv, AppOwn, ~Dangling(Usb), ~byUsb',
           job[Usb].at \notin Mounts \cup Unmounts,
           NextLun \/ Accept \/ Deferred \/ Find \/ ReadSector \/ WriteSector
              \/ Done \/ Plugging \/ HostCommand
    PROVE  job'[Usb].at \notin Mounts \cup Unmounts /\ PathInv' /\ AppOwn'
<1>1. LunsFrame /\ UsbFrame
    BY UsbFrames
<1>2. PathInv'
    BY <1>1, PathFrame DEF PathInv, UsbFrame, Of
<1>3. AppOwn'
    <2>1. job'[App] = job[App] /\ UNCHANGED <<drives, vfs>>
        BY <1>1 DEF UsbFrame
    <2>2. CASE job[App] = NoJob
        BY <2>1, <2>2, EndOwn
    <2>3. CASE job[App] # NoJob
        <3>1. job[App].s \in Storages
            BY <2>3 DEF ShapeInv, AppJob
        <3>2. /\ obj'[job[App].s].medium = obj[job[App].s].medium
              /\ obj'[job[App].s].mount = obj[job[App].s].mount
            BY <1>1, <3>1 DEF UsbFrame, LunsFrame
        <3> QED BY <2>1, <3>2 DEF AppOwn, AppAt, At, Of, Medium, S
    <2> QED BY <2>2, <2>3
<1>4. job'[Usb].at \notin Mounts \cup Unmounts
    <2>1. ASSUME NEW at \in {"wild", "done", "abort"}, To(Usb, at)
          PROVE  <1>4!:
        BY <2>1, ToFrame, TwoTasks DEF Places, Mounts, Unmounts
    <2>2. ASSUME End(Usb)
          PROVE  <1>4!:
        BY <2>2, EndFrame, TwoTasks DEF Mounts, Unmounts
    <2>3. ASSUME NEW op, NEW at \in {"lun", "io", "accept", "find"}, NEW s, NEW n,
                 job' = [job EXCEPT ![Usb] = Job0(op, at, s, n)]
          PROVE  <1>4!:
        BY <2>3, TwoTasks DEF Job0, Mounts, Unmounts
    <2>4. CASE NextLun
        <3>1. \/ End(Usb) \/ To(Usb, "wild") \/ job' = [job EXCEPT ![Usb].n = job[Usb].n + 1]
            BY <2>4 DEF NextLun
        <3>2. job' = [job EXCEPT ![Usb].n = job[Usb].n + 1] => job'[Usb].at = job[Usb].at
            BY TwoTasks DEF Job
        <3> QED BY <2>1, <2>2, <3>1, <3>2
    <2>5. CASE Accept \/ ReadSector \/ Done
        BY <2>1, <2>2, <2>5 DEF Accept, ReadSector, Done
    <2>6. CASE Deferred \/ Plugging \/ HostCommand
        BY <2>1, <2>3, <2>6 DEF Deferred, Plugging, HostCommand
    <2>7. CASE Find
        <3>1. job' = [job EXCEPT ![Usb].at = "io", ![Usb].s = ByLun(obj[S(Usb)].buf.lun)] =>
                  job'[Usb].at = "io"
            BY TwoTasks DEF Job
        <3> QED BY <2>1, <2>7, <3>1 DEF Find, Mounts, Unmounts
    <2>8. CASE WriteSector
        <3>1. job'[Usb].at = "done"
            BY <2>8, TwoTasks DEF WriteSector, Job
        <3> QED BY <3>1 DEF Mounts, Unmounts
    <2> QED BY <2>4, <2>5, <2>6, <2>7, <2>8
<1> QED BY <1>2, <1>3, <1>4

LEMMA SoleKept ==
    ASSUME MscTypeOK, ShapeInv, IdsInv, SoleInv, Kinds, Running'
    PROVE  SoleInv'
<1> SUFFICES ASSUME ~byUsb'
             PROVE  job'[Usb].at \notin Mounts \cup Unmounts /\ PathInv' /\ AppOwn'
    BY DEF SoleInv
<1>1. ASSUME NEW t \in Tasks, ~Dangling(t),
             Mount(t) \/ Unmount(t) \/ Register(t) \/ Mounting(t) \/ Unmounting(t) \/ Exit(t)
      PROVE  job'[Usb].at \notin Mounts \cup Unmounts /\ PathInv' /\ AppOwn'
    <2>1. CallFrame(t)
        BY <1>1, CallFrames
    <2>2. /\ ~byUsb /\ job[Usb].at \notin Mounts \cup Unmounts /\ PathInv /\ AppOwn
        BY <2>1 DEF CallFrame, SoleInv
    <2>3. t = App
        BY <1>1, <2>2, TwoTasks DEF Mount, Unmount, Register, Mounting, Unmounting, Exit, At,
                                    Mounts, Unmounts
    <2>4. job'[Usb] = job[Usb]
        BY <2>1, <2>3, TwoTasks DEF CallFrame
    <2> QED BY <1>1, <2>2, <2>3, <2>4, CallSole
<1>2. ASSUME ~Dangling(Usb),
             NextLun \/ Accept \/ Deferred \/ Find \/ ReadSector \/ WriteSector
                \/ Done \/ Plugging \/ HostCommand
      PROVE  job'[Usb].at \notin Mounts \cup Unmounts /\ PathInv' /\ AppOwn'
    <2>1. ~byUsb
        BY <1>2 DEF NextLun, Accept, Deferred, Find, ReadSector, WriteSector, Done,
                    Plugging, HostCommand, Commands, history
    <2> QED BY <1>2, <2>1, UsbSole DEF SoleInv
<1>3. ASSUME ~Dangling(App),
             \/ MapErr \/ Unmap \/ Free \/ (\E m \in Media : NewStorage(m))
             \/ Overwrite \/ Formatting \/ InstallDriver \/ UninstallDriver
             \/ \E s \in Storages :
                  DeleteStorage(s) \/ SetMountPoint(s) \/ ConfigStorageFatFs(s) \/ FormatStorage(s)
      PROVE  job'[Usb].at \notin Mounts \cup Unmounts /\ PathInv' /\ AppOwn'
    <2>1. UNCHANGED byUsb /\ job'[Usb] = job[Usb]
        <3>1. ASSUME LunsFrame /\ AppFrame
              PROVE  UNCHANGED byUsb /\ job'[Usb] = job[Usb]
            BY <3>1 DEF AppFrame
        <3>2. CASE MapErr \/ Unmap \/ Free
            <4>1. End(App) \/ To(App, "free")
                BY <3>2 DEF MapErr, Unmap, Free
            <4> QED BY <3>2, <4>1, EndFrame, ToFrame, TwoTasks DEF MapErr, Unmap, Free, history, Places
        <3>3. ASSUME NEW m \in Media, NewStorage(m)
              PROVE  UNCHANGED byUsb /\ job'[Usb] = job[Usb]
            BY <3>3, NewFrame DEF IdsInv
        <3> QED BY <1>3, <3>1, <3>2, <3>3, AppFrames
    <2> QED BY <1>3, <2>1, AppSole DEF SoleInv
<1> QED BY <1>1, <1>2, <1>3, WildStops DEF Kinds

-----------------------------------------------------------------------------
(* Where an accepted write is: WriteInv. *)

\* A step that leaves a storage's buffer, its medium's blocks and its LUN.
LEMMA DueFrame ==
    ASSUME NEW s \in Storages, Due(s), obj'[s].deferred = obj[s].deferred,
           obj'[s].buf = obj[s].buf, obj'[s].medium = obj[s].medium,
           disk'[obj[s].medium] = disk[obj[s].medium], accepted'[s] = accepted[s],
           Pending(s)' <=> Pending(s), Finishing(s)' <=> Finishing(s),
           lun[obj[s].buf.lun] = s => lun'[obj[s].buf.lun] = s
    PROVE  Due(s)'
BY DEF Due

LEMMA SameUsb ==
    ASSUME UNCHANGED events, job'[Usb] = job[Usb]
    PROVE  \A s : (Pending(s)' <=> Pending(s)) /\ (Finishing(s)' <=> Finishing(s))
BY DEF Pending, Finishing, At, S, Range

\* Nothing that is not a write of the TinyUSB task's is pending or being finished.
LEMMA NoWrite ==
    ASSUME UNCHANGED events, job[Usb].op # "deferred", job'[Usb].op # "deferred"
    PROVE  \A s : (Pending(s)' <=> Pending(s)) /\ (Finishing(s)' <=> Finishing(s))
BY DEF Pending, Finishing, Range

\* A deferred write in the TinyUSB task is the only one.
LEMMA OneWrite ==
    ASSUME ShapeInv, job[Usb].at \in {"accept", "find", "io", "done"}
    PROVE  /\ events = <<>> /\ \A s : s \notin Range(events)
           /\ \A s : Pending(s) =>
                 job[Usb].op = "deferred" /\ job[Usb].n = s /\ job[Usb].at # "done"
BY DEF ShapeInv, Range, Pending, At

\* A step that touches no storage's write.
LEMMA WriteFrame ==
    ASSUME MscTypeOK, WriteInv,
           \A s \in Storages : Owed(s)' =>
               /\ Owed(s) /\ obj'[s].deferred = obj[s].deferred /\ obj'[s].buf = obj[s].buf
               /\ obj'[s].medium = obj[s].medium /\ accepted'[s] = accepted[s]
               /\ disk'[obj[s].medium] = disk[obj[s].medium],
           \A s \in Storages : s \in Range(lun)' =>
               s \in Range(lun) /\ \A l \in Luns : lun[l] = s => lun'[l] = s,
           \A s \in Storages : (Pending(s)' <=> Pending(s)) /\ (Finishing(s)' <=> Finishing(s)),
           job'[Usb] = job[Usb] \/ job'[Usb].op \notin {"write", "deferred"},
           job[Usb].op = "write" => job[Usb].s \in Storages /\ job[Usb].n \in Luns,
           job[Usb].op = "deferred" /\ job[Usb].at = "io" => job[Usb].n \in Storages
    PROVE  WriteInv'
<1>1. ASSUME NEW s \in Storages, Owed(s)'
      PROVE  Due(s)'
    <2>1. Due(s) /\ s \in Range(lun)' /\ obj[s].buf.lun \in Luns
        BY <1>1 DEF WriteInv, Owed, Mapped, MscTypeOK, Object
    <2> QED BY <1>1, <2>1, DueFrame
<1>2. ASSUME job'[Usb].op = "write", S(Usb)' \in Range(lun)'
      PROVE  lun'[job'[Usb].n] = S(Usb)'
    <2>1. job'[Usb] = job[Usb] /\ job[Usb].s \in Storages /\ job[Usb].n \in Luns
        BY <1>2
    <2> QED BY <1>2, <2>1 DEF WriteInv, S
<1>3. ASSUME At(Usb, "io")', job'[Usb].op = "deferred", Owed(job[Usb].n)'
      PROVE  S(Usb)' = job'[Usb].n
    <2>1. PICK n : n = job[Usb].n
        OBVIOUS
    <2>2. job'[Usb] = job[Usb] /\ n \in Storages /\ job[Usb].at = "io"
        BY <1>3, <2>1 DEF At
    <2>3. Owed(n)' /\ job'[Usb].n = n
        BY <1>3, <2>1, <2>2 DEF Owed, Mapped, Live
    <2>4. Owed(n)
        BY <2>2, <2>3
    <2> QED BY <1>3, <2>1, <2>2, <2>4 DEF WriteInv, S, At
<1> QED BY <1>1, <1>2, <1>3 DEF WriteInv

\* What the TinyUSB task's job is of.
LEMMA UsbOf ==
    ASSUME ShapeInv
    PROVE  /\ job[Usb].op = "write" => job[Usb].s \in Storages /\ job[Usb].n \in Luns
           /\ job[Usb].op = "deferred" => job[Usb].n \in Storages
BY DEF ShapeInv, UsbJob, NoJob, Job0

\* Formatting: a storage's own write that is still to be done comes after it, and
\* another storage's medium is spoilt.
LEMMA FormattedDue ==
    ASSUME MscTypeOK, MediumInv, WriteInv, NEW s \in Storages, Live(s), Formatted(s),
           drives[0] \in Media, LunsFrame,
           \A o \in Storages : obj'[o].deferred = obj[o].deferred /\ obj'[o].buf = obj[o].buf,
           \A o \in Storages : (Pending(o)' <=> Pending(o)) /\ (Finishing(o)' <=> Finishing(o)),
           NEW o \in Storages, Owed(o)'
    PROVE  Owed(o) /\ Due(o)'
<1> DEFINE m == drives[0]
<1>1. m \in Media /\ disk' = [disk EXCEPT ![m] = Blank]
    BY DEF Formatted
<1>2. /\ disk \in [Media -> Blocks] /\ accepted \in [Storages -> Blocks]
      /\ obj'[o].medium = obj[o].medium /\ (Live(o)' <=> Live(o)) /\ lun' = lun
    BY DEF MscTypeOK, LunsFrame, Live
<1>3. spoilt \subseteq spoilt'
    BY DEF Formatted
<1>4. Owed(o) /\ Due(o) /\ Live(o)
    BY <1>2, <1>3 DEF Owed, Mapped, WriteInv
<1>5. obj[o].medium \in Media
    BY <1>4 DEF MediumInv
<1>6. CASE obj[o].medium # m
    <2>1. disk'[obj[o].medium] = disk[obj[o].medium]
        BY <1>1, <1>2, <1>5, <1>6
    <2>2. accepted'[o] = accepted[o]
        <3>1. CASE o = s
            BY <1>6, <3>1 DEF Formatted
        <3>2. CASE o # s
            BY <1>2, <3>2 DEF Formatted
        <3> QED BY <3>1, <3>2
    <2> QED BY <1>2, <1>4, <2>1, <2>2, DueFrame
<1>7. CASE obj[o].medium = m
    <2>1. obj[s].medium = m
        <3>1. m \notin spoilt'
            BY <1>2, <1>7 DEF Owed
        <3> QED BY <3>1 DEF Formatted
    <2>2. o = s
        BY <1>4, <1>7, <2>1 DEF MediumInv
    <2>3. accepted'[o] = (IF Pending(o) THEN accepted[o] ELSE Blank) /\ disk'[m] = Blank
        BY <1>1, <1>2, <2>1, <2>2 DEF Formatted
    <2>4. CASE Pending(o)
        BY <1>2, <1>4, <2>3, <2>4 DEF Due
    <2>5. CASE ~Pending(o)
        BY <1>2, <1>4, <1>7, <2>3, <2>5 DEF Due
    <2> QED BY <2>4, <2>5
<1> QED BY <1>6, <1>7

\* The same of the whole invariant.
LEMMA FormattedWrites ==
    ASSUME MscTypeOK, ShapeInv, MediumInv, WriteInv, NEW s \in Storages, Live(s), Formatted(s),
           drives[0] \in Media, LunsFrame,
           \A o \in Storages : obj'[o].deferred = obj[o].deferred /\ obj'[o].buf = obj[o].buf,
           \A o \in Storages : (Pending(o)' <=> Pending(o)) /\ (Finishing(o)' <=> Finishing(o)),
           job'[Usb] = job[Usb] \/ job'[Usb].op \notin {"write", "deferred"}
    PROVE  WriteInv'
<1>1. \A o \in Storages : Owed(o)' => Owed(o) /\ Due(o)'
    BY FormattedDue
<1>2. lun' = lun
    BY DEF LunsFrame
<1>3. ASSUME job'[Usb].op = "write", S(Usb)' \in Range(lun)'
      PROVE  lun'[job'[Usb].n] = S(Usb)'
    BY <1>2, <1>3 DEF WriteInv, S, Range
<1>4. ASSUME At(Usb, "io")', job'[Usb].op = "deferred", Owed(job[Usb].n)'
      PROVE  S(Usb)' = job'[Usb].n
    <2>1. PICK n : n = job[Usb].n
        OBVIOUS
    <2>2. job'[Usb] = job[Usb] /\ n \in Storages /\ job[Usb].at = "io"
        BY <1>4, <2>1, UsbOf DEF At
    <2>3. Owed(n)'
        BY <1>4, <2>1, <2>2 DEF Owed, Mapped, Live
    <2>4. Owed(n)
        BY <1>1, <2>2, <2>3
    <2> QED BY <1>4, <2>1, <2>2, <2>4 DEF WriteInv, S, At
<1> QED BY <1>1, <1>3, <1>4 DEF WriteInv

LEMMA CallWrites ==
    ASSUME MscTypeOK, ShapeInv, MediumInv, WriteInv, NEW t \in Tasks, ~Dangling(t),
           Mount(t) \/ Unmount(t) \/ Register(t) \/ Mounting(t) \/ Unmounting(t) \/ Exit(t)
    PROVE  WriteInv'
<1>1. LunsFrame /\ CallFrame(t) /\ UNCHANGED events /\ lun' = lun
    BY CallFrames DEF LunsFrame, CallFrame
<1>2. S(t) \in Storages /\ Live(S(t))
    BY CallGives
<1>3. /\ job[t].at \in Mounts \cup Unmounts
      /\ job'[Usb] = job[Usb] \/ job'[Usb].op \notin {"write", "deferred"}
      /\ \A s : (Pending(s)' <=> Pending(s)) /\ (Finishing(s)' <=> Finishing(s))
    <2>1. job[t].at \in Mounts \cup Unmounts
        BY DEF Mount, Unmount, Register, Mounting, Unmounting, Exit, At, Mounts, Unmounts
    <2>2. CASE t = App
        BY <1>1, <2>1, <2>2, SameUsb, TwoTasks DEF CallFrame
    <2>3. CASE t = Usb
        <3>1. job[Usb].op \in {"to_app", "to_usb"}
            BY <2>1, <2>3 DEF ShapeInv, UsbJob, NoJob, Job0, Mounts, Unmounts
        <3>2. job'[Usb].op \in {"none", "to_app", "to_usb"}
            BY <1>1, <2>3, <3>1 DEF CallFrame, NoJob, Job0
        <3> QED BY <1>1, <2>1, <2>3, <3>1, <3>2, NoWrite
    <2> QED BY <2>2, <2>3, TwoTasks
<1>4. \A o \in Storages : obj'[o].deferred = obj[o].deferred /\ obj'[o].buf = obj[o].buf
    BY <1>1 DEF CallFrame
<1>5. CASE Formatted(S(t)) /\ drives[0] \in Media
    <2>1. PICK s \in Storages : s = S(t)
        BY <1>2
    <2>2. Live(s) /\ Formatted(s)
        BY <1>2, <1>5, <2>1
    <2> QED BY <1>1, <1>3, <1>4, <1>5, <2>2, FormattedWrites
<1>6. CASE UNCHANGED <<disk, accepted, spoilt>>
    <2>1. \A s \in Storages : Owed(s)' => Owed(s)
        BY <1>1, <1>6 DEF Owed, Mapped, Live, LunsFrame
    <2>2. \A s \in Storages : s \in Range(lun)' => s \in Range(lun)
        BY <1>1
    <2> QED BY <1>1, <1>3, <1>4, <1>6, <2>1, <2>2, UsbOf, WriteFrame DEF LunsFrame
<1>7. (Formatted(S(t)) /\ drives[0] \in Media) \/ UNCHANGED <<disk, accepted, spoilt>>
    <2>1. CASE Mounting(t)
        BY <2>1 DEF Mounting, MountingTo, Reaches, CanFormat
    <2>2. CASE ~Mounting(t)
        BY <2>2 DEF Mount, Unmount, Register, Unmounting, Exit, media, history
    <2> QED BY <2>1, <2>2
<1> QED BY <1>5, <1>6, <1>7

LEMMA AcceptWrites ==
    ASSUME MscTypeOK, ShapeInv, WriteInv, ~Dangling(Usb), Accept
    PROVE  WriteInv'
<1>1. PICK n, l : n = S(Usb) /\ l = job[Usb].n
    OBVIOUS
<1>2. /\ job[Usb].at = "accept" /\ job[Usb].op = "write" /\ n \in Storages /\ Live(n) /\ l \in Luns
    <2>1. job[Usb].at = "accept"
        BY DEF Accept, At
    <2>2. job[Usb].op = "write" /\ job[Usb].n \in Luns
        BY <2>1 DEF ShapeInv, UsbJob, NoJob, Job0, Mounts, Unmounts
    <2> QED BY <1>1, <2>1, <2>2, InUse, TwoTasks
<1>3. LunsFrame /\ lun' = lun
    BY UsbFrames DEF LunsFrame
<1>4. PICK d \in Data :
         /\ obj' = [obj EXCEPT ![n].buf = [lun |-> l, data |-> d], ![n].deferred = OneMore(@)]
         /\ accepted' = [accepted EXCEPT ![n] = d]
    BY <1>1 DEF Accept
<1>5. /\ obj'[n].buf = [lun |-> l, data |-> d] /\ obj'[n].deferred = obj[n].deferred + 1
      /\ \A s \in Storages : s # n => obj'[s] = obj[s] /\ accepted'[s] = accepted[s]
      /\ accepted'[n] = d /\ obj[n].deferred \in Nat
    BY <1>2, <1>4 DEF OneMore, MscTypeOK, Object
<1>6. job'[Usb].op = "none" /\ job'[Usb].at = "idle"
    BY TwoTasks, EndFrame DEF Accept
<1>7. \A s : Pending(s)' => s = n
    <2>1. events' = <<n>> \/ events' = <<>>
        BY <1>1, <1>2, OneWrite DEF Accept
    <2>2. \A s : s \in Range(events)' => s = n
        BY <2>1 DEF Range
    <2> QED BY <1>6, <2>2 DEF Pending
<1>8. \A s : ~Pending(s) /\ ~Finishing(s) /\ ~Finishing(s)'
    BY <1>2, <1>6, OneWrite DEF Finishing
<1>9. UNCHANGED <<disk, spoilt>>
    BY DEF Accept, media
<1>10. \A s \in Storages : Owed(s)' => Owed(s)
    BY <1>3, <1>9 DEF Owed, Mapped, Live, LunsFrame
<1>11. ASSUME NEW s \in Storages, Owed(s)'
       PROVE  Due(s)'
    <2>1. Owed(s) /\ Due(s)
        BY <1>10, <1>11 DEF WriteInv
    <2>2. CASE s = n
        <3>1. lun[l] = n
            BY <1>1, <1>2, <2>1, <2>2 DEF WriteInv, Owed, Mapped
        <3>2. Pending(s)' => /\ obj'[s].deferred > 0 /\ obj'[s].buf.data = accepted'[s]
                             /\ lun'[obj'[s].buf.lun] = s
            BY <1>3, <1>5, <2>2, <3>1
        <3>3. obj'[s].deferred # 0 /\ ~Finishing(s)'
            BY <1>5, <1>8, <2>2
        <3> QED BY <3>2, <3>3 DEF Due
    <2>3. CASE s # n
        <3>1. (Pending(s)' <=> Pending(s)) /\ (Finishing(s)' <=> Finishing(s))
            BY <1>7, <1>8, <2>3
        <3> QED BY <1>3, <1>5, <1>9, <2>1, <2>3, <3>1, DueFrame
    <2> QED BY <2>2, <2>3
<1> QED BY <1>6, <1>11 DEF WriteInv, At

LEMMA DeferredWrites ==
    ASSUME MscTypeOK, ShapeInv, WriteInv, Deferred
    PROVE  WriteInv'
<1>1. job[Usb].at = "idle" /\ job[Usb].op = "none"
    BY DEF Deferred, At, ShapeInv, UsbJob, NoJob, Job0, Mounts, Unmounts
<1>2. /\ LunsFrame /\ UNCHANGED <<obj, disk, accepted, spoilt>>
      /\ events \in Seq(Storages) /\ Len(events) = 1 /\ events' = Tail(events)
    <2>1. events \in Seq(Storages) /\ Len(events) <= 1 /\ events # <<>>
        BY DEF Deferred, MscTypeOK
    <2>2. Len(events) = 1
        <3> DEFINE k == Len(events)
        <3>1. k \in Nat \ {0} /\ k <= 1
            BY <2>1, EmptySeq
        <3> HIDE DEF k
        <3>2. k = 1
            BY <3>1
        <3> QED BY <3>2 DEF k
    <2>3. ~Dangling(Usb)
        BY <1>1 DEF Dangling
    <2> QED BY <2>1, <2>2, <2>3, UsbFrames DEF Deferred, media, history
<1>3. \A s : s \in Range(events) <=> s = Head(events)
    BY <1>2 DEF Range
<1>4. \A s : s \notin Range(events)'
    <2>1. events' = <<>>
        BY <1>2
    <2> QED BY <2>1 DEF Range
<1>5. job'[Usb].op = "deferred" /\ job'[Usb].at = "find" /\ job'[Usb].n = Head(events)
    BY TwoTasks DEF Deferred, Job0
<1>6. \A s : (Pending(s)' <=> Pending(s)) /\ (Finishing(s)' <=> Finishing(s))
    BY <1>1, <1>3, <1>4, <1>5 DEF Pending, Finishing, At
<1>7. lun' = lun
    BY <1>2 DEF LunsFrame
<1>8. \A s \in Storages : Owed(s)' => Due(s)'
    <2>1. \A s \in Storages : Owed(s)' => Owed(s)
        BY <1>2, <1>7 DEF Owed, Mapped, Live
    <2> QED BY <1>2, <1>6, <1>7, <2>1, DueFrame DEF WriteInv
<1> QED BY <1>5, <1>8 DEF WriteInv, At

LEMMA FindWrites ==
    ASSUME MscTypeOK, ShapeInv, WriteInv, ~Dangling(Usb), Find, Running'
    PROVE  WriteInv'
<1>1. PICK n : n = S(Usb)
    OBVIOUS
<1>2. PICK found : found = lun[obj[n].buf.lun]
    OBVIOUS
<1>3. job[Usb].at = "find" /\ job[Usb].op = "deferred" /\ job[Usb].n = n /\ n \in Storages /\ Live(n)
    <2>1. job[Usb].at = "find"
        BY DEF Find, At
    <2>2. job[Usb].op = "deferred" /\ job[Usb].n = job[Usb].s
        BY <2>1 DEF ShapeInv, UsbJob, NoJob, Job0, Mounts, Unmounts
    <2> QED BY <1>1, <2>1, <2>2, InUse, TwoTasks DEF S
<1>4. lun' = lun /\ UNCHANGED <<obj, disk, accepted, events, spoilt>>
    BY DEF Find, luns, media, history
<1>5. \A s : s \notin Range(events) /\ s \notin Range(events)'
    BY <1>3, <1>4, OneWrite DEF Range
<1>6. Pending(n) /\ \A s : ~Finishing(s)
    BY <1>3 DEF Pending, At, Finishing
<1>7. \A s \in Storages : Owed(s)' => Owed(s)
    BY <1>4 DEF Owed, Mapped, Live
<1>8. Owed(n) => found = n /\ n # 0
    BY <1>2, <1>3, <1>6 DEF WriteInv, Due, Storages
<1>9. \/ /\ found = 0 /\ job'[Usb].at = "done"
         /\ job'[Usb].s = n /\ job'[Usb].n = n /\ job'[Usb].op = "deferred"
      \/ /\ found # 0 /\ job'[Usb].at = "io"
         /\ job'[Usb].s = found /\ job'[Usb].n = n /\ job'[Usb].op = "deferred"
    <2>1. CASE To(Usb, "wild")
        BY <2>1, TwoTasks, ToFrame DEF Places, Running
    <2>2. CASE found = 0 /\ To(Usb, "done")
        BY <1>1, <1>3, <2>2, TwoTasks, ToFrame DEF Places, S
    <2>3. CASE found # 0 /\ job' = [job EXCEPT ![Usb].at = "io", ![Usb].s = found]
        BY <1>3, <2>3, TwoTasks DEF Job
    <2> QED BY <1>1, <1>2, <2>1, <2>2, <2>3 DEF Find, ByLun
<1>10. ASSUME NEW s \in Storages, Owed(s)'
       PROVE  Due(s)'
    <2>1. Owed(s) /\ Due(s)
        BY <1>7, <1>10 DEF WriteInv
    <2>2. CASE s = n
        <3>1. job'[Usb].at = "io"
            BY <1>8, <1>9, <2>1, <2>2
        <3>2. Pending(s)' /\ ~Finishing(s)'
            BY <1>9, <2>2, <3>1 DEF Pending, At, Finishing
        <3> QED BY <1>4, <1>6, <2>1, <2>2, <3>2, DueFrame
    <2>3. CASE s # n
        <3>1. ~Pending(s) /\ ~Pending(s)' /\ ~Finishing(s)'
            BY <1>3, <1>5, <1>9, <2>3 DEF Pending, Finishing, At, S
        <3> QED BY <1>4, <1>6, <2>1, <3>1, DueFrame
    <2> QED BY <2>2, <2>3
<1>11. ASSUME At(Usb, "io")', Owed(job[Usb].n)'
       PROVE  S(Usb)' = job'[Usb].n
    <2>1. Owed(n)'
        BY <1>9, <1>11 DEF Owed, Mapped, Live
    <2> QED BY <1>3, <1>7, <1>8, <1>9, <1>11, <2>1 DEF S, At
<1> QED BY <1>9, <1>10, <1>11 DEF WriteInv

LEMMA WriteSectorWrites ==
    ASSUME MscTypeOK, ShapeInv, MediumInv, WriteInv, ~Dangling(Usb), WriteSector
    PROVE  WriteInv'
<1>1. PICK n, s : n = job[Usb].n /\ s = S(Usb)
    OBVIOUS
<1>2. PICK M : M = obj[s].medium
    OBVIOUS
<1>3. /\ job[Usb].at = "io" /\ job[Usb].op = "deferred" /\ n \in Storages /\ s \in Storages
      /\ Live(s) /\ M \in Media
    <2>1. job[Usb].at = "io" /\ job[Usb].op = "deferred"
        BY DEF WriteSector, At
    <2>2. S(Usb) \in Storages /\ Live(S(Usb))
        BY <2>1, InUse, TwoTasks
    <2> QED BY <1>1, <1>2, <2>1, <2>2, UsbOf DEF MediumInv
<1>4. /\ lun' = lun /\ UNCHANGED <<obj, accepted, events>>
      /\ disk' = [disk EXCEPT ![M] = obj[n].buf.data]
      /\ spoilt' = IF s = n THEN spoilt ELSE spoilt \cup {M}
    BY <1>1, <1>2 DEF WriteSector, Written, Medium, luns
<1>5. job'[Usb].at = "done" /\ job'[Usb].s = n /\ job'[Usb].n = n /\ job'[Usb].op = "deferred"
    BY <1>1, <1>3, TwoTasks DEF WriteSector, Job
<1>6. \A o : /\ o \notin Range(events) /\ o \notin Range(events)'
             /\ Pending(o) <=> o = n
             /\ ~Pending(o)' /\ ~Finishing(o) /\ (Finishing(o)' <=> o = n)
    <2>1. \A o : o \notin Range(events) /\ o \notin Range(events)'
        BY <1>3, <1>4, OneWrite DEF Range
    <2> QED BY <1>1, <1>3, <1>5, <2>1 DEF Pending, Finishing, At, S
<1>7. ASSUME NEW o \in Storages, Owed(o)'
      PROVE  Due(o)'
    <2>1. Owed(o) /\ Due(o) /\ Live(o)
        BY <1>4, <1>7 DEF WriteInv, Owed, Mapped, Live
    <2>2. CASE o = n
        <3>1. s = n
            BY <1>1, <1>3, <2>1, <2>2 DEF WriteInv, At
        <3>2. disk'[M] = obj[n].buf.data
            BY <1>3, <1>4 DEF MscTypeOK
        <3>3. obj[n].buf.data = accepted[n]
            BY <1>6, <2>1, <2>2 DEF Due
        <3> QED BY <1>2, <1>4, <1>6, <2>2, <3>1, <3>2, <3>3 DEF Due
    <2>3. CASE o # n
        <3>1. obj[o].medium # M
            <4>1. CASE s = n
                BY <1>2, <1>3, <2>1, <2>3, <4>1 DEF MediumInv
            <4>2. CASE s # n
                BY <1>4, <1>7, <4>2 DEF Owed
            <4> QED BY <4>1, <4>2
        <3>2. disk'[obj[o].medium] = disk[obj[o].medium]
            BY <1>4, <2>1, <3>1 DEF MediumInv, MscTypeOK
        <3> QED BY <1>4, <1>6, <2>1, <2>3, <3>2, DueFrame
    <2> QED BY <2>2, <2>3
<1> QED BY <1>5, <1>7 DEF WriteInv, At

LEMMA DoneWrites ==
    ASSUME MscTypeOK, ShapeInv, WriteInv, ~Dangling(Usb), Done, Running'
    PROVE  WriteInv'
<1>1. PICK n : n = S(Usb)
    OBVIOUS
<1>2. job[Usb].at = "done" /\ job[Usb].op = "deferred" /\ n \in Storages /\ Live(n)
    <2>1. job[Usb].at = "done"
        BY DEF Done, At
    <2>2. job[Usb].op = "deferred"
        BY <2>1 DEF ShapeInv, UsbJob, NoJob, Job0, Mounts, Unmounts
    <2> QED BY <1>1, <2>1, <2>2, InUse, TwoTasks
<1>3. LunsFrame /\ lun' = lun /\ UNCHANGED <<disk, accepted, events, spoilt>>
    BY UsbFrames DEF LunsFrame, Done, media, history
<1>4. \A s : s \notin Range(events) /\ s \notin Range(events)'
    BY <1>2, <1>3, OneWrite DEF Range
<1>5. /\ job'[Usb].op = "none" /\ job'[Usb].at = "idle"
      /\ \A s \in Storages : s # n => obj'[s] = obj[s]
    <2>1. CASE To(Usb, "abort")
        BY <2>1, TwoTasks, ToFrame DEF Places, Running
    <2>2. ASSUME End(Usb), NEW left, NEW b,
                 obj' = [obj EXCEPT ![n].deferred = left, ![n].buf = b]
          PROVE  <1>5!:
        BY <1>2, <2>2, TwoTasks, EndFrame, BufferFrame
    <2> QED BY <1>1, <2>1, <2>2 DEF Done
<1>6. \A s : /\ ~Pending(s) /\ ~Pending(s)' /\ ~Finishing(s)' /\ (Finishing(s) <=> s = n)
    BY <1>1, <1>2, <1>4, <1>5 DEF Pending, Finishing, At
<1>7. ASSUME NEW s \in Storages, Owed(s)'
      PROVE  Due(s)'
    <2>1. Owed(s) /\ Due(s) /\ obj'[s].medium = obj[s].medium
        BY <1>3, <1>7 DEF Owed, Mapped, Live, LunsFrame, WriteInv
    <2>2. CASE s = n
        BY <1>3, <1>6, <2>1, <2>2 DEF Due
    <2>3. CASE s # n
        BY <1>3, <1>5, <1>6, <2>1, <2>3, DueFrame
    <2> QED BY <2>2, <2>3
<1> QED BY <1>5, <1>7 DEF WriteInv, At

LEMMA UsbWrites ==
    ASSUME MscTypeOK, ShapeInv, MediumInv, WriteInv, ~Dangling(Usb), Running',
           NextLun \/ Accept \/ Deferred \/ Find \/ ReadSector \/ WriteSector
              \/ Done \/ Plugging \/ HostCommand
    PROVE  WriteInv'
<1>1. ASSUME UNCHANGED <<lun, obj, disk, accepted, events, spoilt>>, job[Usb].op # "deferred",
             job'[Usb].op # "deferred",
             job'[Usb].op = "write" /\ S(Usb)' \in Range(lun)' => lun'[job'[Usb].n] = S(Usb)'
      PROVE  WriteInv'
    <2>1. ASSUME NEW s \in Storages, Owed(s)'
          PROVE  Due(s)'
        <3>1. Owed(s) /\ Due(s)
            BY <1>1, <2>1 DEF Owed, Mapped, Live, WriteInv
        <3> QED BY <1>1, <3>1, NoWrite, DueFrame
    <2> QED BY <1>1, <2>1 DEF WriteInv
<1>2. CASE NextLun
    <2>1. /\ job[Usb].op \in {"to_app", "to_usb"}
          /\ UNCHANGED <<lun, obj, disk, accepted, events, spoilt>>
        BY <1>2 DEF NextLun, At, ShapeInv, UsbJob, NoJob, Job0, Mounts, Unmounts, luns, media
    <2>2. \/ End(Usb) \/ To(Usb, "wild")
          \/ job' = [job EXCEPT ![Usb].n = job[Usb].n + 1]
          \/ \E at \in {"mount", "unmount"} :
                  job' = [job EXCEPT ![Usb].s = ByLun(job[Usb].n), ![Usb].at = at]
        BY <1>2 DEF NextLun
    <2>3. job'[Usb].op \in {"none", "to_app", "to_usb"}
        <3>1. End(Usb) => job'[Usb].op = "none"
            BY TwoTasks, EndFrame
        <3>2. To(Usb, "wild") => job'[Usb].op = job[Usb].op
            BY TwoTasks, ToFrame DEF Places
        <3>3. ASSUME \/ job' = [job EXCEPT ![Usb].n = job[Usb].n + 1]
                     \/ \E at \in {"mount", "unmount"} :
                            job' = [job EXCEPT ![Usb].s = ByLun(job[Usb].n), ![Usb].at = at]
              PROVE  job'[Usb].op = job[Usb].op
            BY <3>3, TwoTasks DEF Job
        <3> QED BY <2>1, <2>2, <3>1, <3>2, <3>3
    <2> QED BY <1>1, <2>1, <2>3
<1>3. CASE ReadSector
    <2>1. /\ job[Usb].op = "read" /\ End(Usb)
          /\ UNCHANGED <<lun, obj, disk, accepted, events, spoilt>>
        BY <1>3 DEF ReadSector, luns, media, history
    <2> QED BY <1>1, <2>1, TwoTasks, EndFrame
<1>4. CASE Plugging
    <2>1. job[Usb].op = "none" /\ UNCHANGED <<lun, obj, disk, accepted, events, spoilt>>
        BY <1>4 DEF Plugging, Commands, At, ShapeInv, UsbJob, NoJob, Job0, luns, media, history,
                    Mounts, Unmounts
    <2>2. job'[Usb].op \in {"to_app", "to_usb"}
        BY <1>4, TwoTasks DEF Plugging, Job0
    <2> QED BY <1>1, <2>1, <2>2
<1>5. CASE HostCommand
    <2>1. job[Usb].op = "none" /\ UNCHANGED <<lun, obj, disk, accepted, events, spoilt>>
        BY <1>5 DEF HostCommand, Commands, At, ShapeInv, UsbJob, NoJob, Job0, luns, media, history,
                    Mounts, Unmounts
    <2>2. PICK l \in Luns :
            \/ To(Usb, "wild")
            \/ job' = [job EXCEPT ![Usb] = Job0("read", "io", ByLun(l), 0)]
            \/ job' = [job EXCEPT ![Usb] = Job0("write", "accept", ByLun(l), l)]
        BY <1>5 DEF HostCommand
    <2>3. \/ job'[Usb].op \in {"none", "read"}
          \/ job'[Usb].op = "write" /\ job'[Usb].n = l /\ job'[Usb].s = lun[l]
        <3>1. To(Usb, "wild") => job'[Usb].op = "none"
            BY <2>1, TwoTasks, ToFrame DEF Places
        <3> QED BY <2>2, <3>1, TwoTasks DEF ByLun, Job0
    <2> QED BY <1>1, <2>1, <2>3 DEF S
<1> QED BY <1>2, <1>3, <1>4, <1>5, AcceptWrites, DeferredWrites, FindWrites,
           WriteSectorWrites, DoneWrites

LEMMA NewWrites ==
    ASSUME MscTypeOK, ShapeInv, FreshInv, LunInv, WriteInv, NEW m \in Media, NewStorage(m)
    PROVE  WriteInv'
<1>1. PICK n \in Storages : n = made + 1 /\ n # 0
    BY NewFrame
<1>2. /\ lunCount \in Luns /\ job'[Usb] = job[Usb] /\ ~Live(n)
      /\ UNCHANGED <<disk, events, spoilt>>
      /\ \A l \in Luns : /\ lun[l] # n
                         /\ lun'[l] = IF l = lunCount THEN n ELSE lun[l]
      /\ \A o \in Storages :
            /\ o # n => obj'[o] = obj[o] /\ accepted'[o] = accepted[o]
            /\ o = n => obj'[o].medium = m /\ obj'[o].deferred = 0 /\ accepted'[o] = disk[m]
    BY <1>1, NewFrame DEF media
<1>3. Range(lun) = {lun[k] : k \in Luns} /\ Range(lun)' = {lun'[k] : k \in Luns}
    <2>1. lun' \in [Luns -> Storages \cup {0}]
        <3>1. lun' = [lun EXCEPT ![lunCount] = made + 1]
            BY DEF NewStorage, MapToLun
        <3> QED BY <1>1, <3>1 DEF MscTypeOK
    <2> QED BY <2>1 DEF Range, MscTypeOK
<1>4. ASSUME NEW s \in Storages, s # n, s \in Range(lun)'
      PROVE  s \in Range(lun) /\ \A l \in Luns : lun[l] = s => lun'[l] = s
    <2>1. PICK k \in Luns : lun'[k] = s
        BY <1>3, <1>4
    <2>2. lun[k] = s /\ k # lunCount /\ s # 0
        BY <1>2, <1>4, <2>1 DEF Storages
    <2>3. \A l \in Luns : lun[l] = s => l = k
        BY <2>2 DEF LunInv
    <2> QED BY <1>2, <1>3, <2>2, <2>3
<1>5. ~Pending(n) /\ ~Finishing(n) /\ job[Usb].s # n /\ job[Usb].n \in Nat
      /\ (job[Usb].op = "deferred" => job[Usb].n # n)
    <2>1. \A i \in Int : i <= made => i # n
        BY <1>1, TwoTasks
    <2>2. job[Usb].s <= made /\ (job[Usb].op = "deferred" => job[Usb].n <= made)
        BY TwoTasks DEF FreshInv, S
    <2>3. job[Usb].s \in Int /\ job[Usb].n \in Nat
        BY TwoTasks DEF Job, Storages
    <2>4. n \notin Range(events)
        <3>1. ASSUME NEW k \in DOMAIN events, events[k] = n
              PROVE  FALSE
            <4>1. events[k] <= made
                BY DEF FreshInv
            <4> QED BY <2>1, <3>1, <4>1 DEF Storages
        <3> QED BY <3>1 DEF Range
    <2> QED BY <2>1, <2>2, <2>3, <2>4 DEF Pending, Finishing, S
<1>6. \A s : (Pending(s)' <=> Pending(s)) /\ (Finishing(s)' <=> Finishing(s))
    BY <1>2, SameUsb
<1>7. ASSUME NEW s \in Storages, Owed(s)'
      PROVE  Due(s)' /\ (s # n => Owed(s))
    <2>1. CASE s = n
        BY <1>2, <1>5, <1>6, <2>1 DEF Due
    <2>2. CASE s # n
        <3>1. obj'[s] = obj[s] /\ accepted'[s] = accepted[s] /\ s \in Range(lun)'
            BY <1>2, <1>7, <2>2 DEF Owed, Mapped
        <3>2. s \in Range(lun) /\ \A l \in Luns : lun[l] = s => lun'[l] = s
            BY <1>4, <2>2, <3>1
        <3>3. Owed(s) /\ Due(s)
            BY <1>2, <1>7, <3>1, <3>2 DEF Owed, Mapped, Live, WriteInv
        <3>4. obj[s].buf.lun \in Luns
            BY DEF MscTypeOK, Object
        <3> QED BY <1>2, <1>6, <2>2, <3>1, <3>2, <3>3, <3>4, DueFrame
    <2> QED BY <2>1, <2>2
<1>8. ASSUME job'[Usb].op = "write", S(Usb)' \in Range(lun)'
      PROVE  lun'[job'[Usb].n] = S(Usb)'
    <2>1. PICK s, l : s = job[Usb].s /\ l = job[Usb].n
        OBVIOUS
    <2>2. s \in Storages /\ l \in Luns /\ s # n /\ s \in Range(lun)'
        BY <1>2, <1>5, <1>8, <2>1, UsbOf DEF S
    <2>3. s \in Range(lun) /\ (lun[l] = s => lun'[l] = s)
        BY <1>4, <2>2
    <2> QED BY <1>2, <1>8, <2>1, <2>3 DEF WriteInv, S
<1>9. ASSUME At(Usb, "io")', job'[Usb].op = "deferred", Owed(job[Usb].n)'
      PROVE  S(Usb)' = job'[Usb].n
    <2>1. PICK o : o = job[Usb].n
        OBVIOUS
    <2>2. o \in Storages /\ o # n /\ job[Usb].op = "deferred" /\ job[Usb].at = "io"
        BY <1>2, <1>5, <1>9, <2>1, UsbOf DEF At
    <2>3. Owed(o)'
        BY <1>2, <1>9, <2>1 DEF Owed, Mapped, Live
    <2>4. Owed(o)
        BY <1>7, <2>2, <2>3
    <2> QED BY <1>2, <2>1, <2>2, <2>4 DEF WriteInv, S, At
<1> QED BY <1>7, <1>8, <1>9 DEF WriteInv

LEMMA AppWrites ==
    ASSUME MscTypeOK, ShapeInv, FreshInv, MediumInv, LunInv, WriteInv, ~Dangling(App),
           \/ MapErr \/ Unmap \/ Free \/ (\E m \in Media : NewStorage(m))
           \/ Overwrite \/ Formatting \/ InstallDriver \/ UninstallDriver
           \/ \E s \in Storages :
                DeleteStorage(s) \/ SetMountPoint(s) \/ ConfigStorageFatFs(s) \/ FormatStorage(s)
    PROVE  WriteInv'
<1>1. ASSUME UNCHANGED <<lun, disk, accepted, spoilt>>, LunsFrame, AppFrame
      PROVE  WriteInv'
    <2>1. \A s \in Storages : Owed(s)' => Owed(s)
        BY <1>1 DEF Owed, Mapped, Live, LunsFrame
    <2>2. \A s \in Storages : s \in Range(lun)' => s \in Range(lun)
        BY <1>1
    <2> QED BY <1>1, <2>1, <2>2, SameUsb, UsbOf, WriteFrame DEF LunsFrame, AppFrame
<1>2. CASE MapErr \/ Free
    <2>1. S(App) \in Storages /\ Live(S(App)) /\ Release(S(App)) /\ End(App)
        BY <1>2, TwoTasks, InUse DEF MapErr, Free, At
    <2>2. UNCHANGED <<lun, disk, events>> /\ job'[Usb] = job[Usb]
        BY <1>2, <2>1, TwoTasks, EndFrame DEF MapErr, Free, luns, media
    <2>3. ASSUME NEW s \in Storages, Owed(s)'
          PROVE  s # S(App) /\ Owed(s) /\ obj'[s] = obj[s] /\ accepted'[s] = accepted[s]
        <3>1. s # S(App)
            BY <2>1, <2>3, ReleaseFrame DEF Owed, Mapped
        <3>2. obj'[s] = obj[s] /\ accepted'[s] = accepted[s] /\ Live(s)
            BY <2>1, <2>3, <3>1, ReleaseFrame DEF Owed, Mapped, Live
        <3>3. obj[s].medium # obj[S(App)].medium
            BY <2>1, <3>1, <3>2 DEF MediumInv
        <3>4. spoilt' = spoilt \ {obj[S(App)].medium}
            BY <2>1 DEF Release
        <3>5. Owed(s)
            BY <2>2, <2>3, <3>2, <3>3, <3>4 DEF Owed, Mapped
        <3> QED BY <3>1, <3>2, <3>5
    <2>4. \A s \in Storages : s \in Range(lun)' => s \in Range(lun)
        BY <2>2
    <2> QED BY <2>2, <2>3, <2>4, SameUsb, UsbOf, WriteFrame
<1>3. CASE Unmap
    <2>1. /\ S(App) \in Storages /\ S(App) # 0
          /\ UNCHANGED <<obj, disk, accepted, events, spoilt>>
          /\ lun' = [l \in Luns |-> IF lun[l] = S(App) THEN 0 ELSE lun[l]]
          /\ job'[Usb] = job[Usb]
        <3>1. To(App, "free") \/ End(App)
            BY <1>3 DEF Unmap
        <3>2. job'[Usb] = job[Usb]
            BY <3>1, TwoTasks, ToFrame, EndFrame DEF Places
        <3> QED BY <1>3, <3>2, TwoTasks, InUse DEF Unmap, At, media, history, Storages
    <2>2. ASSUME NEW s \in Storages, s \in Range(lun)'
          PROVE  s \in Range(lun) /\ \A l \in Luns : lun[l] = s => lun'[l] = s
        <3>1. PICK k \in Luns : lun'[k] = s
            BY <2>1, <2>2 DEF Range
        <3>2. s # 0
            BY DEF Storages
        <3>3. lun[k] = s /\ s # S(App)
            BY <2>1, <3>1, <3>2
        <3>4. s \in Range(lun)
            BY <3>3 DEF Range, MscTypeOK
        <3> QED BY <2>1, <3>3, <3>4
    <2>3. \A s \in Storages : Owed(s)' => Owed(s)
        BY <2>1, <2>2 DEF Owed, Mapped, Live
    <2> QED BY <2>1, <2>2, <2>3, SameUsb, UsbOf, WriteFrame
<1>4. CASE \/ Overwrite \/ InstallDriver \/ UninstallDriver
           \/ \E s \in Storages : \/ DeleteStorage(s) \/ SetMountPoint(s)
                                  \/ ConfigStorageFatFs(s) \/ FormatStorage(s)
    <2>1. UNCHANGED <<lun, disk, accepted, spoilt>>
        BY <1>4 DEF Overwrite, InstallDriver, UninstallDriver, DeleteStorage, SetMountPoint,
                    ConfigStorageFatFs, FormatStorage, luns, media, history
    <2> QED BY <1>1, <1>4, <2>1, AppFrames
<1>5. CASE Formatting
    <2>1. LunsFrame /\ AppFrame
        BY <1>5, AppFrames
    <2>2. PICK s \in Storages : s = S(App) /\ Live(s)
        BY <1>5, TwoTasks, InUse DEF Formatting, At
    <2>3. CASE UNCHANGED <<disk, accepted, spoilt>>
        BY <1>1, <2>1, <2>3 DEF LunsFrame
    <2>4. CASE CanFormat(App) /\ Formatted(s)
        <3>1. drives[0] \in Media
            BY <2>4 DEF CanFormat
        <3>2. \A o : (Pending(o)' <=> Pending(o)) /\ (Finishing(o)' <=> Finishing(o))
            BY <2>1, SameUsb DEF AppFrame
        <3> QED BY <2>1, <2>2, <2>4, <3>1, <3>2, FormattedWrites DEF AppFrame
    <2> QED BY <1>5, <2>2, <2>3, <2>4 DEF Formatting
<1> QED BY <1>2, <1>3, <1>4, <1>5, NewWrites

LEMMA WriteKept ==
    ASSUME MscTypeOK, ShapeInv, IdsInv, WriteInv, Kinds, Running'
    PROVE  WriteInv'
BY WildStops, CallWrites, UsbWrites, AppWrites DEF Kinds, IdsInv

-----------------------------------------------------------------------------
(* The theorems. *)

Steady == ShapeInv /\ IdsInv /\ OwnInv /\ SoleInv /\ WriteInv
MscInv == MscTypeOK /\ (Running => Steady)

LEMMA MscStarts == Init => MscInv
<1> SUFFICES ASSUME Init PROVE MscInv
    OBVIOUS
<1>1. /\ job = [t \in Tasks |-> NoJob] /\ events = <<>> /\ lun = [l \in Luns |-> 0]
      /\ made = 0 /\ driver = "none" /\ lunCount = 0 /\ vfs = [m \in Media |-> FALSE]
    BY DEF Init
<1>2. \A s \in Storages : ~Live(s) /\ s # 0 /\ s \notin Range(lun)
    BY <1>1 DEF Init, Live, NoObj, Range, Storages
<1>3. job[App] = NoJob /\ job[Usb] = NoJob
    BY <1>1, TwoTasks
<1>4. Taken = {}
    BY <1>1 DEF Taken
<1>5. MscTypeOK
    <2>1. NoObj \in Object
        BY NullBuffer DEF NoObj, Object, Tasks
    <2>2. obj \in [Storages -> Object] /\ job \in [Tasks -> Job]
        BY <2>1, NoneTyped DEF Init
    <2>3. LunsCounted
        BY <1>1, <1>4, FS_EmptySet DEF LunsCounted
    <2>4. /\ lock \in [Storages -> Tasks \cup {"free"}] /\ fs \in [Media -> BOOLEAN]
          /\ drives \in [Drives -> Media \cup {"free", "lost"}] /\ vfs \in [Media -> BOOLEAN]
          /\ disk \in [Media -> Blocks] /\ accepted \in [Storages -> Blocks]
        BY DEF Init, Blocks
    <2>5. /\ lun \in [Luns -> Storages \cup {0}] /\ events \in Seq(Storages) /\ Len(events) <= 1
          /\ made \in 0 .. MaxStorages /\ calls \in 0 .. MaxCalls /\ lunCount \in 0 .. MaxLuns
        BY MscAssumption DEF Init
    <2> QED BY <1>1, <2>2, <2>3, <2>4, <2>5 DEF Init, MscTypeOK
<1>6. ShapeInv /\ FreshInv /\ LiveInv
    BY <1>1, <1>2, <1>3, MscAssumption
       DEF ShapeInv, AppJob, UsbJob, FreshInv, LiveInv, NoJob, Job0, S, At, Tasks
<1>7. MediumInv /\ LunInv
    BY <1>1, <1>2 DEF MediumInv, LunInv
<1>8. OwnInv /\ SoleInv
    <2>1. PathInv
        BY <1>1, <1>2 DEF PathInv
    <2>2. AppOwn
        BY <1>3 DEF AppOwn, AppAt, At, NoJob, Job0
    <2> QED BY <1>2, <1>3, <2>1, <2>2 DEF OwnInv, SoleInv, NoJob, Job0, Mounts, Unmounts
<1>9. WriteInv
    BY <1>2, <1>3 DEF WriteInv, Owed, Mapped, At, NoJob, Job0
<1> QED BY <1>5, <1>6, <1>7, <1>8, <1>9 DEF MscInv, Steady, IdsInv

LEMMA ShapeStays ==
    ASSUME MscTypeOK, ShapeInv, Kinds, Running'
    PROVE  ShapeInv'
BY WildStops, CallShape, UsbShape, AppShape DEF Kinds

LEMMA MscStep == MscInv /\ [Next]_vars => MscInv'
<1> SUFFICES ASSUME MscInv, [Next]_vars PROVE MscInv'
    OBVIOUS
<1>1. CASE Next
    <2>1. Kinds /\ MscTypeOK /\ Steady
        BY <1>1, StepKinds DEF MscInv
    <2>2. MscTypeOK'
        BY <2>1, TypeKept DEF Steady, IdsInv
    <2>3. ASSUME Running'
          PROVE  Steady'
        <3>1. ShapeInv'
            BY <2>1, <2>3, ShapeStays DEF Steady
        <3>2. FreshInv' /\ MediumInv' /\ LunInv' /\ LiveInv'
            BY <2>1, <2>3, FreshKept, LunsKept, LiveKept DEF Steady, IdsInv
        <3>3. OwnInv' /\ SoleInv'
            BY <2>1, <2>3, OwnKept, SoleKept DEF Steady
        <3>4. WriteInv'
            BY <2>1, <2>3, WriteKept DEF Steady
        <3> QED BY <3>1, <3>2, <3>3, <3>4 DEF Steady, IdsInv
    <2> QED BY <2>2, <2>3 DEF MscInv
<1>2. CASE UNCHANGED vars
    <2>1. /\ driver' = driver /\ lun' = lun /\ lunCount' = lunCount /\ obj' = obj /\ lock' = lock
          /\ drives' = drives /\ vfs' = vfs /\ fs' = fs /\ disk' = disk /\ events' = events
          /\ job' = job /\ accepted' = accepted /\ spoilt' = spoilt /\ byApp' = byApp
          /\ byUsb' = byUsb /\ made' = made /\ calls' = calls
        BY <1>2 DEF vars, luns, media, history, used
    <2>2. MscTypeOK'
        BY <2>1 DEF MscInv, MscTypeOK, LunsCounted, Taken
    <2>3. Running' => Running
        BY <2>1 DEF Running
    <2>4. ShapeInv /\ FreshInv /\ LiveInv => ShapeInv' /\ FreshInv' /\ LiveInv'
        BY <2>1 DEF ShapeInv, FreshInv, LiveInv, AppJob, UsbJob, At, S, Live
    <2>5. MediumInv /\ LunInv => MediumInv' /\ LunInv'
        BY <2>1 DEF MediumInv, LunInv, Live
    <2>6. OwnInv /\ SoleInv => OwnInv' /\ SoleInv'
        BY <2>1 DEF OwnInv, SoleInv, PathInv, AppOwn, AppAt, Has, Of, Live, At, S, Medium
    <2>7. WriteInv => WriteInv'
        BY <2>1 DEF WriteInv, Due, Owed, Mapped, Finishing, Pending, Live, At, S
    <2> QED BY <2>2, <2>3, <2>4, <2>5, <2>6, <2>7 DEF MscInv, Steady, IdsInv
<1> QED BY <1>1, <1>2

LEMMA MscHolds == Spec => []MscInv
BY MscStarts, MscStep, PTL DEF Spec

\* Every variable keeps its type, also in the state that stops the behaviour, and
\* lun_count (tinyusb_msc.c) never exceeds the LUNs there are nor falls below those
\* that are somebody's.
THEOREM MscTypes == Spec => []MscTypeOK
<1>1. MscInv => MscTypeOK
    BY DEF MscInv
<1> QED BY <1>1, MscHolds, PTL

\* While the host is told that a storage is ready, the application has no path to
\* it, whatever failed and however the two tasks interleave (msc_storage_mount and
\* msc_storage_unmount), unless the TinyUSB task mounts by itself and the application
\* has set this storage's mount point, formatted it, or created it over a path in use.
THEOREM HostsMediumIsItsOwn == Spec => []HostOwnsAlone
<1>1. ASSUME MscInv, Running, NEW l \in Luns, Ready(l), Live(ByLun(l)),
             ~(byUsb /\ ByLun(l) \in byApp)
      PROVE  ~vfs[obj[ByLun(l)].medium]
    <2>1. ByLun(l) \in Storages /\ obj[ByLun(l)].mount = Usb
        BY <1>1 DEF Ready, ByLun, MscInv, MscTypeOK
    <2>2. OwnInv /\ SoleInv
        BY <1>1 DEF MscInv, Steady
    <2>3. CASE byUsb
        BY <1>1, <2>1, <2>2, <2>3 DEF OwnInv
    <2>4. CASE ~byUsb
        BY <1>1, <2>1, <2>2, <2>4 DEF SoleInv, PathInv
    <2> QED BY <2>3, <2>4
<1>2. MscInv => HostOwnsAlone
    BY <1>1 DEF HostOwnsAlone
<1> QED BY <1>2, MscHolds, PTL

\* What the host was told is taken is on the medium as soon as the storage counts no
\* deferred write (tusb_write_func and storage_delete's check of deferred_writes),
\* unless another storage has written or formatted that medium.
THEOREM AcceptedReachesMedium == Spec => []AcceptedIsWritten
<1>1. ASSUME MscInv, Running, NEW s \in Storages, Mapped(s), obj[s].deferred = 0,
             obj[s].medium \notin spoilt
      PROVE  disk[obj[s].medium] = accepted[s]
    <2>1. Due(s) /\ obj[s].deferred = 0
        BY <1>1 DEF MscInv, Steady, WriteInv, Owed
    <2>2. ~Pending(s)
        BY <2>1 DEF Due
    <2> QED BY <2>1, <2>2 DEF Due
<1>2. MscInv => AcceptedIsWritten
    BY <1>1 DEF AcceptedIsWritten
<1> QED BY <1>2, MscHolds, PTL
=============================================================================
