----------------------------- MODULE NodeMount ------------------------------
(***************************************************************************)
(* The node side of the Cinder CSI driver for one volume on one node:      *)
(* NodeStageVolume, NodePublishVolume, NodeUnpublishVolume and             *)
(* NodeUnstageVolume (pkg/csi/cinder/nodeserver.go) with the mount helpers *)
(* they call (pkg/csi/cinder/mount/mount.go).                              *)
(*                                                                         *)
(* The local OS is a mount table holding, for every path, the stack of     *)
(* mounts on it (the last one visible), each either the volume's device    *)
(* or the node's root filesystem (a bind of a directory that is not        *)
(* itself mounted), and the set of directories that exist.  The CO        *)
(* attaches and detaches the volume (ControllerPublish/Unpublish), sends   *)
(* the node requests, at most one awaited at a time, and records what each *)
(* reply tells it.  Each request runs on a worker, one OS call per step.   *)
(***************************************************************************)
EXTENDS Naturals, Sequences

CONSTANTS
    StagingPath,  \* the volume's staging target path
    Targets,      \* target paths of the workloads using the volume
    Workers,      \* gRPC goroutines serving node requests
    ScanSteps,    \* ticks of ScanForAttach before its timer fires (60)
    MaxDepth,     \* bound on the mounts stacked on one path
    Obedient,     \* the CO stages before publishing, unpublishes before unstaging
    CoTimeouts,   \* the CO may stop waiting for a request that runs on
    ReplyLosses,  \* a reply may be lost after the request completed
    OsFailures    \* a mount, unmount, stat or mkdir may fail

ASSUME PathsAssumption == StagingPath \notin Targets /\ Targets # {}
ASSUME BoundsAssumption == ScanSteps \in Nat \ {0} /\ MaxDepth \in Nat \ {0}
ASSUME FlagsAssumption ==
    {Obedient, CoTimeouts, ReplyLosses, OsFailures} \subseteq BOOLEAN

VARIABLES
    mnt,         \* path -> stack of mounts on it, "dev" or "rootfs"
    dir,         \* path -> whether the directory exists
    attached,    \* the volume is attached to this node (ControllerPublish)
    devPresent,  \* the device node of the volume exists under /dev
    wk,          \* worker -> the request it serves and where it is in it
    coView       \* path -> what the CO believes: "yes", "no" or "unknown"

vars == <<mnt, dir, attached, devPresent, wk, coView>>
osVars == <<mnt, dir, attached, devPresent>>

Paths == {StagingPath} \cup Targets
Sources == {"dev", "rootfs"}
Ops == {"stage", "publish", "unpublish", "unstage"}
Pcs == {"idle", "st_scan", "st_check", "st_mount", "pb_check", "pb_mount",
        "up_check", "up_unmount", "us_check", "us_unmount"}
Results == {"none", "Ok", "NotFound", "Internal"}
Views == {"yes", "no", "unknown"}
Request == [op : Ops, path : Paths, pc : Pcs, polls : 0..ScanSteps,
            live : BOOLEAN, res : Results]

TypeOK ==
    /\ mnt \in [Paths -> Seq(Sources)]
    /\ dir \in [Paths -> BOOLEAN]
    /\ attached \in BOOLEAN /\ devPresent \in BOOLEAN
    /\ wk \in [Workers -> Request]
    /\ coView \in [Paths -> Views]

(***************************************************************************)
(* The mount table as the driver's helpers see it.                         *)
(***************************************************************************)
\* The mount visible at p.
Top(p) == mnt[p][Len(mnt[p])]

\* mount.IsLikelyNotMountPoint is false when p's device differs from its
\* parent's: a device mount; a bind of an unmounted directory is on the
\* parent's filesystem and is not seen.
IsLikelyMountPoint(p) == mnt[p] # <<>> /\ Top(p) = "dev"

\* A bind mount of the staging path carries what is visible there.
BindSource == IF mnt[StagingPath] = <<>> THEN "rootfs" ELSE Top(StagingPath)

-----------------------------------------------------------------------------
(***************************************************************************)
(* Worker bookkeeping.                                                     *)
(***************************************************************************)
Goto(w, pc) == wk' = [wk EXCEPT ![w].pc = pc, ![w].polls = 0]

\* What the CO learns from a reply: a mount it asked for is there when the
\* reply is Ok; an unmount also when the path was not mounted (NotFound).
CoRecord(op, r) ==
    IF op \in {"stage", "publish"}
      THEN IF r = "Ok" THEN "yes" ELSE "unknown"
      ELSE IF r \in {"Ok", "NotFound"} THEN "no" ELSE "unknown"

\* The request returns r; a reply the CO awaits updates its view, unless the
\* reply is lost.
Finish(w, r) ==
    LET q == wk[w] IN
    /\ wk' = [wk EXCEPT ![w].pc = "idle", ![w].live = FALSE, ![w].res = r]
    /\ \/ coView' = IF q.live THEN [coView EXCEPT ![q.path] = CoRecord(q.op, r)]
                              ELSE coView
       \/ ReplyLosses /\ q.live /\ coView' = [coView EXCEPT ![q.path] = "unknown"]

\* A failed OS call (EBUSY, EPERM, EIO) ends the request with Internal.
OsFail(w) == OsFailures /\ Finish(w, "Internal") /\ UNCHANGED osVars

\* IsLikelyNotMountPointAttach(p): a missing directory is created and taken
\* as not mounted; a mount point ends the request with success.
NotMntAttach(w, p, next) ==
    \/ /\ ~dir[p]
       /\ dir' = [dir EXCEPT ![p] = TRUE]
       /\ Goto(w, next) /\ UNCHANGED <<mnt, attached, devPresent, coView>>
    \/ dir[p] /\ ~IsLikelyMountPoint(p) /\ Goto(w, next)
              /\ UNCHANGED <<osVars, coView>>
    \/ dir[p] /\ IsLikelyMountPoint(p) /\ Finish(w, "Ok") /\ UNCHANGED osVars
    \/ OsFail(w)

\* IsLikelyNotMountPointDetach(p), then the handler's check: a missing
\* directory is an error, a path that is not a mount point is NotFound.
NotMntDetach(w, p, next) ==
    \/ ~dir[p] /\ Finish(w, "Internal") /\ UNCHANGED osVars
    \/ dir[p] /\ ~IsLikelyMountPoint(p) /\ Finish(w, "NotFound")
              /\ UNCHANGED osVars
    \/ dir[p] /\ IsLikelyMountPoint(p) /\ Goto(w, next)
              /\ UNCHANGED <<osVars, coView>>
    \/ OsFail(w)

\* UnmountPath(p) is mount.CleanupMountPoint(p, _, false): skip a missing
\* path; remove the directory of a path that is not a mount point; else
\* unmount once and remove the directory if nothing is mounted any more.
\* os.Remove fails (EBUSY) on a directory that still carries a mount.
CleanupMountPoint(w, p) ==
    LET rest == SubSeq(mnt[p], 1, Len(mnt[p]) - 1) IN
    \/ ~dir[p] /\ Finish(w, "Ok") /\ UNCHANGED osVars
    \/ /\ dir[p] /\ ~IsLikelyMountPoint(p)
       /\ IF mnt[p] = <<>>
            THEN dir' = [dir EXCEPT ![p] = FALSE] /\ Finish(w, "Ok")
            ELSE Finish(w, "Internal") /\ UNCHANGED dir
       /\ UNCHANGED <<mnt, attached, devPresent>>
    \/ /\ dir[p] /\ IsLikelyMountPoint(p)
       /\ mnt' = [mnt EXCEPT ![p] = rest]
       /\ IF rest = <<>>
            THEN dir' = [dir EXCEPT ![p] = FALSE] /\ Finish(w, "Ok")
            ELSE Finish(w, "Internal") /\ UNCHANGED dir
       /\ UNCHANGED <<attached, devPresent>>
    \/ OsFail(w)

-----------------------------------------------------------------------------
(***************************************************************************)
(* The CO.                                                                 *)
(***************************************************************************)
FirstPc == [stage |-> "st_scan", publish |-> "pb_check",
            unpublish |-> "up_check", unstage |-> "us_check"]

\* The requests the CO may send.  An obedient CO publishes only a staged
\* volume and unstages only when no target is published.
Allowed(op, p) ==
    \/ op = "stage" /\ p = StagingPath /\ attached
    \/ op = "publish" /\ p \in Targets
       /\ (~Obedient \/ coView[StagingPath] = "yes")
    \/ op = "unpublish" /\ p \in Targets /\ (~Obedient \/ coView[p] # "no")
    \/ op = "unstage" /\ p = StagingPath
       /\ (~Obedient \/ \A t \in Targets : coView[t] = "no")

\* Some request is still awaited by the CO.
Busy == \E w \in Workers : wk[w].pc # "idle" /\ wk[w].live

StartRequest(w) ==
    /\ wk[w].pc = "idle" /\ ~Busy
    /\ \E op \in Ops, p \in Paths :
         /\ Allowed(op, p)
         /\ op \in {"stage", "publish"} => \A x \in Paths : Len(mnt[x]) < MaxDepth
         /\ wk' = [wk EXCEPT ![w] = [op |-> op, path |-> p, pc |-> FirstPc[op],
                                     polls |-> 0, live |-> TRUE, res |-> "none"]]
    /\ UNCHANGED <<osVars, coView>>

\* The CO's deadline passes; the worker is not told.
CoTimeout(w) ==
    /\ CoTimeouts
    /\ wk[w].pc # "idle" /\ wk[w].live
    /\ wk' = [wk EXCEPT ![w].live = FALSE]
    /\ coView' = [coView EXCEPT ![wk[w].path] = "unknown"]
    /\ UNCHANGED osVars

\* ControllerPublishVolume attaches the volume to the node.
CoAttach ==
    /\ ~attached
    /\ attached' = TRUE
    /\ UNCHANGED <<mnt, dir, devPresent, wk, coView>>

\* ControllerUnpublishVolume, once the CO holds the volume unstaged and
\* awaits nothing on it; the device node goes away.
CoDetach ==
    /\ attached /\ coView[StagingPath] = "no" /\ ~Busy
    /\ attached' = FALSE /\ devPresent' = FALSE
    /\ UNCHANGED <<mnt, dir, wk, coView>>

\* udev creates the device node of an attached volume, in its own time.
DeviceAppears ==
    /\ attached /\ ~devPresent
    /\ devPresent' = TRUE
    /\ UNCHANGED <<mnt, dir, attached, wk, coView>>

-----------------------------------------------------------------------------
(***************************************************************************)
(* NodeStageVolume: ScanForAttach(devicePath), then                        *)
(* IsLikelyNotMountPointAttach(stagingTarget), then FormatAndMount.        *)
(***************************************************************************)
\* A plausible bug: ScanForAttach without its timer.
NodeStageVolumeScan_noTimer(w) ==
    /\ wk[w].pc = "st_scan"
    /\ \/ devPresent /\ Goto(w, "st_check")
       \/ ~devPresent /\ UNCHANGED wk
    /\ UNCHANGED <<osVars, coView>>

\* ScanForAttach: every tick, a bus rescan and a look for the device node;
\* an error when the timer fires first.
NodeStageVolumeScan(w) ==
    LET n == wk[w].polls + 1 IN
    /\ wk[w].pc = "st_scan"
    /\ \/ devPresent /\ Goto(w, "st_check") /\ UNCHANGED <<osVars, coView>>
       \/ /\ ~devPresent /\ n < ScanSteps
          /\ wk' = [wk EXCEPT ![w].polls = n]
          /\ UNCHANGED <<osVars, coView>>
       \/ ~devPresent /\ n = ScanSteps /\ Finish(w, "Internal")
          /\ UNCHANGED osVars

NodeStageVolumeCheck(w) ==
    /\ wk[w].pc = "st_check"
    /\ NotMntAttach(w, StagingPath, "st_mount")

\* A plausible bug: the error of FormatAndMount is dropped.
NodeStageVolumeMount_ignoreErr(w) ==
    /\ wk[w].pc = "st_mount"
    /\ \/ /\ devPresent /\ dir[StagingPath]
          /\ mnt' = [mnt EXCEPT ![StagingPath] = Append(@, "dev")]
          /\ Finish(w, "Ok")
          /\ UNCHANGED <<dir, attached, devPresent>>
       \/ ~(devPresent /\ dir[StagingPath]) /\ Finish(w, "Ok")
          /\ UNCHANGED osVars
       \/ OsFailures /\ Finish(w, "Ok") /\ UNCHANGED osVars

\* FormatAndMount(devicePath, stagingTarget): mkfs if unformatted, then a
\* mount of the device, which needs the device node and the directory.
NodeStageVolumeMount(w) ==
    /\ wk[w].pc = "st_mount"
    /\ \/ /\ devPresent /\ dir[StagingPath]
          /\ mnt' = [mnt EXCEPT ![StagingPath] = Append(@, "dev")]
          /\ Finish(w, "Ok")
          /\ UNCHANGED <<dir, attached, devPresent>>
       \/ ~(devPresent /\ dir[StagingPath]) /\ Finish(w, "Internal")
          /\ UNCHANGED osVars
       \/ OsFail(w)

(***************************************************************************)
(* NodePublishVolume: IsLikelyNotMountPointAttach(targetPath), then a bind *)
(* mount of the staging path.  Nothing checks that the volume is staged.   *)
(***************************************************************************)
NodePublishVolumeCheck(w) ==
    /\ wk[w].pc = "pb_check"
    /\ NotMntAttach(w, wk[w].path, "pb_mount")

NodePublishVolumeMount(w) ==
    LET t == wk[w].path IN
    /\ wk[w].pc = "pb_mount"
    /\ \/ /\ dir[StagingPath] /\ dir[t]
          /\ mnt' = [mnt EXCEPT ![t] = Append(@, BindSource)]
          /\ Finish(w, "Ok")
          /\ UNCHANGED <<dir, attached, devPresent>>
       \/ ~(dir[StagingPath] /\ dir[t]) /\ Finish(w, "Internal")
          /\ UNCHANGED osVars
       \/ OsFail(w)

(***************************************************************************)
(* NodeUnpublishVolume and NodeUnstageVolume: IsLikelyNotMountPointDetach, *)
(* NotFound when the path is not a mount point, else UnmountPath.          *)
(***************************************************************************)
NodeUnpublishVolumeCheck(w) ==
    /\ wk[w].pc = "up_check"
    /\ NotMntDetach(w, wk[w].path, "up_unmount")

NodeUnpublishVolumeUnmount(w) ==
    /\ wk[w].pc = "up_unmount"
    /\ CleanupMountPoint(w, wk[w].path)

\* A plausible bug: the mount-point check inverted.
NodeUnstageVolumeCheck_inverted(w) ==
    LET p == StagingPath IN
    /\ wk[w].pc = "us_check"
    /\ \/ ~dir[p] /\ Finish(w, "Internal") /\ UNCHANGED osVars
       \/ dir[p] /\ IsLikelyMountPoint(p) /\ Finish(w, "NotFound")
                 /\ UNCHANGED osVars
       \/ dir[p] /\ ~IsLikelyMountPoint(p) /\ Goto(w, "us_unmount")
                 /\ UNCHANGED <<osVars, coView>>

NodeUnstageVolumeCheck(w) ==
    /\ wk[w].pc = "us_check"
    /\ NotMntDetach(w, StagingPath, "us_unmount")

NodeUnstageVolumeUnmount(w) ==
    /\ wk[w].pc = "us_unmount"
    /\ CleanupMountPoint(w, StagingPath)

-----------------------------------------------------------------------------
Init ==
    /\ mnt = [p \in Paths |-> <<>>]
    /\ dir = [p \in Paths |-> FALSE]
    /\ attached = FALSE /\ devPresent = FALSE
    /\ wk = [w \in Workers |-> [op |-> "stage", path |-> StagingPath, pc |-> "idle",
                               polls |-> 0, live |-> FALSE, res |-> "none"]]
    /\ coView = [p \in Paths |-> "no"]

\* One step of the request a worker serves.
WorkerStep(w) ==
    \/ NodeStageVolumeScan(w)
    \/ NodeStageVolumeCheck(w)
    \/ NodeStageVolumeMount(w)
    \/ NodePublishVolumeCheck(w)
    \/ NodePublishVolumeMount(w)
    \/ NodeUnpublishVolumeCheck(w)
    \/ NodeUnpublishVolumeUnmount(w)
    \/ NodeUnstageVolumeCheck(w)
    \/ NodeUnstageVolumeUnmount(w)

Next ==
    \/ \E w \in Workers : StartRequest(w) \/ CoTimeout(w) \/ WorkerStep(w)
    \/ CoAttach \/ CoDetach \/ DeviceAppears

\* A goroutine serving a request runs it to the end; the CO and udev may
\* stall.
Spec == Init /\ [][Next]_vars /\ \A w \in Workers : WF_vars(WorkerStep(w))

-----------------------------------------------------------------------------
(***************************************************************************)
(* Properties.                                                             *)
(***************************************************************************)
\* Mounted device of a detached volume (NodeUnstageVolume, UnmountPath,
\* ControllerUnpublish): once the volume is detached from the node, its
\* device is mounted at no path, so no workload writes to a vanished disk.
NoDetachWhileMounted ==
    ~attached => \A p \in Paths : \A k \in 1..Len(mnt[p]) : mnt[p][k] # "dev"

\* Workloads see the volume (NodePublishVolume): every mount on a target
\* path carries the volume's device, never the node's root filesystem.
WorkloadSeesVolume ==
    \A t \in Targets : \A k \in 1..Len(mnt[t]) : mnt[t][k] = "dev"

RequestsReturn == \A w \in Workers : wk[w].pc # "idle" ~> wk[w].pc = "idle"

-----------------------------------------------------------------------------
(***************************************************************************)
(* The volume's lifecycle on the node, read off the mount table.           *)
(***************************************************************************)
Staged == mnt[StagingPath] # <<>>
Published == {t \in Targets : mnt[t] # <<>>}

Lifecycle == INSTANCE VolumeOnNode WITH staged <- Staged, published <- Published

\* The four node handlers, as the mount table shows them, keep the CSI
\* per-volume lifecycle of spec section 4: a target is mounted only while
\* the staging path is, the staging path is unmounted only when no target
\* is mounted, the staging mount is made only on an attached volume, and
\* the volume is detached only when nothing is mounted.
ImplementsVolumeOnNode == Lifecycle!Spec

=============================================================================
