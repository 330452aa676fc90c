---------------------------- MODULE CinderAttach ----------------------------
(***************************************************************************)
(* The attach/detach lifecycle of Cinder volumes as the OpenStack layer of *)
(* the Cinder CSI driver drives it (pkg/csi/cinder/openstack).             *)
(*                                                                         *)
(* Three parties share the volume record:                                  *)
(*  - the cloud control plane (Cinder and Nova), which accepts or refuses  *)
(*    each API call and completes attach and detach asynchronously;        *)
(*  - the driver's request workers, each running one of the driver's      *)
(*    operations (AttachVolume then WaitDiskAttached, DetachVolume then    *)
(*    WaitDiskDetached, DeleteVolume, CreateVolume) as a sequence of API   *)
(*    calls, every GetVolume read being a step of its own;                 *)
(*  - the container orchestrator (CO), which issues requests, at most one  *)
(*    in flight per volume that it is still waiting for, records what each *)
(*    reply tells it, and, when CoTimeouts holds, may stop waiting for a   *)
(*    request (its deadline passes) while the worker runs on.              *)
(***************************************************************************)
EXTENDS Naturals

CONSTANTS
    Instances,     \* compute instances (Nova servers), model values
    Volumes,       \* Cinder volume ids, model values
    Workers,       \* goroutines serving requests, model values
    NoServer,      \* Volume.AttachedServerId = "": not attached
    Uncertain,     \* the CO's record after an error or a deadline
    AttachSteps,   \* diskAttachSteps (15 in the code)
    DetachSteps,   \* diskDetachSteps (13 in the code)
    CoTimeouts,    \* whether the CO may abandon a request at its deadline
    ApiFailures    \* whether an API call may fail or lose its reply

ASSUME InstancesAssumption == Instances # {} /\ NoServer \notin Instances
ASSUME VolumesAssumption == Volumes # {}
ASSUME UncertainAssumption == Uncertain \notin Instances \cup {NoServer}
ASSUME StepsAssumption ==
    /\ AttachSteps \in Nat \ {0}
    /\ DetachSteps \in Nat \ {0}
ASSUME FlagsAssumption == CoTimeouts \in BOOLEAN /\ ApiFailures \in BOOLEAN

VARIABLES
    status,    \* volume -> Cinder status; "absent" and "deleted" read as 404
    server,    \* volume -> Attachments[0].ServerID, or NoServer
    pending,   \* volume -> the instance an accepted attach is for
    wk,        \* worker -> the request it serves and where it is in it
    coView     \* volume -> what the CO last learnt: attached to an
               \*           instance, NoServer (detached) or Uncertain

vars == <<status, server, pending, wk, coView>>
cloudVars == <<status, server, pending>>

Statuses == {"absent", "available", "attaching", "in-use", "detaching",
             "error", "deleted"}
Ops == {"publish", "unpublish", "delete"}
Pcs == {"idle", "att_get", "att_create", "wait_att",
        "det_get", "det_delete", "wait_det", "del_get", "del_delete"}
Results == {"none", "Ok", "NotFound", "Conflict", "InvalidState",
            "NotAttachedHere", "InUse", "Timeout", "BackendError"}
MaxSteps == IF AttachSteps > DetachSteps THEN AttachSteps ELSE DetachSteps
Request == [op : Ops, inst : Instances, vol : Volumes, pc : Pcs,
            polls : 0..MaxSteps, live : BOOLEAN, res : Results]

TypeOK ==
    /\ status \in [Volumes -> Statuses]
    /\ server \in [Volumes -> Instances \cup {NoServer}]
    /\ pending \in [Volumes -> Instances \cup {NoServer}]
    /\ wk \in [Workers -> Request]
    /\ coView \in [Volumes -> Instances \cup {NoServer, Uncertain}]

(***************************************************************************)
(* What GetVolume can tell about a volume.                                 *)
(***************************************************************************)
\* GetVolume returns the record, or an error (404) for an unknown id.
Exists(v) == status[v] \notin {"absent", "deleted"}

\* diskIsAttached: the read succeeded and Attachments[0] names the instance.
\* A failed read returns false together with its error.
diskIsAttached(i, v) == Exists(v) /\ server[v] = i

\* diskIsUsed: the read succeeded and AttachedServerId is set.
diskIsUsed(v) == Exists(v) /\ server[v] # NoServer

\* The volume is attached to the instance, or an accepted attach is for it.
HeldBy(v, i) == server[v] = i \/ (status[v] = "attaching" /\ pending[v] = i)

\* Some request on the volume is still awaited by the CO.
Busy(v) == \E w \in Workers : wk[w].pc # "idle" /\ wk[w].live /\ wk[w].vol = v

(***************************************************************************)
(* Worker bookkeeping.                                                     *)
(***************************************************************************)
Goto(w, pc) == wk' = [wk EXCEPT ![w].pc = pc, ![w].polls = 0]

\* What the CO records when it receives a reply.
CoRecord(op, i, r) ==
    CASE op = "publish"   -> IF r = "Ok" THEN i ELSE Uncertain
      [] op = "unpublish" -> IF r = "Ok" THEN NoServer ELSE Uncertain

\* The request returns r; a reply the CO still waits for updates its view.
Finish(w, r) ==
    LET q == wk[w] IN
    /\ wk' = [wk EXCEPT ![w].pc = "idle", ![w].live = FALSE, ![w].res = r]
    /\ coView' = IF q.live /\ q.op # "delete"
                   THEN [coView EXCEPT ![q.vol] = CoRecord(q.op, q.inst, r)]
                   ELSE coView

\* An API call that failed: transport, auth or a lost reply.
ApiFail(w) == ApiFailures /\ Finish(w, "BackendError")

-----------------------------------------------------------------------------
(***************************************************************************)
(* The CO issues a request, at most one per volume that it still awaits.  *)
(***************************************************************************)
FirstPc == [publish |-> "att_get", unpublish |-> "det_get",
            delete |-> "del_get"]

StartRequest(w) ==
    /\ wk[w].pc = "idle"
    /\ \E op \in Ops, i \in Instances, v \in Volumes :
         /\ ~Busy(v)
         /\ wk' = [wk EXCEPT ![w] = [op |-> op, inst |-> i, vol |-> v,
                                     pc |-> FirstPc[op], polls |-> 0,
                                     live |-> TRUE, res |-> "none"]]
    /\ UNCHANGED <<cloudVars, coView>>

\* The CO's deadline passes; the worker is not told (no context is passed).
CoTimeout(w) ==
    /\ CoTimeouts
    /\ wk[w].pc # "idle" /\ wk[w].live
    /\ wk' = [wk EXCEPT ![w].live = FALSE]
    /\ coView' = [coView EXCEPT ![wk[w].vol] = Uncertain]
    /\ UNCHANGED cloudVars

-----------------------------------------------------------------------------
(***************************************************************************)
(* CreateVolume: one volumes.Create call.                                  *)
(***************************************************************************)
CreateVolume(v) ==
    /\ status[v] = "absent"
    /\ status' = [status EXCEPT ![v] = "available"]
    /\ UNCHANGED <<server, pending, wk, coView>>

(***************************************************************************)
(* AttachVolume: GetVolume, then the idempotence and conflict checks on    *)
(* AttachedServerId, then volumeattach.Create, which Nova accepts only for *)
(* an available volume.  Success moves on to WaitDiskAttached.             *)
(***************************************************************************)
AttachVolumeGet(w) ==
    LET i == wk[w].inst  v == wk[w].vol IN
    /\ wk[w].pc = "att_get"
    /\ \/ ~Exists(v) /\ Finish(w, "NotFound")
       \/ Exists(v) /\ server[v] = i /\ Goto(w, "wait_att")
                    /\ UNCHANGED coView
       \/ Exists(v) /\ server[v] \notin {NoServer, i}
                    /\ Finish(w, "Conflict")
       \/ Exists(v) /\ server[v] = NoServer /\ Goto(w, "att_create")
                    /\ UNCHANGED coView
       \/ ApiFail(w)
    /\ UNCHANGED cloudVars

AttachVolumeCreate(w) ==
    LET i == wk[w].inst  v == wk[w].vol IN
    /\ wk[w].pc = "att_create"
    /\ \/ /\ status[v] = "available"
          /\ status' = [status EXCEPT ![v] = "attaching"]
          /\ pending' = [pending EXCEPT ![v] = i]
          /\ \/ Goto(w, "wait_att") /\ UNCHANGED coView
             \/ ApiFail(w)                  \* accepted, reply lost
       \/ /\ status[v] # "available"
          /\ Finish(w, "BackendError")
          /\ UNCHANGED <<status, pending>>
       \/ ApiFail(w) /\ UNCHANGED <<status, pending>>
    /\ UNCHANGED server

(***************************************************************************)
(* WaitDiskAttached: up to AttachSteps polls of diskIsAttached.  A 404 is  *)
(* ignored (read as not attached yet); any other error aborts the wait.    *)
(***************************************************************************)
\* A plausible bug: the backoff step is never consumed.
WaitDiskAttached_noStep(w) ==
    LET i == wk[w].inst  v == wk[w].vol IN
    /\ wk[w].pc = "wait_att"
    /\ \/ diskIsAttached(i, v) /\ Finish(w, "Ok")
       \/ ~diskIsAttached(i, v) /\ UNCHANGED <<wk, coView>>
    /\ UNCHANGED cloudVars

WaitDiskAttached(w) ==
    LET i == wk[w].inst  v == wk[w].vol  n == wk[w].polls + 1 IN
    /\ wk[w].pc = "wait_att"
    /\ \/ diskIsAttached(i, v) /\ Finish(w, "Ok")
       \/ /\ ~diskIsAttached(i, v) /\ n < AttachSteps
          /\ wk' = [wk EXCEPT ![w].polls = n]
          /\ UNCHANGED coView
       \/ ~diskIsAttached(i, v) /\ n = AttachSteps /\ Finish(w, "Timeout")
       \/ ApiFail(w)
    /\ UNCHANGED cloudVars

(***************************************************************************)
(* DetachVolume: GetVolume; "available" is already detached; any status    *)
(* other than "in-use" is refused, as is an attachment to another server;  *)
(* else volumeattach.Delete.  Success moves on to WaitDiskDetached.        *)
(***************************************************************************)
\* A plausible bug: every status but "in-use" taken as already detached.
DetachVolumeGet_notInUseOk(w) ==
    LET i == wk[w].inst  v == wk[w].vol IN
    /\ wk[w].pc = "det_get"
    /\ \/ ~Exists(v) /\ Finish(w, "NotFound")
       \/ Exists(v) /\ status[v] # "in-use" /\ Goto(w, "wait_det")
                    /\ UNCHANGED coView
       \/ status[v] = "in-use" /\ server[v] # i
                    /\ Finish(w, "NotAttachedHere")
       \/ status[v] = "in-use" /\ server[v] = i /\ Goto(w, "det_delete")
                    /\ UNCHANGED coView
       \/ ApiFail(w)
    /\ UNCHANGED cloudVars

DetachVolumeGet(w) ==
    LET i == wk[w].inst  v == wk[w].vol IN
    /\ wk[w].pc = "det_get"
    /\ \/ ~Exists(v) /\ Finish(w, "NotFound")
       \/ status[v] = "available" /\ Goto(w, "wait_det")
                    /\ UNCHANGED coView
       \/ Exists(v) /\ status[v] \notin {"available", "in-use"}
                    /\ Finish(w, "InvalidState")
       \/ status[v] = "in-use" /\ server[v] # i
                    /\ Finish(w, "NotAttachedHere")
       \/ status[v] = "in-use" /\ server[v] = i /\ Goto(w, "det_delete")
                    /\ UNCHANGED coView
       \/ ApiFail(w)
    /\ UNCHANGED cloudVars

DetachVolumeDelete(w) ==
    LET i == wk[w].inst  v == wk[w].vol IN
    /\ wk[w].pc = "det_delete"
    /\ \/ /\ status[v] = "in-use" /\ server[v] = i
          /\ status' = [status EXCEPT ![v] = "detaching"]
          /\ \/ Goto(w, "wait_det") /\ UNCHANGED coView
             \/ ApiFail(w)                  \* accepted, reply lost
       \/ /\ ~(status[v] = "in-use" /\ server[v] = i)
          /\ Finish(w, "BackendError")
          /\ UNCHANGED status
       \/ ApiFail(w) /\ UNCHANGED status
    /\ UNCHANGED <<server, pending>>

(***************************************************************************)
(* WaitDiskDetached: up to DetachSteps polls until diskIsAttached is false;*)
(* any read error, a 404 included, aborts the wait.                        *)
(***************************************************************************)
WaitDiskDetached(w) ==
    LET i == wk[w].inst  v == wk[w].vol  n == wk[w].polls + 1 IN
    /\ wk[w].pc = "wait_det"
    /\ \/ ~Exists(v) /\ Finish(w, "NotFound")
       \/ Exists(v) /\ ~diskIsAttached(i, v) /\ Finish(w, "Ok")
       \/ /\ diskIsAttached(i, v) /\ n < DetachSteps
          /\ wk' = [wk EXCEPT ![w].polls = n]
          /\ UNCHANGED coView
       \/ diskIsAttached(i, v) /\ n = DetachSteps /\ Finish(w, "Timeout")
       \/ ApiFail(w)
    /\ UNCHANGED cloudVars

(***************************************************************************)
(* DeleteVolume: diskIsUsed (a GetVolume), refusal when AttachedServerId   *)
(* is set, then volumes.Delete, which Cinder accepts only for an available *)
(* or errored volume with no attachment.                                   *)
(***************************************************************************)
DeleteVolumeCheck(w) ==
    LET v == wk[w].vol IN
    /\ wk[w].pc = "del_get"
    /\ \/ ~Exists(v) /\ Finish(w, "NotFound")
       \/ diskIsUsed(v) /\ Finish(w, "InUse")
       \/ Exists(v) /\ ~diskIsUsed(v) /\ Goto(w, "del_delete")
                    /\ UNCHANGED coView
       \/ ApiFail(w)
    /\ UNCHANGED cloudVars

DeleteVolumeDelete(w) ==
    LET v == wk[w].vol IN
    /\ wk[w].pc = "del_delete"
    /\ \/ /\ status[v] \in {"available", "error"} /\ server[v] = NoServer
          /\ status' = [status EXCEPT ![v] = "deleted"]
          /\ Finish(w, "Ok")
       \/ /\ ~(status[v] \in {"available", "error"} /\ server[v] = NoServer)
          /\ Finish(w, "BackendError")
          /\ UNCHANGED status
       \/ ApiFail(w) /\ UNCHANGED status
    /\ UNCHANGED <<server, pending>>

-----------------------------------------------------------------------------
(***************************************************************************)
(* The cloud completes or fails what it accepted, in its own time.         *)
(***************************************************************************)
CloudAttachDone(v) ==
    /\ status[v] = "attaching"
    /\ status' = [status EXCEPT ![v] = "in-use"]
    /\ server' = [server EXCEPT ![v] = pending[v]]
    /\ pending' = [pending EXCEPT ![v] = NoServer]
    /\ UNCHANGED <<wk, coView>>

CloudDetachDone(v) ==
    /\ status[v] = "detaching"
    /\ status' = [status EXCEPT ![v] = "available"]
    /\ server' = [server EXCEPT ![v] = NoServer]
    /\ UNCHANGED <<pending, wk, coView>>

CloudError(v) ==
    /\ status[v] \in {"attaching", "detaching"}
    /\ status' = [status EXCEPT ![v] = "error"]
    /\ pending' = [pending EXCEPT ![v] = NoServer]
    /\ UNCHANGED <<server, wk, coView>>

-----------------------------------------------------------------------------
Init ==
    /\ status = [v \in Volumes |-> "absent"]
    /\ server = [v \in Volumes |-> NoServer]
    /\ pending = [v \in Volumes |-> NoServer]
    /\ wk = [w \in Workers |-> [op |-> "publish", inst |-> CHOOSE i \in Instances : TRUE,
                               vol |-> CHOOSE v \in Volumes : TRUE, pc |-> "idle",
                               polls |-> 0, live |-> FALSE, res |-> "none"]]
    /\ coView = [v \in Volumes |-> NoServer]

\* One step of the request a worker serves.
WorkerStep(w) ==
    \/ AttachVolumeGet(w)
    \/ AttachVolumeCreate(w)
    \/ WaitDiskAttached(w)
    \/ DetachVolumeGet(w)
    \/ DetachVolumeDelete(w)
    \/ WaitDiskDetached(w)
    \/ DeleteVolumeCheck(w)
    \/ DeleteVolumeDelete(w)

Cloud(v) == CloudAttachDone(v) \/ CloudDetachDone(v) \/ CloudError(v)

Next ==
    \/ \E w \in Workers : StartRequest(w) \/ CoTimeout(w) \/ WorkerStep(w)
    \/ \E v \in Volumes : CreateVolume(v) \/ Cloud(v)

\* A goroutine that serves a request runs it to the end: its steps are
\* weakly fair.  The cloud and the CO are not: they may stall forever.
Spec == Init /\ [][Next]_vars /\ \A w \in Workers : WF_vars(WorkerStep(w))

-----------------------------------------------------------------------------
(***************************************************************************)
(* Properties.                                                             *)
(***************************************************************************)
\* No leaked attachment (DetachVolume, WaitDiskDetached, AttachVolume):
\* when the CO's last word on a volume it is not waiting on is "detached",
\* the volume is neither attached nor being attached to any instance.
NoLeakedAttachment ==
    \A v \in Volumes :
        coView[v] = NoServer /\ ~Busy(v) => \A i \in Instances : ~HeldBy(v, i)

\* Sound attach reports (AttachVolume, WaitDiskAttached): when the CO's
\* last word on a volume it is not waiting on is "attached to i", the volume
\* is in use by i.
CoViewSound ==
    \A v \in Volumes :
        coView[v] \in Instances /\ ~Busy(v) =>
            status[v] = "in-use" /\ server[v] = coView[v]

\* Bounded waits (WaitDiskAttached, WaitDiskDetached): every request a
\* worker takes up returns, however long the cloud takes.
RequestsReturn ==
    \A w \in Workers : wk[w].pc # "idle" ~> wk[w].pc = "idle"

=============================================================================
