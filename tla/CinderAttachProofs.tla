------------------------- MODULE CinderAttachProofs -------------------------
(***************************************************************************)
(* Proofs about CinderAttach, for every value of its constants.            *)
(***************************************************************************)
EXTENDS CinderAttach, TLAPS

(***************************************************************************)
(* The inductive invariant behind NoLeakedAttachment, for a CO that never  *)
(* abandons a request.                                                     *)
(***************************************************************************)
\* Every request a worker serves is still awaited by the CO.
NonIdleLive == \A w \in Workers : wk[w].pc # "idle" => wk[w].live

\* At most one request per volume is in progress.
OnePerVolume ==
    \A w, u \in Workers :
        wk[w].pc # "idle" /\ wk[u].pc # "idle" /\ wk[w].vol = wk[u].vol => w = u

\* Cinder shows no attachment on a volume that is absent, deleted, available
\* or still attaching.
NoServerUnlessAttached ==
    \A v \in Volumes :
        status[v] \in {"absent", "deleted", "available", "attaching"} =>
            server[v] = NoServer

\* While WaitDiskDetached polls, the volume is not being attached and is
\* attached, if at all, only to the instance being detached.
DetachWaitClean ==
    \A w \in Workers :
        wk[w].pc = "wait_det" =>
            /\ status[wk[w].vol] # "attaching"
            /\ server[wk[w].vol] \in {wk[w].inst, NoServer}

\* The CO's "detached" holds unless a publish is past AttachVolume.
WaitingAttach(v) == \E w \in Workers : wk[w].pc = "wait_att" /\ wk[w].vol = v

NoLeakStrong ==
    \A v \in Volumes :
        coView[v] = NoServer /\ ~WaitingAttach(v) => \A i \in Instances : ~HeldBy(v, i)

\* The operation each position of a worker belongs to.
PcOp == [idle |-> "none", att_get |-> "publish", att_create |-> "publish",
         wait_att |-> "publish", det_get |-> "unpublish",
         det_delete |-> "unpublish", wait_det |-> "unpublish",
         del_get |-> "delete", del_delete |-> "delete"]

\* Each request's position belongs to its operation.
OpPc == \A w \in Workers : wk[w].pc # "idle" => wk[w].op = PcOp[wk[w].pc]

IInv ==
    /\ TypeOK
    /\ OpPc
    /\ NonIdleLive
    /\ OnePerVolume
    /\ NoServerUnlessAttached
    /\ DetachWaitClean
    /\ NoLeakStrong
-----------------------------------------------------------------------------
USE InstancesAssumption, VolumesAssumption, UncertainAssumption,
    StepsAssumption, FlagsAssumption

(***************************************************************************)
(* Type correctness of the worker bookkeeping.                             *)
(***************************************************************************)
LEMMA MaxStepsFact ==
    MaxSteps \in Nat /\ AttachSteps <= MaxSteps /\ DetachSteps <= MaxSteps
BY DEF MaxSteps

LEMMA GotoType ==
    ASSUME TypeOK, NEW w \in Workers, NEW pc \in Pcs, Goto(w, pc)
    PROVE  wk' \in [Workers -> Request]
<1>1. wk[w] \in Request
  BY DEF TypeOK
<1>2. [wk[w] EXCEPT !.pc = pc, !.polls = 0] \in Request
  <2>1. 0 \in 0..MaxSteps
    BY MaxStepsFact
  <2>2. QED
    BY <1>1, <2>1 DEF Request
<1>3. wk' = [wk EXCEPT ![w] = [wk[w] EXCEPT !.pc = pc, !.polls = 0]]
  BY DEF Goto
<1>4. QED
  BY <1>2, <1>3 DEF TypeOK

LEMMA FinishType ==
    ASSUME TypeOK, NEW w \in Workers, NEW r \in Results, Finish(w, r)
    PROVE  /\ wk' \in [Workers -> Request]
           /\ coView' \in [Volumes -> Instances \cup {NoServer, Uncertain}]
<1>1. wk[w] \in Request
  BY DEF TypeOK
<1>2. [wk[w] EXCEPT !.pc = "idle", !.live = FALSE, !.res = r] \in Request
  BY <1>1 DEF Request, Pcs
<1>3. wk' \in [Workers -> Request]
  BY <1>2 DEF TypeOK, Finish
<1>4. wk[w].op # "delete" =>
        CoRecord(wk[w].op, wk[w].inst, r) \in Instances \cup {NoServer, Uncertain}
  BY <1>1 DEF Request, Ops, CoRecord
<1>5. coView' \in [Volumes -> Instances \cup {NoServer, Uncertain}]
  BY <1>1, <1>4 DEF TypeOK, Finish, Request
<1>6. QED
  BY <1>3, <1>5

\* Counting one more poll keeps the bookkeeping typed.
LEMMA PollType ==
    ASSUME TypeOK, NEW w \in Workers, NEW n \in 0..MaxSteps,
           wk' = [wk EXCEPT ![w].polls = n]
    PROVE  wk' \in [Workers -> Request]
<1>1. wk[w] \in Request
  BY DEF TypeOK
<1>2. [wk[w] EXCEPT !.polls = n] \in Request
  BY <1>1 DEF Request
<1>3. QED
  BY <1>2 DEF TypeOK

\* A worker step that only moves the worker keeps the bookkeeping typed.
LEMMA WorkerMoveType ==
    ASSUME TypeOK, NEW w \in Workers,
           \/ \E pc \in Pcs : Goto(w, pc) /\ UNCHANGED coView
           \/ \E r \in Results : Finish(w, r)
    PROVE  /\ wk' \in [Workers -> Request]
           /\ coView' \in [Volumes -> Instances \cup {NoServer, Uncertain}]
BY GotoType, FinishType DEF TypeOK

\* The initial state is well typed.
LEMMA InitType == Init => TypeOK
<1> SUFFICES ASSUME Init PROVE TypeOK
  OBVIOUS
<1>1. [op |-> "publish", inst |-> CHOOSE i \in Instances : TRUE,
       vol |-> CHOOSE v \in Volumes : TRUE, pc |-> "idle",
       polls |-> 0, live |-> FALSE, res |-> "none"] \in Request
  BY MaxStepsFact DEF Request, Ops, Pcs, Results
<1>2. QED
  BY <1>1 DEF Init, TypeOK, Statuses

\* One step of the system keeps the state well typed.
LEMMA TypeStep == TypeOK /\ [Next]_vars => TypeOK'
<2> SUFFICES ASSUME TypeOK, [Next]_vars PROVE TypeOK'
  OBVIOUS
<2>1. ASSUME NEW w \in Workers, StartRequest(w) PROVE TypeOK'
  <3>1. PICK op \in Ops, i \in Instances, v \in Volumes :
              wk' = [wk EXCEPT ![w] = [op |-> op, inst |-> i, vol |-> v,
                                       pc |-> FirstPc[op], polls |-> 0,
                                       live |-> TRUE, res |-> "none"]]
    BY <2>1 DEF StartRequest
  <3>2. [op |-> op, inst |-> i, vol |-> v, pc |-> FirstPc[op], polls |-> 0,
         live |-> TRUE, res |-> "none"] \in Request
    BY MaxStepsFact DEF Request, FirstPc, Ops, Pcs, Results
  <3>3. QED
    BY <2>1, <3>1, <3>2 DEF StartRequest, TypeOK, cloudVars
<2>2. ASSUME NEW w \in Workers, CoTimeout(w) PROVE TypeOK'
  <3>1. [wk[w] EXCEPT !.live = FALSE] \in Request
    BY DEF TypeOK, Request
  <3>2. QED
    BY <2>2, <3>1 DEF CoTimeout, TypeOK, cloudVars
<2>3. ASSUME NEW w \in Workers, AttachVolumeGet(w) PROVE TypeOK'
  <3>1. UNCHANGED cloudVars
    BY <2>3 DEF AttachVolumeGet
  <3>2. \/ \E pc \in Pcs : Goto(w, pc) /\ UNCHANGED coView
        \/ \E r \in Results : Finish(w, r)
    BY <2>3 DEF AttachVolumeGet, ApiFail, Pcs, Results
  <3>3. QED
    BY <3>1, <3>2, WorkerMoveType DEF TypeOK, cloudVars
<2>4. ASSUME NEW w \in Workers, AttachVolumeCreate(w) PROVE TypeOK'
  BY <2>4, GotoType, FinishType DEF AttachVolumeCreate, ApiFail, TypeOK, Pcs, Results,
     Statuses, Request
<2>5. ASSUME NEW w \in Workers, WaitDiskAttached(w) PROVE TypeOK'
  <3>1. UNCHANGED cloudVars
    BY <2>5 DEF WaitDiskAttached
  <3>2. \/ \E r \in Results : Finish(w, r)
        \/ /\ \E n \in 0..MaxSteps : wk' = [wk EXCEPT ![w].polls = n]
           /\ UNCHANGED coView
    BY <2>5, MaxStepsFact DEF WaitDiskAttached, ApiFail, Results, TypeOK, Request
  <3>3. QED
    BY <3>1, <3>2, FinishType, PollType DEF TypeOK, cloudVars
<2>6. ASSUME NEW w \in Workers, DetachVolumeGet(w) PROVE TypeOK'
  <3>1. UNCHANGED cloudVars
    BY <2>6 DEF DetachVolumeGet
  <3>2. \/ \E pc \in Pcs : Goto(w, pc) /\ UNCHANGED coView
        \/ \E r \in Results : Finish(w, r)
    BY <2>6 DEF DetachVolumeGet, ApiFail, Pcs, Results
  <3>3. QED
    BY <3>1, <3>2, WorkerMoveType DEF TypeOK, cloudVars
<2>7. ASSUME NEW w \in Workers, DetachVolumeDelete(w) PROVE TypeOK'
  BY <2>7, GotoType, FinishType DEF DetachVolumeDelete, ApiFail, TypeOK, Pcs, Results,
     Statuses, Request
<2>8. ASSUME NEW w \in Workers, WaitDiskDetached(w) PROVE TypeOK'
  <3>1. UNCHANGED cloudVars
    BY <2>8 DEF WaitDiskDetached
  <3>2. \/ \E r \in Results : Finish(w, r)
        \/ /\ \E n \in 0..MaxSteps : wk' = [wk EXCEPT ![w].polls = n]
           /\ UNCHANGED coView
    BY <2>8, MaxStepsFact DEF WaitDiskDetached, ApiFail, Results, TypeOK, Request
  <3>3. QED
    BY <3>1, <3>2, FinishType, PollType DEF TypeOK, cloudVars
<2>9. ASSUME NEW w \in Workers, DeleteVolumeCheck(w) PROVE TypeOK'
  <3>1. UNCHANGED cloudVars
    BY <2>9 DEF DeleteVolumeCheck
  <3>2. \/ \E pc \in Pcs : Goto(w, pc) /\ UNCHANGED coView
        \/ \E r \in Results : Finish(w, r)
    BY <2>9 DEF DeleteVolumeCheck, diskIsUsed, ApiFail, Pcs, Results
  <3>3. QED
    BY <3>1, <3>2, WorkerMoveType DEF TypeOK, cloudVars
<2>10. ASSUME NEW w \in Workers, DeleteVolumeDelete(w) PROVE TypeOK'
  BY <2>10, FinishType DEF DeleteVolumeDelete, ApiFail, TypeOK, Results, Statuses
<2>11. ASSUME NEW v \in Volumes, CreateVolume(v) PROVE TypeOK'
  BY <2>11 DEF CreateVolume, TypeOK, Statuses
<2>12. ASSUME NEW v \in Volumes, Cloud(v) PROVE TypeOK'
  BY <2>12 DEF Cloud, CloudAttachDone, CloudDetachDone, CloudError, TypeOK, Statuses
<2>13. CASE UNCHANGED vars
  BY <2>13 DEF vars, TypeOK
<2>14. QED
  BY <2>1, <2>2, <2>3, <2>4, <2>5, <2>6, <2>7, <2>8, <2>9, <2>10, <2>11,
     <2>12, <2>13 DEF Next, WorkerStep

\* Type correctness (every operation): every reachable state is well typed.
THEOREM TypeCorrect == Spec => []TypeOK
<1>1. Init => TypeOK
  BY InitType
<1>2. TypeOK /\ [Next]_vars => TypeOK'
  BY TypeStep
<1>3. QED
  BY <1>1, <1>2, PTL DEF Spec
(***************************************************************************)
(* Worker bookkeeping.                                                     *)
(***************************************************************************)
\* Where Goto and Finish leave the worker, and what they keep.
LEMMA GotoEffect ==
    ASSUME TypeOK, NEW w \in Workers, NEW pc, Goto(w, pc)
    PROVE  /\ wk'[w].pc = pc
           /\ wk'[w].vol = wk[w].vol /\ wk'[w].inst = wk[w].inst
           /\ wk'[w].op = wk[w].op /\ wk'[w].live = wk[w].live
           /\ \A u \in Workers \ {w} : wk'[u] = wk[u]
<1>1. wk[w] \in Request
  BY DEF TypeOK
<1>2. wk' = [wk EXCEPT ![w] = [wk[w] EXCEPT !.pc = pc, !.polls = 0]]
  BY DEF Goto
<1>3. QED
  BY <1>1, <1>2 DEF TypeOK, Request

LEMMA FinishEffect ==
    ASSUME TypeOK, NEW w \in Workers, NEW r, Finish(w, r)
    PROVE  /\ wk'[w].pc = "idle"
           /\ wk'[w].vol = wk[w].vol /\ wk'[w].inst = wk[w].inst
           /\ wk'[w].op = wk[w].op /\ wk'[w].res = r
           /\ \A u \in Workers \ {w} : wk'[u] = wk[u]
<1>1. wk[w] \in Request
  BY DEF TypeOK
<1>2. wk' = [wk EXCEPT ![w] = [wk[w] EXCEPT !.pc = "idle", !.live = FALSE, !.res = r]]
  BY DEF Finish
<1>3. QED
  BY <1>1, <1>2 DEF TypeOK, Request

\* Counting a poll keeps the worker where it is.
LEMMA PollEffect ==
    ASSUME TypeOK, NEW w \in Workers, NEW n, wk' = [wk EXCEPT ![w].polls = n]
    PROVE  /\ wk'[w].pc = wk[w].pc
           /\ wk'[w].vol = wk[w].vol /\ wk'[w].inst = wk[w].inst
           /\ wk'[w].op = wk[w].op /\ wk'[w].live = wk[w].live
           /\ \A u \in Workers \ {w} : wk'[u] = wk[u]
<1>1. wk[w] \in Request
  BY DEF TypeOK
<1>2. wk' = [wk EXCEPT ![w] = [wk[w] EXCEPT !.polls = n]]
  OBVIOUS
<1>3. QED
  BY <1>1, <1>2 DEF TypeOK, Request

-----------------------------------------------------------------------------
(***************************************************************************)
(* The inductive invariant: lemmas shared by the worker steps.             *)
(***************************************************************************)
\* A worker step that ends the request, moves within the operation or
\* counts a poll keeps the bookkeeping conjuncts of IInv.
LEMMA WorkerMoveInv ==
    ASSUME IInv, NEW w \in Workers, wk[w].pc # "idle",
           \/ \E r \in Results : Finish(w, r)
           \/ \E pc \in Pcs \ {"idle"} : Goto(w, pc) /\ PcOp[pc] = PcOp[wk[w].pc]
           \/ \E n \in 0..MaxSteps : wk' = [wk EXCEPT ![w].polls = n]
    PROVE  /\ \A u \in Workers \ {w} : wk'[u] = wk[u]
           /\ wk'[w].vol = wk[w].vol /\ wk'[w].inst = wk[w].inst
           /\ wk'[w].op = wk[w].op
           /\ OpPc' /\ NonIdleLive' /\ OnePerVolume'
<1> USE DEF IInv
<1>1. /\ \A u \in Workers \ {w} : wk'[u] = wk[u]
      /\ wk'[w].vol = wk[w].vol /\ wk'[w].inst = wk[w].inst
      /\ wk'[w].op = wk[w].op
      /\ \/ wk'[w].pc = "idle"
         \/ wk'[w].live = wk[w].live /\ PcOp[wk'[w].pc] = PcOp[wk[w].pc]
  <2>1. CASE \E r \in Results : Finish(w, r)
    BY <2>1, FinishEffect
  <2>2. CASE \E pc \in Pcs \ {"idle"} : Goto(w, pc) /\ PcOp[pc] = PcOp[wk[w].pc]
    BY <2>2, GotoEffect
  <2>3. CASE \E n \in 0..MaxSteps : wk' = [wk EXCEPT ![w].polls = n]
    BY <2>3, PollEffect
  <2>4. QED
    BY <2>1, <2>2, <2>3
<1>2. wk[w].live /\ wk[w].op = PcOp[wk[w].pc]
  BY DEF NonIdleLive, OpPc
<1>3. OpPc'
  BY <1>1, <1>2 DEF OpPc
<1>4. NonIdleLive'
  BY <1>1, <1>2 DEF NonIdleLive
<1>5. OnePerVolume'
  BY <1>1 DEF OnePerVolume
<1>6. QED
  BY <1>1, <1>3, <1>4, <1>5

\* What the CO records when a worker's request ends.
LEMMA FinishCo ==
    ASSUME TypeOK, NEW w \in Workers, wk[w].live, NEW r, Finish(w, r)
    PROVE  /\ wk[w].op = "delete" => coView' = coView
           /\ wk[w].op = "publish" =>
                /\ coView'[wk[w].vol] # NoServer
                /\ \A x \in Volumes \ {wk[w].vol} : coView'[x] = coView[x]
           /\ wk[w].op = "unpublish" =>
                /\ coView'[wk[w].vol] = NoServer => r = "Ok"
                /\ \A x \in Volumes \ {wk[w].vol} : coView'[x] = coView[x]
<1>1. wk[w] \in Request
  BY DEF TypeOK
<1>2. wk[w].inst \in Instances /\ wk[w].vol \in Volumes
  BY <1>1 DEF Request
<1>3. QED
  BY <1>2 DEF Finish, CoRecord, TypeOK

\* A new request starts on a volume nobody else serves.
LEMMA StartRequestInv ==
    ASSUME IInv, NEW w \in Workers, StartRequest(w) PROVE IInv'
<1> USE DEF IInv
<1>1. TypeOK'
  BY TypeStep DEF Next
<1>2. PICK op \in Ops, i \in Instances, v \in Volumes :
          /\ ~Busy(v)
          /\ wk' = [wk EXCEPT ![w] = [op |-> op, inst |-> i, vol |-> v,
                                      pc |-> FirstPc[op], polls |-> 0,
                                      live |-> TRUE, res |-> "none"]]
  BY DEF StartRequest
<1>3. /\ wk'[w].op = op /\ wk'[w].vol = v /\ wk'[w].live
      /\ wk'[w].pc = FirstPc[op]
      /\ \A u \in Workers \ {w} : wk'[u] = wk[u]
  BY <1>2 DEF TypeOK
<1>4. FirstPc[op] \in {"att_get", "det_get", "del_get"} /\ PcOp[FirstPc[op]] = op
  BY DEF FirstPc, PcOp, Ops
<1>5. UNCHANGED <<status, server, pending, coView>>
  BY DEF StartRequest, cloudVars
<1>6. OpPc' /\ NonIdleLive'
  BY <1>3, <1>4 DEF OpPc, NonIdleLive
<1>7. OnePerVolume'
  BY <1>2, <1>3, <1>4 DEF OnePerVolume, NonIdleLive, Busy
<1>8. DetachWaitClean'
  BY <1>3, <1>4, <1>5 DEF DetachWaitClean
<1>9. NoLeakStrong'
  <2>1. \A x \in Volumes : WaitingAttach(x)' <=> WaitingAttach(x)
    BY <1>3, <1>4 DEF WaitingAttach, StartRequest
  <2>2. QED
    BY <1>5, <2>1 DEF NoLeakStrong, HeldBy
<1>10. QED
  BY <1>1, <1>5, <1>6, <1>7, <1>8, <1>9 DEF NoServerUnlessAttached

\* Cinder's own steps: creation, and completion or failure of what it accepted.
LEMMA CloudInv ==
    ASSUME IInv, NEW v \in Volumes, CreateVolume(v) \/ Cloud(v) PROVE IInv'
<1> USE DEF IInv
<1>1. TypeOK'
  BY TypeStep DEF Next
<1>2. UNCHANGED <<wk, coView>>
  BY DEF CreateVolume, Cloud, CloudAttachDone, CloudDetachDone, CloudError
<1>3. OpPc' /\ NonIdleLive' /\ OnePerVolume'
  BY <1>2 DEF OpPc, NonIdleLive, OnePerVolume
<1>4. \A x \in Volumes : WaitingAttach(x)' <=> WaitingAttach(x)
  BY <1>2 DEF WaitingAttach
<1>5. CASE CreateVolume(v)
  <2>1. NoServerUnlessAttached' /\ DetachWaitClean'
    BY <1>5 DEF CreateVolume, NoServerUnlessAttached, DetachWaitClean, TypeOK, Request
  <2>2. NoLeakStrong'
    BY <1>2, <1>4, <1>5 DEF CreateVolume, NoLeakStrong, HeldBy, TypeOK
  <2>3. QED
    BY <1>1, <1>3, <2>1, <2>2
<1>6. CASE CloudAttachDone(v)
  <2>1. NoServerUnlessAttached'
    BY <1>6 DEF CloudAttachDone, NoServerUnlessAttached, TypeOK
  <2>2. DetachWaitClean'
    BY <1>2, <1>6 DEF CloudAttachDone, DetachWaitClean, TypeOK, Request
  <2>3. NoLeakStrong'
    BY <1>2, <1>4, <1>6 DEF CloudAttachDone, NoLeakStrong, HeldBy, TypeOK
  <2>4. QED
    BY <1>1, <1>3, <2>1, <2>2, <2>3
<1>7. CASE CloudDetachDone(v)
  <2>1. NoServerUnlessAttached'
    BY <1>7 DEF CloudDetachDone, NoServerUnlessAttached, TypeOK
  <2>2. DetachWaitClean'
    BY <1>2, <1>7 DEF CloudDetachDone, DetachWaitClean, TypeOK, Request
  <2>3. NoLeakStrong'
    BY <1>2, <1>4, <1>7 DEF CloudDetachDone, NoLeakStrong, HeldBy, TypeOK
  <2>4. QED
    BY <1>1, <1>3, <2>1, <2>2, <2>3
<1>8. CASE CloudError(v)
  <2>1. NoServerUnlessAttached'
    BY <1>8 DEF CloudError, NoServerUnlessAttached, TypeOK
  <2>2. DetachWaitClean'
    BY <1>2, <1>8 DEF CloudError, DetachWaitClean, TypeOK, Request
  <2>3. NoLeakStrong'
    BY <1>2, <1>4, <1>8 DEF CloudError, NoLeakStrong, HeldBy, TypeOK
  <2>4. QED
    BY <1>1, <1>3, <2>1, <2>2, <2>3
<1>9. QED
  BY <1>3, <1>1, <1>5, <1>6, <1>7, <1>8 DEF Cloud

\* A worker step that leaves Cinder alone keeps NoLeakStrong when no volume
\* becomes "detached" in the CO's view and a volume stops being waited on
\* only as the CO learns it is attached.
LEMMA QuietNoLeak ==
    ASSUME IInv, UNCHANGED cloudVars,
           \A x \in Volumes : coView'[x] = NoServer => coView[x] = NoServer,
           \A x \in Volumes : WaitingAttach(x) /\ ~WaitingAttach(x)' =>
                                coView'[x] # NoServer
    PROVE  NoLeakStrong'
BY DEF IInv, NoLeakStrong, HeldBy, cloudVars

\* AttachVolume's GetVolume and checks.
LEMMA AttachVolumeGetInv ==
    ASSUME IInv, NEW w \in Workers, AttachVolumeGet(w) PROVE IInv'
<1> USE DEF IInv
<1> DEFINE v == wk[w].vol
<1>1. TypeOK'
  BY TypeStep DEF Next, WorkerStep
<1>2. UNCHANGED cloudVars /\ wk[w].pc = "att_get"
  BY DEF AttachVolumeGet
<1>3. \/ \E r \in Results : Finish(w, r)
      \/ Goto(w, "wait_att") /\ UNCHANGED coView
      \/ Goto(w, "att_create") /\ UNCHANGED coView
  BY DEF AttachVolumeGet, ApiFail, Results
<1>4. /\ \A u \in Workers \ {w} : wk'[u] = wk[u]
      /\ wk'[w].vol = v
      /\ OpPc' /\ NonIdleLive' /\ OnePerVolume'
  BY <1>2, <1>3, WorkerMoveInv DEF PcOp, Pcs
<1>5. wk[w].op = "publish" /\ wk[w].live
  BY <1>2 DEF OpPc, PcOp, NonIdleLive
<1>6. wk'[w].pc \in {"idle", "wait_att", "att_create"}
  BY <1>3, FinishEffect, GotoEffect
<1>7. DetachWaitClean'
  BY <1>2, <1>4, <1>6 DEF DetachWaitClean, cloudVars
<1>8. \A x \in Volumes : coView'[x] = NoServer => coView[x] = NoServer
  BY <1>3, <1>5, FinishCo
<1>9. \A x \in Volumes : WaitingAttach(x) /\ ~WaitingAttach(x)' => coView'[x] # NoServer
  BY <1>2, <1>4 DEF WaitingAttach
<1>10. QED
  BY <1>1, <1>2, <1>4, <1>7, <1>8, <1>9, QuietNoLeak
     DEF NoServerUnlessAttached, cloudVars

\* AttachVolume's volumeattach.Create.
LEMMA AttachVolumeCreateInv ==
    ASSUME IInv, NEW w \in Workers, AttachVolumeCreate(w) PROVE IInv'
<1> USE DEF IInv
<1> DEFINE i == wk[w].inst  v == wk[w].vol
<1>1. TypeOK'
  BY TypeStep DEF Next, WorkerStep
<1>2. UNCHANGED server /\ wk[w].pc = "att_create"
  BY DEF AttachVolumeCreate
<1>3. \/ \E r \in Results : Finish(w, r)
      \/ Goto(w, "wait_att") /\ UNCHANGED coView
  BY DEF AttachVolumeCreate, ApiFail, Results
<1>4. /\ \A u \in Workers \ {w} : wk'[u] = wk[u]
      /\ wk'[w].vol = v
      /\ OpPc' /\ NonIdleLive' /\ OnePerVolume'
  BY <1>2, <1>3, WorkerMoveInv DEF PcOp, Pcs
<1>5. wk[w].op = "publish" /\ wk[w].live
  BY <1>2 DEF OpPc, PcOp, NonIdleLive
<1>6. wk'[w].pc \in {"idle", "wait_att"}
  BY <1>3, FinishEffect, GotoEffect
<1>7. \A x \in Volumes : coView'[x] = NoServer => coView[x] = NoServer
  BY <1>3, <1>5, FinishCo
<1>8. \A u \in Workers \ {w} : wk[u].pc # "idle" => wk[u].vol # v
  BY <1>2 DEF OnePerVolume
<1>9. CASE /\ status[v] = "available"
           /\ status' = [status EXCEPT ![v] = "attaching"]
           /\ pending' = [pending EXCEPT ![v] = i]
  <2>1. NoServerUnlessAttached'
    BY <1>2, <1>9 DEF NoServerUnlessAttached, TypeOK
  <2>2. DetachWaitClean'
    BY <1>2, <1>4, <1>6, <1>8, <1>9 DEF DetachWaitClean, TypeOK, Request
  <2>3. NoLeakStrong'
    <3>1. SUFFICES ASSUME NEW x \in Volumes, coView'[x] = NoServer, ~WaitingAttach(x)'
                   PROVE  \A j \in Instances : ~HeldBy(x, j)'
      BY DEF NoLeakStrong
    <3>2. CASE x = v
      <4>1. wk'[w].pc = "idle"
        BY <3>1, <3>2, <1>4, <1>6 DEF WaitingAttach
      <4>2. coView'[v] # NoServer
        BY <4>1, <1>3, <1>5, GotoEffect, FinishCo
      <4>3. QED
        BY <4>2, <3>1, <3>2
    <3>3. CASE x # v
      <4>1. ~WaitingAttach(x)
        BY <3>1, <1>2, <1>4 DEF WaitingAttach
      <4>2. QED
        BY <3>1, <3>3, <4>1, <1>2, <1>7, <1>9 DEF NoLeakStrong, HeldBy, TypeOK
    <3>4. QED
      BY <3>2, <3>3
  <2>4. QED
    BY <1>1, <1>4, <2>1, <2>2, <2>3
<1>10. CASE UNCHANGED <<status, pending>>
  <2>1. DetachWaitClean'
    BY <1>2, <1>4, <1>6, <1>10 DEF DetachWaitClean
  <2>2. \A x \in Volumes : WaitingAttach(x) /\ ~WaitingAttach(x)' => coView'[x] # NoServer
    BY <1>2, <1>4 DEF WaitingAttach
  <2>3. QED
    BY <1>1, <1>2, <1>4, <1>7, <1>10, <2>1, <2>2, QuietNoLeak
       DEF NoServerUnlessAttached, cloudVars
<1>11. QED
  BY <1>9, <1>10 DEF AttachVolumeCreate

\* One poll of WaitDiskAttached.
LEMMA WaitDiskAttachedInv ==
    ASSUME IInv, NEW w \in Workers, WaitDiskAttached(w) PROVE IInv'
<1> USE DEF IInv
<1> DEFINE v == wk[w].vol
<1>1. TypeOK'
  BY TypeStep DEF Next, WorkerStep
<1>2. UNCHANGED cloudVars /\ wk[w].pc = "wait_att"
  BY DEF WaitDiskAttached
<1>3. \/ \E r \in Results : Finish(w, r)
      \/ \E n \in 0..MaxSteps : wk' = [wk EXCEPT ![w].polls = n] /\ UNCHANGED coView
  <2>1. wk[w].polls \in 0..MaxSteps
    BY DEF TypeOK, Request
  <2>2. QED
    BY <2>1, MaxStepsFact DEF WaitDiskAttached, ApiFail, Results
<1>4. /\ \A u \in Workers \ {w} : wk'[u] = wk[u]
      /\ wk'[w].vol = v
      /\ OpPc' /\ NonIdleLive' /\ OnePerVolume'
  BY <1>2, <1>3, WorkerMoveInv
<1>5. wk[w].op = "publish" /\ wk[w].live
  BY <1>2 DEF OpPc, PcOp, NonIdleLive
<1>6. wk'[w].pc \in {"idle", "wait_att"}
  BY <1>2, <1>3, FinishEffect, PollEffect
<1>7. DetachWaitClean'
  BY <1>2, <1>4, <1>6 DEF DetachWaitClean, cloudVars
<1>8. \A x \in Volumes : coView'[x] = NoServer => coView[x] = NoServer
  BY <1>3, <1>5, FinishCo
<1>9. \A x \in Volumes : WaitingAttach(x) /\ ~WaitingAttach(x)' => coView'[x] # NoServer
  <2>1. CASE \E r \in Results : Finish(w, r)
    BY <2>1, <1>4, <1>5, FinishCo DEF WaitingAttach
  <2>2. CASE \E n \in 0..MaxSteps : wk' = [wk EXCEPT ![w].polls = n] /\ UNCHANGED coView
    BY <2>2, <1>2, <1>4, PollEffect DEF WaitingAttach
  <2>3. QED
    BY <1>3, <2>1, <2>2
<1>10. QED
  BY <1>1, <1>2, <1>4, <1>7, <1>8, <1>9, QuietNoLeak
     DEF NoServerUnlessAttached, cloudVars

\* DetachVolume's GetVolume and checks.
LEMMA DetachVolumeGetInv ==
    ASSUME IInv, NEW w \in Workers, DetachVolumeGet(w) PROVE IInv'
<1> USE DEF IInv
<1> DEFINE v == wk[w].vol
<1>1. TypeOK'
  BY TypeStep DEF Next, WorkerStep
<1>2. UNCHANGED cloudVars /\ wk[w].pc = "det_get"
  BY DEF DetachVolumeGet
<1>3. \/ \E r \in Results \ {"Ok"} : Finish(w, r)
      \/ status[v] = "available" /\ Goto(w, "wait_det") /\ UNCHANGED coView
      \/ Goto(w, "det_delete") /\ UNCHANGED coView
  BY DEF DetachVolumeGet, ApiFail, Results
<1>4. /\ \A u \in Workers \ {w} : wk'[u] = wk[u]
      /\ wk'[w].vol = v /\ wk'[w].inst = wk[w].inst
      /\ OpPc' /\ NonIdleLive' /\ OnePerVolume'
  BY <1>2, <1>3, WorkerMoveInv DEF PcOp, Pcs
<1>5. wk[w].op = "unpublish" /\ wk[w].live
  BY <1>2 DEF OpPc, PcOp, NonIdleLive
<1>6. wk'[w].pc = "wait_det" => status[v] = "available"
  BY <1>3, FinishEffect, GotoEffect
<1>7. DetachWaitClean'
  <2>1. wk'[w].pc = "wait_det" =>
          status'[v] # "attaching" /\ server'[v] \in {wk'[w].inst, NoServer}
    <3>1. v \in Volumes
      BY DEF TypeOK, Request
    <3>2. QED
      BY <3>1, <1>2, <1>4, <1>6 DEF NoServerUnlessAttached, cloudVars
  <2>2. QED
    BY <2>1, <1>2, <1>4 DEF DetachWaitClean, cloudVars
<1>8. \A x \in Volumes : coView'[x] = NoServer => coView[x] = NoServer
  BY <1>3, <1>5, FinishCo
<1>9. \A x \in Volumes : WaitingAttach(x) /\ ~WaitingAttach(x)' => coView'[x] # NoServer
  BY <1>2, <1>4 DEF WaitingAttach
<1>10. QED
  BY <1>1, <1>2, <1>4, <1>7, <1>8, <1>9, QuietNoLeak
     DEF NoServerUnlessAttached, cloudVars

\* DetachVolume's volumeattach.Delete.
LEMMA DetachVolumeDeleteInv ==
    ASSUME IInv, NEW w \in Workers, DetachVolumeDelete(w) PROVE IInv'
<1> USE DEF IInv
<1> DEFINE i == wk[w].inst  v == wk[w].vol
<1>1. TypeOK'
  BY TypeStep DEF Next, WorkerStep
<1>2. UNCHANGED <<server, pending>> /\ wk[w].pc = "det_delete"
  BY DEF DetachVolumeDelete
<1>3. \/ \E r \in Results \ {"Ok"} : Finish(w, r)
      \/ Goto(w, "wait_det") /\ UNCHANGED coView
  BY DEF DetachVolumeDelete, ApiFail, Results
<1>4. /\ \A u \in Workers \ {w} : wk'[u] = wk[u]
      /\ wk'[w].vol = v /\ wk'[w].inst = i
      /\ OpPc' /\ NonIdleLive' /\ OnePerVolume'
  BY <1>2, <1>3, WorkerMoveInv DEF PcOp, Pcs
<1>5. wk[w].op = "unpublish" /\ wk[w].live
  BY <1>2 DEF OpPc, PcOp, NonIdleLive
<1>6. \/ status[v] = "in-use" /\ server[v] = i
         /\ status' = [status EXCEPT ![v] = "detaching"]
      \/ UNCHANGED status /\ wk'[w].pc = "idle"
  BY <1>3, FinishEffect DEF DetachVolumeDelete, ApiFail
<1>7. v \in Volumes /\ i \in Instances
  BY DEF TypeOK, Request
<1>8. \A x \in Volumes : status'[x] = "attaching" <=> status[x] = "attaching"
  BY <1>6, <1>7 DEF TypeOK
<1>9. NoServerUnlessAttached'
  BY <1>2, <1>6, <1>7 DEF NoServerUnlessAttached, TypeOK
<1>10. DetachWaitClean'
  <2>1. wk'[w].pc = "wait_det" =>
          status'[v] # "attaching" /\ server'[v] \in {wk'[w].inst, NoServer}
    BY <1>2, <1>3, <1>4, <1>6, <1>7, FinishEffect DEF TypeOK
  <2>2. \A u \in Workers \ {w} : wk[u].vol \in Volumes
    BY DEF TypeOK, Request
  <2>3. QED
    BY <2>1, <2>2, <1>2, <1>4, <1>8 DEF DetachWaitClean
<1>11. NoLeakStrong'
  <2>1. \A x \in Volumes : coView'[x] = NoServer => coView[x] = NoServer
    BY <1>3, <1>5, FinishCo
  <2>2. \A x \in Volumes : ~WaitingAttach(x)' => ~WaitingAttach(x)
    BY <1>2, <1>4 DEF WaitingAttach
  <2>3. \A x \in Volumes, j \in Instances : HeldBy(x, j)' <=> HeldBy(x, j)
    BY <1>2, <1>8 DEF HeldBy
  <2>4. QED
    BY <2>1, <2>2, <2>3 DEF NoLeakStrong
<1>12. QED
  BY <1>1, <1>4, <1>9, <1>10, <1>11

\* One poll of WaitDiskDetached.
LEMMA WaitDiskDetachedInv ==
    ASSUME IInv, NEW w \in Workers, WaitDiskDetached(w) PROVE IInv'
<1> USE DEF IInv
<1> DEFINE i == wk[w].inst  v == wk[w].vol
<1>1. TypeOK'
  BY TypeStep DEF Next, WorkerStep
<1>2. UNCHANGED cloudVars /\ wk[w].pc = "wait_det"
  BY DEF WaitDiskDetached
<1>3. \/ \E r \in Results \ {"Ok"} : Finish(w, r)
      \/ Exists(v) /\ ~diskIsAttached(i, v) /\ Finish(w, "Ok")
      \/ \E n \in 0..MaxSteps : wk' = [wk EXCEPT ![w].polls = n] /\ UNCHANGED coView
  <2>1. wk[w].polls \in 0..MaxSteps
    BY DEF TypeOK, Request
  <2>2. QED
    BY <2>1, MaxStepsFact DEF WaitDiskDetached, ApiFail, Results
<1>4. /\ \A u \in Workers \ {w} : wk'[u] = wk[u]
      /\ wk'[w].vol = v /\ wk'[w].inst = i
      /\ OpPc' /\ NonIdleLive' /\ OnePerVolume'
  BY <1>2, <1>3, WorkerMoveInv DEF Results
<1>5. wk[w].op = "unpublish" /\ wk[w].live
  BY <1>2 DEF OpPc, PcOp, NonIdleLive
<1>6. DetachWaitClean'
  <2>1. wk'[w].pc = "wait_det" =>
          status'[v] # "attaching" /\ server'[v] \in {wk'[w].inst, NoServer}
    BY <1>2, <1>4 DEF DetachWaitClean, cloudVars
  <2>2. QED
    BY <2>1, <1>2, <1>4 DEF DetachWaitClean, cloudVars
<1>7. \A x \in Volumes : ~WaitingAttach(x)' => ~WaitingAttach(x)
  BY <1>2, <1>4 DEF WaitingAttach
<1>8. NoLeakStrong'
  <2>1. SUFFICES ASSUME NEW x \in Volumes, coView'[x] = NoServer, ~WaitingAttach(x)'
                 PROVE  \A j \in Instances : ~HeldBy(x, j)'
    BY DEF NoLeakStrong
  <2>2. CASE coView[x] = NoServer
    BY <2>1, <2>2, <1>2, <1>7 DEF NoLeakStrong, HeldBy, cloudVars
  <2>3. CASE coView[x] # NoServer
    <3>1. x = v /\ Exists(v) /\ ~diskIsAttached(i, v)
      BY <2>1, <2>3, <1>3, <1>5, FinishCo
    <3>2. status[v] # "attaching" /\ server[v] = NoServer
      BY <3>1, <1>2 DEF DetachWaitClean, diskIsAttached
    <3>3. QED
      BY <3>1, <3>2, <1>2 DEF HeldBy, cloudVars
  <2>4. QED
    BY <2>2, <2>3
<1>9. QED
  BY <1>1, <1>2, <1>4, <1>6, <1>8 DEF NoServerUnlessAttached, cloudVars

\* DeleteVolume's diskIsUsed check.
LEMMA DeleteVolumeCheckInv ==
    ASSUME IInv, NEW w \in Workers, DeleteVolumeCheck(w) PROVE IInv'
<1> USE DEF IInv
<1>1. TypeOK'
  BY TypeStep DEF Next, WorkerStep
<1>2. UNCHANGED cloudVars /\ wk[w].pc = "del_get"
  BY DEF DeleteVolumeCheck
<1>3. \/ \E r \in Results : Finish(w, r)
      \/ Goto(w, "del_delete") /\ UNCHANGED coView
  BY DEF DeleteVolumeCheck, diskIsUsed, ApiFail, Results
<1>4. /\ \A u \in Workers \ {w} : wk'[u] = wk[u]
      /\ OpPc' /\ NonIdleLive' /\ OnePerVolume'
  BY <1>2, <1>3, WorkerMoveInv DEF PcOp, Pcs
<1>5. wk[w].op = "delete" /\ wk[w].live
  BY <1>2 DEF OpPc, PcOp, NonIdleLive
<1>6. UNCHANGED coView /\ wk'[w].pc \in {"idle", "del_delete"}
  BY <1>3, <1>5, FinishCo, FinishEffect, GotoEffect
<1>7. DetachWaitClean'
  BY <1>2, <1>4, <1>6 DEF DetachWaitClean, cloudVars
<1>8. \A x \in Volumes : WaitingAttach(x) /\ ~WaitingAttach(x)' => coView'[x] # NoServer
  BY <1>2, <1>4 DEF WaitingAttach
<1>9. QED
  BY <1>1, <1>2, <1>4, <1>6, <1>7, <1>8, QuietNoLeak
     DEF NoServerUnlessAttached, cloudVars

\* DeleteVolume's volumes.Delete.
LEMMA DeleteVolumeDeleteInv ==
    ASSUME IInv, NEW w \in Workers, DeleteVolumeDelete(w) PROVE IInv'
<1> USE DEF IInv
<1> DEFINE v == wk[w].vol
<1>1. TypeOK'
  BY TypeStep DEF Next, WorkerStep
<1>2. UNCHANGED <<server, pending>> /\ wk[w].pc = "del_delete"
  BY DEF DeleteVolumeDelete
<1>3. \E r \in Results : Finish(w, r)
  BY DEF DeleteVolumeDelete, ApiFail, Results
<1>4. /\ \A u \in Workers \ {w} : wk'[u] = wk[u]
      /\ OpPc' /\ NonIdleLive' /\ OnePerVolume'
  BY <1>2, <1>3, WorkerMoveInv
<1>5. wk[w].op = "delete" /\ wk[w].live
  BY <1>2 DEF OpPc, PcOp, NonIdleLive
<1>6. UNCHANGED coView /\ wk'[w].pc = "idle"
  BY <1>3, <1>5, FinishCo, FinishEffect
<1>7. v \in Volumes
  BY DEF TypeOK, Request
<1>8. \/ status[v] \in {"available", "error"} /\ server[v] = NoServer
         /\ status' = [status EXCEPT ![v] = "deleted"]
      \/ UNCHANGED status
  BY DEF DeleteVolumeDelete, ApiFail
<1>9. \A x \in Volumes :
        /\ status'[x] = "attaching" => status[x] = "attaching"
        /\ status'[x] \in {"absent", "deleted", "available", "attaching"} =>
             \/ status[x] \in {"absent", "deleted", "available", "attaching"}
             \/ server[x] = NoServer
  BY <1>7, <1>8 DEF TypeOK
<1>10. NoServerUnlessAttached'
  BY <1>2, <1>9 DEF NoServerUnlessAttached
<1>11. DetachWaitClean'
  <2>1. \A u \in Workers \ {w} : wk[u].vol \in Volumes
    BY DEF TypeOK, Request
  <2>2. QED
    BY <2>1, <1>2, <1>4, <1>6, <1>9 DEF DetachWaitClean
<1>12. NoLeakStrong'
  <2>1. \A x \in Volumes : ~WaitingAttach(x)' => ~WaitingAttach(x)
    BY <1>2, <1>4 DEF WaitingAttach
  <2>2. \A x \in Volumes, j \in Instances : HeldBy(x, j)' => HeldBy(x, j)
    BY <1>2, <1>9 DEF HeldBy
  <2>3. QED
    BY <1>6, <2>1, <2>2 DEF NoLeakStrong
<1>13. QED
  BY <1>1, <1>4, <1>10, <1>11, <1>12

-----------------------------------------------------------------------------
\* IInv holds initially.
LEMMA InitIInv == Init => IInv
<1> SUFFICES ASSUME Init PROVE IInv
  OBVIOUS
<1>1. TypeOK
  BY InitType
<1>2. QED
  BY <1>1 DEF Init, IInv, OpPc, NonIdleLive, OnePerVolume, NoServerUnlessAttached,
     DetachWaitClean, NoLeakStrong, HeldBy

\* IInv is preserved by every step of a CO that never abandons a request.
LEMMA NextIInv == ~CoTimeouts /\ IInv /\ [Next]_vars => IInv'
<1> SUFFICES ASSUME ~CoTimeouts, IInv, [Next]_vars PROVE IInv'
  OBVIOUS
<1>1. ASSUME NEW w \in Workers, StartRequest(w) \/ CoTimeout(w) \/ WorkerStep(w)
      PROVE  IInv'
  BY <1>1, StartRequestInv, AttachVolumeGetInv, AttachVolumeCreateInv,
     WaitDiskAttachedInv, DetachVolumeGetInv, DetachVolumeDeleteInv,
     WaitDiskDetachedInv, DeleteVolumeCheckInv, DeleteVolumeDeleteInv
     DEF CoTimeout, WorkerStep
<1>2. ASSUME NEW v \in Volumes, CreateVolume(v) \/ Cloud(v) PROVE IInv'
  BY <1>2, CloudInv
<1>3. CASE UNCHANGED vars
  BY <1>3 DEF vars, IInv, TypeOK, OpPc, NonIdleLive, OnePerVolume,
     NoServerUnlessAttached, DetachWaitClean, NoLeakStrong, WaitingAttach, HeldBy
<1>4. QED
  BY <1>1, <1>2, <1>3 DEF Next

\* IInv is stronger than NoLeakedAttachment: a publish waiting in
\* WaitDiskAttached is a request the CO still awaits.
LEMMA IInvNoLeak == IInv => NoLeakedAttachment
BY DEF IInv, NoLeakedAttachment, NoLeakStrong, WaitingAttach, Busy, NonIdleLive

\* No leaked attachment (DetachVolume, WaitDiskDetached, AttachVolume): when
\* the CO never gives up on a request, a volume whose last reported state is
\* "detached" and that no request is working on is neither attached nor being
\* attached to any instance.
THEOREM NoLeak == ~CoTimeouts => (Spec => []NoLeakedAttachment)
<1> SUFFICES ASSUME ~CoTimeouts PROVE Spec => []NoLeakedAttachment
  OBVIOUS
<1>1. Init => IInv
  BY InitIInv
<1>2. IInv /\ [Next]_vars => IInv'
  BY NextIInv
<1>3. IInv => NoLeakedAttachment
  BY IInvNoLeak
<1>4. QED
  BY <1>1, <1>2, <1>3, PTL DEF Spec
=============================================================================
