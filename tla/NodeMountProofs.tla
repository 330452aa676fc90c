--------------------------- MODULE NodeMountProofs ---------------------------
(***************************************************************************)
(* Proof that, with a CO that keeps the CSI call order and waits for every *)
(* node request, the node plugin never leaves the volume's device mounted *)
(* after ControllerUnpublish and never shows a workload the root           *)
(* filesystem, for any number of targets and scan ticks, with lost       *)
(* replies and failing OS calls.  Such a CO has one node request running  *)
(* at a time (OneActive), so the requests are serial and the number of    *)
(* workers adds nothing.                                                   *)
(***************************************************************************)
EXTENDS NodeMount, SequenceTheorems, TLAPS

\* The CO keeps the call order and never gives up on a request.
Hyp == Obedient /\ ~CoTimeouts

Active(w) == wk[w].pc # "idle"

\* The positions of each handler.
StPcs == {"st_scan", "st_check", "st_mount"}
PbPcs == {"pb_check", "pb_mount"}
UpPcs == {"up_check", "up_unmount"}
UsPcs == {"us_check", "us_unmount"}

\* Without CO deadlines a running request is awaited, and the CO's
\* one-at-a-time rule leaves at most one request running.
LiveIfActive == \A w \in Workers : Active(w) => wk[w].live
OneActive == \A w1, w2 \in Workers : Active(w1) /\ Active(w2) => w1 = w2

\* The position of a worker belongs to its operation and path.
OpPc ==
    \A w \in Workers :
        /\ wk[w].pc \in StPcs => wk[w].op = "stage" /\ wk[w].path = StagingPath
        /\ wk[w].pc \in PbPcs => wk[w].op = "publish" /\ wk[w].path \in Targets
        /\ wk[w].pc \in UpPcs => wk[w].op = "unpublish" /\ wk[w].path \in Targets
        /\ wk[w].pc \in UsPcs => wk[w].op = "unstage" /\ wk[w].path = StagingPath

\* Every mount on every path is the device: binds are taken only of a
\* staged staging path.
AllDev(sq) == \A k \in 1..Len(sq) : sq[k] = "dev"
MountsAreDev == \A p \in Paths : AllDev(mnt[p])

\* A path carrying a mount has its directory.
DirHolds == \A p \in Paths : mnt[p] # <<>> => dir[p]

\* What the CO believes mounted is mounted; what it believes clean is clean.
YesStaged == coView[StagingPath] = "yes" => mnt[StagingPath] # <<>>
NoClean == \A p \in Paths : coView[p] = "no" => mnt[p] = <<>>

\* The CO holds the volume unstaged only when it holds every target clean.
UnstagedAllClean == coView[StagingPath] = "no" => \A t \in Targets : coView[t] = "no"

\* What a running request relies on from the CO's order.
RunningOrder ==
    \A w \in Workers :
        /\ wk[w].pc \in PbPcs => coView[StagingPath] = "yes"
        /\ wk[w].pc \in UpPcs => coView[StagingPath] # "no"
        /\ wk[w].pc \in UsPcs => \A t \in Targets : coView[t] = "no"
        /\ wk[w].pc \in StPcs => attached

\* udev shows the device node of an attached volume only.
DevAttached == devPresent => attached

\* Nothing is mounted while the volume is detached.
DetachedClean == ~attached => \A p \in Paths : mnt[p] = <<>>

IInv ==
    /\ TypeOK /\ LiveIfActive /\ OneActive /\ OpPc
    /\ MountsAreDev /\ DirHolds /\ YesStaged /\ NoClean
    /\ UnstagedAllClean /\ RunningOrder /\ DevAttached /\ DetachedClean

-----------------------------------------------------------------------------
(* Mount stacks of the device only.                                        *)

LEMMA TopDev ==
    ASSUME NEW sq \in Seq(Sources), AllDev(sq), sq # <<>>
    PROVE  Len(sq) \in 1..Len(sq) /\ sq[Len(sq)] = "dev"
<1>1. Len(sq) \in Nat \ {0}
  BY EmptySeq
<1>2. QED
  BY <1>1 DEF AllDev

LEMMA AppendDev ==
    ASSUME NEW sq \in Seq(Sources), AllDev(sq)
    PROVE  /\ Append(sq, "dev") \in Seq(Sources)
           /\ Append(sq, "dev") # <<>>
           /\ AllDev(Append(sq, "dev"))
<1>1. "dev" \in Sources
  BY DEF Sources
<1>2. QED
  BY <1>1, AppendProperties DEF AllDev

LEMMA PopDev ==
    ASSUME NEW sq \in Seq(Sources), AllDev(sq), sq # <<>>
    PROVE  /\ SubSeq(sq, 1, Len(sq) - 1) \in Seq(Sources)
           /\ AllDev(SubSeq(sq, 1, Len(sq) - 1))
<1>1. Len(sq) \in Nat \ {0}
  BY EmptySeq
<1>2. \A i \in 1..Len(sq) - 1 : sq[i] \in Sources
  BY <1>1, ElementOfSeq
<1>3. Len(sq) - 1 \in Int /\ 1 \in Int
  BY <1>1
<1>4. /\ SubSeq(sq, 1, Len(sq) - 1) \in Seq(Sources)
      /\ Len(SubSeq(sq, 1, Len(sq) - 1)) = IF 1 <= Len(sq) - 1 THEN Len(sq) - 1 ELSE 0
      /\ \A i \in 1..Len(sq) - 1 - 1 + 1 :
            SubSeq(sq, 1, Len(sq) - 1)[i] = sq[1 + i - 1]
  <2>1. \A i \in 1..Len(sq) - 1 : sq[i] \in Sources
    BY <1>2
  <2>2. QED
    BY <2>1, <1>3, SubSeqProperties
<1>5. /\ SubSeq(sq, 1, Len(sq) - 1) \in Seq(Sources)
      /\ \A i \in 1..Len(sq) - 1 : SubSeq(sq, 1, Len(sq) - 1)[i] = sq[i]
  BY <1>1, <1>4
<1>6. QED
  BY <1>1, <1>5 DEF AllDev

\* On a stack of device mounts the helpers' mount-point test is emptiness.
LEMMA MountPointIff ==
    ASSUME TypeOK, MountsAreDev, NEW p \in Paths
    PROVE  IsLikelyMountPoint(p) <=> mnt[p] # <<>>
BY TopDev DEF TypeOK, MountsAreDev, IsLikelyMountPoint, Top

LEMMA BindIsDev ==
    ASSUME TypeOK, MountsAreDev, mnt[StagingPath] # <<>>
    PROVE  BindSource = "dev"
<1>1. StagingPath \in Paths
  BY DEF Paths
<1>2. QED
  BY <1>1, TopDev DEF TypeOK, MountsAreDev, BindSource, Top

-----------------------------------------------------------------------------
(* The two ways a worker step ends: the request finishes, or it moves on  *)
(* within its handler.                                                     *)

LEMMA ActivePcs ==
    ASSUME TypeOK, NEW w \in Workers, Active(w)
    PROVE  wk[w].pc \in StPcs \cup PbPcs \cup UpPcs \cup UsPcs
BY DEF TypeOK, Request, Pcs, Active, StPcs, PbPcs, UpPcs, UsPcs

LEMMA FinishView ==
    ASSUME TypeOK, NEW w \in Workers, wk[w].live, NEW r, Finish(w, r)
    PROVE  /\ wk' = [wk EXCEPT ![w].pc = "idle", ![w].live = FALSE, ![w].res = r]
           /\ \E x \in {CoRecord(wk[w].op, r), "unknown"} :
                 coView' = [coView EXCEPT ![wk[w].path] = x]
BY DEF Finish

\* A request that finishes leaves every worker idle and records its result;
\* the mount table may change as the caller says.
LEMMA FinishIInv ==
    ASSUME IInv, NEW w \in Workers, Active(w), NEW r \in Results, Finish(w, r),
           mnt' \in [Paths -> Seq(Sources)], dir' \in [Paths -> BOOLEAN],
           \A p \in Paths \ {wk[w].path} : mnt'[p] = mnt[p],
           CoRecord(wk[w].op, r) = "no" => mnt'[wk[w].path] = <<>>,
           CoRecord(wk[w].op, r) = "yes" => mnt'[wk[w].path] # <<>>,
           MountsAreDev', DirHolds', DetachedClean',
           attached' = attached, devPresent' = devPresent
    PROVE  IInv'
<1> DEFINE q == wk[w]
<1> USE DEF IInv
<1>1. q.live /\ q.path \in Paths /\ q.op \in Ops
  BY DEF LiveIfActive, TypeOK, Request
<1>2. PICK x \in {CoRecord(q.op, r), "unknown"} :
          coView' = [coView EXCEPT ![q.path] = x]
  BY <1>1, FinishView
<1>3. wk' = [wk EXCEPT ![w].pc = "idle", ![w].live = FALSE, ![w].res = r]
  BY <1>1, FinishView
<1>4. \A v \in Workers : wk'[v].pc = "idle" /\ wk'[v] \in Request
  <2>1. \A v \in Workers \ {w} : ~Active(v)
    BY DEF OneActive
  <2>2. wk[w] \in Request
    BY DEF TypeOK
  <2>3. wk'[w] = [wk[w] EXCEPT !.pc = "idle", !.live = FALSE, !.res = r]
    BY <1>3 DEF TypeOK
  <2>4. wk'[w].pc = "idle" /\ wk'[w] \in Request
    BY <2>2, <2>3 DEF Request, Pcs
  <2>5. \A v \in Workers \ {w} : wk'[v] = wk[v]
    BY <1>3 DEF TypeOK
  <2>6. QED
    BY <2>1, <2>4, <2>5 DEF TypeOK, Active
<1>5. x \in Views
  BY DEF CoRecord, Views
<1>6. TypeOK'
  BY <1>1, <1>2, <1>3, <1>4, <1>5 DEF TypeOK
<1>7. (LiveIfActive /\ OneActive /\ OpPc /\ RunningOrder)'
  BY <1>4 DEF LiveIfActive, OneActive, OpPc, RunningOrder, Active,
              StPcs, PbPcs, UpPcs, UsPcs
<1>8. x = "no" => mnt'[q.path] = <<>>
  BY <1>2
<1>9. x = "yes" => mnt'[q.path] # <<>>
  BY <1>2
<1>10. NoClean'
  BY <1>1, <1>2, <1>8 DEF NoClean, TypeOK
<1>11. YesStaged'
  <2>1. StagingPath \in Paths
    BY DEF Paths
  <2>2. QED
    BY <1>1, <1>2, <1>9, <2>1 DEF YesStaged, TypeOK
<1>12. UnstagedAllClean'
  <2> SUFFICES ASSUME coView'[StagingPath] = "no"
               PROVE  \A t \in Targets : coView'[t] = "no"
    BY DEF UnstagedAllClean
  <2>1. StagingPath \in Paths /\ StagingPath \notin Targets /\ Targets \subseteq Paths
    BY PathsAssumption DEF Paths
  <2>2. q.pc \in StPcs \cup PbPcs \cup UpPcs \cup UsPcs
    BY ActivePcs
  <2>3. CASE q.path = StagingPath
    <3>1. x = "no"
      BY <1>1, <1>2, <2>1, <2>3 DEF TypeOK
    <3>2. q.pc \in UsPcs
      <4>1. q.pc \notin PbPcs \cup UpPcs
        BY <2>1, <2>3 DEF OpPc
      <4>2. q.pc \notin StPcs
        BY <1>2, <3>1 DEF OpPc, CoRecord
      <4>3. QED
        BY <2>2, <4>1, <4>2
    <3>3. QED
      BY <1>2, <2>1, <2>3, <3>2 DEF RunningOrder, TypeOK
  <2>4. CASE q.path # StagingPath
    <3>1. coView[StagingPath] = "no"
      BY <1>2, <2>1, <2>4 DEF TypeOK
    <3>2. q.pc \in UsPcs
      <4>1. q.pc \notin PbPcs \cup UpPcs
        BY <3>1 DEF RunningOrder
      <4>2. q.pc \notin StPcs
        BY <2>4 DEF OpPc
      <4>3. QED
        BY <2>2, <4>1, <4>2
    <3>3. FALSE
      BY <2>4, <3>2 DEF OpPc
    <3>4. QED
      BY <3>3
  <2>5. QED
    BY <2>3, <2>4
<1>13. DevAttached'
  BY DEF DevAttached
<1>14. QED
  BY <1>6, <1>7, <1>10, <1>11, <1>12, <1>13

LEMMA GotoRecord ==
    ASSUME wk \in [Workers -> Request], NEW w \in Workers, NEW pc \in Pcs,
           NEW n \in 0..ScanSteps, wk' = [wk EXCEPT ![w].pc = pc, ![w].polls = n]
    PROVE  /\ wk'[w].pc = pc /\ wk'[w].op = wk[w].op /\ wk'[w].path = wk[w].path
           /\ wk'[w].live = wk[w].live /\ wk'[w] \in Request
BY DEF Request

\* The step of a running request that moves on within its handler.
LEMMA GotoIInv ==
    ASSUME IInv, NEW w \in Workers, Active(w), NEW pc, NEW n \in 0..ScanSteps,
           \E G \in {StPcs, PbPcs, UpPcs, UsPcs} : wk[w].pc \in G /\ pc \in G,
           wk' = [wk EXCEPT ![w].pc = pc, ![w].polls = n],
           mnt' = mnt, attached' = attached, devPresent' = devPresent,
           coView' = coView,
           dir' \in [Paths -> BOOLEAN], \A p \in Paths : dir[p] => dir'[p]
    PROVE  IInv'
<1> USE DEF IInv
<1>1. PICK G \in {StPcs, PbPcs, UpPcs, UsPcs} : wk[w].pc \in G /\ pc \in G
  OBVIOUS
<1>2. pc \in Pcs \ {"idle"}
  BY <1>1 DEF Pcs, StPcs, PbPcs, UpPcs, UsPcs
<1>3. /\ wk'[w] = [wk[w] EXCEPT !.pc = pc, !.polls = n]
      /\ \A v \in Workers \ {w} : wk'[v] = wk[v]
  BY DEF TypeOK
<1>4. /\ wk'[w].pc = pc /\ wk'[w].op = wk[w].op /\ wk'[w].path = wk[w].path
      /\ wk'[w].live = wk[w].live /\ wk'[w] \in Request
  BY <1>2, GotoRecord DEF TypeOK
<1>5. TypeOK'
  BY <1>3, <1>4 DEF TypeOK
<1>6. (LiveIfActive /\ OneActive)'
  <2>1. wk[w].live
    BY DEF LiveIfActive
  <2>2. \A v \in Workers \ {w} : ~Active(v)
    BY DEF OneActive
  <2>3. LiveIfActive'
    BY <1>3, <1>4, <2>1 DEF LiveIfActive, Active
  <2>4. OneActive'
    BY <1>3, <2>2 DEF OneActive, Active
  <2>5. QED
    BY <2>3, <2>4
<1>7. OpPc'
  <2> SUFFICES ASSUME NEW v \in Workers PROVE OpPc!(v)'
    BY DEF OpPc
  <2>1. CASE v = w
    <3>1. OpPc!(w)
      BY DEF OpPc
    <3>2. QED
      BY <1>1, <1>4, <2>1, <3>1 DEF StPcs, PbPcs, UpPcs, UsPcs
  <2>2. CASE v # w
    BY <1>3, <2>2 DEF OpPc
  <2>3. QED
    BY <2>1, <2>2
<1>8. RunningOrder'
  <2> SUFFICES ASSUME NEW v \in Workers PROVE RunningOrder!(v)'
    BY DEF RunningOrder
  <2>1. CASE v = w
    <3>1. RunningOrder!(w)
      BY DEF RunningOrder
    <3>2. QED
      BY <1>1, <1>4, <2>1, <3>1 DEF StPcs, PbPcs, UpPcs, UsPcs
  <2>2. CASE v # w
    BY <1>3, <2>2 DEF RunningOrder
  <2>3. QED
    BY <2>1, <2>2
<1>9. QED
  BY <1>5, <1>6, <1>7, <1>8 DEF MountsAreDev, DirHolds, YesStaged, NoClean,
                                UnstagedAllClean, DevAttached, DetachedClean

\* A request that finishes without touching the OS.
LEMMA FinishSame ==
    ASSUME IInv, NEW w \in Workers, Active(w), NEW r \in Results, Finish(w, r),
           UNCHANGED osVars,
           CoRecord(wk[w].op, r) = "no" => mnt[wk[w].path] = <<>>,
           CoRecord(wk[w].op, r) = "yes" => mnt[wk[w].path] # <<>>
    PROVE  IInv'
BY FinishIInv DEF IInv, TypeOK, osVars, MountsAreDev, DirHolds, DetachedClean

LEMMA OsFailIInv ==
    ASSUME IInv, NEW w \in Workers, Active(w), OsFail(w)
    PROVE  IInv'
<1>1. "Internal" \in Results /\ CoRecord(wk[w].op, "Internal") = "unknown"
  BY DEF Results, CoRecord
<1>2. QED
  BY <1>1, FinishSame DEF OsFail

\* A step on within the handler that leaves the OS alone.
LEMMA GotoSame ==
    ASSUME IInv, NEW w \in Workers, Active(w), NEW pc,
           \E G \in {StPcs, PbPcs, UpPcs, UsPcs} : wk[w].pc \in G /\ pc \in G,
           Goto(w, pc), UNCHANGED <<osVars, coView>>
    PROVE  IInv'
<1>1. 0 \in 0..ScanSteps
  BY BoundsAssumption
<1>2. QED
  BY <1>1, GotoIInv DEF Goto, osVars, IInv, TypeOK

-----------------------------------------------------------------------------
(* The initial state and the CO's own steps.                               *)

LEMMA InitIInv == Init => IInv
<1> SUFFICES ASSUME Init PROVE IInv
  OBVIOUS
<1>1. [op |-> "stage", path |-> StagingPath, pc |-> "idle", polls |-> 0,
       live |-> FALSE, res |-> "none"] \in Request
  BY BoundsAssumption DEF Request, Ops, Paths, Pcs, Results
<1>2. <<>> \in Seq(Sources)
  OBVIOUS
<1>3. TypeOK
  BY <1>1, <1>2 DEF Init, TypeOK, Views
<1>4. \A w \in Workers : ~Active(w)
  BY DEF Init, Active
<1>5. (LiveIfActive /\ OneActive /\ OpPc /\ RunningOrder)
  BY <1>4 DEF LiveIfActive, OneActive, OpPc, RunningOrder, Active,
     StPcs, PbPcs, UpPcs, UsPcs
<1>6. \A p \in Paths : mnt[p] = <<>> /\ coView[p] = "no"
  BY DEF Init
<1>7. (MountsAreDev /\ DirHolds /\ YesStaged /\ NoClean /\ DetachedClean)
  BY <1>6 DEF MountsAreDev, AllDev, DirHolds, YesStaged, NoClean, DetachedClean, Paths
<1>8. UnstagedAllClean /\ DevAttached
  BY <1>6 DEF Init, UnstagedAllClean, DevAttached, Paths
<1>9. QED
  BY <1>3, <1>5, <1>7, <1>8 DEF IInv

LEMMA StartIInv ==
    ASSUME IInv, Hyp, NEW w \in Workers, StartRequest(w)
    PROVE  IInv'
<1>1. PICK op \in Ops, p \in Paths :
          /\ Allowed(op, p)
          /\ wk' = [wk EXCEPT ![w] = [op |-> op, path |-> p, pc |-> FirstPc[op],
                                      polls |-> 0, live |-> TRUE, res |-> "none"]]
  BY DEF StartRequest
<1> DEFINE rec == [op |-> op, path |-> p, pc |-> FirstPc[op], polls |-> 0,
                   live |-> TRUE, res |-> "none"]
<1>2. \A v \in Workers : ~Active(v)
  BY DEF StartRequest, Busy, IInv, LiveIfActive, Active
<1>3. UNCHANGED <<osVars, coView>>
  BY DEF StartRequest
<1>4. \/ op = "stage" /\ p = StagingPath /\ attached
      \/ op = "publish" /\ p \in Targets /\ coView[StagingPath] = "yes"
      \/ op = "unpublish" /\ p \in Targets /\ coView[StagingPath] # "no"
      \/ op = "unstage" /\ p = StagingPath /\ \A t \in Targets : coView[t] = "no"
  BY <1>1 DEF Allowed, Hyp, IInv, UnstagedAllClean
<1>5. rec \in Request /\ rec.pc # "idle"
  BY BoundsAssumption DEF Request, FirstPc, Ops, Pcs, Results
<1>6. wk'[w] = rec /\ \A v \in Workers \ {w} : wk'[v] = wk[v]
  BY <1>1 DEF IInv, TypeOK
<1>7. TypeOK'
  BY <1>1, <1>3, <1>5, <1>6 DEF IInv, TypeOK, osVars
<1>8. (LiveIfActive /\ OneActive)'
  BY <1>2, <1>6 DEF LiveIfActive, OneActive, Active
<1>9. (OpPc /\ RunningOrder)'
  <2> SUFFICES ASSUME NEW v \in Workers PROVE (OpPc!(v) /\ RunningOrder!(v))'
    BY DEF OpPc, RunningOrder
  <2>1. CASE v = w
    <3>1. StagingPath \notin Targets
      BY PathsAssumption
    <3>2. QED
      BY <1>3, <1>4, <1>6, <2>1, <3>1 DEF FirstPc, StPcs, PbPcs, UpPcs, UsPcs, osVars
  <2>2. CASE v # w
    BY <1>2, <1>6, <2>2 DEF Active, StPcs, PbPcs, UpPcs, UsPcs
  <2>3. QED
    BY <2>1, <2>2
<1>10. QED
  BY <1>3, <1>7, <1>8, <1>9 DEF IInv, osVars, MountsAreDev, DirHolds, YesStaged,
     NoClean, UnstagedAllClean, DevAttached, DetachedClean

LEMMA CoIInv ==
    ASSUME IInv, Hyp, CoAttach \/ CoDetach \/ DeviceAppears
    PROVE  IInv'
<1>1. CASE CoAttach
  BY <1>1 DEF CoAttach, IInv, TypeOK, LiveIfActive, OneActive, OpPc, Active,
     MountsAreDev, DirHolds, YesStaged, NoClean, UnstagedAllClean, RunningOrder,
     DevAttached, DetachedClean
<1>2. CASE CoDetach
  <2>1. \A v \in Workers : ~Active(v)
    BY <1>2 DEF CoDetach, Busy, IInv, LiveIfActive, Active
  <2>2. \A p \in Paths : mnt[p] = <<>>
    BY <1>2 DEF CoDetach, IInv, NoClean, UnstagedAllClean, Paths
  <2>3. QED
    BY <1>2, <2>1, <2>2 DEF CoDetach, IInv, TypeOK, LiveIfActive, OneActive,
       OpPc, Active, MountsAreDev, DirHolds, YesStaged, NoClean,
       UnstagedAllClean, RunningOrder, DevAttached, DetachedClean,
       StPcs, PbPcs, UpPcs, UsPcs
<1>3. CASE DeviceAppears
  BY <1>3 DEF DeviceAppears, IInv, TypeOK, LiveIfActive, OneActive, OpPc,
     Active, MountsAreDev, DirHolds, YesStaged, NoClean, UnstagedAllClean,
     RunningOrder, DevAttached, DetachedClean
<1>4. QED
  BY <1>1, <1>2, <1>3

-----------------------------------------------------------------------------
(* The mount helpers of pkg/csi/cinder/mount, called on the worker's path. *)

LEMMA NotMntAttachIInv ==
    ASSUME IInv, NEW w \in Workers, Active(w), NEW next,
           wk[w].op \in {"stage", "publish"},
           \E G \in {StPcs, PbPcs, UpPcs, UsPcs} : wk[w].pc \in G /\ next \in G,
           NotMntAttach(w, wk[w].path, next)
    PROVE  IInv'
<1> DEFINE p == wk[w].path
<1>1. p \in Paths
  BY DEF IInv, TypeOK, Request
<1>2. CASE ~dir[p] /\ dir' = [dir EXCEPT ![p] = TRUE] /\ Goto(w, next)
           /\ UNCHANGED <<mnt, attached, devPresent, coView>>
  <2>1. dir' \in [Paths -> BOOLEAN] /\ \A x \in Paths : dir[x] => dir'[x]
    BY <1>1, <1>2 DEF IInv, TypeOK
  <2>2. 0 \in 0..ScanSteps
    BY BoundsAssumption
  <2>3. QED
    BY <1>2, <2>1, <2>2, GotoIInv DEF Goto
<1>3. CASE dir[p] /\ ~IsLikelyMountPoint(p) /\ Goto(w, next)
           /\ UNCHANGED <<osVars, coView>>
  BY <1>3, GotoSame
<1>4. CASE dir[p] /\ IsLikelyMountPoint(p) /\ Finish(w, "Ok") /\ UNCHANGED osVars
  <2>1. "Ok" \in Results /\ CoRecord(wk[w].op, "Ok") = "yes"
    BY DEF Results, CoRecord
  <2>2. mnt[p] # <<>>
    BY <1>4 DEF IsLikelyMountPoint
  <2>3. QED
    BY <1>4, <2>1, <2>2, FinishSame
<1>5. CASE OsFail(w)
  BY <1>5, OsFailIInv
<1>6. QED
  BY <1>2, <1>3, <1>4, <1>5 DEF NotMntAttach

LEMMA NotMntDetachIInv ==
    ASSUME IInv, NEW w \in Workers, Active(w), NEW next,
           wk[w].op \in {"unpublish", "unstage"},
           \E G \in {StPcs, PbPcs, UpPcs, UsPcs} : wk[w].pc \in G /\ next \in G,
           NotMntDetach(w, wk[w].path, next)
    PROVE  IInv'
<1> DEFINE p == wk[w].path
<1>1. p \in Paths
  BY DEF IInv, TypeOK, Request
<1>2. "Internal" \in Results /\ CoRecord(wk[w].op, "Internal") = "unknown"
  BY DEF Results, CoRecord
<1>3. CASE ~dir[p] /\ Finish(w, "Internal") /\ UNCHANGED osVars
  BY <1>2, <1>3, FinishSame
<1>4. CASE dir[p] /\ ~IsLikelyMountPoint(p) /\ Finish(w, "NotFound")
           /\ UNCHANGED osVars
  <2>1. "NotFound" \in Results /\ CoRecord(wk[w].op, "NotFound") = "no"
    BY DEF Results, CoRecord
  <2>2. mnt[p] = <<>>
    BY <1>1, <1>4, MountPointIff DEF IInv
  <2>3. QED
    BY <1>4, <2>1, <2>2, FinishSame
<1>5. CASE dir[p] /\ IsLikelyMountPoint(p) /\ Goto(w, next)
           /\ UNCHANGED <<osVars, coView>>
  BY <1>5, GotoSame
<1>6. CASE OsFail(w)
  BY <1>6, OsFailIInv
<1>7. QED
  BY <1>3, <1>4, <1>5, <1>6 DEF NotMntDetach

\* UnmountPath's cleanup: pops the top mount, and removes the directory once
\* nothing is mounted on it.
LEMMA CleanupIInv ==
    ASSUME IInv, NEW w \in Workers, Active(w),
           wk[w].op \in {"unpublish", "unstage"},
           CleanupMountPoint(w, wk[w].path)
    PROVE  IInv'
<1> DEFINE p == wk[w].path
           rest == SubSeq(mnt[p], 1, Len(mnt[p]) - 1)
<1>1. p \in Paths /\ mnt[p] \in Seq(Sources) /\ AllDev(mnt[p])
  BY DEF IInv, TypeOK, Request, MountsAreDev
<1>2. /\ "Ok" \in Results /\ CoRecord(wk[w].op, "Ok") = "no"
      /\ "Internal" \in Results /\ CoRecord(wk[w].op, "Internal") = "unknown"
  BY DEF Results, CoRecord
<1>3. CASE ~dir[p] /\ Finish(w, "Ok") /\ UNCHANGED osVars
  <2>1. mnt[p] = <<>>
    BY <1>1, <1>3 DEF IInv, DirHolds
  <2>2. QED
    BY <1>2, <1>3, <2>1, FinishSame
<1>4. CASE /\ dir[p] /\ ~IsLikelyMountPoint(p)
           /\ IF mnt[p] = <<>>
                THEN dir' = [dir EXCEPT ![p] = FALSE] /\ Finish(w, "Ok")
                ELSE Finish(w, "Internal") /\ UNCHANGED dir
           /\ UNCHANGED <<mnt, attached, devPresent>>
  <2>1. mnt[p] = <<>>
    BY <1>1, <1>4, MountPointIff DEF IInv
  <2>2. dir' = [dir EXCEPT ![p] = FALSE] /\ Finish(w, "Ok")
    BY <1>4, <2>1
  <2>3. dir' \in [Paths -> BOOLEAN] /\ DirHolds'
    BY <1>1, <1>4, <2>1, <2>2 DEF IInv, TypeOK, DirHolds
  <2>4. QED
    BY <1>2, <1>4, <2>1, <2>2, <2>3, FinishIInv
       DEF IInv, TypeOK, MountsAreDev, DetachedClean
<1>5. CASE /\ dir[p] /\ IsLikelyMountPoint(p)
           /\ mnt' = [mnt EXCEPT ![p] = rest]
           /\ IF rest = <<>>
                THEN dir' = [dir EXCEPT ![p] = FALSE] /\ Finish(w, "Ok")
                ELSE Finish(w, "Internal") /\ UNCHANGED dir
           /\ UNCHANGED <<attached, devPresent>>
  <2>1. mnt[p] # <<>>
    BY <1>5 DEF IsLikelyMountPoint
  <2>2. rest \in Seq(Sources) /\ AllDev(rest)
    BY <1>1, <2>1, PopDev
  <2>3. attached
    BY <1>1, <2>1 DEF IInv, DetachedClean
  <2>4. /\ mnt' \in [Paths -> Seq(Sources)]
        /\ \A x \in Paths \ {p} : mnt'[x] = mnt[x]
        /\ mnt'[p] = rest
    BY <1>1, <1>5, <2>2 DEF IInv, TypeOK
  <2>5. MountsAreDev' /\ DetachedClean'
    BY <1>5, <2>2, <2>3, <2>4 DEF IInv, MountsAreDev, DetachedClean
  <2>6. CASE rest = <<>>
    <3>1. dir' = [dir EXCEPT ![p] = FALSE] /\ Finish(w, "Ok")
      BY <1>5, <2>6
    <3>2. dir' \in [Paths -> BOOLEAN] /\ DirHolds'
      BY <1>1, <2>4, <2>6, <3>1 DEF IInv, TypeOK, DirHolds
    <3>3. QED
      BY <1>2, <1>5, <2>4, <2>5, <2>6, <3>1, <3>2, FinishIInv
  <2>7. CASE rest # <<>>
    <3>1. Finish(w, "Internal") /\ UNCHANGED dir
      BY <1>5, <2>7
    <3>2. dir' \in [Paths -> BOOLEAN] /\ DirHolds'
      BY <1>5, <2>4, <3>1 DEF IInv, TypeOK, DirHolds
    <3>3. QED
      BY <1>2, <1>5, <2>4, <2>5, <3>1, <3>2, FinishIInv
  <2>8. QED
    BY <2>6, <2>7
<1>6. CASE OsFail(w)
  BY <1>6, OsFailIInv
<1>7. QED
  BY <1>3, <1>4, <1>5, <1>6 DEF CleanupMountPoint

-----------------------------------------------------------------------------
(* The handlers' steps.                                                    *)

LEMMA ScanIInv ==
    ASSUME IInv, NEW w \in Workers, NodeStageVolumeScan(w)
    PROVE  IInv'
<1> DEFINE n == wk[w].polls + 1
<1>1. Active(w) /\ wk[w].pc \in StPcs /\ wk[w].op = "stage"
  BY DEF NodeStageVolumeScan, Active, StPcs, IInv, OpPc
<1>2. CASE devPresent /\ Goto(w, "st_check") /\ UNCHANGED <<osVars, coView>>
  BY <1>1, <1>2, GotoSame DEF StPcs
<1>3. CASE /\ ~devPresent /\ n < ScanSteps
           /\ wk' = [wk EXCEPT ![w].polls = n]
           /\ UNCHANGED <<osVars, coView>>
  <2>1. wk[w] \in Request
    BY DEF IInv, TypeOK
  <2>2. n \in 0..ScanSteps
    BY <1>3, <2>1, BoundsAssumption DEF Request
  <2>3. wk' = [wk EXCEPT ![w].pc = wk[w].pc, ![w].polls = n]
    BY <1>3, <2>1 DEF IInv, TypeOK, Request
  <2>4. QED
    BY <1>1, <1>3, <2>2, <2>3, GotoIInv DEF osVars, IInv, TypeOK
<1>4. CASE ~devPresent /\ n = ScanSteps /\ Finish(w, "Internal") /\ UNCHANGED osVars
  <2>1. "Internal" \in Results /\ CoRecord(wk[w].op, "Internal") = "unknown"
    BY DEF Results, CoRecord
  <2>2. QED
    BY <1>1, <1>4, <2>1, FinishSame
<1>5. QED
  BY <1>2, <1>3, <1>4 DEF NodeStageVolumeScan

\* FormatAndMount puts the device on the staging path.
LEMMA StageMountIInv ==
    ASSUME IInv, NEW w \in Workers, NodeStageVolumeMount(w)
    PROVE  IInv'
<1> DEFINE s == StagingPath
<1>1. Active(w) /\ wk[w].op = "stage" /\ wk[w].path = s
  BY DEF NodeStageVolumeMount, Active, StPcs, IInv, OpPc
<1>2. "Ok" \in Results /\ CoRecord("stage", "Ok") = "yes"
      /\ "Internal" \in Results /\ CoRecord("stage", "Internal") = "unknown"
  BY DEF Results, CoRecord
<1>3. CASE /\ devPresent /\ dir[s]
           /\ mnt' = [mnt EXCEPT ![s] = Append(@, "dev")]
           /\ Finish(w, "Ok")
           /\ UNCHANGED <<dir, attached, devPresent>>
  <2>1. s \in Paths /\ mnt[s] \in Seq(Sources) /\ AllDev(mnt[s])
    BY DEF Paths, IInv, TypeOK, MountsAreDev
  <2>2. /\ Append(mnt[s], "dev") \in Seq(Sources)
        /\ Append(mnt[s], "dev") # <<>>
        /\ AllDev(Append(mnt[s], "dev"))
    BY <2>1, AppendDev
  <2>3. /\ mnt' \in [Paths -> Seq(Sources)]
        /\ \A x \in Paths \ {s} : mnt'[x] = mnt[x]
        /\ mnt'[s] = Append(mnt[s], "dev")
    BY <1>3, <2>1, <2>2 DEF IInv, TypeOK
  <2>4. attached
    BY <1>3 DEF IInv, DevAttached
  <2>5. MountsAreDev' /\ DirHolds' /\ DetachedClean'
    BY <1>3, <2>2, <2>3, <2>4 DEF IInv, MountsAreDev, DirHolds, DetachedClean
  <2>6. QED
    BY <1>1, <1>2, <1>3, <2>2, <2>3, <2>5, FinishIInv DEF IInv, TypeOK
<1>4. CASE ~(devPresent /\ dir[s]) /\ Finish(w, "Internal") /\ UNCHANGED osVars
  BY <1>1, <1>2, <1>4, FinishSame
<1>5. CASE OsFail(w)
  BY <1>1, <1>5, OsFailIInv
<1>6. QED
  BY <1>3, <1>4, <1>5 DEF NodeStageVolumeMount

\* The bind mount of the staging path onto the target.
LEMMA PublishMountIInv ==
    ASSUME IInv, NEW w \in Workers, NodePublishVolumeMount(w)
    PROVE  IInv'
<1> DEFINE t == wk[w].path
           s == StagingPath
<1>1. Active(w) /\ wk[w].op = "publish" /\ t \in Targets /\ coView[s] = "yes"
  BY DEF NodePublishVolumeMount, Active, PbPcs, IInv, OpPc, RunningOrder
<1>2. "Ok" \in Results /\ CoRecord("publish", "Ok") = "yes"
      /\ "Internal" \in Results /\ CoRecord("publish", "Internal") = "unknown"
  BY DEF Results, CoRecord
<1>3. CASE /\ dir[s] /\ dir[t]
           /\ mnt' = [mnt EXCEPT ![t] = Append(@, BindSource)]
           /\ Finish(w, "Ok")
           /\ UNCHANGED <<dir, attached, devPresent>>
  <2>1. mnt[s] # <<>>
    BY <1>1 DEF IInv, YesStaged
  <2>2. BindSource = "dev" /\ attached
    <3>1. s \in Paths
      BY DEF Paths
    <3>2. QED
      BY <2>1, <3>1, BindIsDev DEF IInv, DetachedClean
  <2>3. t \in Paths /\ mnt[t] \in Seq(Sources) /\ AllDev(mnt[t])
    BY <1>1 DEF Paths, IInv, TypeOK, MountsAreDev
  <2>4. /\ Append(mnt[t], "dev") \in Seq(Sources)
        /\ Append(mnt[t], "dev") # <<>>
        /\ AllDev(Append(mnt[t], "dev"))
    BY <2>3, AppendDev
  <2>5. /\ mnt' \in [Paths -> Seq(Sources)]
        /\ \A x \in Paths \ {t} : mnt'[x] = mnt[x]
        /\ mnt'[t] = Append(mnt[t], "dev")
    BY <1>3, <2>2, <2>3, <2>4 DEF IInv, TypeOK
  <2>6. MountsAreDev' /\ DirHolds' /\ DetachedClean'
    BY <1>3, <2>2, <2>4, <2>5 DEF IInv, MountsAreDev, DirHolds, DetachedClean
  <2>7. QED
    BY <1>1, <1>2, <1>3, <2>4, <2>5, <2>6, FinishIInv DEF IInv, TypeOK
<1>4. CASE ~(dir[s] /\ dir[t]) /\ Finish(w, "Internal") /\ UNCHANGED osVars
  BY <1>1, <1>2, <1>4, FinishSame
<1>5. CASE OsFail(w)
  BY <1>1, <1>5, OsFailIInv
<1>6. QED
  BY <1>3, <1>4, <1>5 DEF NodePublishVolumeMount

LEMMA WorkerIInv ==
    ASSUME IInv, NEW w \in Workers, WorkerStep(w)
    PROVE  IInv'
<1>1. CASE NodeStageVolumeScan(w)
  BY <1>1, ScanIInv
<1>2. CASE NodeStageVolumeCheck(w)
  <2>1. Active(w) /\ wk[w].op = "stage" /\ wk[w].path = StagingPath
        /\ wk[w].pc \in StPcs
    BY <1>2 DEF NodeStageVolumeCheck, Active, StPcs, IInv, OpPc
  <2>2. QED
    BY <1>2, <2>1, NotMntAttachIInv DEF NodeStageVolumeCheck, StPcs
<1>3. CASE NodeStageVolumeMount(w)
  BY <1>3, StageMountIInv
<1>4. CASE NodePublishVolumeCheck(w)
  <2>1. Active(w) /\ wk[w].op = "publish" /\ wk[w].pc \in PbPcs
    BY <1>4 DEF NodePublishVolumeCheck, Active, PbPcs, IInv, OpPc
  <2>2. QED
    BY <1>4, <2>1, NotMntAttachIInv DEF NodePublishVolumeCheck, PbPcs
<1>5. CASE NodePublishVolumeMount(w)
  BY <1>5, PublishMountIInv
<1>6. CASE NodeUnpublishVolumeCheck(w)
  <2>1. Active(w) /\ wk[w].op = "unpublish" /\ wk[w].pc \in UpPcs
    BY <1>6 DEF NodeUnpublishVolumeCheck, Active, UpPcs, IInv, OpPc
  <2>2. QED
    BY <1>6, <2>1, NotMntDetachIInv DEF NodeUnpublishVolumeCheck, UpPcs
<1>7. CASE NodeUnpublishVolumeUnmount(w)
  <2>1. Active(w) /\ wk[w].op = "unpublish"
    BY <1>7 DEF NodeUnpublishVolumeUnmount, Active, UpPcs, IInv, OpPc
  <2>2. QED
    BY <1>7, <2>1, CleanupIInv DEF NodeUnpublishVolumeUnmount
<1>8. CASE NodeUnstageVolumeCheck(w)
  <2>1. Active(w) /\ wk[w].op = "unstage" /\ wk[w].path = StagingPath
        /\ wk[w].pc \in UsPcs
    BY <1>8 DEF NodeUnstageVolumeCheck, Active, UsPcs, IInv, OpPc
  <2>2. QED
    BY <1>8, <2>1, NotMntDetachIInv DEF NodeUnstageVolumeCheck, UsPcs
<1>9. CASE NodeUnstageVolumeUnmount(w)
  <2>1. Active(w) /\ wk[w].op = "unstage" /\ wk[w].path = StagingPath
    BY <1>9 DEF NodeUnstageVolumeUnmount, Active, UsPcs, IInv, OpPc
  <2>2. QED
    BY <1>9, <2>1, CleanupIInv DEF NodeUnstageVolumeUnmount
<1>10. QED
  BY <1>1, <1>2, <1>3, <1>4, <1>5, <1>6, <1>7, <1>8, <1>9 DEF WorkerStep

LEMMA NextIInv == Hyp /\ IInv /\ [Next]_vars => IInv'
<1> SUFFICES ASSUME Hyp, IInv, [Next]_vars PROVE IInv'
  OBVIOUS
<1>1. ASSUME NEW w \in Workers, StartRequest(w) PROVE IInv'
  BY <1>1, StartIInv
<1>2. ASSUME NEW w \in Workers, CoTimeout(w) PROVE FALSE
  BY <1>2 DEF CoTimeout, Hyp
<1>3. ASSUME NEW w \in Workers, WorkerStep(w) PROVE IInv'
  BY <1>3, WorkerIInv
<1>4. CASE CoAttach \/ CoDetach \/ DeviceAppears
  BY <1>4, CoIInv
<1>5. CASE UNCHANGED vars
  BY <1>5 DEF vars, IInv, TypeOK, LiveIfActive, OneActive, OpPc, Active,
     MountsAreDev, DirHolds, YesStaged, NoClean, UnstagedAllClean,
     RunningOrder, DevAttached, DetachedClean
<1>6. QED
  BY <1>1, <1>2, <1>3, <1>4, <1>5 DEF Next

LEMMA IInvSafe ==
    ASSUME IInv
    PROVE  NoDetachWhileMounted /\ WorkloadSeesVolume
<1>1. NoDetachWhileMounted
  BY DEF IInv, DetachedClean, NoDetachWhileMounted
<1>2. WorkloadSeesVolume
  BY DEF IInv, MountsAreDev, AllDev, WorkloadSeesVolume, Paths
<1>3. QED
  BY <1>1, <1>2

(* NodeStageVolume / NodePublishVolume / NodeUnpublishVolume /            *)
(* NodeUnstageVolume with their mount helpers: when the CO keeps the CSI  *)
(* call order and waits for every node request, the volume is never       *)
(* detached while its device is mounted on the node, and every mount on   *)
(* a workload's target is the volume's device, for any number of targets  *)
(* and scan ticks, with lost replies and failing OS calls (requests are   *)
(* serial under these hypotheses).                                         *)
(* node_abandoned and node_unstaged show each hypothesis is needed.       *)
THEOREM NodeSafe ==
    Hyp => (Spec => [](NoDetachWhileMounted /\ WorkloadSeesVolume))
<1> SUFFICES ASSUME Hyp PROVE Spec => [](NoDetachWhileMounted /\ WorkloadSeesVolume)
  OBVIOUS
<1>1. Init => IInv
  BY InitIInv
<1>2. IInv /\ [Next]_vars => IInv'
  BY NextIInv
<1>3. IInv => NoDetachWhileMounted /\ WorkloadSeesVolume
  BY IInvSafe
<1>4. QED
  BY <1>1, <1>2, <1>3, PTL DEF Spec

(* ControllerUnpublish (CoDetach) never finds the device mounted on the    *)
(* node, under the hypotheses of NodeSafe; node_safety checks the same     *)
(* invariant on two targets.                                              *)
THEOREM DetachSafe == Hyp => (Spec => []NoDetachWhileMounted)
BY NodeSafe, PTL

(* NodePublishVolume's bind mount never shows a workload the node's root   *)
(* filesystem, under the hypotheses of NodeSafe.                          *)
THEOREM WorkloadSafe == Hyp => (Spec => []WorkloadSeesVolume)
BY NodeSafe, PTL

-----------------------------------------------------------------------------
(* The node handlers implement the CSI per-volume lifecycle of             *)
(* VolumeOnNode, read off the mount table through Staged and Published.   *)

\* A step that keeps the mount table and the attachment is a stutter of the
\* lifecycle.
LEMMA LifecycleStutter ==
    ASSUME mnt' = mnt, attached' = attached
    PROVE  UNCHANGED Lifecycle!vars
BY DEF Lifecycle!vars, Staged, Published

\* A step that changes the stack of one path maps to the lifecycle step
\* that path's becoming mounted or unmounted is, or to a stutter.
LEMMA StackStep ==
    ASSUME TypeOK, NEW p \in Paths, NEW sq,
           attached' = attached, mnt' = [mnt EXCEPT ![p] = sq],
           p = StagingPath /\ mnt[p] = <<>> /\ sq # <<>> => attached,
           p \in Targets /\ mnt[p] = <<>> /\ sq # <<>> => mnt[StagingPath] # <<>>,
           p = StagingPath /\ mnt[p] # <<>> /\ sq = <<>> =>
               \A t \in Targets : mnt[t] = <<>>
    PROVE  [Lifecycle!Next]_Lifecycle!vars
<1> DEFINE s == StagingPath
<1>1. s \notin Targets /\ Paths = {s} \cup Targets
  BY PathsAssumption DEF Paths
<1>2. \A x \in Paths \ {p} : mnt'[x] = mnt[x]
  BY DEF TypeOK
<1>3. mnt'[p] = sq
  BY DEF TypeOK
<1>4. CASE (mnt[p] = <<>>) <=> (sq = <<>>)
  <2>1. Staged' = Staged /\ Published' = Published
    BY <1>1, <1>2, <1>3, <1>4 DEF Staged, Published
  <2>2. QED
    BY <2>1 DEF Lifecycle!vars
<1>5. CASE p = s /\ mnt[p] = <<>> /\ sq # <<>>
  <2>1. Published' = Published /\ Staged' /\ ~Staged
    BY <1>1, <1>2, <1>3, <1>5 DEF Staged, Published
  <2>2. QED
    BY <1>5, <2>1 DEF Lifecycle!Next, Lifecycle!Stage
<1>6. CASE p = s /\ mnt[p] # <<>> /\ sq = <<>>
  <2>1. Published' = Published /\ Published = {} /\ ~Staged' /\ Staged
    BY <1>1, <1>2, <1>3, <1>6 DEF Staged, Published
  <2>2. QED
    BY <2>1 DEF Lifecycle!Next, Lifecycle!Unstage
<1>7. CASE p \in Targets /\ mnt[p] = <<>> /\ sq # <<>>
  <2>1. /\ Staged' = Staged /\ Staged
        /\ p \notin Published /\ Published' = Published \cup {p}
    BY <1>1, <1>2, <1>3, <1>7 DEF Staged, Published
  <2>2. QED
    BY <1>7, <2>1 DEF Lifecycle!Next, Lifecycle!Publish
<1>8. CASE p \in Targets /\ mnt[p] # <<>> /\ sq = <<>>
  <2>1. /\ Staged' = Staged
        /\ p \in Published /\ Published' = Published \ {p}
    BY <1>1, <1>2, <1>3, <1>8 DEF Staged, Published
  <2>2. QED
    BY <1>8, <2>1 DEF Lifecycle!Next, Lifecycle!Unpublish
<1>9. QED
  BY <1>1, <1>4, <1>5, <1>6, <1>7, <1>8

LEMMA NotMntKeeps ==
    ASSUME NEW w, NEW p, NEW next,
           NotMntAttach(w, p, next) \/ NotMntDetach(w, p, next)
    PROVE  mnt' = mnt /\ attached' = attached
BY DEF NotMntAttach, NotMntDetach, OsFail, osVars

LEMMA WorkerRefines ==
    ASSUME IInv, NEW w \in Workers, WorkerStep(w)
    PROVE  [Lifecycle!Next]_Lifecycle!vars
<1> DEFINE s == StagingPath
           p == wk[w].path
           rest == SubSeq(mnt[p], 1, Len(mnt[p]) - 1)
<1>1. s \in Paths /\ TypeOK
  BY DEF Paths, IInv
<1>2. CASE NodeStageVolumeScan(w)
  BY <1>2, LifecycleStutter DEF NodeStageVolumeScan, osVars
<1>3. CASE NodeStageVolumeCheck(w) \/ NodePublishVolumeCheck(w)
           \/ NodeUnpublishVolumeCheck(w) \/ NodeUnstageVolumeCheck(w)
  BY <1>3, NotMntKeeps, LifecycleStutter
     DEF NodeStageVolumeCheck, NodePublishVolumeCheck, NodeUnpublishVolumeCheck,
         NodeUnstageVolumeCheck
<1>4. CASE NodeStageVolumeMount(w)
  <2>1. CASE /\ devPresent /\ dir[s]
             /\ mnt' = [mnt EXCEPT ![s] = Append(@, "dev")]
             /\ UNCHANGED <<dir, attached, devPresent>>
    <3>1. mnt' = [mnt EXCEPT ![s] = Append(mnt[s], "dev")] /\ attached
      BY <1>1, <2>1 DEF IInv, DevAttached
    <3>2. Append(mnt[s], "dev") # <<>>
      BY <1>1, AppendDev DEF IInv, TypeOK, MountsAreDev
    <3>3. /\ s = StagingPath /\ mnt[s] = <<>> /\ Append(mnt[s], "dev") # <<>> => attached
          /\ s \in Targets /\ mnt[s] = <<>> /\ Append(mnt[s], "dev") # <<>> =>
                mnt[StagingPath] # <<>>
          /\ s = StagingPath /\ mnt[s] # <<>> /\ Append(mnt[s], "dev") = <<>> =>
                \A t \in Targets : mnt[t] = <<>>
      BY <3>1, <3>2, PathsAssumption
    <3>4. attached' = attached
      BY <2>1
    <3>5. QED
      BY <1>1, <3>1, <3>3, <3>4, StackStep
  <2>2. CASE UNCHANGED osVars
    BY <2>2, LifecycleStutter DEF osVars
  <2>3. QED
    BY <1>4, <2>1, <2>2 DEF NodeStageVolumeMount, OsFail
<1>5. CASE NodePublishVolumeMount(w)
  <2>1. p \in Targets /\ coView[s] = "yes"
    BY <1>5 DEF NodePublishVolumeMount, IInv, OpPc, RunningOrder, PbPcs
  <2>2. CASE /\ mnt' = [mnt EXCEPT ![p] = Append(@, BindSource)]
             /\ UNCHANGED <<dir, attached, devPresent>>
    <3>1. mnt[s] # <<>>
      BY <2>1 DEF IInv, YesStaged
    <3>2. p \in Paths /\ mnt' = [mnt EXCEPT ![p] = Append(mnt[p], BindSource)]
      BY <2>1, <2>2 DEF Paths, IInv, TypeOK
    <3>3. p # s
      BY <2>1, PathsAssumption
    <3>4. QED
      BY <2>2, <3>1, <3>2, <3>3, <1>1, StackStep
  <2>3. CASE UNCHANGED osVars
    BY <2>3, LifecycleStutter DEF osVars
  <2>4. QED
    BY <1>5, <2>2, <2>3 DEF NodePublishVolumeMount, OsFail
<1>6. CASE NodeUnpublishVolumeUnmount(w) \/ NodeUnstageVolumeUnmount(w)
  <2>1. CleanupMountPoint(w, p)
    <3>1. CASE NodeUnstageVolumeUnmount(w)
      BY <3>1 DEF NodeUnstageVolumeUnmount, IInv, OpPc, UsPcs
    <3>2. QED
      BY <1>6, <3>1 DEF NodeUnpublishVolumeUnmount
  <2>2. p \in Paths
    BY <1>1 DEF TypeOK, Request
  <2>3. p = s => \A t \in Targets : mnt[t] = <<>>
    <3>1. p = s => wk[w].pc \in UsPcs
      <4>1. wk[w].pc \in {"up_unmount", "us_unmount"}
        BY <1>6 DEF NodeUnpublishVolumeUnmount, NodeUnstageVolumeUnmount
      <4>2. wk[w].pc = "up_unmount" => p \in Targets
        BY DEF IInv, OpPc, UpPcs
      <4>3. QED
        BY <4>1, <4>2, PathsAssumption DEF UsPcs
    <3>2. QED
      BY <3>1 DEF IInv, RunningOrder, NoClean, Paths
  <2>4. CASE /\ IsLikelyMountPoint(p)
             /\ mnt' = [mnt EXCEPT ![p] = rest]
             /\ UNCHANGED <<attached, devPresent>>
    <3>1. mnt[p] # <<>>
      BY <2>4 DEF IsLikelyMountPoint
    <3>2. QED
      BY <1>1, <2>2, <2>3, <2>4, <3>1, StackStep
  <2>5. CASE UNCHANGED <<mnt, attached>>
    BY <2>5, LifecycleStutter
  <2>6. QED
    BY <2>1, <2>4, <2>5 DEF CleanupMountPoint, OsFail, osVars
<1>7. QED
  BY <1>2, <1>3, <1>4, <1>5, <1>6 DEF WorkerStep

LEMMA NextRefines ==
    ASSUME IInv, [Next]_vars
    PROVE  [Lifecycle!Next]_Lifecycle!vars
<1>1. CASE \E w \in Workers : StartRequest(w) \/ CoTimeout(w)
  BY <1>1, LifecycleStutter DEF StartRequest, CoTimeout, osVars
<1>2. CASE \E w \in Workers : WorkerStep(w)
  BY <1>2, WorkerRefines
<1>3. CASE CoAttach
  <2>1. Staged' = Staged /\ Published' = Published
    BY <1>3 DEF CoAttach, Staged, Published
  <2>2. QED
    BY <1>3, <2>1 DEF CoAttach, Lifecycle!Next, Lifecycle!Attach
<1>4. CASE CoDetach
  <2>1. \A p \in Paths : mnt[p] = <<>>
    BY <1>4 DEF CoDetach, IInv, NoClean, UnstagedAllClean, Paths
  <2>2. ~Staged /\ Published = {} /\ Staged' = Staged /\ Published' = Published
    BY <1>4, <2>1 DEF CoDetach, Staged, Published, Paths
  <2>3. QED
    BY <1>4, <2>2 DEF CoDetach, Lifecycle!Next, Lifecycle!Detach
<1>5. CASE DeviceAppears \/ UNCHANGED vars
  BY <1>5, LifecycleStutter DEF DeviceAppears, vars
<1>6. QED
  BY <1>1, <1>2, <1>3, <1>4, <1>5 DEF Next

LEMMA InitRefines == Init => Lifecycle!Init
BY DEF Init, Lifecycle!Init, Staged, Published, Paths

(* NodeStageVolume / NodePublishVolume / NodeUnpublishVolume /            *)
(* NodeUnstageVolume keep the per-volume lifecycle of spec section 4 as   *)
(* the mount table shows it: when the CO keeps the CSI call order and     *)
(* waits for every request, a target is mounted only while the staging   *)
(* path is, the staging path is unmounted only once no target is, it is   *)
(* mounted only on an attached volume, and the volume is detached only    *)
(* when nothing is mounted; for any number of targets and scan ticks,     *)
(* with lost replies and failing OS calls (requests are serial).          *)
THEOREM NodeRefinesLifecycle == Hyp => (Spec => ImplementsVolumeOnNode)
<1> SUFFICES ASSUME Hyp PROVE Spec => Lifecycle!Spec
  BY DEF ImplementsVolumeOnNode
<1>1. Init => IInv /\ Lifecycle!Init
  BY InitIInv, InitRefines
<1>2. IInv /\ [Next]_vars => IInv' /\ [Lifecycle!Next]_Lifecycle!vars
  BY NextIInv, NextRefines
<1>3. QED
  BY <1>1, <1>2, PTL DEF Spec, Lifecycle!Spec
=============================================================================
