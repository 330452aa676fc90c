------------------------ MODULE DeviceResolverProofs ------------------------
(***************************************************************************)
(* Proof that both GetDevicePath implementations return only a disk of the *)
(* volume asked for, for every set of volumes, devices and addresses and   *)
(* every number of backoff steps, when volume ids differ in their first 20 *)
(* characters and every disk has its own bus/address.                      *)
(***************************************************************************)
EXTENDS DeviceResolver, FiniteSetTheorems, TLAPS

\* Every disk has its own bus/address (Init keeps this when ~SharedAddrs).
AddrUnique == \A d1, d2 \in Devs : addr[d1] = addr[d2] => d1 = d2

\* A by-id link is named after the volume of the disk it points to.
LinksOwn ==
    \A nm \in Names :
        byId[nm] # NoDev =>
            /\ owner[byId[nm]] \in Volumes
            /\ \E c \in Conventions : nm = LinkName(c, owner[byId[nm]])

\* Only an id long enough to slice reaches the metadata strategy.
MetaNotShort == rs.pc = "meta" => rs.vol \notin ShortIds

IInv == TypeOK /\ AddrUnique /\ LinksOwn /\ ResolvedIsOwn /\ MetaNotShort

-----------------------------------------------------------------------------
(* Lemmas about the helpers.                                               *)

\* The name of a by-id link determines the volume, when prefixes differ.
LEMMA LinkNameInjective ==
    ASSUME PrefixDistinct,
           NEW c1 \in Conventions, NEW c2 \in Conventions,
           NEW u \in Volumes, NEW v \in Volumes,
           LinkName(c1, u) = LinkName(c2, v)
    PROVE  u = v
<1>1. c1 = c2
  BY DEF LinkName
<1>2. CASE c1 = "wwn"
  BY <1>1, <1>2 DEF LinkName
<1>3. CASE c1 # "wwn"
  <2>1. Prefix20[u] = Prefix20[v]
    BY <1>1, <1>3 DEF LinkName
  <2>2. QED
    BY <2>1 DEF PrefixDistinct
<1>4. QED
  BY <1>2, <1>3

\* The first name in directory order is one of the candidates found.
LEMMA FirstByNameIn ==
    ASSUME NEW H, H # {}, \A h \in H : h[1] \in Conventions
    PROVE  FirstByName(H) \in H
<1>1. \E h \in H : \A k \in H : ConvRank[h[1]] <= ConvRank[k[1]]
  <2>1. CASE \E h \in H : h[1] = "scsi"
    BY <2>1 DEF ConvRank, Conventions
  <2>2. CASE ~(\E h \in H : h[1] = "scsi") /\ \E h \in H : h[1] = "virtio"
    BY <2>2 DEF ConvRank, Conventions
  <2>3. CASE \A h \in H : h[1] = "wwn"
    BY <2>3 DEF ConvRank, Conventions
  <2>4. QED
    BY <2>1, <2>2, <2>3 DEF Conventions
<1>2. QED
  BY <1>1 DEF FirstByName

\* A candidate name of v that exists names a link to a disk of v.
LEMMA SerialHitOwn ==
    ASSUME PrefixDistinct, TypeOK, LinksOwn, NEW v \in Volumes,
           NEW h \in SerialHits(v)
    PROVE  /\ byId[h] \in Devs
           /\ owner[byId[h]] = v
<1>1. PICK c1 \in Conventions : h = LinkName(c1, v)
  BY DEF SerialHits
<1>2. h \in Names /\ byId[h] # NoDev
  BY DEF SerialHits
<1>3. byId[h] \in Devs
  BY <1>2 DEF TypeOK
<1>4. owner[byId[h]] \in Volumes /\ \E c \in Conventions : h = LinkName(c, owner[byId[h]])
  BY <1>2 DEF LinksOwn
<1>5. PICK c2 \in Conventions : h = LinkName(c2, owner[byId[h]])
  BY <1>4
<1>6. QED
  BY <1>1, <1>3, <1>4, <1>5, LinkNameInjective

-----------------------------------------------------------------------------
(* The inductive invariant.                                                *)

LEMMA InitIInv == ~SharedAddrs /\ Init => IInv
<1> SUFFICES ASSUME ~SharedAddrs, Init PROVE IInv
  OBVIOUS
<1>1. TypeOK
  BY ResolverAssumption DEF Init, TypeOK, RsType, Results, Impls
<1>2. AddrUnique
  BY DEF Init, AddrUnique
<1>3. LinksOwn
  BY DEF Init, LinksOwn
<1>4. ResolvedIsOwn
  BY DEF Init, ResolvedIsOwn
<1>5. MetaNotShort
  BY DEF Init, MetaNotShort
<1>6. QED
  BY <1>1, <1>2, <1>3, <1>4, <1>5 DEF IInv

\* A step of the resolver alone keeps the invariant when the new call
\* record is well typed and a disk it returns is the volume's.
LEMMA ResolverStep ==
    ASSUME IInv, UNCHANGED envVars, rs' \in RsType,
           rs'.pc = "done" /\ rs'.res \in Devs => owner[rs'.res] = rs'.vol,
           rs'.pc = "meta" => rs'.vol \notin ShortIds
    PROVE  IInv'
<1>1. owner' = owner /\ addr' = addr /\ byId' = byId /\ byPath' = byPath /\ metaUp' = metaUp
  BY DEF envVars
<1>2. TypeOK'
  BY <1>1 DEF IInv, TypeOK
<1>3. AddrUnique'
  BY <1>1 DEF IInv, AddrUnique
<1>4. LinksOwn'
  BY <1>1 DEF IInv, LinksOwn
<1>5. ResolvedIsOwn'
  BY <1>1 DEF ResolvedIsOwn
<1>6. MetaNotShort'
  BY DEF MetaNotShort
<1>7. QED
  BY <1>2, <1>3, <1>4, <1>5, <1>6 DEF IInv

\* Another attempt, or the Timeout result, returns no disk.
LEMMA NextAttemptStep ==
    ASSUME IInv, UNCHANGED envVars, NextAttempt
    PROVE  IInv'
<1>1. rs' \in RsType
  <2>1. rs \in RsType
    BY DEF IInv, TypeOK
  <2>2. CASE rs.n = StepsOf(rs.impl)
    BY <2>1, <2>2 DEF NextAttempt, RsType, Results
  <2>3. CASE rs.n # StepsOf(rs.impl)
    <3>1. rs' = [rs EXCEPT !.pc = "serial", !.n = rs.n + 1]
      BY <2>3 DEF NextAttempt
    <3>2. rs.n + 1 \in Nat
      BY <2>1 DEF RsType
    <3>3. QED
      BY <2>1, <3>1, <3>2 DEF RsType
  <2>4. QED
    BY <2>2, <2>3
<1>2. rs'.pc = "done" /\ rs'.res \in Devs => owner[rs'.res] = rs'.vol
  BY ResolverAssumption DEF NextAttempt, IInv, TypeOK, RsType
<1>3. rs'.pc # "meta"
  BY DEF NextAttempt, IInv, TypeOK, RsType
<1>4. QED
  BY <1>1, <1>2, <1>3, ResolverStep

LEMMA NextIInv == PrefixDistinct /\ IInv /\ [Next]_vars => IInv'
<1> SUFFICES ASSUME PrefixDistinct, IInv, [Next]_vars PROVE IInv'
  OBVIOUS
<1>1. CASE Start
  <2>1. rs' \in RsType
    BY <1>1 DEF Start, RsType, Results, Impls
  <2>2. rs'.pc = "serial"
    BY <1>1 DEF Start
  <2>3. QED
    BY <1>1, <2>1, <2>2, ResolverStep DEF Start
<1>2. CASE ResolveBySerial
  <2>1. CASE rs.vol \in ShortIds /\ Return("Panic")
    BY <1>2, <2>1, ResolverAssumption, ResolverStep
       DEF ResolveBySerial, Return, IInv, TypeOK, RsType, Results
  <2>2. CASE rs.vol \notin ShortIds /\ SerialHits(rs.vol) # {}
             /\ Return(byId[FirstByName(SerialHits(rs.vol))])
    <3> DEFINE h == FirstByName(SerialHits(rs.vol))
    <3>1. rs.vol \in Volumes
      BY DEF IInv, TypeOK, RsType
    <3>2. \A k \in SerialHits(rs.vol) : k[1] \in Conventions
      BY DEF SerialHits, LinkName
    <3>3. h \in SerialHits(rs.vol)
      BY <2>2, <3>2, FirstByNameIn
    <3>4. byId[h] \in Devs /\ owner[byId[h]] = rs.vol
      BY <3>1, <3>3, SerialHitOwn DEF IInv
    <3>5. QED
      BY <1>2, <2>2, <3>4, ResolverStep
         DEF ResolveBySerial, Return, IInv, TypeOK, RsType, Results
  <2>3. CASE rs.vol \notin ShortIds /\ SerialHits(rs.vol) = {}
             /\ rs.impl = "openstack" /\ rs' = [rs EXCEPT !.pc = "meta"]
    BY <1>2, <2>3, ResolverStep DEF ResolveBySerial, IInv, TypeOK, RsType
  <2>4. CASE rs.vol \notin ShortIds /\ SerialHits(rs.vol) = {}
             /\ rs.impl = "mount" /\ NextAttempt
    BY <1>2, <2>4, NextAttemptStep DEF ResolveBySerial
  <2>5. QED
    BY <1>2, <2>1, <2>2, <2>3, <2>4 DEF ResolveBySerial
<1>3. CASE ResolveByMetadata
  <2>1. CASE (~metaUp \/ MetaDisks(rs.vol) = {}) /\ NextAttempt
    BY <1>3, <2>1, NextAttemptStep DEF ResolveByMetadata
  <2>2. CASE metaUp /\ \E d \in MetaDisks(rs.vol) :
                          /\ Cardinality(GlobMatches(d)) = 1
                          /\ Return(CHOOSE e \in GlobMatches(d) : TRUE)
    <3>1. PICK d \in MetaDisks(rs.vol) :
                 /\ Cardinality(GlobMatches(d)) = 1
                 /\ Return(CHOOSE e \in GlobMatches(d) : TRUE)
      BY <2>2
    <3> DEFINE e == CHOOSE x \in GlobMatches(d) : TRUE
    <3>2. GlobMatches(d) # {}
      BY <3>1, FS_EmptySet
    <3>3. e \in byPath /\ addr[e] = addr[d]
      BY <3>2 DEF GlobMatches
    <3>4. e \in Devs /\ d \in Devs
      BY <3>3 DEF IInv, TypeOK, MetaDisks
    <3>5. e = d
      BY <3>3, <3>4 DEF IInv, AddrUnique
    <3>6. owner[e] = rs.vol
      BY <3>5 DEF MetaDisks
    <3>7. QED
      BY <1>3, <3>1, <3>4, <3>6, ResolverStep
         DEF ResolveByMetadata, Return, IInv, TypeOK, RsType, Results
  <2>3. CASE metaUp /\ \E d \in MetaDisks(rs.vol) :
                          /\ Cardinality(GlobMatches(d)) # 1
                          /\ NextAttempt
    BY <1>3, <2>3, NextAttemptStep DEF ResolveByMetadata
  <2>4. QED
    BY <1>3, <2>1, <2>2, <2>3 DEF ResolveByMetadata
<1>4. CASE LinkAppears
  <2>1. PICK d \in Devs, c \in Conventions :
           /\ owner[d] # NoVolume
           /\ byId[LinkName(c, owner[d])] = NoDev
           /\ byId' = [byId EXCEPT ![LinkName(c, owner[d])] = d]
    BY <1>4 DEF LinkAppears
  <2>2. owner[d] \in Volumes
    BY <2>1 DEF IInv, TypeOK
  <2>3. LinkName(c, owner[d]) \in Names
    BY <2>2 DEF Names
  <2>4. TypeOK'
    BY <1>4, <2>1, <2>3 DEF LinkAppears, IInv, TypeOK
  <2>5. LinksOwn'
    BY <1>4, <2>1, <2>2, <2>3 DEF LinkAppears, IInv, TypeOK, LinksOwn
  <2>6. QED
    BY <1>4, <2>4, <2>5 DEF LinkAppears, IInv, AddrUnique, ResolvedIsOwn, MetaNotShort
<1>5. CASE PathAppears
  BY <1>5 DEF PathAppears, IInv, TypeOK, AddrUnique, LinksOwn, ResolvedIsOwn, MetaNotShort
<1>6. CASE MetadataFlap
  BY <1>6 DEF MetadataFlap, IInv, TypeOK, AddrUnique, LinksOwn, ResolvedIsOwn, MetaNotShort
<1>7. CASE UNCHANGED vars
  <2>1. UNCHANGED envVars /\ rs' = rs
    BY <1>7 DEF vars, envVars
  <2>2. QED
    BY <2>1, ResolverStep DEF IInv, TypeOK, ResolvedIsOwn, MetaNotShort
<1>8. QED
  BY <1>1, <1>2, <1>3, <1>4, <1>5, <1>6, <1>7 DEF Next

-----------------------------------------------------------------------------
(* Resolver safety (OpenStack.GetDevicePath, Mount.GetDevicePath): when    *)
(* volume ids differ in their first 20 characters and every disk has its   *)
(* own bus/address, a path either resolver returns is a disk of the        *)
(* volume it was asked for, however udev and the metadata service move.    *)
THEOREM ResolverSafe == PrefixDistinct /\ ~SharedAddrs => (Spec => []ResolvedIsOwn)
<1> SUFFICES ASSUME PrefixDistinct, ~SharedAddrs PROVE Spec => []ResolvedIsOwn
  OBVIOUS
<1>1. Init => IInv
  BY InitIInv
<1>2. IInv /\ [Next]_vars => IInv'
  BY NextIInv
<1>3. IInv => ResolvedIsOwn
  BY DEF IInv
<1>4. QED
  BY <1>1, <1>2, <1>3, PTL DEF Spec


-----------------------------------------------------------------------------
(* Refinement of ResolveDevicePath.                                        *)

\* A resolver step that leaves the abstract call alone is a stutter.
LEMMA AbsStutter ==
    ASSUME owner' = owner, AbsCall' = AbsCall
    PROVE  [Abs!Next]_Abs!vars
BY DEF Abs!vars

\* A resolver step that ends a call with an allowed outcome is Answer.
LEMMA AbsAnswer ==
    ASSUME TypeOK, rs.pc \in {"serial", "meta"}, NEW r,
           r \in Abs!Outcomes(rs.vol),
           rs' = [rs EXCEPT !.pc = "done", !.res = r], owner' = owner
    PROVE  Abs!Answer
<1>1. AbsCall.pc = "busy" /\ AbsCall.vol = rs.vol
  BY DEF AbsCall
<1>2. rs'.pc = "done" /\ rs'.vol = rs.vol /\ rs'.res = r
  BY DEF TypeOK, RsType
<1>3. AbsCall' = [pc |-> "done", vol |-> rs.vol, res |-> r]
  BY <1>2 DEF AbsCall
<1>5. r \in Abs!Outcomes(AbsCall.vol)
  BY <1>1
<1>6. QED
  BY <1>1, <1>3, <1>5 DEF Abs!Answer

\* Another attempt is a stutter; the Timeout after the last is Answer.
LEMMA NextAttemptRefines ==
    ASSUME TypeOK, rs.pc \in {"serial", "meta"}, rs.vol \notin ShortIds,
           NextAttempt, owner' = owner
    PROVE  [Abs!Next]_Abs!vars
<1>1. CASE rs.n = StepsOf(rs.impl)
  <2>1. "Timeout" \in Abs!Outcomes(rs.vol)
    BY DEF Abs!Outcomes
  <2>2. rs' = [rs EXCEPT !.pc = "done", !.res = "Timeout"]
    BY <1>1 DEF NextAttempt
  <2>3. QED
    BY <2>1, <2>2, AbsAnswer DEF Abs!Next
<1>2. CASE rs.n # StepsOf(rs.impl)
  <2>1. rs' = [rs EXCEPT !.pc = "serial", !.n = rs.n + 1]
    BY <1>2 DEF NextAttempt
  <2>2. AbsCall' = AbsCall
    BY <2>1 DEF AbsCall, TypeOK, RsType
  <2>3. QED
    BY <2>2, AbsStutter
<1>3. QED
  BY <1>1, <1>2

LEMMA NextRefines == PrefixDistinct /\ IInv /\ [Next]_vars => [Abs!Next]_Abs!vars
<1> SUFFICES ASSUME PrefixDistinct, IInv, [Next]_vars PROVE [Abs!Next]_Abs!vars
  OBVIOUS
<1>0. TypeOK /\ MetaNotShort
  BY DEF IInv
<1>1. CASE Start
  <2>1. PICK impl \in Impls, v \in Volumes :
           rs' = [pc |-> "serial", impl |-> impl, vol |-> v, n |-> 1, res |-> "none"]
    BY <1>1 DEF Start
  <2>2. AbsCall.pc \in {"idle", "done"}
    BY <1>1 DEF Start, AbsCall
  <2>3. AbsCall' = [pc |-> "busy", vol |-> v, res |-> "none"]
    BY <2>1 DEF AbsCall
  <2>4. owner' = owner
    BY <1>1 DEF Start, envVars
  <2>5. QED
    BY <2>2, <2>3, <2>4 DEF Abs!Next, Abs!Begin
<1>2. CASE ResolveBySerial
  <2>0. rs.pc = "serial" /\ owner' = owner
    BY <1>2 DEF ResolveBySerial, envVars
  <2>1. CASE rs.vol \in ShortIds /\ Return("Panic")
    <3>1. "Panic" \in Abs!Outcomes(rs.vol)
      BY <2>1 DEF Abs!Outcomes
    <3>2. QED
      BY <1>0, <2>0, <2>1, <3>1, AbsAnswer DEF Return, Abs!Next
  <2>2. CASE rs.vol \notin ShortIds /\ SerialHits(rs.vol) # {}
             /\ Return(byId[FirstByName(SerialHits(rs.vol))])
    <3> DEFINE h == FirstByName(SerialHits(rs.vol))
    <3>1. rs.vol \in Volumes
      BY <1>0 DEF TypeOK, RsType
    <3>2. h \in SerialHits(rs.vol)
      <4>1. \A k \in SerialHits(rs.vol) : k[1] \in Conventions
        BY DEF SerialHits, LinkName
      <4>2. QED
        BY <2>2, <4>1, FirstByNameIn
    <3>3. byId[h] \in Devs /\ owner[byId[h]] = rs.vol
      BY <3>1, <3>2, SerialHitOwn DEF IInv
    <3>4. byId[h] \in Abs!Outcomes(rs.vol)
      BY <2>2, <3>3 DEF Abs!Outcomes
    <3>5. QED
      BY <1>0, <2>0, <2>2, <3>4, AbsAnswer DEF Return, Abs!Next
  <2>3. CASE rs.vol \notin ShortIds /\ SerialHits(rs.vol) = {}
             /\ rs.impl = "openstack" /\ rs' = [rs EXCEPT !.pc = "meta"]
    <3>1. AbsCall' = AbsCall
      BY <1>0, <2>0, <2>3 DEF AbsCall, TypeOK, RsType
    <3>2. QED
      BY <2>0, <3>1, AbsStutter
  <2>4. CASE rs.vol \notin ShortIds /\ SerialHits(rs.vol) = {}
             /\ rs.impl = "mount" /\ NextAttempt
    BY <1>0, <2>0, <2>4, NextAttemptRefines
  <2>5. QED
    BY <1>2, <2>1, <2>2, <2>3, <2>4 DEF ResolveBySerial
<1>3. CASE ResolveByMetadata
  <2>0. rs.pc = "meta" /\ owner' = owner /\ rs.vol \notin ShortIds
    BY <1>0, <1>3 DEF ResolveByMetadata, envVars, MetaNotShort
  <2>1. CASE NextAttempt
    BY <1>0, <2>0, <2>1, NextAttemptRefines
  <2>2. CASE \E d \in MetaDisks(rs.vol) :
                /\ Cardinality(GlobMatches(d)) = 1
                /\ Return(CHOOSE e \in GlobMatches(d) : TRUE)
    <3>1. PICK d \in MetaDisks(rs.vol) :
                 /\ Cardinality(GlobMatches(d)) = 1
                 /\ Return(CHOOSE e \in GlobMatches(d) : TRUE)
      BY <2>2
    <3> DEFINE e == CHOOSE x \in GlobMatches(d) : TRUE
    <3>2. GlobMatches(d) # {}
      BY <3>1, FS_EmptySet
    <3>3. e \in byPath /\ addr[e] = addr[d]
      BY <3>2 DEF GlobMatches
    <3>4. e \in Devs /\ d \in Devs
      BY <3>3 DEF IInv, TypeOK, MetaDisks
    <3>5. e = d
      BY <3>3, <3>4 DEF IInv, AddrUnique
    <3>6. owner[e] = rs.vol
      BY <3>5 DEF MetaDisks
    <3>7. e \in Abs!Outcomes(rs.vol)
      BY <2>0, <3>4, <3>6 DEF Abs!Outcomes
    <3>8. QED
      BY <1>0, <2>0, <3>1, <3>7, AbsAnswer DEF Return, Abs!Next
  <2>3. QED
    BY <1>3, <2>1, <2>2 DEF ResolveByMetadata
<1>4. CASE LinkAppears \/ PathAppears \/ MetadataFlap
  <2>1. owner' = owner /\ rs' = rs
    BY <1>4 DEF LinkAppears, PathAppears, MetadataFlap
  <2>2. QED
    BY <2>1, AbsStutter DEF AbsCall
<1>5. CASE UNCHANGED vars
  BY <1>5, AbsStutter DEF vars, AbsCall
<1>6. QED
  BY <1>1, <1>2, <1>3, <1>4, <1>5 DEF Next

\* Initial states map to initial states of the abstract call.
LEMMA InitRefines == Init => Abs!Init
BY DEF Init, Abs!Init, AbsCall

(* ResolveDevicePath refinement (OpenStack.GetDevicePath,                  *)
(* Mount.GetDevicePath): under the same two hypotheses every behaviour of  *)
(* either resolver, read through AbsCall, is a behaviour of the abstract   *)
(* resolution: a call ends only with a disk of its volume, Timeout, or for *)
(* a short id a panic, and nothing else changes the abstract call.        *)
THEOREM ResolverRefinesSafety ==
    PrefixDistinct /\ ~SharedAddrs => (Spec => Abs!SafetySpec)
<1> SUFFICES ASSUME PrefixDistinct, ~SharedAddrs PROVE Spec => Abs!SafetySpec
  OBVIOUS
<1>1. Init => IInv /\ Abs!Init
  BY InitIInv, InitRefines
<1>2. IInv /\ [Next]_vars => IInv'
  BY NextIInv
<1>3. IInv /\ [Next]_vars => [Abs!Next]_Abs!vars
  BY NextRefines
<1>4. QED
  BY <1>1, <1>2, <1>3, PTL DEF Spec, Abs!SafetySpec

=============================================================================
