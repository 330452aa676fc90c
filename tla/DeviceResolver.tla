--------------------------- MODULE DeviceResolver ---------------------------
(***************************************************************************)
(* The device resolver: map a volume id to a block-device path on the      *)
(* node.  Two implementations are modelled, both polling with              *)
(* wait.ExponentialBackoff:                                                *)
(*   "openstack": OpenStack.GetDevicePath (openstack_metadata.go), which   *)
(*                tries the by-id serial names, then the metadata service  *)
(*                and a by-path glob, on every attempt;                    *)
(*   "mount":     Mount.GetDevicePath (mount.go), by-id serial names only. *)
(* Each attempt is split at the point where the code performs a new read   *)
(* of the environment, so that udev and the metadata service can change    *)
(* between the two strategies of one attempt.  Volume ids, link names and  *)
(* bus/address pairs are model values; volumeID[:20] is Prefix20[v].       *)
(***************************************************************************)
EXTENDS Naturals, FiniteSets

CONSTANTS
    Volumes,        \* volume ids a caller may ask to resolve
    ShortIds,       \* the ids shorter than 20 characters
    Prefix20,       \* Prefix20[v]: volumeID[:20]
    Devs,           \* block devices of the node
    Addrs,          \* bus/address pairs the metadata service reports
    OpenStackSteps, \* operationFinishSteps of openstack_metadata.go
    MountSteps,     \* operationFinishSteps of mount.go
    NoVolume,       \* owner of a device that holds no volume (root disk)
    NoDev,          \* a by-id name with no link
    SharedAddrs     \* two controllers may report the same bus/address

ASSUME ResolverAssumption ==
    /\ Volumes # {}
    /\ ShortIds \subseteq Volumes
    /\ DOMAIN Prefix20 = Volumes
    /\ OpenStackSteps \in Nat \ {0}
    /\ MountSteps \in Nat \ {0}
    /\ NoVolume \notin Volumes
    /\ NoDev \notin Devs
    /\ {"none", "Timeout", "Panic"} \cap Devs = {}
    /\ SharedAddrs \in BOOLEAN

VARIABLES
    owner,      \* owner[d]: the volume whose disk d is (fixed)
    addr,       \* addr[d]: the bus/address of d (fixed, not unique)
    byId,       \* byId[name]: the device the /dev/disk/by-id link points to
    byPath,     \* devices whose /dev/disk/by-path link exists
    metaUp,     \* the metadata service answers
    rs          \* the resolver call: pc, impl, vol, attempt n, result

vars == <<owner, addr, byId, byPath, metaUp, rs>>

(* Distinct volume ids differ within their first 20 characters, as the    *)
(* UUIDs Cinder assigns do in practice.                                   *)
PrefixDistinct == \A u, v \in Volumes : Prefix20[u] = Prefix20[v] => u = v

Impls == {"openstack", "mount"}
StepsOf(impl) == IF impl = "openstack" THEN OpenStackSteps ELSE MountSteps

(* The by-id names udev creates: virtio-<id[:20]>,                         *)
(* scsi-0QEMU_QEMU_HARDDISK_<id[:20]> and wwn-0x<id without dashes>.       *)
Conventions == {"virtio", "scsi", "wwn"}
LinkName(c, v) == IF c = "wwn" THEN <<c, v>> ELSE <<c, Prefix20[v]>>
Names == {LinkName(c, v) : c \in Conventions, v \in Volumes}

(* ioutil.ReadDir lists by name: scsi-... < virtio-... < wwn-...          *)
ConvRank == [c \in Conventions |->
                IF c = "scsi" THEN 1 ELSE IF c = "virtio" THEN 2 ELSE 3]

Results == Devs \cup {"none", "Timeout", "Panic"}
RsType == [pc : {"idle", "serial", "meta", "done"}, impl : Impls,
           vol : Volumes, n : Nat, res : Results]

TypeOK ==
    /\ owner \in [Devs -> Volumes \cup {NoVolume}]
    /\ addr \in [Devs -> Addrs]
    /\ byId \in [Names -> Devs \cup {NoDev}]
    /\ byPath \subseteq Devs
    /\ metaUp \in BOOLEAN
    /\ rs \in RsType

(* getDevicePathBySerialID: the existing candidate names of v.            *)
SerialHits(v) == {LinkName(c, v) : c \in Conventions} \cap
                 {nm \in Names : byId[nm] # NoDev}
FirstByName(hits) == CHOOSE h \in hits : \A k \in hits : ConvRank[h[1]] <= ConvRank[k[1]]

(* A variant that drops the serial comparison.                            *)
MetaDisks_anySerial(v) == {d \in Devs : owner[d] # NoVolume}

(* The metadata entries of type "disk" whose serial is v, and the by-path  *)
(* links that the glob "*-<bus>-<address>" of an entry matches.           *)
MetaDisks(v) == {d \in Devs : owner[d] = v}
GlobMatches(d) == {e \in byPath : addr[e] = addr[d]}

(* A variant that polls without a step ceiling (wait.PollInfinite).       *)
NextAttempt_forever == rs' = [rs EXCEPT !.pc = "serial"]

(* The condition returned false: wait.ExponentialBackoff sleeps and tries  *)
(* again, or gives up with ErrWaitTimeout after the last step.            *)
NextAttempt ==
    IF rs.n = StepsOf(rs.impl)
    THEN rs' = [rs EXCEPT !.pc = "done", !.res = "Timeout"]
    ELSE rs' = [rs EXCEPT !.pc = "serial", !.n = rs.n + 1]

Return(d) == rs' = [rs EXCEPT !.pc = "done", !.res = d]

envVars == <<owner, addr, byId, byPath, metaUp>>

-----------------------------------------------------------------------------
(* A caller asks either implementation to resolve a volume.               *)
Start ==
    /\ rs.pc \in {"idle", "done"}
    /\ \E impl \in Impls, v \in Volumes :
          rs' = [pc |-> "serial", impl |-> impl, vol |-> v, n |-> 1, res |-> "none"]
    /\ UNCHANGED envVars

(* getDevicePathBySerialID: volumeID[:20] panics on a short id; the first  *)
(* candidate found in the by-id listing wins; otherwise the openstack      *)
(* implementation goes on to the metadata service and the mount one waits. *)
ResolveBySerial ==
    /\ rs.pc = "serial"
    /\ \/ /\ rs.vol \in ShortIds
          /\ Return("Panic")
       \/ /\ rs.vol \notin ShortIds
          /\ SerialHits(rs.vol) # {}
          /\ Return(byId[FirstByName(SerialHits(rs.vol))])
       \/ /\ rs.vol \notin ShortIds
          /\ SerialHits(rs.vol) = {}
          /\ rs.impl = "openstack"
          /\ rs' = [rs EXCEPT !.pc = "meta"]
       \/ /\ rs.vol \notin ShortIds
          /\ SerialHits(rs.vol) = {}
          /\ rs.impl = "mount"
          /\ NextAttempt
    /\ UNCHANGED envVars

(* getDevicePathFromInstanceMetadata: an error from the metadata service, *)
(* no disk entry with this serial, or a glob with other than exactly one  *)
(* match, all return "" and the poll goes on.                             *)
ResolveByMetadata ==
    /\ rs.pc = "meta"
    /\ \/ /\ ~metaUp \/ MetaDisks(rs.vol) = {}
          /\ NextAttempt
       \/ /\ metaUp
          /\ \E d \in MetaDisks(rs.vol) :
                \/ /\ Cardinality(GlobMatches(d)) = 1
                   /\ Return(CHOOSE e \in GlobMatches(d) : TRUE)
                \/ /\ Cardinality(GlobMatches(d)) # 1
                   /\ NextAttempt
    /\ UNCHANGED envVars

(* udev creates a by-id link for an attached volume's disk under one of   *)
(* the hypervisor's naming conventions.                                   *)
LinkAppears ==
    /\ \E d \in Devs, c \in Conventions :
          /\ owner[d] # NoVolume
          /\ byId[LinkName(c, owner[d])] = NoDev
          /\ byId' = [byId EXCEPT ![LinkName(c, owner[d])] = d]
    /\ UNCHANGED <<owner, addr, byPath, metaUp, rs>>

(* udev creates the by-path link of any disk, volume or not.              *)
PathAppears ==
    /\ \E d \in Devs \ byPath : byPath' = byPath \cup {d}
    /\ UNCHANGED <<owner, addr, byId, metaUp, rs>>

(* The metadata service starts or stops answering.                        *)
MetadataFlap ==
    /\ metaUp' = ~metaUp
    /\ UNCHANGED <<owner, addr, byId, byPath, rs>>

(* Each device holds at most one volume and each volume is on at most one *)
(* device; bus/address pairs repeat only across controllers.              *)
Init ==
    /\ owner \in {f \in [Devs -> Volumes \cup {NoVolume}] :
                    \A d1, d2 \in Devs : f[d1] = f[d2] /\ f[d1] # NoVolume => d1 = d2}
    /\ addr \in {f \in [Devs -> Addrs] :
                    ~SharedAddrs => \A d1, d2 \in Devs : f[d1] = f[d2] => d1 = d2}
    /\ byId = [nm \in Names |-> NoDev]
    /\ byPath = {}
    /\ metaUp \in BOOLEAN
    /\ rs = [pc |-> "idle", impl |-> "openstack", vol |-> CHOOSE v \in Volumes : TRUE,
             n |-> 0, res |-> "none"]

Next ==
    \/ Start \/ ResolveBySerial \/ ResolveByMetadata
    \/ LinkAppears \/ PathAppears \/ MetadataFlap

(* The handler goroutine keeps running the poll: every backoff sleep is   *)
(* finite.  The caller, udev and the metadata service are not fair.       *)
Fairness == WF_vars(ResolveBySerial) /\ WF_vars(ResolveByMetadata)

Spec == Init /\ [][Next]_vars /\ Fairness

-----------------------------------------------------------------------------
(* A path the resolver returns is a disk of the volume asked for: the      *)
(* serial names are built from this volume's id, and the metadata strategy *)
(* globs the bus/address of the entry whose serial is this id, trusting    *)
(* the glob only when it matches exactly one by-path link.                 *)
ResolvedIsOwn ==
    rs.pc = "done" /\ rs.res \in Devs => owner[rs.res] = rs.vol

(* The abstract call: both strategies and every attempt are one "busy".  *)
AbsCall == [pc |-> IF rs.pc \in {"serial", "meta"} THEN "busy" ELSE rs.pc,
            vol |-> rs.vol, res |-> rs.res]

Abs == INSTANCE ResolveDevicePath WITH call <- AbsCall

(* Both GetDevicePath implementations implement the promise of a device-  *)
(* path resolution (spec.md 4.2): every call started ends, with a disk of *)
(* the volume asked for or with Timeout after the step ceiling (a short   *)
(* id panics), and its result never changes until the next call.        *)
ImplementsResolveDevicePath == Abs!Spec
=============================================================================
