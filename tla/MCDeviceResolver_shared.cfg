\* The OpenStack resolver on a node whose hypervisor reuses a bus/address
\* on another controller: the by-path glob may match another disk.
CONSTANTS
    v1 = v1
    v2 = v2
    vs = vs
    d1 = d1
    d2 = d2
    d3 = d3
    a1 = a1
    a2 = a2
    a3 = a3
    NoVolume = NoVolume
    NoDev = NoDev
    Volumes <- MCVolumes
    ShortIds <- MCShortIds
    Prefix20 <- MCPrefix20
    Devs <- MCDevs
    Addrs <- MCAddrs
    OpenStackSteps = 2
    MountSteps = 2
    SharedAddrs = TRUE
SPECIFICATION Spec
INVARIANT ResolvedIsOwn
