-------------------------- MODULE MCDeviceResolver --------------------------
(* Small instances of the device resolver for TLC.                         *)
EXTENDS DeviceResolver

CONSTANTS v1, v2, vs, d1, d2, d3, a1, a2, a3

MCVolumes == {v1, v2, vs}
MCShortIds == {vs}
(* UUIDs differ within their first 20 characters.                          *)
MCPrefix20 == [v \in MCVolumes |-> v]
MCDevs == {d1, d2}
MCAddrs == {a1, a2}
=============================================================================
