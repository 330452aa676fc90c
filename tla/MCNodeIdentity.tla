--------------------------- MODULE MCNodeIdentity ---------------------------
(* Small instances of the node-identity lookup for TLC.                    *)
EXTENDS NodeIdentity

CONSTANTS w1, w2

MCWorkers == {w1, w2}
(* The metadata service may fail but always includes the uuid when it     *)
(* answers 200.                                                            *)
MCMetaStatesWellFormed == {"down", "non200", "uuid"}
(* The file may also be seen empty (created, not yet written).             *)
MCFileStatesAll == {"missing", "empty", "id"}
=============================================================================
