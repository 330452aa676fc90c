---------------------------- MODULE NodeIdentity ----------------------------
(***************************************************************************)
(* How the node plugin reports its identity (NodeGetId, NodeGetInfo ->     *)
(* getNodeID in nodeserver.go).  The instance id is read first from the    *)
(* file cloud-init writes (Mount.GetInstanceID in mount.go), and only if   *)
(* that fails from the metadata service (GetInstanceID ->                  *)
(* getMetaDataInfo -> getMetadata in openstack_metadata.go).  Concurrent   *)
(* gRPC calls each read the two sources while cloud-init and the metadata  *)
(* service change them.  The node's id is the single value "self".         *)
(***************************************************************************)
EXTENDS Naturals

CONSTANTS
    Workers,     \* gRPC goroutines serving NodeGetId / NodeGetInfo
    FileStates,  \* contents /var/lib/cloud/data/instance-id may have:
                 \* a subset of {"missing", "empty", "id"}
    MetaStates   \* answers the metadata service may give: a subset of
                 \* {"down", "non200", "uuid", "nouuid"}, where "down" is a
                 \* failed http.Get, "non200" a status other than 200, and
                 \* "uuid" / "nouuid" a 200 whose JSON has or lacks "uuid"

VARIABLES
    file,   \* what the instance-id file holds
    meta,   \* what the metadata service answers
    wk      \* wk[w]: pc and last reply of goroutine w

vars == <<file, meta, wk>>

Replies == [kind : {"none", "err", "ok"}, id : {"", "self"}]
Ok(i) == [kind |-> "ok", id |-> i]
Err == [kind |-> "err", id |-> ""]

TypeOK ==
    /\ file \in FileStates
    /\ meta \in MetaStates
    /\ wk \in [Workers -> [pc : {"idle", "file", "meta"}, reply : Replies]]

(* strings.TrimSpace of the file, and the "uuid" field of the JSON.       *)
FileId(f) == IF f = "id" THEN "self" ELSE ""
MetaUUID(m) == IF m = "uuid" THEN "self" ELSE ""

Reply(w, r) == wk' = [wk EXCEPT ![w] = [pc |-> "idle", reply |-> r]]

-----------------------------------------------------------------------------
(* NodeGetId / NodeGetInfo call getNodeID.                                *)
StartGetNodeID(w) ==
    /\ wk[w].pc = "idle"
    /\ wk' = [wk EXCEPT ![w].pc = "file"]
    /\ UNCHANGED <<file, meta>>

(* getNodeIDMountProvider: ReadFile and TrimSpace.  A non-empty id is     *)
(* returned; an empty file gives ("", nil), which getNodeID's test        *)
(* err == nil || nodeID != "" also returns; only a read error falls        *)
(* through to the metadata service.                                        *)
ReadInstanceFile(w) ==
    /\ wk[w].pc = "file"
    /\ \/ file # "missing" /\ Reply(w, Ok(FileId(file)))
       \/ file = "missing" /\ wk' = [wk EXCEPT ![w].pc = "meta"]
    /\ UNCHANGED <<file, meta>>

(* getNodeIDMetdataService: a transport error is returned; a non-200      *)
(* status makes getMetadata return (nil, nil) and json.Unmarshal of nil    *)
(* fails; a 200 gives md.UUID, "" when the field is absent.                *)
QueryMetadata(w) ==
    /\ wk[w].pc = "meta"
    /\ \/ meta \in {"down", "non200"} /\ Reply(w, Err)
       \/ meta \in {"uuid", "nouuid"} /\ Reply(w, Ok(MetaUUID(meta)))
    /\ UNCHANGED <<file, meta>>

(* cloud-init creates, truncates or rewrites the instance-id file.         *)
CloudInitWrite ==
    /\ \E f \in FileStates \ {file} : file' = f
    /\ UNCHANGED <<meta, wk>>

(* The metadata service changes its answer.                               *)
MetadataChange ==
    /\ \E m \in MetaStates \ {meta} : meta' = m
    /\ UNCHANGED <<file, wk>>

Init ==
    /\ file \in FileStates
    /\ meta \in MetaStates
    /\ wk = [w \in Workers |-> [pc |-> "idle", reply |-> [kind |-> "none", id |-> ""]]]

Next ==
    \/ \E w \in Workers :
          StartGetNodeID(w) \/ ReadInstanceFile(w) \/ QueryMetadata(w)
    \/ CloudInitWrite
    \/ MetadataChange

Spec == Init /\ [][Next]_vars

-----------------------------------------------------------------------------
(* A successful NodeGetId / NodeGetInfo carries a non-empty node id: the   *)
(* CO registers the node under it and passes it to ControllerPublish as   *)
(* the server to attach to.                                                *)
NodeIdNonEmpty ==
    \A w \in Workers : wk[w].reply.kind = "ok" => wk[w].reply.id # ""
=============================================================================
