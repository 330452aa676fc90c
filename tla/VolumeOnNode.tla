---------------------------- MODULE VolumeOnNode ----------------------------
(***************************************************************************)
(* The lifecycle of one volume on one node as the design promises it       *)
(* (spec section 4, "States per volume-on-node"): unstaged -> staged ->    *)
(* published -> staged -> unstaged.  Publish requires staged; unpublish    *)
(* only undoes a publish; unstage requires that no target is published;   *)
(* the volume is staged only while attached, and detached (section 5's    *)
(* end-to-end order) only once it is unstaged.                            *)
(***************************************************************************)
CONSTANT
    Targets     \* the workloads' target paths

VARIABLES
    attached,   \* the volume is attached to the node
    staged,     \* the volume is mounted at its staging path
    published   \* the targets the volume is published to

vars == <<attached, staged, published>>

Attach ==
    /\ ~attached
    /\ attached' = TRUE
    /\ UNCHANGED <<staged, published>>

Detach ==
    /\ attached /\ ~staged /\ published = {}
    /\ attached' = FALSE
    /\ UNCHANGED <<staged, published>>

Stage ==
    /\ attached /\ ~staged
    /\ staged' = TRUE
    /\ UNCHANGED <<attached, published>>

Unstage ==
    /\ staged /\ published = {}
    /\ staged' = FALSE
    /\ UNCHANGED <<attached, published>>

Publish(t) ==
    /\ staged /\ t \notin published
    /\ published' = published \cup {t}
    /\ UNCHANGED <<attached, staged>>

Unpublish(t) ==
    /\ t \in published
    /\ published' = published \ {t}
    /\ UNCHANGED <<attached, staged>>

Init == ~attached /\ ~staged /\ published = {}

Next ==
    \/ Attach \/ Detach \/ Stage \/ Unstage
    \/ \E t \in Targets : Publish(t) \/ Unpublish(t)

Spec == Init /\ [][Next]_vars
=============================================================================
