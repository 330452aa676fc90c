------------------------- MODULE ResolveDevicePath -------------------------
(***************************************************************************)
(* What a device-path resolution promises its caller, whichever strategy  *)
(* finds the device: the call ends, and it ends with a device node of the  *)
(* volume asked for or with Timeout once the step budget is spent; it      *)
(* never loops forever.  The one further outcome is the code's: an id too  *)
(* short to slice to 20 characters ends the call with a panic.             *)
(***************************************************************************)
CONSTANTS
    Volumes,    \* volume ids a caller may ask to resolve
    ShortIds,   \* the ids shorter than 20 characters
    Devs,       \* block devices of the node
    NoVolume    \* owner of a device that holds no volume

VARIABLES
    owner,      \* owner[d]: the volume whose disk d is
    call        \* the resolution in progress: pc, vol, res

vars == <<owner, call>>

\* The results a call for v may end with.
Outcomes(v) ==
    IF v \in ShortIds THEN {"Panic"}
    ELSE {d \in Devs : owner[d] = v} \cup {"Timeout"}

Begin ==
    /\ call.pc \in {"idle", "done"}
    /\ \E v \in Volumes : call' = [pc |-> "busy", vol |-> v, res |-> "none"]
    /\ UNCHANGED owner

Answer ==
    /\ call.pc = "busy"
    /\ \E r \in Outcomes(call.vol) : call' = [pc |-> "done", vol |-> call.vol, res |-> r]
    /\ UNCHANGED owner

Init ==
    /\ owner \in {f \in [Devs -> Volumes \cup {NoVolume}] :
                    \A d1, d2 \in Devs : f[d1] = f[d2] /\ f[d1] # NoVolume => d1 = d2}
    /\ call = [pc |-> "idle", vol |-> CHOOSE v \in Volumes : TRUE, res |-> "none"]

Next == Begin \/ Answer

SafetySpec == Init /\ [][Next]_vars

\* A call in progress is answered.
Spec == SafetySpec /\ WF_vars(Answer)
=============================================================================
