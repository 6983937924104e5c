------------------------------ MODULE RhidCount -----------------------------
(***************************************************************************)
(* rhid_get_device_count of src/src/rhid_win.c, which finds the number of  *)
(* entries of a device list it can only probe by index: it jumps ahead     *)
(* until a probe fails, then walks back to the last index that is there.   *)
(***************************************************************************)
EXTENDS Integers

CONSTANTS
    JumpCount,      \* jump_count
    MaxDevices,     \* bound: devices in a list
    MaxFaults       \* bound: probes that fail for another reason

ASSUME CountAssumption ==
    JumpCount \in Nat \ {0} /\ MaxDevices \in Nat /\ MaxFaults \in Nat

VARIABLES
    devices,        \* length of the list SetupDiGetClassDevs returned
    index,          \* i, then last_index
    pc,             \* "idle", "jumping" or "walking"
    result,         \* what the last call returned
    faults          \* probes that failed in this call

vars == <<devices, index, pc, result, faults>>

Init ==
    /\ devices \in 0..MaxDevices
    /\ index = 0 /\ pc = "idle" /\ result = devices /\ faults = 0

(* SetupDiEnumDeviceInterfaces finds an interface at the index. *)
There == index \in 0..(devices - 1)

Fault == faults < MaxFaults /\ faults' = faults + 1

(* The call takes its own snapshot of the devices attached. *)
Call ==
    /\ pc = "idle"
    /\ devices' \in 0..MaxDevices
    /\ pc' = "jumping" /\ index' = JumpCount /\ faults' = 0
    /\ UNCHANGED result

(* No list, or an error that is not ERROR_NO_MORE_ITEMS: -1. *)
Error ==
    /\ pc = "jumping" /\ Fault
    /\ pc' = "idle" /\ result' = -1
    /\ UNCHANGED <<devices, index>>

(* Mutant: the index is not advanced.                                      *)
JumpInPlace == pc = "jumping" /\ There /\ UNCHANGED vars

Jump ==
    /\ pc = "jumping" /\ There
    /\ index' = index + JumpCount
    /\ UNCHANGED <<devices, pc, result, faults>>

(* Mutant: the first index out of bounds is taken for the count.           *)
OutOfBoundsIsCount ==
    /\ pc = "jumping" /\ ~There
    /\ pc' = "idle" /\ result' = index
    /\ UNCHANGED <<devices, index, faults>>

OutOfBounds ==
    /\ pc = "jumping" /\ ~There
    /\ pc' = "walking"
    /\ UNCHANGED <<devices, index, result, faults>>

(* Mutant: the walk does not stop at the front of the list.                *)
WalkBackOn ==
    /\ pc = "walking" /\ ~There
    /\ index' = index - 1
    /\ UNCHANGED <<devices, pc, result, faults>>

(* Walking back, every failing probe, whatever its error, is one index     *)
(* too far.                                                                *)
WalkBack ==
    /\ pc = "walking" /\ index >= 0
    /\ \/ ~There /\ UNCHANGED faults
       \/ There /\ Fault
    /\ index' = index - 1
    /\ UNCHANGED <<devices, pc, result>>

(* Mutant: the last index is returned for the count.                       *)
ReturnIndex ==
    /\ pc = "walking" /\ (There \/ index < 0)
    /\ pc' = "idle" /\ result' = index
    /\ UNCHANGED <<devices, index, faults>>

Return ==
    /\ pc = "walking" /\ (There \/ index < 0)
    /\ pc' = "idle" /\ result' = index + 1
    /\ UNCHANGED <<devices, index, faults>>

Next == Call \/ Error \/ Jump \/ OutOfBounds \/ WalkBack \/ Return

Spec == Init /\ [][Next]_vars

(* The loops of the function run on. *)
Fairness == /\ WF_vars(Jump) /\ WF_vars(OutOfBounds)
            /\ WF_vars(WalkBack \/ Return)

FairSpec == Spec /\ Fairness

-----------------------------------------------------------------------------
(* Properties *)

TypeOK ==
    /\ devices \in 0..MaxDevices
    /\ index \in -1..(MaxDevices + JumpCount)
    /\ pc \in {"idle", "jumping", "walking"}
    /\ result \in Int /\ faults \in Nat

(* A call without a failing probe returns the length of the list, for      *)
(* lists shorter than, equal to and past a multiple of the jump.           *)
CountIsExact == pc = "idle" /\ faults = 0 => result = devices

(* With failing probes a count is -1 or falls short; inpt_update never     *)
(* asks rhid_get_devices for entries that do not exist on that account.    *)
CountNeverExceeds == pc = "idle" => result \in -1..devices

(* Every call returns. *)
CallReturns == pc = "jumping" ~> pc = "idle"

(* Until the walk ends no device lies beyond the index: the last probe of  *)
(* the jumps failed, and every index walked over was empty or faulty.      *)
NothingBeyond == pc = "walking" /\ faults = 0 => devices <= index + 1

JumpsAreThere == /\ pc = "jumping" => index >= 0 /\ faults = 0
                 /\ pc = "walking" => index >= -1

IInv == TypeOK /\ CountIsExact /\ CountNeverExceeds /\ NothingBeyond
        /\ JumpsAreThere
=============================================================================
