---------------------------- MODULE ReportStream ----------------------------
(***************************************************************************)
(* What the rhid layer promises its caller about one HID device.  The      *)
(* device emits numbered input reports; the caller sees, for every button  *)
(* and value usage, the number of the report its current state was parsed  *)
(* from.  The state shown may skip reports and may mix two reports, but    *)
(* within one open session it never goes back to an older report and never *)
(* shows a report the device has not sent.                                 *)
(***************************************************************************)
EXTENDS Integers

CONSTANTS
    Usages,     \* button and value usages of the device
    Blank       \* an integer shown before any report was parsed

VARIABLES
    sent,       \* number of the last report the device sent
    seen        \* [Usages -> report number], the caller's current view

vars == <<sent, seen>>

Nothing == [u \in Usages |-> Blank]

Init == /\ sent = 0
        /\ seen = Nothing

(* The device samples its inputs and sends a report. *)
Send == /\ sent' = sent + 1
        /\ UNCHANGED seen

(* A call of rhid_report refreshes part of the view. *)
Show == /\ seen' \in [Usages -> Int]
        /\ \A u \in Usages : seen[u] <= seen'[u] /\ seen'[u] <= sent
        /\ UNCHANGED sent

(* rhid_open or rhid_close: a new session starts from the blank view. *)
Reset == /\ seen' = Nothing
         /\ UNCHANGED sent

Next == Send \/ Show \/ Reset

Spec == Init /\ [][Next]_vars
=============================================================================
