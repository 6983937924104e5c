------------------------------ MODULE RhidCaps ------------------------------
(***************************************************************************)
(* The descriptors of one device: how rhid_get_devices numbers the buttons *)
(* of its capabilities and rhid_report looks for them (src/src/rhid_win.c).*)
(* A button capability is one usage or a range of usages; a usage here is  *)
(* a usage with its page.  Of the values only their number is modelled.    *)
(***************************************************************************)
EXTENDS Integers, Sequences, FiniteSets

CONSTANTS
    UsageLimit,     \* 2^16, the values of a uint16_t
    MaxCaps,        \* RHID_MAX_BUTTON_CAPS, RHID_MAX_VALUE_CAPS
    MaxButtons,     \* MAX_BUTTON_COUNT, the length of button_descriptors
    MaxValues,      \* MAX_VALUE_COUNT, the length of value_descriptors
    Devices         \* [buttons : capabilities, values : number of them,
                    \*  length : HidP_MaxUsageListLength]

(* Usage 0 stands for no button and is not described by a driver; for the  *)
(* code a capability that is not a range has one usage, in both fields.    *)
CapRecords ==
    [range : BOOLEAN, min : 1..(UsageLimit - 1), max : 1..(UsageLimit - 1)]

ASSUME CapsAssumption ==
    /\ UsageLimit \in Nat \ {0} /\ MaxCaps \in Nat
    /\ MaxButtons \in Nat /\ MaxValues \in Nat
    /\ \A d \in Devices :
          /\ d.buttons \in Seq(CapRecords)
          /\ d.values \in Nat /\ d.length \in Nat
          /\ \A n \in DOMAIN d.buttons :
                LET c == d.buttons[n]
                IN  c.min <= c.max /\ (~c.range => c.min = c.max)

VARIABLES
    device,         \* what the driver says of the device
    pc,
    k, u,           \* the capability, and the usage in its range
    btn_desc_idx,
    descriptors,    \* devices[i].button_descriptors
    button_count, value_count,
    down,           \* the usages of the last report
    buttons         \* the indices i with device->buttons[i] = 1

vars == <<device, pc, k, u, btn_desc_idx, descriptors, button_count,
          value_count, down, buttons>>

Zero == [usage |-> 0, index |-> 0]
Indices == 0..(MaxButtons - 1)
Caps == device.buttons

Init ==
    /\ device \in Devices
    /\ pc = "idle" /\ k = 0 /\ u = 0 /\ btn_desc_idx = 0
    /\ descriptors = [n \in Indices |-> Zero]
    /\ button_count = 0 /\ value_count = 0
    /\ down = {} /\ buttons = {}

-----------------------------------------------------------------------------
(* rhid_get_devices *)

(* Mutant: the entry keeps the descriptors of the enumeration before.      *)
ZeroedCounts == UNCHANGED descriptors /\ button_count' = 0 /\ value_count' = 0

Zeroed ==
    /\ descriptors' = [n \in Indices |-> Zero]
    /\ button_count' = 0 /\ value_count' = 0

(* The entry is zeroed; then the device can be asked, or not.              *)
Enumerate ==
    /\ pc \in {"idle", "ready", "refused"}
    /\ pc' \in {"button_caps", "refused"}
    /\ Zeroed
    /\ btn_desc_idx' = 0 /\ down' = {} /\ buttons' = {}
    /\ UNCHANGED <<device, k, u>>

(* Too many capabilities: the entry is left as far as it was described.    *)
Refuse == pc' = "refused" /\ UNCHANGED <<button_count, value_count>>

(* There are none, or the driver does not tell them; too many; or enough.  *)
GetButtonCaps ==
    /\ pc = "button_caps"
    /\ \/ pc' = "value_caps" /\ UNCHANGED <<k, u, button_count, value_count>>
       \/ Len(Caps) > MaxCaps /\ Refuse /\ UNCHANGED <<k, u>>
       \/ /\ Len(Caps) \in 1..MaxCaps
          /\ pc' = "number" /\ k' = 1 /\ u' = Caps[1].min
          /\ UNCHANGED <<button_count, value_count>>
    /\ UNCHANGED <<device, btn_desc_idx, descriptors, down, buttons>>

Describe ==
    /\ btn_desc_idx \in Indices
    /\ descriptors' = [descriptors EXCEPT ![btn_desc_idx] =
                         [usage |-> u, index |-> btn_desc_idx]]

NextCap ==
    /\ k' = k + 1
    /\ IF k < Len(Caps)
         THEN pc' = "number" /\ u' = Caps[k + 1].min
         ELSE pc' = "value_caps" /\ u' = 0

(* Mutant: the loop ends before the last usage of the range. *)
InRangeButLast(v) == v < Caps[k].max

InRange(v) == v <= Caps[k].max

(* A usage of a range; after the last the index is advanced once more.     *)
NumberInRange ==
    /\ pc = "number" /\ Caps[k].range
    /\ Describe
    /\ u' = (u + 1) % UsageLimit /\ InRange(u')
    /\ btn_desc_idx' = btn_desc_idx + 1
    /\ UNCHANGED <<device, pc, k, button_count, value_count, down, buttons>>

NumberLast ==
    /\ pc = "number"
    /\ Caps[k].range => ~InRange((u + 1) % UsageLimit)
    /\ Describe
    /\ NextCap
    /\ btn_desc_idx' = btn_desc_idx + (IF Caps[k].range THEN 2 ELSE 1)
    /\ UNCHANGED <<device, button_count, value_count, down, buttons>>

(* Past the array, the rest of the entry and those after it are written    *)
(* over: what the program does once it leaves an array is not defined.     *)
Overrun ==
    /\ pc = "number" /\ btn_desc_idx \notin Indices
    /\ pc' = "overrun"
    /\ UNCHANGED <<device, k, u, btn_desc_idx, descriptors, button_count,
                   value_count, down, buttons>>

(* As for the buttons; the descriptors are fewer than the limit allows.    *)
GetValueCaps ==
    /\ pc = "value_caps"
    /\ \/ pc' = "counts" /\ UNCHANGED <<button_count, value_count>>
       \/ device.values > MaxCaps /\ Refuse
       \/ /\ device.values \in (MaxValues + 1)..MaxCaps
          /\ pc' = "overrun" /\ UNCHANGED <<button_count, value_count>>
    /\ UNCHANGED <<device, k, u, btn_desc_idx, descriptors, down, buttons>>

SetCounts ==
    /\ pc = "counts"
    /\ pc' = "ready"
    /\ button_count' = device.length /\ value_count' = device.values
    /\ UNCHANGED <<device, k, u, btn_desc_idx, descriptors, down, buttons>>

-----------------------------------------------------------------------------
(* rhid_report *)

(* Mutant: every descriptor is looked at. *)
FoundAnywhere(v) == {n \in Indices : descriptors[n].usage = v}

(* The descriptors of a usage among those that are looked at.              *)
Found(v) == {n \in Indices : n < button_count /\ descriptors[n].usage = v}

Usages == UNION {Caps[n].min..Caps[n].max : n \in DOMAIN Caps}

(* What HidP_GetUsagesEx may return: no more usages than it has announced, *)
(* and if usages_pages is too short for them rhid_report returns.          *)
Reported == {r \in SUBSET Usages : /\ Cardinality(r) <= device.length
                                   /\ Cardinality(r) <= MaxButtons}

(* The loops run to the counts the driver gave, not to the lengths of the  *)
(* arrays: a usage that no descriptor has is looked for behind them.       *)
ReadsPast(usages) ==
    \/ button_count > MaxButtons /\ \E v \in usages : Found(v) = {}
    \/ value_count > MaxValues

(* The first descriptor found for a usage that is down shows it.           *)
Report ==
    /\ pc \in {"ready", "refused"}
    /\ down' \in Reported /\ ~ReadsPast(down')
    /\ buttons' = {descriptors[n].index : n \in
          {n \in Indices : \E v \in down' :
              n \in Found(v) /\ \A l \in Found(v) : n <= l}}
    /\ UNCHANGED <<device, pc, k, u, btn_desc_idx, descriptors, button_count,
                   value_count>>

(* Read from behind the array, an index may be anything, and is written to.*)
ReportOverrun ==
    /\ pc \in {"ready", "refused"}
    /\ down' \in Reported /\ ReadsPast(down')
    /\ pc' = "overrun" /\ buttons' = {}
    /\ UNCHANGED <<device, k, u, btn_desc_idx, descriptors, button_count,
                   value_count>>

Next ==
    \/ Enumerate \/ GetButtonCaps \/ NumberInRange \/ NumberLast \/ Overrun
    \/ GetValueCaps \/ SetCounts
    \/ Report \/ ReportOverrun

Spec == Init /\ [][Next]_vars

-----------------------------------------------------------------------------
(* Properties *)

(* Among the rest: as long as the program stays within its descriptors, no *)
(* button is written past the button_count there are.                      *)
TypeOK ==
    /\ device \in Devices
    /\ pc \in {"idle", "button_caps", "number", "value_caps", "counts", "ready",
              "refused", "overrun"}
    /\ k \in 0..(Len(Caps) + 1) /\ u \in 0..(UsageLimit - 1)
    /\ btn_desc_idx \in 0..(MaxButtons + 1)
    /\ descriptors \in [Indices -> [usage : 0..(UsageLimit - 1), index : Indices]]
    /\ button_count \in {0, device.length} /\ value_count \in {0, device.values}
    /\ down \subseteq Usages /\ buttons \subseteq 0..(button_count - 1)

(* The buttons of the device in the order of its capabilities, and the     *)
(* number each gets: its position, and one more for every range before.    *)
Buttons == {b \in (DOMAIN Caps) \X Usages :
              b[2] \in Caps[b[1]].min..Caps[b[1]].max}
Before(a, b) == a[1] < b[1] \/ (a[1] = b[1] /\ a[2] < b[2])
Number(b) == Cardinality({a \in Buttons : Before(a, b)})
             + Cardinality({n \in DOMAIN Caps : n < b[1] /\ Caps[n].range})
First(v) == CHOOSE b \in Buttons :
               b[2] = v /\ \A a \in Buttons : a[2] = v => ~Before(a, b)

(* A report shows each button that is down at its number, if that is less  *)
(* than the driver's count of buttons, and nothing else: the ranges before *)
(* a button cost the last ones their place.  A device that was refused, or *)
(* whose capabilities were not told this time, shows nothing, whatever an  *)
(* earlier enumeration or the part before the refusal wrote.               *)
ButtonsShown ==
    pc # "overrun" =>
       buttons = IF pc = "ready" /\ btn_desc_idx > 0
                   THEN {Number(First(v)) : v \in down}
                           \cap 0..(device.length - 1)
                   ELSE {}

(* The program leaves its arrays only for a device with a number that does *)
(* not fit, a range up to the last value of a uint16_t (its loop does not  *)
(* end), more values than descriptors, or more buttons than descriptors    *)
(* whose capabilities were not told.  For none of these is a device with   *)
(* buttons described to the end, or a report with a button down shown: in  *)
(* particular a device that was described finds every button it looks for  *)
(* within the array, however large the driver's count.                     *)
Endless(n) == Caps[n].range /\ Caps[n].max = UsageLimit - 1
Unfit == \/ \E b \in Buttons : Number(b) \notin Indices
         \/ \E n \in DOMAIN Caps : Endless(n)
Untold == btn_desc_idx = 0 /\ device.length > MaxButtons
OverrunExactly ==
    /\ pc = "overrun" => Unfit \/ device.values > MaxValues \/ Untold
    /\ pc = "ready" /\ btn_desc_idx > 0 => ~Unfit
    /\ pc = "ready" /\ down # {} => device.values <= MaxValues /\ ~Untold

-----------------------------------------------------------------------------
(* The inductive invariant behind these properties.                        *)

(* Only a device described to the end has a count, and only its reports    *)
(* have shown anything.                                                    *)
CountsWhenReady ==
    /\ pc = "ready" =>
          button_count = device.length /\ value_count = device.values
    /\ pc \notin {"ready", "overrun"} =>
          button_count = 0 /\ value_count = 0 /\ buttons = {}
    /\ pc \notin {"ready", "refused", "overrun"} => down = {}

IndexIsPlace == \A n \in Indices : descriptors[n].index \in {0, n}

NothingYet ==
    /\ pc \in {"idle", "button_caps"} => btn_desc_idx = 0
    /\ btn_desc_idx = 0 => descriptors = [n \in Indices |-> Zero]

(* The usage that is numbered next, and its number in the reference; a     *)
(* range without an end is never left.                                     *)
Here == <<k, u>>

NumberingIsOrdered ==
    /\ pc = "number" =>
          /\ k \in DOMAIN Caps
          /\ ~Endless(k) => Here \in Buttons /\ btn_desc_idx = Number(Here)
          /\ \A n \in DOMAIN Caps : n < k => ~Endless(n)
    /\ pc \in {"value_caps", "counts", "ready"} /\ btn_desc_idx > 0 =>
          \A n \in DOMAIN Caps : ~Endless(n)

(* The buttons that have their descriptor, each at its number, and no      *)
(* other entry is written; of those with one usage the first is among them.*)
Described ==
    IF pc = "number" THEN {b \in Buttons : Before(b, Here)}
                     ELSE IF btn_desc_idx > 0 THEN Buttons ELSE {}

DescriptorsAreNumbered ==
    /\ \A b \in Described :
          /\ Number(b) \in Indices /\ Number(b) < btn_desc_idx
          /\ descriptors[Number(b)] = [usage |-> b[2], index |-> Number(b)]
    /\ \A n \in Indices :
          descriptors[n] = Zero \/ \E b \in Described : n = Number(b)

FirstsAreDescribed ==
    \A b \in Described :
       \E a \in Described :
          /\ a[2] = b[2]
          /\ \A c \in Buttons : c[2] = b[2] => ~Before(c, a)

DescribedInOrder ==
    \/ pc = "number" /\ Endless(k)
    \/ pc \in {"refused", "overrun"}
    \/ DescriptorsAreNumbered /\ FirstsAreDescribed

IInv == /\ TypeOK /\ ButtonsShown /\ OverrunExactly
        /\ CountsWhenReady /\ IndexIsPlace /\ NothingYet
        /\ NumberingIsOrdered /\ DescribedInOrder
=============================================================================
