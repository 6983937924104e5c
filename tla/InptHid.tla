------------------------------ MODULE InptHid -------------------------------
(***************************************************************************)
(* The device table of src/src/inpt.c and its HID calls: the refresh in    *)
(* inpt_update, inpt_hid_list, inpt_hid_select, inpt_hid_is_conn, and the  *)
(* parts of rhid_get_devices, rhid_open and rhid_close they rest on.       *)
(* RhidDevice models what happens inside the one device that is open.      *)
(*                                                                         *)
(* The refresh counts the devices first and fetches them in a second       *)
(* enumeration; devices come and go between the two.                       *)
(***************************************************************************)
EXTENDS Integers, Sequences

CONSTANTS
    Devs,           \* physical HID devices
    Id,             \* [Devs -> <<vendor id, product id>>]
    Btns,           \* [Devs -> number of buttons]
    Attachments,    \* the enumerations the system may report
    NoDev,          \* an entry without a device path
    MaxDev,         \* MAX_DEV_COUNT
    MaxFaults       \* bound: enumerations that fail

ASSUME TableAssumption ==
    /\ Id \in [Devs -> Int \X Int] /\ Btns \in [Devs -> Nat]
    /\ Attachments \subseteq Seq(Devs)
    /\ NoDev \notin Devs
    /\ MaxDev \in Nat \ {0} /\ MaxFaults \in Nat

VARIABLES
    present,        \* the enumeration of attached devices
    devs,           \* inpt.devs
    dev_count,      \* inpt.dev_count
    dev_selected,   \* inpt.dev_selected, 0 for NULL
    dev_ids,        \* inpt.dev_ids
    named,          \* 1 once inpt.dev_names[0] is not NULL
    hid_count,      \* inpt.hid.btn_count
    handles,        \* device handles rhid_open got and holds
    pc,             \* "fetch" between the two halves of the refresh
    crashed,        \* an invalid pointer was dereferenced
    faults          \* enumerations that failed so far

table  == <<devs, dev_count, dev_ids, named>>
select == <<dev_selected, hid_count, handles>>
vars   == <<present, table, select, pc, crashed, faults>>

Slots  == 1..MaxDev
NoId   == <<0, 0>>
JunkId == <<-1, -1>>
Ids    == {Id[d] : d \in Devs} \cup {NoId}

Entry(d, id, n, o) == [dev |-> d, id |-> id, btns |-> n, open |-> o]

Zeroed == Entry(NoDev, NoId, 0, 0)

(* What rhid_get_devices may write of a device: no ids and no counts when  *)
(* it cannot be opened to be asked; no ids when its attributes, no counts  *)
(* when its preparsed data or capabilities cannot be read.                 *)
Descriptions(d) == {Entry(d, id, n, 0) : id \in {Id[d], NoId},
                                         n \in {Btns[d], 0}}

(* Devices that some enumeration lists within the table's size. *)
Enumerated == {d \in Devs : \E p \in Attachments, i \in Slots :
                               i <= Len(p) /\ p[i] = d}

(* What rhid_get_devices writes, and stack memory it did not write: what   *)
(* an earlier call wrote there, or anything, its is_open included.         *)
Junk(o)  == Entry(NoDev, JunkId, 0, o)
Fetched  == (UNION {Descriptions(d) : d \in Enumerated}) \cup {Zeroed}
Leftover == Fetched \cup {Junk(0), Junk(1)}

Live(e)   == e.dev # NoDev /\ e.open = 1
IsJunk(e) == e.id = JunkId

Init ==
    /\ present \in Attachments
    /\ devs = [i \in Slots |-> Zeroed]
    /\ dev_count = 0 /\ dev_selected = 0
    /\ dev_ids = [i \in Slots |-> NoId]
    /\ named = 0 /\ hid_count = 0 /\ handles = 0
    /\ pc = "idle" /\ crashed = 0 /\ faults = 0

Idle == pc = "idle" /\ crashed = 0

-----------------------------------------------------------------------------
(* Devices are plugged and unplugged; the enumeration order is any. *)
Plug ==
    /\ present' \in Attachments \ {present}
    /\ UNCHANGED <<table, select, pc, crashed, faults>>

-----------------------------------------------------------------------------
(* Mutant: MAX_DEV_COUNT is not heeded.                                    *)
ClampNot(n) == n

(* rhid_get_device_count, clamped to MAX_DEV_COUNT by its callers.  With a *)
(* failing enumeration it returns -1 or too few (module RhidCount).        *)
Clamp(n) == IF n >= MaxDev THEN MaxDev ELSE n

Counts(c) ==
    \/ c = Clamp(Len(present)) /\ UNCHANGED faults
    \/ /\ faults < MaxFaults /\ faults' = faults + 1
       /\ \E n \in -1..(Len(present) - 1) : c = Clamp(n)

(* rhid_open of devs[i] ends with the device open; the result is a copy of *)
(* the table t with that entry's is_open set.                              *)
Opens(i, t) ==
    /\ \E k \in 1..Len(present) : present[k] = t[i].dev
    /\ devs' = [t EXCEPT ![i].open = 1]

(* Mutant: inpt.hid keeps the counts of the device before.                 *)
OpenAndSelectUncounted(i, t, n) ==
    /\ dev_selected' = i
    /\ \/ Opens(i, t) /\ handles' = n + 1
       \/ devs' = t /\ handles' = n
    /\ UNCHANGED hid_count

(* inpt_hid_open_and_select: the device is selected before it is opened,   *)
(* and stays so when rhid_open fails.  n is the number of handles held.    *)
OpenAndSelect(i, t, n) ==
    /\ dev_selected' = i
    /\ \/ /\ Opens(i, t)
          /\ hid_count' = t[i].btns
          /\ handles' = n + 1
       \/ /\ devs' = t
          /\ handles' = n
          /\ UNCHANGED hid_count

(* rhid_close of the selected device: the table and the handles after it.  *)
Selected == devs[dev_selected]
AfterClose ==
    IF dev_selected = 0 THEN devs ELSE [devs EXCEPT ![dev_selected].open = 0]
(* Mutant: rhid_close forgets CloseHandle.                                 *)
HandlesKept == handles

HandlesAfterClose ==
    IF dev_selected # 0 /\ Live(Selected) THEN handles - 1 ELSE handles

(* Closing an entry that only stack memory says is open frees wild         *)
(* pointers.                                                               *)
CloseIsWild ==
    dev_selected # 0 /\ Selected.dev = NoDev /\ Selected.open = 1

Crash ==
    /\ crashed' = 1
    /\ UNCHANGED <<present, table, select, pc, faults>>

-----------------------------------------------------------------------------
(* Mutant: the refresh runs with a device selected, too.                   *)
UpdateCountAlways ==
    /\ Idle
    /\ \E c \in -1..Len(present) : Counts(c) /\ dev_count' = c
    /\ pc' = "fetch"
    /\ UNCHANGED <<present, devs, dev_ids, named, select, crashed>>

(* inpt_update, first half of the refresh *)
UpdateCount ==
    /\ Idle /\ dev_selected = 0
    /\ \E c \in -1..Len(present) : Counts(c) /\ dev_count' = c
    /\ pc' = "fetch"
    /\ UNCHANGED <<present, devs, dev_ids, named, select, crashed>>

(* rhid_get_devices(tmp_devs, dev_count): it describes the entries before  *)
(* `stop`, zeroes the entry it stops at, and leaves the others as the stack *)
(* had them; without a device list it writes none.                         *)
Asked == IF dev_count < 0 THEN 0 ELSE dev_count

Fails == faults < MaxFaults /\ faults' = faults + 1

Fetches(tmp) ==
    \/ /\ Fails
       /\ \A i \in 1..Asked : tmp[i] \in Leftover
    \/ \E stop \in 0..Asked :
          /\ stop <= Len(present)
          /\ \/ stop \in {Asked, Len(present)} /\ UNCHANGED faults
             \/ Fails
          /\ \A i \in 1..stop : tmp[i] \in Descriptions(present[i])
          /\ \A i \in (stop + 1)..Asked :
                IF i = stop + 1 THEN tmp[i] = Zeroed ELSE tmp[i] \in Leftover

(* Mutant: the last entry is left out.                                     *)
UpdateFetchButLast ==
    /\ pc = "fetch" /\ crashed = 0
    /\ \E tmp \in [1..Asked -> Leftover] :
          /\ Fetches(tmp)
          /\ devs' = [i \in Slots |->
                        IF i >= dev_count \/ devs[i].open = 1
                          THEN devs[i] ELSE tmp[i]]
    /\ pc' = "idle"
    /\ UNCHANGED <<present, dev_count, dev_ids, named, select, crashed>>

(* Second half: entries that are open are kept. *)
UpdateFetch ==
    /\ pc = "fetch" /\ crashed = 0
    /\ \E tmp \in [1..Asked -> Leftover] :
          /\ Fetches(tmp)
          /\ devs' = [i \in Slots |->
                        IF i > dev_count \/ devs[i].open = 1
                          THEN devs[i] ELSE tmp[i]]
    /\ named' = IF dev_count >= 1 /\ devs[1].open = 0 THEN 1 ELSE named
    /\ pc' = "idle"
    /\ UNCHANGED <<present, dev_count, dev_ids, select, crashed>>

(* inpt_update with a device selected: rhid_report's result is ignored, so *)
(* a device that is not open is still copied from: rhid_get_buttons_state  *)
(* reads its NULL buttons unless inpt.hid.btn_count is too small for them. *)
UpdateHid ==
    /\ Idle /\ dev_selected # 0 /\ ~Live(Selected)
    /\ \/ IsJunk(Selected)
       \/ Selected.btns > 0 /\ hid_count >= Selected.btns
    /\ Crash

-----------------------------------------------------------------------------
(* inpt_hid_list and inpt_hid_list_names.  inpt_hid_update_connected       *)
(* closes the selected device, counts again, and opens the first entry     *)
(* with the ids of the selected one, 0/0 when there was none; the entries  *)
(* before it get their dev_ids: both assignments are to vid.               *)
WantedId == IF dev_selected = 0 THEN NoId ELSE Selected.id

Matches(c) == {i \in 1..c : devs[i].id = WantedId}

Ided(c) == [i \in Slots |->
              IF i <= c /\ \A m \in Matches(c) : i < m
                THEN <<devs[i].id[2], dev_ids[i][2]>> ELSE dev_ids[i]]

List ==
    /\ Idle /\ ~CloseIsWild
    /\ \E c \in -1..Len(present) :
          /\ Counts(c)
          /\ dev_count' = c
          /\ dev_ids' = Ided(c)
          /\ named' = IF c >= 1 /\ devs[1].id # WantedId THEN 1 ELSE named
          /\ \/ /\ Matches(c) = {}
                /\ devs' = AfterClose /\ handles' = HandlesAfterClose
                /\ UNCHANGED <<dev_selected, hid_count>>
             \/ \E m \in Matches(c) :
                   /\ \A i \in Matches(c) : m <= i
                   /\ OpenAndSelect(m, AfterClose, HandlesAfterClose)
    /\ UNCHANGED <<present, pc, crashed>>

(* inpt_hid_select.  The loop's test is inverted and its body ends in a    *)
(* return, so only devs[0] is looked at, and it is opened when it is not   *)
(* the device asked for.                                                   *)
SelectResult(id) == IF dev_count <= 0 \/ devs[1].id = id THEN -1 ELSE 0

(* Mutant: the device selected before is not closed.                       *)
SelectUnclosed(id) ==
    /\ Idle /\ ~CloseIsWild /\ SelectResult(id) = 0
    /\ OpenAndSelect(1, devs, handles)
    /\ UNCHANGED <<present, dev_count, dev_ids, named, pc, crashed, faults>>

Select(id) ==
    /\ Idle /\ ~CloseIsWild
    /\ \/ /\ SelectResult(id) < 0
          /\ devs' = AfterClose /\ handles' = HandlesAfterClose
          /\ dev_selected' = 0
          /\ UNCHANGED hid_count
       \/ /\ SelectResult(id) = 0
          /\ OpenAndSelect(1, AfterClose, HandlesAfterClose)
    /\ UNCHANGED <<present, dev_count, dev_ids, named, pc, crashed, faults>>

CloseWild == Idle /\ CloseIsWild /\ Crash

(* inpt_hid_is_conn reads dev_selected without a test for NULL; with a     *)
(* device selected it changes nothing.                                     *)
IsConnCrashes == Idle /\ dev_selected = 0 /\ dev_count > 0 /\ Crash

-----------------------------------------------------------------------------
Next ==
    \/ Plug
    \/ UpdateCount \/ UpdateFetch \/ UpdateHid
    \/ List \/ \E id \in Ids : Select(id)
    \/ CloseWild \/ IsConnCrashes

Spec == Init /\ [][Next]_vars

(* The application's loop keeps calling inpt_update. *)
FairSpec == Spec /\ WF_vars(UpdateCount) /\ WF_vars(UpdateFetch)

-----------------------------------------------------------------------------
(* Properties *)

Entries == [dev : Devs \cup {NoDev}, id : Int \X Int, btns : Nat,
            open : {0, 1}]

TypeOK ==
    /\ present \in Attachments
    /\ devs \in [Slots -> Entries]
    /\ dev_count \in -1..MaxDev /\ dev_selected \in 0..MaxDev
    /\ dev_ids \in [Slots -> Int \X Int] /\ named \in {0, 1}
    /\ hid_count \in Nat /\ handles \in Int
    /\ pc \in {"idle", "fetch"} /\ crashed \in {0, 1} /\ faults \in Nat

(* Whatever is plugged, listed, selected and refreshed in whatever order,  *)
(* no device is open but the selected one: the one global OVERLAPPED of    *)
(* rhid_win.c has one user at a time.                                      *)
OpenIsSelected == \A i \in Slots : Live(devs[i]) => i = dev_selected

(* Every open is paired with one close: no handle is lost when entries are *)
(* overwritten, re-opened or deselected.                                   *)
HandlesAccounted ==
    handles = IF dev_selected # 0 /\ Live(Selected) THEN 1 ELSE 0

(* While the selected device is open, inpt.hid has room for its buttons:   *)
(* rhid_get_buttons_state never refuses the copy in inpt_update.           *)
CountsAgree ==
    dev_selected # 0 /\ Live(Selected) => hid_count = Selected.btns

(* The refresh runs with nothing selected, to its end. *)
FetchSelectsNothing == pc = "fetch" => dev_selected = 0

(* The inductive invariant. *)
IInv == /\ TypeOK
        /\ OpenIsSelected /\ HandlesAccounted /\ CountsAgree
        /\ FetchSelectsNothing

(* dev_selected points into devs, so a refresh must not put another device *)
(* under it: as long as the selection stands, so does its device.          *)
SelectionKeepsItsDevice ==
    [][dev_selected # 0 /\ dev_selected' = dev_selected
         => devs'[dev_selected].dev = Selected.dev]_vars

(* An entry with a junk is_open, which every refresh keeps. *)
Stuck == \E i \in Slots : devs[i].dev = NoDev /\ devs[i].open = 1

Refreshing(p) == present = p /\ dev_selected = 0 /\ crashed = 0 /\ ~Stuck
Listed(p) == /\ dev_count = Clamp(Len(p))
             /\ \A i \in 1..dev_count : devs[i].dev = p[i]

(* Once plugging stops, and while nothing is selected, the table comes to  *)
(* list what is attached, whatever an enumeration caught half-way or an    *)
(* earlier failure left in it; an entry with junk is_open prevents it.     *)
TableCatchesUp ==
    \A p \in Attachments : <>[]Refreshing(p) => <>[]Listed(p)

-----------------------------------------------------------------------------
(* What src/test/main.c expects of the calls it makes *)

(* inpt_hid_select(vid, pid) of a device in the list, when its result is   *)
(* not negative, selected that device.                                     *)
SelectSelectsRequested ==
    [][\A id \in Ids :
         /\ Select(id) /\ SelectResult(id) >= 0
         /\ \E i \in 1..dev_count : devs[i].id = id
         => Selected'.id = id]_vars

(* inpt_hid_select that is not negative left the selected device open.     *)
SelectReportsFailure ==
    [][\A id \in Ids :
         Select(id) /\ SelectResult(id) >= 0 => Live(Selected')]_vars

(* The ids a list hands out are those of the entries of the table, the     *)
(* ones the application passes to inpt_hid_select.                         *)
ListedIdsIdentify ==
    [][List /\ named' = 1 =>
         \A i \in 1..dev_count' : dev_ids'[i] = devs'[i].id]_vars
=============================================================================
