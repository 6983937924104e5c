----------------------------- MODULE RhidDevice -----------------------------
(***************************************************************************)
(* One HID device of src/src/rhid_win.c: rhid_open, rhid_close,            *)
(* rhid_report and rhid_read_report, against the Windows HID class driver  *)
(* that delivers input reports asynchronously into device->report.         *)
(*                                                                         *)
(* A report is abstracted to its number, so that every field of the buffer *)
(* and every entry of buttons[] and values[] carries the number of the     *)
(* report it came from.  The driver's copy into the buffer is done field   *)
(* by field and is not ordered with the caller's parsing of that buffer:   *)
(* rhid_report parses device->report right after ReadFile returned         *)
(* ERROR_IO_PENDING.                                                       *)
(*                                                                         *)
(* The OVERLAPPED structure is the one global _rhid_win_gcache holds; one  *)
(* device is open at a time (InptHid shows that inpt.c keeps it so).       *)
(***************************************************************************)
EXTENDS Integers, FiniteSets

CONSTANTS
    Buttons,        \* button usages of the device
    Values,         \* value usages of the device
    IdByte,         \* byte 0 of a report, the report id
    ReportIds,      \* the ids a device may put in its reports
    CallId,         \* the report_id argument of rhid_report
    RingSize,       \* reports the driver queues per handle
    MaxSent,        \* bound: reports the device sends
    MaxFaults       \* bound: transient I/O failures

Usages == Buttons \cup Values
Fields == Usages \cup {IdByte}

Blank   == -2       \* a calloc'ed entry of buttons[] or values[]
Garbage == -1       \* a byte of the malloc'ed, never written report buffer

ASSUME DeviceAssumption ==
    /\ Buttons \cap Values = {}
    /\ IdByte \notin Usages
    /\ ReportIds \subseteq Nat /\ CallId \in Nat
    /\ RingSize \in Nat \ {0}
    /\ MaxSent \in Nat /\ MaxFaults \in Nat

VARIABLES
    is_open,    \* device->is_open
    is_reading, \* device->native->is_reading
    report,     \* device->report, [Fields -> Int]
    shown,      \* device->buttons and device->values, by report number
    pc,         \* where the calling thread is in rhid_open or rhid_report
    unread,     \* value usages rhid_report has still to parse
    ovl,        \* _rhid_win_gcache.report_overlapped
    copy,       \* the report the driver is copying to the buffer
    left,       \* the fields it has still to copy
    ring,       \* the driver's queue of reports for the open handle
    sent,       \* number of the last report the device sent
    plug,       \* "out", or plugged in and the handle "live" or "stale"
    faults,     \* transient failures so far
    dev_id      \* the id this device puts in its reports

caller == <<is_open, is_reading, shown, pc, unread>>
driver == <<ovl, copy, left, ring>>
device == <<sent, plug, faults, dev_id>>
vars   == <<is_open, is_reading, report, shown, pc, unread, ovl, copy, left,
            ring, sent, plug, faults, dev_id>>

AllBlank   == [u \in Usages |-> Blank]
AllGarbage == [f \in Fields |-> Garbage]
Whole(n)   == [f \in Fields |-> IF f = IdByte THEN dev_id ELSE n]

Init ==
    /\ is_open = 0 /\ is_reading = 0
    /\ report = AllGarbage /\ shown = AllBlank
    /\ pc = "idle" /\ unread = {}
    /\ ovl = "idle" /\ copy = 0 /\ left = {} /\ ring = {}
    /\ sent = 0 /\ plug = "stale" /\ faults = 0
    /\ dev_id \in ReportIds

-----------------------------------------------------------------------------
(* The device and the driver *)

(* The HID class driver queues a report when no read is waiting for it; a  *)
(* full queue drops its oldest report.                                     *)
Enqueue(n) ==
    ring' = {n} \cup (IF Cardinality(ring) < RingSize
                        THEN ring
                        ELSE {r \in ring : \E q \in ring : q < r})

DeviceSend ==
    /\ plug # "out" /\ sent < MaxSent
    /\ sent' = sent + 1
    /\ \/ /\ plug = "stale"
          /\ UNCHANGED driver
       \/ /\ plug = "live" /\ ovl = "pending"
          /\ ovl' = "copying" /\ copy' = sent + 1 /\ left' = Fields
          /\ UNCHANGED ring
       \/ /\ plug = "live" /\ ovl # "pending"
          /\ Enqueue(sent + 1)
          /\ UNCHANGED <<ovl, copy, left>>
    /\ UNCHANGED <<caller, report, plug, faults, dev_id>>

(* The pending ReadFile completes once its last field is written. *)
KernelCopy(f) ==
    /\ ovl = "copying" /\ f \in left
    /\ report' = [report EXCEPT ![f] = Whole(copy)[f]]
    /\ left' = left \ {f}
    /\ ovl' = IF left' = {} THEN "done" ELSE "copying"
    /\ UNCHANGED <<caller, device, copy, ring>>

HandleClosed == IF plug = "live" THEN "stale" ELSE plug

Cancelled == IF ovl = "pending" THEN "failed" ELSE ovl

Unplug ==
    /\ plug # "out"
    /\ plug' = "out"
    /\ ovl' = Cancelled
    /\ UNCHANGED <<caller, report, copy, left, ring, sent, faults, dev_id>>

(* A new handle is needed to reach the device again. *)
Replug ==
    /\ plug = "out"
    /\ plug' = "stale"
    /\ UNCHANGED <<caller, report, driver, sent, faults, dev_id>>

(* The waiting read is completed with an error, as on a power transition. *)
PendingFails ==
    /\ ovl = "pending" /\ faults < MaxFaults
    /\ faults' = faults + 1
    /\ ovl' = "failed"
    /\ UNCHANGED <<caller, report, copy, left, ring, sent, plug,
                   dev_id>>

-----------------------------------------------------------------------------
(* rhid_open and rhid_close *)

(* CreateFileA succeeded; the new handle has a queue of its own. *)
OpenBegin ==
    /\ is_open = 0 /\ pc = "idle" /\ plug # "out"
    /\ pc' = "opening"
    /\ plug' = "live" /\ ring' = {}
    /\ UNCHANGED <<is_open, is_reading, report, shown, unread, ovl, copy, left,
                   sent, faults, dev_id>>

(* HidD_GetPreparsedData failed: the handle is closed, -1 is returned. *)
OpenFail ==
    /\ pc = "opening"
    /\ pc' = "idle"
    /\ plug' = HandleClosed /\ ring' = {}
    /\ UNCHANGED <<is_open, is_reading, report, shown, unread, ovl, copy, left,
                   sent, faults, dev_id>>

(* The preparsed data is read; a failing HidD_FlushQueue is only logged. *)
OpenFlush ==
    /\ pc = "opening"
    /\ pc' = "flushed"
    /\ ring' \in {{}, ring}
    /\ UNCHANGED <<is_open, is_reading, report, shown, unread, ovl, copy, left,
                   device>>

(* Mutant: the initial report's values are read at once, as a TODO asks.   *)
OpenEndShowsInitial ==
    /\ pc = "flushed"
    /\ pc' = "idle"
    /\ is_open' = 1 /\ is_reading' = 0
    /\ plug = "live" /\ report' = Whole(sent)
    /\ shown' = [u \in Usages |-> report'[u]]
    /\ UNCHANGED <<unread, driver, device>>

(* The buffers are allocated; a failing HidD_GetInputReport is only logged *)
(* and leaves the malloc'ed report as it is.                               *)
OpenEnd ==
    /\ pc = "flushed"
    /\ pc' = "idle"
    /\ is_open' = 1 /\ is_reading' = 0
    /\ shown' = AllBlank
    /\ \/ plug = "live" /\ report' = Whole(sent)
       \/ report' = AllGarbage
    /\ UNCHANGED <<unread, driver, device>>

(* CloseHandle cancels the waiting read, or lets a copy that has begun     *)
(* finish first; then the buffers are freed.                               *)
Close ==
    /\ is_open = 1 /\ pc = "idle" /\ ovl # "copying"
    /\ is_open' = 0 /\ is_reading' = 0
    /\ report' = AllGarbage /\ shown' = AllBlank
    /\ ovl' = Cancelled
    /\ plug' = HandleClosed /\ ring' = {}
    /\ UNCHANGED <<pc, unread, copy, left, sent, faults, dev_id>>

-----------------------------------------------------------------------------
(* rhid_report.  With a read outstanding and GetOverlappedResult reporting *)
(* fewer than report_size bytes, the call returns with nothing changed.    *)

(* Mutant: a new read is issued without waiting for the last one.          *)
CanReadAnyTime == is_open = 1 /\ pc = "idle"

CanRead == is_open = 1 /\ pc = "idle" /\ (is_reading = 1 => ovl = "done")

(* ReadFile completes at once with the oldest queued report, which takes   *)
(* the place of whatever the buffer held, parsed or not.                   *)
ReadQueued ==
    /\ CanRead /\ plug = "live"
    /\ \E r \in ring :
          /\ \A q \in ring : r <= q
          /\ report' = Whole(r)
          /\ ring' = ring \ {r}
    /\ ovl' = "done"
    /\ is_reading' = 1
    /\ pc' = "buttons"
    /\ UNCHANGED <<is_open, shown, unread, copy, left, device>>

(* Mutant: is_reading is left for the completion to set.                   *)
ReadPendingUnmarked ==
    /\ CanRead /\ plug = "live" /\ ring = {}
    /\ report' = [report EXCEPT ![IdByte] = CallId]
    /\ ovl' = "pending"
    /\ pc' = "buttons"
    /\ UNCHANGED <<is_open, is_reading, shown, unread, copy, left, ring,
                   device>>

(* Mutant: nothing is parsed while the read is pending.                    *)
ReadPendingUnparsed ==
    /\ CanRead /\ plug = "live" /\ ring = {}
    /\ report' = [report EXCEPT ![IdByte] = CallId]
    /\ ovl' = "pending"
    /\ is_reading' = 1
    /\ UNCHANGED <<is_open, shown, pc, unread, copy, left, ring, device>>

(* ReadFile returns ERROR_IO_PENDING; the buffer, its first byte set to    *)
(* report_id, is parsed nevertheless.                                      *)
ReadPending ==
    /\ CanRead /\ plug = "live" /\ ring = {}
    /\ report' = [report EXCEPT ![IdByte] = CallId]
    /\ ovl' = "pending"
    /\ is_reading' = 1
    /\ pc' = "buttons"
    /\ UNCHANGED <<is_open, shown, unread, copy, left, ring, device>>

(* ReadFile fails: nothing is parsed, and is_reading was cleared by the    *)
(* completion of the read before.                                          *)
ReadError ==
    /\ CanRead
    /\ \/ plug # "live" /\ UNCHANGED faults
       \/ plug = "live" /\ faults < MaxFaults /\ faults' = faults + 1
    /\ report' = [report EXCEPT ![IdByte] = CallId]
    /\ ovl' = "failed"
    /\ is_reading' = 0
    /\ UNCHANGED <<is_open, shown, pc, unread, copy, left, ring, sent, plug,
                   dev_id>>

(* HidP_GetUsagesEx and the loops over button_descriptors.  It fails, and  *)
(* rhid_report returns -1, when byte 0 is not an id of the device.         *)
ParseButtons ==
    /\ pc = "buttons"
    /\ IF report[IdByte] = dev_id
         THEN /\ shown' = [u \in Usages |->
                             IF u \in Buttons THEN report[u] ELSE shown[u]]
              /\ unread' = Values
              /\ pc' = IF Values = {} THEN "idle" ELSE "values"
         ELSE /\ pc' = "idle"
              /\ UNCHANGED <<shown, unread>>
    /\ UNCHANGED <<is_open, is_reading, report, driver, device>>

(* Mutant: the loop's end is missed.                                       *)
ParseValueOnAndOn(v) ==
    /\ pc = "values" /\ v \in unread
    /\ shown' = [shown EXCEPT ![v] = report[v]]
    /\ unread' = unread \ {v}
    /\ UNCHANGED <<is_open, is_reading, report, pc, driver, device>>

(* One turn of the loop over value_descriptors; an error is only logged.   *)
ParseValue(v) ==
    /\ pc = "values" /\ v \in unread
    /\ shown' = IF report[IdByte] = dev_id
                  THEN [shown EXCEPT ![v] = report[v]]
                  ELSE shown
    /\ unread' = unread \ {v}
    /\ pc' = IF unread' = {} THEN "idle" ELSE "values"
    /\ UNCHANGED <<is_open, is_reading, report, driver, device>>

-----------------------------------------------------------------------------
Opening  == OpenBegin \/ OpenFail \/ OpenFlush
Copying  == \E f \in Fields : KernelCopy(f)
Parsing  == ParseButtons \/ \E v \in Values : ParseValue(v)
Reading  == ReadQueued \/ ReadPending \/ ReadError

Next ==
    \/ DeviceSend \/ Copying \/ Unplug \/ Replug \/ PendingFails
    \/ Opening \/ OpenEnd \/ Close
    \/ Reading \/ Parsing

Spec == Init /\ [][Next]_vars

(* The driver finishes the copies it starts, and the application keeps     *)
(* calling inpt_update (the loop of inpt_start, or of test/main.c), so the *)
(* steps of rhid_report happen as long as they can.                        *)
Fairness == WF_vars(Copying) /\ WF_vars(Reading) /\ WF_vars(Parsing)

FairSpec == Spec /\ Fairness

-----------------------------------------------------------------------------
(* Properties *)

TypeOK ==
    /\ is_open \in {0, 1} /\ is_reading \in {0, 1}
    /\ report \in [Fields -> Int] /\ shown \in [Usages -> Int]
    /\ pc \in {"idle", "opening", "flushed", "buttons", "values"}
    /\ unread \subseteq Values
    /\ ovl \in {"idle", "pending", "copying", "done", "failed"}
    /\ copy \in Nat /\ left \subseteq Fields /\ ring \subseteq Nat
    /\ sent \in Nat /\ faults \in Nat /\ dev_id \in ReportIds
    /\ plug \in {"out", "stale", "live"}
    /\ pc = "values" <=> unread # {}

(* The one global OVERLAPPED is with the driver only while the device it   *)
(* was issued for is open and knows it is reading: rhid_read_report never  *)
(* issues a second ReadFile on it, and rhid_close never leaves the driver  *)
(* with a freed buffer.                                                    *)
OneReadOutstanding ==
    ovl \in {"pending", "copying"} => is_open = 1 /\ is_reading = 1

(* The race between the driver's copy and the parsing tears the view of    *)
(* one call between two reports at most: what a finished rhid_report shows *)
(* comes from the report the buffer held and the one being copied into it. *)
TornOnceAtMost ==
    pc = "idle" => Cardinality({shown[u] : u \in Usages}) <= 2

(* The view shown to inpt.c moves forward only, whatever the interleaving  *)
(* of sends, copies, queued and pending reads, and errors.                 *)
Stream == INSTANCE ReportStream WITH seen <- shown
StreamSpec == Stream!Spec

Arrived(n) == /\ dev_id = CallId /\ is_open = 1
              /\ n \in ring \/ (ovl = "copying" /\ copy = n)
Shown(n)   == \A u \in Usages : shown[u] >= n
(* A failed read: rhid_read_report returns 0 on every later call. *)
Wedged     == is_reading = 1 /\ ovl = "failed"

(* A report that reached the handle is shown in the end, or a later one    *)
(* is, unless the session ends, the device is lost or the read fails:      *)
(* keeping one read pending and parsing the buffer late loses no final     *)
(* state of the inputs.  It is stated for devices whose reports carry the  *)
(* id the caller passes: with another id ReadPending spoils the first byte *)
(* of the buffer and the report parsed late is refused.                    *)
ArrivedIsShown ==
    \A n \in 1..MaxSent :
        Arrived(n) ~> (Shown(n) \/ is_open = 0 \/ plug # "live" \/ Wedged)

-----------------------------------------------------------------------------
(* The inductive invariant behind Stream and OneReadOutstanding.           *)

(* Something was read in this session, so the buffer is part of a history: *)
(* before the first ReadFile it holds the report of HidD_GetInputReport,   *)
(* which may be newer than the reports queued since the handle was opened. *)
Begun == \/ is_reading = 1
         \/ pc \in {"buttons", "values"}
         \/ \E u \in Usages : shown[u] # Blank

OpeningIsClosed == pc \in {"opening", "flushed"} => is_open = 0

QueueIsSent == \A r \in ring : r <= sent

PendingMeansDrained == ovl = "pending" => ring = {}

CopyIsOldest ==
    ovl = "copying" => copy <= sent /\ \A r \in ring : copy < r

BufferBeforeQueue ==
    Begun => \A u \in Usages :
                /\ \A r \in ring : report[u] < r
                /\ ovl = "copying" => report[u] <= copy

BufferIsSent == \A u \in Usages : Garbage <= report[u] /\ report[u] <= sent

ShownBehindBuffer ==
    \A u \in Usages : Blank <= shown[u] /\ shown[u] <= report[u]

IInv == /\ TypeOK
        /\ OneReadOutstanding /\ OpeningIsClosed
        /\ QueueIsSent /\ PendingMeansDrained /\ CopyIsOldest
        /\ BufferBeforeQueue /\ BufferIsSent /\ ShownBehindBuffer

-----------------------------------------------------------------------------
(* The inductive invariant behind TornOnceAtMost, on top of IInv.          *)

(* The buttons were parsed from a buffer with the id of the device, and    *)
(* the copy into the buffer writes no other.                               *)
IdHolds == pc = "values" => report[IdByte] = dev_id

(* The buffer holds the old report, and the new one as far as it has been  *)
(* copied; what a call has parsed so far is of these two.  A read that was *)
(* issued and not answered begins with one report in the buffer: a second  *)
(* copy cannot begin before the parsing is over.                           *)
BufferOfTwo ==
    \E old, new \in Int :
        /\ \A u \in Usages :
              report[u] = IF ovl = "copying" /\ u \in left THEN old ELSE new
        /\ ovl = "copying" => new = copy
        /\ ovl = "pending" => old = new
        /\ pc = "values" => \A u \in Usages \ unread : shown[u] \in {old, new}

ViewOfTwo ==
    pc # "values" =>
        \E a, b \in Int : \A u \in Usages : shown[u] \in {a, b}

TornInv == IdHolds /\ BufferOfTwo /\ ViewOfTwo
=============================================================================
