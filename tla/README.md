# Verification of robot_tools

TLA+ models of the input stack of this repository (`src/src/inpt.c`,
`src/src/rhid_win.c`) and of its sockets (`src/src/rsoc.c`), the TLC runs that
check them on small instances, and TLAPS proofs for every value of the
constants. Paths below are relative to the
repository, lines are of the commit the models were written from.

## 1. The system

robot_tools is a C library for driving a robot from a gamepad on Windows.

| part | state | operations | works with |
| --- | --- | --- | --- |
| **rhid**, one device (`rhid_win.c:550-770`) | `is_open`, `handle`, `report`, `buttons`, `values`, `native->is_reading`, and one `OVERLAPPED` for all devices | `rhid_open`, `rhid_close`, `rhid_report` (`rhid_read_report`) | the HID class driver, which writes `report` whenever it likes while a read is pending |
| **rhid**, enumeration (`rhid_win.c:111-512`) | a cache of capability buffers | `rhid_get_device_count`, `rhid_get_devices`, `rhid_select_*` | SetupAPI; devices come and go between two calls |
| **inpt**, device table (`inpt.c:166-193, 729-828`) | `devs`, `dev_count`, `dev_selected`, `dev_ids`, `dev_names`, `hid.btn_count` | the refresh in `inpt_update`, `inpt_hid_list`, `inpt_hid_list_names`, `inpt_hid_select`, `inpt_hid_is_conn`, `inpt_hid_count` | rhid; `dev_selected` points into `devs` |
| **inpt**, update cycle (`inpt.c:195-368`) | `hid`, `hid_prev`, `btn_states`, `btn_states_prev`, `state_index` | `inpt_update` | rhid for the state, the application through callbacks, the registries |
| **inpt**, registries (`inpt.c:376-689`) | `states`, `actions` and their bit fields and points | `inpt_state_*`, `inpt_act_*` | the update cycle reads them |
| **inpt**, listeners (`inpt.c:691-727, 830-853`) | five arrays of slots | `inpt_hid_on_*`, `inpt_act_on_*` | the update cycle calls them |
| **inpt**, loop (`inpt.c:49-63`) | `is_running` | `inpt_start`, `inpt_stop` | a second thread, in the application's mind |
| **rsoc** (`rsoc.c`) | a socket record | init, connect, host, send, receive, close | Winsock; nothing else uses it |
| **debug** (`debug.c`) | a stack of timer levels | push, pop, level | diagnostics of `inpt_update` |
| **test** (`test/main.c`) | none | one robot's states and actions, then `inpt_update` for ever | inpt |

What each needs to be correct:

- *one device*: at most one read is with the driver, and never with a buffer
  that has been freed; what the caller is shown moves forward through the
  reports of the device, mixes no more than two of them, and reaches the last;
- *enumeration*: the count is exact, and never too large;
- *device table*: one device open at a time (the `OVERLAPPED` is global), every
  open paired with a close, the selection keeps meaning the same device while
  the table around it is refreshed, and the table comes to list what is attached;
- *update cycle*: no edge of a button is missed, invented or acted on twice, a
  value change is announced, and the robot's mode follows its button;
- *registries and listeners*: an action runs in the states it was given and in
  no others, but for slots whose state was deleted; and the mapper is in the state
  it told its listeners, unless one of them changes the tables in the middle of a
  pass;
- *loop*: one that is stopped ends;
- *sockets*: a socket that is set up has a descriptor of its own, none is lost on
  an error path, and a socket with somebody to talk to can talk.

The hard part is what no test in the repository reaches: the driver's copy into
`report` interleaved with its parsing, devices that vanish between the two
enumerations of a refresh or between a count and an open, failures half-way
through, and callbacks that select a device in the middle of the loops that call
them. `PROJECT.json` lists the hazards line by line.

## 2. Modules

| module | what it is |
| --- | --- |
| `ReportStream` | abstract: the view of a device moves forward through its reports |
| `RhidDevice` | one device: `rhid_open`, `rhid_close`, `rhid_report` and the driver; implements `ReportStream` |
| `RhidDevice_proofs` | type correctness, one outstanding read, the refinement, no more than two reports mixed |
| `RhidCount` | `rhid_get_device_count` |
| `RhidCount_proofs` | type correctness; the count is exact, and bounded under failures |
| `InptHid` | the device table, the refresh and the HID calls of inpt |
| `MCInptHid` | three devices for a table of two |
| `InptHid_proofs` | the four safety properties and the stability of the selection |
| `InptUpdate` | the cycle of `inpt_update` after the refresh |
| `MCInptUpdate` | the states and actions of `test/main.c` |
| `InptUpdate_proofs` | type correctness, edges, levels and values for every table of actions |
| `MCInptUpdate_proofs` | the robot's mode follows its button |
| `InptRegistry` | the tables of states and actions, and the bits between them |
| `InptDispatch` | composes `InptRegistry` with the listeners, the pass of `inpt_update` that calls them and the loop of `inpt_start` |
| `MCInptDispatch` | two states, two actions |
| `InptDispatch_proofs` | the safety of both |
| `RhidCaps` | numbering of button descriptors and the search for them |
| `MCRhidCaps` | every device of up to three capabilities |
| `RhidCaps_proofs` | the numbers of the buttons, what a report shows and which devices overrun, for every device |
| `Rsoc` | the sockets, by several threads |
| `Rsoc_proofs` | who owns a descriptor, and which are lost |

### RhidDevice

A report is its number. Every field of the buffer and every entry of `buttons[]`
and `values[]` carries the number of the report it was written from, so "torn",
"stale" and "goes back" can be said without report contents. Byte 0 holds the
report id instead, because `rhid_read_report` overwrites it (line 567) and
`HidP_GetUsagesEx` refuses a buffer whose id it does not know.

The caller's steps: `OpenBegin`, then `OpenFail` or `OpenFlush` and `OpenEnd`
(`rhid_open`, whose `HidD_FlushQueue` and `HidD_GetInputReport` may fail and are
only logged; reports arrive between any two of these), `Close`; then
`rhid_read_report` as `ReadQueued` (a report was queued, `ReadFile` completes at
once), `ReadPending` (`ERROR_IO_PENDING`, treated as success) or `ReadError`,
guarded by `CanRead`, which is `GetOverlappedResult` reporting a whole report;
then `ParseButtons` and one `ParseValue` per value usage, because the driver may
write between any two calls of `HidP_*`. The call that finds its read still
pending returns without a change and is no step.

The driver (external, from how the code uses it): `DeviceSend` completes a
pending read or queues the report, dropping the oldest of a full queue;
`KernelCopy` writes one field at a time, in any order; `Unplug`, `Replug` and
`PendingFails` break things.

### RhidCount

`Jump` until a probe is out of bounds, `WalkBack` until one is not. A probe that
fails for another reason makes the call fail while jumping (`Error`), and is
taken for "too far" while walking back.

### InptHid

One action per call: `UpdateCount` and `UpdateFetch` are the two halves of the
refresh, with `Plug` possible between them; `UpdateHid` is the crash of an update
with a device selected that is not open; `List` is `inpt_hid_list` and
`inpt_hid_list_names`; `Select` is `inpt_hid_select` as the code has it, with the
inverted test; `CloseWild` and `IsConnCrashes` are the other invalid pointers.
`rhid_get_devices` is `Fetches`: it describes entries up to a stop, zeroes the one
it stops at, and leaves the rest of the uninitialised `tmp_devs` as the stack had
it, which is an entry of an earlier call or `Junk`. What happens inside the open
device is `RhidDevice`'s matter; the devices are open or not here.

### InptUpdate

One step per turn of each loop: `ButtonStep`, `ValueStep`, `ActionStep`, then
`Finish`. A turn that calls back goes to `"cb"`, from where the application may
call `inpt_hid_select` or `inpt_hid_list` (`CallbackSelect`) any number of times
before it returns. `Select` is the same between cycles. The history variables
`edged`, `fired`, `told`, `undisturbed` and `in_step` exist for the properties.

A select in the middle of the button loop makes `hid_prev` equal `hid`, and the
edges of the buttons not yet looked at are lost: that is what the code does, and
the properties say how far it goes. `LevelMatchesState` and `EdgeProtocol` hold
again one whole cycle after such a call (`in_step`); `ValueAnnounced` and
`ModeFollowsButton` only until the first (`undisturbed`), since a value or a mode
that missed its event is wrong until the next one; `EdgesRunOnce` and
`LongPressIsHeld` hold regardless.

### InptRegistry and InptDispatch

A call names a state or an action and means the first slot with that name; the
bits of an action are about slots of states. The calls that return -1 change
nothing and are no steps. `ActNew` does not clear the bits of the slot it takes,
`StateDel` leaves the bits about the slot it frees, "all" writes 1 into every byte
(`LowBits`) and `ActDelState` is `BITFLD_CLR` as the header defines it. The
histories `given` and `stale` record which slots an action was given by name and
which of those lost their state; `BitsAccounted` says its bits are exactly these.
`disturbed` holds the actions "all" or a deletion wrote over, for which the code
keeps no such promise.

`InptDispatch` has the pass: `RunStateChange` finds the index of the new state,
`Notify` and `"cb"` call the listeners one by one, `Notified` assigns the index.
In a callback the application may call the registry, register listeners (`Listen`
fills every free slot) or stop the loop; `Stop` may also come from a thread at any
step. Whether the inputs call for an action is left open here (`PassOver`), it is
the matter of `InptUpdate`, which has no registry in turn. `InAnnouncedState`
gives up its claim only when a call has changed the tables since the announcement.

### RhidCaps

One step per descriptor. `NumberLast` advances the index twice after a range, and
`Report` looks at the first `button_count` descriptors and takes the first that
has the usage. The reference is independent of the loops: the number of a button
is its position among all buttons plus the ranges before its capability.
`ButtonsShown` says a report shows exactly the buttons whose number is less than
the driver's count. So a device whose only range comes last shows all its buttons
and any other device with a range loses one of its last for each range before
them: the reference takes the second increment as the code has it, no text in the
repository says which number a button should have. `OverrunExactly` says for which
devices the loops leave the arrays, in `rhid_get_devices` (`Overrun`,
`GetValueCaps`) or in `rhid_report`, whose loops run to the counts the driver gave
(`ReportOverrun`): there the program's behaviour is undefined and the model stops
(`"overrun"`, hence `CHECK_DEADLOCK FALSE`). The properties about what is shown
end there too. `CapsAssumption` says what the driver is relied on for:
usages are not 0, a range is not empty, and a capability that is not a range has
one usage.

### Rsoc

The descriptor table is the system's and all sockets share it; a number that was
closed may be given out again at once. `Call` is the part of `_rsoc_conn` up to
the loop, `SocketFails`, `SocketMade`, `Connect`, `BindFails` and `Bind` its turns.
The one-step calls follow the role of the structure; `RSOC_ROLE_HOST` is never
assigned (line 146 gives a host the role of a client), so the branches for it are
in the model but not reached. When `getaddrinfo` fails with a positive error, as
on Windows, the list nobody filled in is dereferenced; of what can happen then
the model has the end of the program (`"crashed"`, hence `CHECK_DEADLOCK FALSE`).
The application is assumed to use one thread for a socket, to host or resolve
a socket it does not use, and to close one once, after a result of 0.

## 3. Runs

| run | module, cfg | bounds | what it shows |
| --- | --- | --- | --- |
| `device` | RhidDevice | 2 buttons, 1 value, 2 report ids, queue of 2, 3 reports, 1 failure | invariants, refinement of `ReportStream`, every report that arrived is shown or overtaken |
| `count` | RhidCount | jump 5 as in the code, lists of 0 to 16, 2 failing probes | exact, bounded, returns |
| `table` | MCInptHid, InptHid_table | table of 2, 3 devices in 2 enumerations, 1 failing enumeration | invariants, a stable selection, the table catches up |
| `select`, `openfail`, `ids` | MCInptHid | as `table` | the three findings below |
| `robot` | MCInptUpdate | 2 buttons, 2 levels, the actions of main.c and 2 more | edges, levels, values and the mode, a long press is held |
| `app` | MCInptDispatch, InptDispatch_app | 2 states in one byte, 2 actions, 2 listener slots, 6 calls of the registry | bits are accounted for, the announced state, a stopped loop ends |
| `clear` | MCInptDispatch, InptDispatch_clear | as `app` | a finding below |
| `caps` | MCRhidCaps, RhidCaps | up to 3 of 5 capabilities (limit 3) and one device with 4, 5 button and 1 value descriptors, usages of 3 bits, a driver's count of up to 9 | what a report shows, and when arrays are left |
| `sockets` | Rsoc, Rsoc_sockets | 2 sockets, 3 descriptors, 2 addresses | ownership, no loss but a client's, calls return |
| `send` | Rsoc, Rsoc_send | as `sockets` | a finding below |

Why the bounds are enough. Tearing needs an old report, the one being copied and
one more to tell two from three: three reports, and a queue of two lets one be
dropped. Three usages tell "first parsed", "parsed between" and "last". Lists of 0
to 16 cover three multiples of the jump and both their neighbours. A table of two
has an entry before and one after any other, its enumerations move a device from
the second place to the first, shrink between count and fetch, and exceed the
table by one. Two buttons are what a modifier and its action need; a cycle looks
at each alone, so more buttons only repeat this. `MCActions` ends with a value
action under a modifier and a change to a state nobody added, which main.c lacks.

Six calls of the registry are enough to add two states and both actions, delete a
state and have its slot taken by another. Three capabilities give a range with
one before it and one after it; the five of `MCRhidCaps` include a range up to the
largest usage and usages in two capabilities, and their sequences both fit and
exceed the array. Two threads
are what a descriptor given out twice needs, and a third descriptor is left
behind by a client.

`caps`, `sockets` and `send` may stop where the program's behaviour is undefined;
the other runs check that there is no deadlock.

### Fairness

- `RhidDevice`: the driver finishes a copy it began, and `rhid_report` is called
  again and again: weak fairness of `Copying`, `Reading`, `Parsing`. The loops of
  `inpt_start` (`inpt.c:52`) and `test/main.c:66` do nothing else. Nothing is
  assumed of the device, of plugging or of opens.
- `RhidCount`: the loops of one function run on.
- `InptHid`: `UpdateCount` and `UpdateFetch` go on happening, by the same loops.
  `TableCatchesUp` assumes in its premise that plugging stops, that nothing stays
  selected, and that no entry has a junk `is_open`: the refresh would keep it for
  ever, which is a way the code really can fail.
- `InptUpdate`: the cycle goes on, and callbacks return. Selects are not fair.
- `InptDispatch`: the thread in `inpt_start` runs on (`Update`, `LoopEnd`) and
  callbacks return. `StopEndsLoop` holds for a stop that comes after
  `inpt_start` has set `is_running`; one that comes before is overwritten.
- `Rsoc`: a thread inside `_rsoc_conn` runs on. `socket`, `connect` and `bind`
  return in one way or the other.

## 4. Findings

Each is a property a caller or a comment in the repository states, and a run of
TLC that breaks it.

- `select`: `inpt_hid_select` looks at `devs[0]` only and opens it when it is
  *not* the device asked for (`inpt.c:806-812`).
- `openfail`: it returns 0 when the open failed (`inpt.c:811-812`).
- `ids`: `inpt_hid_list` stores the product id over the vendor id
  (`inpt.c:767-768`), and gives no ids to the entry it opens or those after it.
- `clear`: `inpt_act_del_state` sets the other bits of the byte instead of
  clearing one (`BITFLD_CLR`, `inpt.h:29`; "search and destroy", `inpt.c:671`).
- `send`: a client's `_rsoc_conn` returns an error when `connect` succeeded and
  gives the socket no role, so it cannot send (`rsoc.c:108`; lines 98 and 196 say
  otherwise). A host cannot answer either: its role is that of a client
  (`rsoc.c:146`), and `send` needs a connected descriptor.

`test/main.c:59` passes the listed ids to `inpt_hid_select` and exits when the
result is negative.

## 5. Proofs

All proofs are checked to the last leaf and assume only the named assumptions on
the constants (`DeviceAssumption`, `CountAssumption`, `CapsAssumption`,
`TableAssumption`, `UpdateAssumption`, `ModeAssumption`, `RegistryAssumption`,
`DispatchAssumption`, `RsocAssumption`), which TLC evaluates in the runs. The
inductive invariants are at the end of the component modules; those of
`InptDispatch` and `Rsoc`, built from the checked invariants and a few parts more,
are in their `_proofs` modules.

- **RhidDevice.** `IInv` strengthens `OneReadOutstanding` with an order on
  everything that carries a report number: what is shown is not newer than the
  buffer, the buffer (once a read was issued in this session) is older than
  every queued report and not newer than the one being copied, the report being
  copied is older than the queue, and all were sent. That order is what makes
  the view monotone: `ParseButtons` and `ParseValue` copy from the buffer, and
  the buffer only ever gets newer reports. `Begun` matters: before the first
  read the buffer holds the report of `HidD_GetInputReport`, which may be newer
  than the queue; that is harmless only because nothing parses it. The mutant
  `OpenEndShowsInitial` does, as the TODO at line 628 proposes, and the
  refinement breaks. `ImplementsStream` maps `seen` to `shown`; parse steps are
  `Show`, opening and closing are `Reset`, `DeviceSend` is `Send`, the rest
  stutters.
- **RhidDevice, tearing.** `TornOnceAtMost` counts reports, and a cardinality is
  not inductive. `BufferOfTwo` names the two: every field of the buffer is of
  `old` if the copy in progress has yet to write it and of `new` if not, what a
  call has parsed so far is of these two, and a pending read has only one in the
  buffer, so the copy that begins adds the second. A third would need a second
  copy during the parsing, but the next read is only issued by the next call.
  `IdHolds` is needed for the one way out: a report with the wrong id is not
  parsed at all.
- **RhidCount.** `NothingBeyond` (while walking back, no device lies beyond the
  index unless a probe failed) and `JumpsAreThere` carry the two properties.
- **InptHid.** The conjunction is inductive once `FetchSelectsNothing` is added:
  a refresh in progress has nothing selected, so overwriting entries cannot touch
  an open one. `ClosedFacts` (nothing is open after `rhid_close` of the
  selection) and `OpenAndSelectFacts` (an open from there is consistent) are used
  by `List` and `Select` alike. `SelectionIsStable` follows from the same `IInv`.
- **InptUpdate.** Levels and edges follow from `ButtonsInStep`: buttons before
  the loop's index follow the report, those from it on are as the cycle before
  left them. `CycleKeepsProtocol` is the edge protocol over the cycle so far; it
  holds of a copied `btn_states_prev` because both are then equal. `WholeCycles`
  says when a cycle counts as whole after a callback's select, `ToldInStep` from
  which turn on the listener knows the new value. `PreviousIsCopied` is why it
  does not matter what is selected between cycles. `ActionsFromOne` (the action
  loop's index is a place of the table) is small, but without it `TypeOK` is not
  inductive: `fired` would leave the table.
- **The mode** (`MCInptUpdate_proofs`). `ModeInStep` follows the mode through the
  cycle: before the actions it is that of the last cycle, after the first action
  a press has switched it, after the second a release has. That the rest of the
  table changes no state is `ModeAssumption`; nothing else is assumed of it.
- **RhidCaps.** The reference counts (`Number` is a sum of two cardinalities), the
  code adds as it goes. The lemmas `FirstNumber`, `NextInRange` and
  `NextCapNumber` say how the reference moves from a button to the next, so the
  induction over the capabilities is the one over the steps: `NumberingIsOrdered`
  says the index is the reference's number of the usage at hand, and
  `DescribedInOrder` that what is described so far lies at its numbers and holds
  the first button of each of its usages. `NumberIsMonotone` turns "the first
  descriptor found" into "the first button". A range up to the last value of a
  `uint16_t` is never left (`Endless`): the claims stop there, and
  `OverrunExactly` shows that a device with one is not described to the end.
  `ReadsPastUntold` is why a report of a described device stays within the array,
  however large the driver's count: each usage has its descriptor there, and the
  search ends at it.
- **InptDispatch.** `RegistryInv` adds `FreeIsClear` to `BitsAccounted`: an empty
  slot has no bits, which is why `ActNew` need not clear them. One lemma per call
  of the registry; `AddStatesEach` and `AddStatesOne` say what a list of names
  does to bits. For the pass, `TargetIsAnnounced` carries the promise across the
  callbacks, and `InBounds` keeps the two loop indices within their tables.
- **Rsoc.** `UsedIsSetUp` (a socket the application closes has a role or no
  descriptor at all) is why `Close` cannot close another's descriptor, and
  `LeakedStayOpen` why a descriptor left behind is not given out again.

Every invariant and every step property a passing run checks is also proved.
Only model-checked is what needs fairness, which is out of the prover's reach:
`ArrivedIsShown`, `CallReturns`, `TableCatchesUp`, `LongPressIsHeld`,
`StopEndsLoop` and `ConnReturns`. The findings of section 4 are runs of TLC, on
one instance each.

## 6. What is left out

- Report contents, pages apart from usages, widths and signs of values. One value
  usage stands for all in `InptUpdate`; in `InptHid` the button count stands for
  both counts.
- `HidP_GetUsageValue` failing for one usage only, and devices with several
  report ids at once: a report has the device's one id.
- Callbacks that call `inpt_update` or `inpt_start`; calls of the registry by
  another thread during a pass; a pointer to an action used after the action was
  deleted.
- `inpt_hid_on_*`: the listeners of buttons and values are one each in
  `InptUpdate`.
- `rhid_select_count` and `rhid_select_devices` (nothing calls them), the stubs of
  rsoc and rhid, `inpt_version`, `inpt_hash` (names are compared, not hashes),
  `nanosleep` (never called), and the timers of `debug.c` (compiled out unless
  asked for, read by nobody).
- The points of an action's curve: `inpt_act_add_point` needs a point to add one,
  so `point_count` stays 0 and all three calls return -1.
- The address lists `_rsoc_conn` does not free when it returns 0, and the address
  and port it stores, which only the unreached branches read.
- Devices with more buttons than `MAX_BUTTONS` in `InptUpdate`; the copies of inpt
  are unchecked there.
- What the program does after it has left an array: `RhidCaps` stops there.
- Handles and buffers `rhid_get_devices` uses and releases within one call, and
  those `rhid_open` would leak if called on an open entry (`NoHandleLost` shows
  inpt never does).
- `named` stands for `dev_names[0]` being set; the other names are not kept.

## 7. Plan

Done: all components but those of section 6, with the proofs above. The
composition of `InptHid` and `RhidDevice` is covered from both sides:
`RhidDevice` closes and opens in the middle of a pending read, and
`OpenIsSelected` shows no second session shares the global `OVERLAPPED`.

Every safety property the passing runs check has its theorem. Worth doing next:

1. An abstract specification of a button (off, pressed, held, released, driven by
   its level), which `InptUpdate` implements in its undisturbed behaviours; today
   `EdgeProtocol` and `LevelMatchesState` say the same in two parts.
2. Safety lemmas that the liveness properties rest on: that the premises of
   `TableCatchesUp` are stable, and that `StopEndsLoop` can only fail by a stop
   before the start.
3. For `Rsoc`, that a thread that uses a descriptor is never given one another
   thread has just closed, across the retries in `_rsoc_conn`.
