--------------------------- MODULE InptHid_proofs ---------------------------
(***************************************************************************)
(* Proofs about InptHid for every set of devices, table size, set of       *)
(* enumerations and number of faults.                                      *)
(***************************************************************************)
EXTENDS InptHid, TLAPS

(* What a refresh fetches or leaves is an entry, and never a live one.     *)
LEMMA LeftoverFacts ==
    \A e \in Leftover : e \in Entries /\ ~Live(e)
  <1>1. NoId \in Int \X Int /\ JunkId \in Int \X Int
    BY DEF NoId, JunkId
  <1>2. ASSUME NEW d \in Devs, NEW e \in Descriptions(d)
        PROVE  e \in Entries /\ ~Live(e)
    <2>1. PICK id \in {Id[d], NoId}, n \in {Btns[d], 0} :
            e = Entry(d, id, n, 0)
      BY DEF Descriptions
    <2>2. id \in Int \X Int /\ n \in Nat
      BY <1>1, TableAssumption DEF TableAssumption
    <2> QED
      BY <2>1, <2>2 DEF Entry, Entries, Live
  <1>3. ASSUME NEW e \in {Junk(0), Junk(1), Zeroed}
        PROVE  e \in Entries /\ ~Live(e)
    BY <1>1 DEF Junk, Zeroed, Entry, Entries, Live
  <1> QED
    BY <1>2, <1>3 DEF Fetched, Leftover, Enumerated

(* A count, whatever fails, fits the table.                                *)
LEMMA CountFacts ==
    ASSUME present \in Seq(Devs), NEW c \in -1..Len(present), Counts(c)
    PROVE  c \in -1..MaxDev
  <1>1. Len(present) \in Nat
    OBVIOUS
  <1> QED
    BY <1>1, TableAssumption DEF Counts, Clamp, TableAssumption

(* Closing or opening the selected entry changes its open field only. *)
LEMMA CloseFacts ==
    ASSUME devs \in [Slots -> Entries], dev_selected \in 0..MaxDev
    PROVE  /\ AfterClose \in [Slots -> Entries]
           /\ \A i \in Slots :
                 /\ AfterClose[i].dev = devs[i].dev
                 /\ AfterClose[i].btns = devs[i].btns
                 /\ i # dev_selected => AfterClose[i] = devs[i]
                 /\ i = dev_selected => AfterClose[i].open = 0
  BY DEF AfterClose, Entries, Slots

LEMMA OpenFacts ==
    ASSUME NEW t \in [Slots -> Entries], NEW i \in Slots
    PROVE  LET u == [t EXCEPT ![i].open = 1]
           IN  /\ u \in [Slots -> Entries]
               /\ \A j \in Slots : /\ u[j].dev = t[j].dev
                                   /\ u[j].btns = t[j].btns
                                   /\ j # i => u[j] = t[j]
                                   /\ j = i => u[j].open = 1
  BY DEF Entries

(* After rhid_close of the selected device nothing is open any more. *)
LEMMA ClosedFacts ==
    ASSUME IInv
    PROVE  /\ AfterClose \in [Slots -> Entries]
           /\ \A i \in Slots : ~Live(AfterClose[i])
           /\ HandlesAfterClose = 0
  <1>1. devs \in [Slots -> Entries] /\ dev_selected \in 0..MaxDev
    BY DEF IInv, TypeOK
  <1>2. \A i \in Slots : ~Live(AfterClose[i])
    BY <1>1, CloseFacts DEF IInv, OpenIsSelected, Live, AfterClose
  <1>3. HandlesAfterClose = 0
    BY DEF IInv, HandlesAccounted, HandlesAfterClose
  <1> QED
    BY <1>1, <1>2, <1>3, CloseFacts

(* What is selected, open and counted once a call is over. *)
Consistent == OpenIsSelected /\ HandlesAccounted /\ CountsAgree

(* rhid_open from a table with nothing open leaves a consistent state.     *)
LEMMA OpenAndSelectFacts ==
    ASSUME NEW t \in [Slots -> Entries], NEW i \in Slots,
           \A j \in Slots : ~Live(t[j]),
           present \in Seq(Devs), hid_count \in Nat,
           OpenAndSelect(i, t, 0)
    PROVE  /\ devs' \in [Slots -> Entries] /\ dev_selected' \in 0..MaxDev
           /\ hid_count' \in Nat /\ handles' \in Int
           /\ Consistent'
  <1> dev_selected' = i
    BY DEF OpenAndSelect
  <1> i # 0 /\ i \in 0..MaxDev
    BY TableAssumption DEF Slots, TableAssumption
  <1>1. CASE Opens(i, t) /\ hid_count' = t[i].btns /\ handles' = 0 + 1
    <2>1. t[i].dev # NoDev
      BY <1>1, TableAssumption DEF Opens, TableAssumption
    <2>2. /\ devs' \in [Slots -> Entries]
          /\ \A j \in Slots : j # i => ~Live(devs'[j])
          /\ Live(devs'[i]) /\ devs'[i].btns = t[i].btns
      BY <1>1, <2>1, OpenFacts DEF Opens, Live
    <2>3. t[i].btns \in Nat
      BY DEF Entries
    <2> QED
      BY <1>1, <2>2, <2>3
      DEF Consistent, OpenIsSelected, HandlesAccounted, CountsAgree, Selected
  <1>2. CASE devs' = t /\ handles' = 0 /\ UNCHANGED hid_count
    BY <1>2 DEF Consistent, OpenIsSelected, HandlesAccounted, CountsAgree,
       Selected
  <1> QED
    BY <1>1, <1>2 DEF OpenAndSelect

LEMMA InvInit == Init => IInv
  <1> SUFFICES ASSUME Init PROVE IInv
    OBVIOUS
  <1>1. devs \in [Slots -> Entries] /\ \A i \in Slots : ~Live(devs[i])
    BY LeftoverFacts DEF Init, Leftover, Fetched
  <1>2. TypeOK
    BY <1>1, TableAssumption
    DEF Init, TypeOK, NoId, TableAssumption
  <1> QED
    BY <1>1, <1>2
    DEF Init, IInv, OpenIsSelected, HandlesAccounted, CountsAgree,
        FetchSelectsNothing

(* One step per action; a crash and a plug leave the table alone.          *)
LEMMA InvStep == IInv /\ [Next]_vars => IInv'
  <1> SUFFICES ASSUME IInv, [Next]_vars PROVE IInv'
    OBVIOUS
  <1> present \in Seq(Devs)
    BY TableAssumption DEF IInv, TypeOK, TableAssumption
  <1>1. CASE Plug
    BY <1>1 DEF Plug, table, select, IInv, TypeOK, OpenIsSelected,
       HandlesAccounted, CountsAgree, FetchSelectsNothing, Selected
  <1>2. CASE Crash
    BY <1>2 DEF Crash, table, select, IInv, TypeOK, OpenIsSelected,
       HandlesAccounted, CountsAgree, FetchSelectsNothing, Selected
  <1>3. CASE UpdateCount
    <2>1. faults' \in Nat
      BY <1>3 DEF UpdateCount, Counts, IInv, TypeOK
    <2>2. dev_count' \in -1..MaxDev
      BY <1>3, CountFacts DEF UpdateCount
    <2> QED
      BY <1>3, <2>1, <2>2 DEF UpdateCount, Idle, select, IInv, TypeOK,
         OpenIsSelected, HandlesAccounted, CountsAgree, FetchSelectsNothing,
         Selected
  <1>4. CASE UpdateFetch
    <2>1. dev_selected = 0
      BY <1>4 DEF UpdateFetch, IInv, FetchSelectsNothing
    <2>2. faults' \in Nat
      BY <1>4 DEF UpdateFetch, Fetches, Fails, IInv, TypeOK
    <2>3. PICK tmp \in [1..Asked -> Leftover] :
            devs' = [i \in Slots |-> IF i > dev_count \/ devs[i].open = 1
                                       THEN devs[i] ELSE tmp[i]]
      BY <1>4 DEF UpdateFetch
    <2>4. ASSUME NEW i \in Slots
          PROVE  devs'[i] \in Entries /\ ~Live(devs'[i])
      <3>1. devs[i] \in Entries /\ ~Live(devs[i])
        BY <2>1 DEF IInv, TypeOK, OpenIsSelected, Slots
      <3>2. i > dev_count \/ i \in 1..Asked
        BY DEF IInv, TypeOK, Slots, Asked
      <3> QED
        BY <2>3, <3>1, <3>2, LeftoverFacts
    <2>5. devs' \in [Slots -> Entries]
      BY <2>3, <2>4
    <2> QED
      BY <1>4, <2>1, <2>2, <2>4, <2>5 DEF UpdateFetch, select, IInv, TypeOK,
         OpenIsSelected, HandlesAccounted, CountsAgree, FetchSelectsNothing
  <1>5. CASE List
    <2>1. PICK c \in -1..Len(present) :
            /\ Counts(c) /\ dev_count' = c /\ dev_ids' = Ided(c)
            /\ named' = IF c >= 1 /\ devs[1].id # WantedId THEN 1 ELSE named
            /\ \/ /\ devs' = AfterClose /\ handles' = HandlesAfterClose
                  /\ UNCHANGED <<dev_selected, hid_count>>
               \/ \E m \in Matches(c) :
                     OpenAndSelect(m, AfterClose, HandlesAfterClose)
      BY <1>5 DEF List
    <2> c \in -1..MaxDev
      BY <2>1, CountFacts
    <2>2. faults' \in Nat
      BY <2>1 DEF Counts, IInv, TypeOK
    <2>3. dev_ids' \in [Slots -> Int \X Int]
      BY <2>1 DEF Ided, IInv, TypeOK, Entries
    <2>4. named' \in {0, 1}
      BY <2>1 DEF IInv, TypeOK
    <2>5. Matches(c) \subseteq Slots
      BY TableAssumption DEF Matches, Slots, TableAssumption
    <2>6. /\ devs' \in [Slots -> Entries] /\ dev_selected' \in 0..MaxDev
          /\ hid_count' \in Nat /\ handles' \in Int
          /\ Consistent'
      <3>1. CASE /\ devs' = AfterClose /\ handles' = HandlesAfterClose
                 /\ UNCHANGED <<dev_selected, hid_count>>
        BY <3>1, ClosedFacts
        DEF Consistent, OpenIsSelected, HandlesAccounted, CountsAgree,
            Selected, IInv, TypeOK, Slots
      <3>2. CASE \E m \in Matches(c) :
                    OpenAndSelect(m, AfterClose, HandlesAfterClose)
        BY <3>2, <2>5, ClosedFacts, OpenAndSelectFacts DEF IInv, TypeOK
      <3> QED
        BY <2>1, <3>1, <3>2
    <2> QED
      BY <1>5, <2>1, <2>2, <2>3, <2>4, <2>6
      DEF List, Idle, Consistent, IInv, TypeOK, FetchSelectsNothing
  <1>6. ASSUME NEW id \in Ids, Select(id) PROVE IInv'
    <2>2. /\ devs' \in [Slots -> Entries] /\ dev_selected' \in 0..MaxDev
          /\ hid_count' \in Nat /\ handles' \in Int
          /\ Consistent'
      <3>1. CASE /\ devs' = AfterClose /\ handles' = HandlesAfterClose
                 /\ dev_selected' = 0 /\ UNCHANGED hid_count
        BY <3>1, ClosedFacts, TableAssumption
        DEF Consistent, OpenIsSelected, HandlesAccounted, CountsAgree,
            IInv, TypeOK, TableAssumption
      <3>2. CASE OpenAndSelect(1, AfterClose, HandlesAfterClose)
        <4>1. 1 \in Slots
          BY TableAssumption DEF Slots, TableAssumption
        <4> QED
          BY <3>2, <4>1, ClosedFacts, OpenAndSelectFacts DEF IInv, TypeOK
      <3> QED
        BY <1>6, <3>1, <3>2 DEF Select
    <2> QED
      BY <1>6, <2>2
      DEF Select, Idle, Consistent, IInv, TypeOK, FetchSelectsNothing
  <1>7. CASE UNCHANGED vars
    BY <1>7 DEF vars, table, select, IInv, TypeOK, OpenIsSelected,
       HandlesAccounted, CountsAgree, FetchSelectsNothing, Selected
  <1> QED
    BY <1>1, <1>2, <1>3, <1>4, <1>5, <1>6, <1>7
    DEF Next, UpdateHid, CloseWild, IsConnCrashes

(* The strengthening holds in every reachable state. *)
THEOREM Invariance == Spec => []IInv
  BY InvInit, InvStep, PTL DEF Spec

(* The table, the selection and the results always have their types.       *)
THEOREM TypeCorrect == Spec => []TypeOK
  BY Invariance, PTL DEF IInv

(* At most one device is open, and it is the selected one, under every     *)
(* interleaving of plugging, refreshes, lists and selects.                 *)
THEOREM OneDeviceOpen == Spec => []OpenIsSelected
  BY Invariance, PTL DEF IInv

(* Opens and closes are paired: no handle is leaked or closed twice.       *)
THEOREM NoHandleLost == Spec => []HandlesAccounted
  BY Invariance, PTL DEF IInv

(* The counts of inpt.hid are those of the open device.                    *)
THEOREM CountsOfOpenDevice == Spec => []CountsAgree
  BY Invariance, PTL DEF IInv

(* An entry keeps its device when it is closed or opened, and a refresh    *)
(* runs with nothing selected, so no step changes the device under a       *)
(* standing selection.                                                     *)
LEMMA SelectionStep ==
    ASSUME IInv, [Next]_vars, dev_selected # 0, dev_selected' = dev_selected
    PROVE  devs'[dev_selected].dev = Selected.dev
  <1> dev_selected \in Slots /\ devs \in [Slots -> Entries]
    BY DEF IInv, TypeOK, Slots
  <1>1. \A i \in Slots : AfterClose[i].dev = devs[i].dev
    BY CloseFacts DEF IInv, TypeOK
  <1>2. ASSUME NEW i \in Slots, NEW n, OpenAndSelect(i, AfterClose, n)
        PROVE  devs'[dev_selected].dev = Selected.dev
    <2>1. AfterClose \in [Slots -> Entries]
      BY ClosedFacts
    <2>2. CASE Opens(i, AfterClose)
      BY <1>1, <2>1, <2>2, OpenFacts DEF Opens, Selected
    <2>3. CASE devs' = AfterClose
      BY <1>1, <2>3 DEF Selected
    <2> QED
      BY <1>2, <2>2, <2>3 DEF OpenAndSelect
  <1>3. CASE devs' = devs \/ devs' = AfterClose
    BY <1>1, <1>3 DEF Selected
  <1>4. CASE List
    <2>1. ASSUME NEW c \in -1..MaxDev
          PROVE  Matches(c) \subseteq Slots
      BY TableAssumption DEF Matches, Slots, TableAssumption
    <2>2. present \in Seq(Devs)
      BY TableAssumption DEF IInv, TypeOK, TableAssumption
    <2>3. PICK c \in -1..Len(present) :
            /\ Counts(c)
            /\ \/ devs' = AfterClose
               \/ \E m \in Matches(c) :
                     OpenAndSelect(m, AfterClose, HandlesAfterClose)
      BY <1>4 DEF List
    <2> QED
      BY <1>2, <1>3, <2>1, <2>2, <2>3, CountFacts
  <1>5. ASSUME NEW id \in Ids, Select(id)
        PROVE  devs'[dev_selected].dev = Selected.dev
    <2>1. 1 \in Slots
      BY TableAssumption DEF Slots, TableAssumption
    <2> QED
      BY <1>2, <1>3, <1>5, <2>1 DEF Select
  <1>6. CASE UpdateCount \/ UpdateFetch
    BY <1>6, <1>3 DEF UpdateCount, UpdateFetch, IInv, FetchSelectsNothing
  <1>7. CASE Plug \/ Crash \/ UNCHANGED vars
    BY <1>3, <1>7 DEF Plug, Crash, table, vars
  <1> QED
    BY <1>4, <1>5, <1>6, <1>7
    DEF Next, UpdateHid, CloseWild, IsConnCrashes

(* The pointer dev_selected never comes to mean another device.            *)
THEOREM SelectionIsStable == Spec => SelectionKeepsItsDevice
  <1>1. IInv /\ [Next]_vars
        => [dev_selected # 0 /\ dev_selected' = dev_selected
              => devs'[dev_selected].dev = Selected.dev]_vars
    BY SelectionStep
  <1> QED
    BY <1>1, Invariance, PTL DEF Spec, SelectionKeepsItsDevice
=============================================================================
