----------------------------- MODULE InptUpdate -----------------------------
(***************************************************************************)
(* One cycle of inpt_update of src/src/inpt.c after the device refresh:    *)
(* the copy of the device's state, the button and value events, the pass   *)
(* over the actions, and the copy to the previous state.  The functions    *)
(* it calls back belong to the application and may call inpt_hid_select,   *)
(* which writes the same inpt.hid_prev and counts the cycle is reading.    *)
(*                                                                         *)
(* The tables of states and actions are constants here, and one value      *)
(* usage stands for all.                                                   *)
(***************************************************************************)
EXTENDS Integers, Sequences

CONSTANTS
    MaxBtns,        \* buttons of the largest device
    Levels,         \* what a value usage reports; 0 is one of them
    States,         \* inpt.states, a sequence of state names
    Actions         \* inpt.actions, a sequence of records

Btns == 0..(MaxBtns - 1)

(* enum inpt_btn_state_t; an action's flags are a set of these but OFF.    *)
OFF == 0    PRESSED == 1    RELEASED == 2    HELD == 4
BtnStates == {OFF, PRESSED, RELEASED, HELD}

NoMod == -1

ActionRecords ==
    [type : {"state_change", "trigger", "value"},
     states : SUBSET (1..Len(States)),      \* the bits of action->states
     input_mod : Btns \cup {NoMod},
     input : Btns,
     flags : SUBSET {PRESSED, RELEASED, HELD},
     new_state : 0..Len(States)]            \* its place in States, 0 if none

ASSUME UpdateAssumption ==
    /\ MaxBtns \in Nat \ {0}
    /\ 0 \in Levels /\ Levels \subseteq Nat
    /\ Len(States) \in Nat \ {0}
    /\ Actions \in Seq(ActionRecords)

VARIABLES
    selected,       \* "none", "open", or "dead": selected but not open
    btn_count,      \* inpt.hid.btn_count
    hid, val,       \* inpt.hid.btns and inpt.hid.vals
    hid_prev, val_prev,
    btn_states, btn_states_prev,
    state_index,    \* inpt.state_index, from 1
    pc,             \* the loop the cycle is in, "cb" in a callback
    back,           \* the loop a callback returns to
    i,              \* the loop's index
    edged,          \* history: buttons whose state changed in this cycle
    fired,          \* history: actions that ran in this cycle
    told,           \* history: the last value on_hid_vals was called with
    undisturbed,    \* history: no callback has called inpt_hid_select
    in_step         \* history: "no" from such a call until a whole "cycle"
                    \* over every button has ended, else "yes"

source  == <<selected, btn_count, hid, val>>
prev    == <<hid_prev, val_prev, btn_states_prev>>
history == <<edged, fired, told, undisturbed, in_step>>
vars    == <<source, prev, btn_states, state_index, pc, back, i, history>>

Init ==
    /\ selected = "none" /\ btn_count = 0
    /\ hid = [b \in Btns |-> 0] /\ hid_prev = hid
    /\ val = 0 /\ val_prev = 0
    /\ btn_states = [b \in Btns |-> OFF] /\ btn_states_prev = btn_states
    /\ state_index = 1
    /\ pc = "idle" /\ back = "idle" /\ i = 0
    /\ edged = {} /\ fired = {} /\ told = 0
    /\ undisturbed = TRUE /\ in_step = "yes"

-----------------------------------------------------------------------------
(* inpt_hid_select, between cycles or from a callback.  Opening a device   *)
(* sets the counts and makes hid_prev the same as hid; a failing open      *)
(* selects it all the same.  A crash in a later cycle is InptHid's matter. *)
SelectEffect ==
    \/ /\ selected' = "open"
       /\ btn_count' \in 0..MaxBtns
       /\ hid_prev' = hid /\ val_prev' = val
    \/ /\ selected' \in {"none", "dead"}
       /\ UNCHANGED <<btn_count, hid_prev, val_prev>>

Select ==
    /\ pc = "idle"
    /\ SelectEffect
    /\ UNCHANGED <<hid, val, btn_states_prev, btn_states, state_index, pc,
                   back, i, history>>

CallbackSelect ==
    /\ pc = "cb"
    /\ SelectEffect
    /\ undisturbed' = FALSE /\ in_step' = "no"
    /\ UNCHANGED <<hid, val, btn_states_prev, btn_states, state_index, pc,
                   back, i, edged, fired, told>>

CallbackReturn ==
    /\ pc = "cb"
    /\ pc' = back
    /\ UNCHANGED <<source, prev, btn_states, state_index, back, i, history>>

(* A callback is entered; the loop goes on with its next index after it.   *)
CallBack == pc' = "cb" /\ back' = pc /\ i' = i + 1
Continue == i' = i + 1 /\ UNCHANGED <<pc, back>>
Enter(loop, first) == pc' = loop /\ i' = first /\ UNCHANGED back

-----------------------------------------------------------------------------
(* rhid_report and the copies of its results; without an open device the   *)
(* copies are as they were, without a selection the events are skipped.    *)
Start ==
    /\ pc = "idle"
    /\ \/ selected = "none" /\ Enter("actions", 1) /\ UNCHANGED <<hid, val>>
       \/ selected = "dead" /\ Enter("buttons", 0) /\ UNCHANGED <<hid, val>>
       \/ /\ selected = "open"
          /\ hid' \in [Btns -> {0, 1}] /\ val' \in Levels
          /\ \A b \in Btns : b >= btn_count => hid'[b] = hid[b]
          /\ Enter("buttons", 0)
    /\ edged' = {} /\ fired' = {}
    /\ in_step' = IF in_step = "no" /\ selected = "open" /\ btn_count = MaxBtns
                    THEN "cycle" ELSE in_step
    /\ UNCHANGED <<selected, btn_count, prev, btn_states, state_index, told,
                   undisturbed>>

NewState(b) ==
    CASE hid[b] = 1 /\ hid_prev[b] = 0 -> PRESSED
      [] hid[b] = 1 /\ hid_prev[b] = 1 -> HELD
      [] hid[b] = 0 /\ hid_prev[b] = 1 -> RELEASED
      [] OTHER -> OFF

ButtonStep ==
    /\ pc = "buttons" /\ i < btn_count
    /\ \/ NewState(i) = btn_states[i] /\ Continue
          /\ UNCHANGED <<btn_states, edged>>
       \/ /\ NewState(i) # btn_states[i]
          /\ btn_states' = [btn_states EXCEPT ![i] = NewState(i)]
          /\ edged' = edged \cup {i}
          /\ CallBack
    /\ UNCHANGED <<source, prev, state_index, fired, told, undisturbed,
                   in_step>>

(* Mutant: the last button is left out.                                    *)
ButtonsDoneEarly ==
    /\ pc = "buttons" /\ i >= btn_count - 1
    /\ Enter("values", 0)
    /\ UNCHANGED <<source, prev, btn_states, state_index, history>>

ButtonsDone ==
    /\ pc = "buttons" /\ i >= btn_count
    /\ Enter("values", 0)
    /\ UNCHANGED <<source, prev, btn_states, state_index, history>>

ValueStep ==
    /\ pc = "values" /\ i = 0
    /\ \/ val = val_prev /\ Continue /\ UNCHANGED told
       \/ val # val_prev /\ told' = val /\ CallBack
    /\ UNCHANGED <<source, prev, btn_states, state_index, edged, fired,
                   undisturbed, in_step>>

ValuesDone ==
    /\ pc = "values" /\ i > 0
    /\ Enter("actions", 1)
    /\ UNCHANGED <<source, prev, btn_states, state_index, history>>

-----------------------------------------------------------------------------
(* The pass over the actions *)

HeldButtons == {b \in Btns : btn_states[b] = HELD}

Allowed(a) == /\ state_index \in a.states
              /\ a.input_mod \in {NoMod} \cup HeldButtons

(* Mutant: the states of the cycle before are read.                        *)
FlaggedBefore(a) == btn_states_prev[a.input] \in a.flags

(* Mutant: a button state counts in every cycle it lasts.                  *)
ChangedAlways(a) == TRUE

Flagged(a) == btn_states[a.input] \in a.flags
Changed(a) == btn_states[a.input] # btn_states_prev[a.input]

(* Mutant: a state that is not in the table is gone to.                    *)
RunsToAnyState(a) ==
    /\ Allowed(a)
    /\ CASE a.type = "state_change" -> Flagged(a) /\ Changed(a)
         [] a.type = "trigger" ->
                Flagged(a) /\ (Changed(a) \/ a.input \in HeldButtons)
         [] a.type = "value" -> val # val_prev

Runs(a) ==
    /\ Allowed(a)
    /\ CASE a.type = "state_change" ->
                Flagged(a) /\ Changed(a) /\ a.new_state # 0
         [] a.type = "trigger" ->
                Flagged(a) /\ (Changed(a) \/ a.input \in HeldButtons)
         [] a.type = "value" -> val # val_prev

(* The callbacks of a state change run before the state changes; nothing   *)
(* they may do here reads it.                                              *)
ActionStep ==
    /\ pc = "actions" /\ i <= Len(Actions)
    /\ \/ ~Runs(Actions[i]) /\ Continue /\ UNCHANGED <<state_index, fired>>
       \/ /\ Runs(Actions[i])
          /\ fired' = fired \cup {i}
          /\ state_index' = IF Actions[i].type = "state_change"
                              THEN Actions[i].new_state ELSE state_index
          /\ CallBack
    /\ UNCHANGED <<source, prev, btn_states, edged, told, undisturbed,
                   in_step>>

Done ==
    /\ Enter("idle", 0)
    /\ in_step' = IF in_step = "cycle" THEN "yes" ELSE in_step
    /\ UNCHANGED <<edged, fired, told, undisturbed>>

(* Mutant: the buttons are not copied to the previous state.               *)
FinishKeepsButtons ==
    /\ pc = "actions" /\ i > Len(Actions)
    /\ val_prev' = val
    /\ btn_states_prev' = btn_states
    /\ Done
    /\ UNCHANGED <<source, hid_prev, btn_states, state_index>>

(* Mutant: the values are not copied to the previous state.                *)
FinishKeepsValues ==
    /\ pc = "actions" /\ i > Len(Actions)
    /\ hid_prev' = hid
    /\ btn_states_prev' = btn_states
    /\ Done
    /\ UNCHANGED <<source, val_prev, btn_states, state_index>>

Finish ==
    /\ pc = "actions" /\ i > Len(Actions)
    /\ hid_prev' = hid /\ val_prev' = val
    /\ btn_states_prev' = btn_states
    /\ Done
    /\ UNCHANGED <<source, btn_states, state_index>>

Cycle == \/ Start \/ ButtonStep \/ ButtonsDone \/ ValueStep \/ ValuesDone
         \/ ActionStep \/ Finish

Next == Select \/ CallbackSelect \/ CallbackReturn \/ Cycle

Spec == Init /\ [][Next]_vars

(* inpt_start loops over inpt_update, and callbacks return. *)
FairSpec == Spec /\ WF_vars(Cycle) /\ WF_vars(CallbackReturn)

-----------------------------------------------------------------------------
(* Properties *)

TypeOK ==
    /\ selected \in {"none", "open", "dead"} /\ btn_count \in 0..MaxBtns
    /\ hid \in [Btns -> {0, 1}] /\ hid_prev \in [Btns -> {0, 1}]
    /\ val \in Levels /\ val_prev \in Levels /\ told \in Levels
    /\ btn_states \in [Btns -> BtnStates]
    /\ btn_states_prev \in [Btns -> BtnStates]
    /\ state_index \in 1..Len(States)
    /\ pc \in {"idle", "buttons", "values", "actions", "cb"}
    /\ back \in {"idle", "buttons", "values", "actions"}
    /\ i \in Nat
    /\ edged \subseteq Btns /\ fired \subseteq 1..Len(Actions)
    /\ undisturbed \in BOOLEAN /\ in_step \in {"yes", "cycle", "no"}

Down(b) == btn_states[b] \in {PRESSED, HELD}

(* Between cycles a button counts as down exactly when the device's last   *)
(* copied state has it down: also for buttons that a smaller device left   *)
(* behind, across failed and repeated selects, and again one whole cycle   *)
(* after a callback has selected a device in the middle of the loops.      *)
LevelMatchesState ==
    pc = "idle" /\ in_step = "yes"
        => \A b \in Btns : Down(b) <=> hid[b] = 1

(* The changes a listener may not see, in one step or over one cycle.         *)
SkippedEdges ==
    {<<OFF, HELD>>, <<OFF, RELEASED>>, <<PRESSED, OFF>>, <<HELD, OFF>>,
     <<HELD, PRESSED>>, <<RELEASED, HELD>>}

(* A listener never misses an edge: a button is pressed before it is held  *)
(* and released before it is off, over any sequence of cycles and selects, *)
(* but for the cycles a callback's select breaks into.                     *)
EdgeProtocol ==
    [][in_step = "yes" =>
         \A b \in Btns :
            <<btn_states[b], btn_states'[b]>> \notin SkippedEdges]_vars

(* Actions on an edge run in the very cycle of that edge: one edge never   *)
(* runs an action twice, not even when the device is deselected and its    *)
(* button states stay as they were, or a callback selects another one.     *)
EdgesRunOnce ==
    \A k \in fired : \/ Actions[k].type = "value"
                     \/ Actions[k].input \in edged
                     \/ /\ Actions[k].type = "trigger"
                        /\ btn_states[Actions[k].input] = HELD

(* The application heard of the value the device last reported.            *)
ValueAnnounced == pc = "idle" /\ undisturbed => told = val

(* A button that is kept down is reported as held in the end, and stays    *)
(* so, whatever the callbacks select meanwhile.                            *)
LongPressIsHeld ==
    \A b \in Btns :
        <>[](selected = "open" /\ b < btn_count /\ hid[b] = 1)
            => <>[](btn_states[b] = HELD)

-----------------------------------------------------------------------------
(* The inductive invariant behind the safety properties.                   *)

(* The loop the cycle is in, or goes on with after the callback.           *)
Loop == IF pc = "cb" THEN back ELSE pc

CallbacksFromLoops == pc = "cb" => back # "idle"

(* Places in Actions are counted from 1.                                   *)
ActionsFromOne == Loop = "actions" => i >= 1

(* Between cycles the previous states are the present ones.                *)
PreviousIsCopied ==
    pc = "idle" => /\ hid_prev = hid /\ val_prev = val
                   /\ btn_states_prev = btn_states

(* What differs from the previous cycle has changed in this one.           *)
EdgesAreRecorded ==
    \A b \in Btns : btn_states[b] # btn_states_prev[b] => b \in edged

UndisturbedInStep == undisturbed => in_step = "yes"

(* Up to the value loop the listener knows the value of the cycle before,  *)
(* from its first turn on the one just reported.                           *)
ToldInStep ==
    undisturbed =>
        told = IF Loop = "buttons" \/ (Loop = "values" /\ i = 0)
                 THEN val_prev ELSE val

WholeCycles == /\ Loop = "idle" => in_step # "cycle"
               /\ Loop = "buttons" /\ in_step = "cycle" => btn_count = MaxBtns

Follows(b) == Down(b) <=> hid[b] = 1

(* The button loop has brought the buttons before its index in line with   *)
(* the report; those it has yet to look at are as the cycle before left    *)
(* them, and those of no button of this device did not change.             *)
ButtonsInStep ==
    in_step # "no" =>
        \A b \in Btns :
            /\ Loop # "buttons" \/ b < i => Follows(b)
            /\ Loop = "buttons" /\ b >= i /\ in_step = "yes" =>
                   /\ btn_states[b] = btn_states_prev[b]
                   /\ Down(b) <=> hid_prev[b] = 1
                   /\ b >= btn_count => hid[b] = hid_prev[b]

CycleKeepsProtocol ==
    in_step = "yes" =>
        \A b \in Btns : <<btn_states_prev[b], btn_states[b]>> \notin SkippedEdges

IInv == /\ TypeOK /\ EdgesRunOnce
        /\ CallbacksFromLoops /\ ActionsFromOne
        /\ PreviousIsCopied /\ EdgesAreRecorded
        /\ UndisturbedInStep /\ ToldInStep
        /\ WholeCycles /\ ButtonsInStep /\ CycleKeepsProtocol
=============================================================================
