---------------------------- MODULE MCInptUpdate ----------------------------
(***************************************************************************)
(* InptUpdate with the states and actions of src/test/main.c: button 0     *)
(* stands for its button 7, which switches the mode; button 1 for 2, which *)
(* shoots, and for 5, which drives forwards (drive_backwards, the same but *)
(* for its button, is left out).  A value action with a modifier and a     *)
(* change to a state nobody added, which main.c has none of, come last.    *)
(***************************************************************************)
EXTENDS InptUpdate

MCStates == <<"drive", "drive_lock", "shoot">>

Action(type, states, mod, input, flags, new) ==
    [type |-> type, states |-> states, input_mod |-> mod, input |-> input,
     flags |-> flags, new_state |-> new]

MCActions ==
    << Action("state_change", {1, 3}, NoMod, 0, {PRESSED}, 3),
       Action("state_change", {1, 3}, NoMod, 0, {RELEASED}, 1),
       Action("trigger", {3}, NoMod, 1, {RELEASED}, 0),
       Action("trigger", {1}, NoMod, 1, {HELD}, 0),
       Action("value", {1}, 1, 0, {}, 0),
       Action("state_change", {1, 3}, NoMod, 1, {PRESSED}, 0) >>

(* The table begins with the two actions that switch the mode, and no      *)
(* other changes the state.                                                *)
ASSUME ModeAssumption ==
    /\ Len(Actions) >= 2 /\ Len(States) >= 3
    /\ Actions[1] = Action("state_change", {1, 3}, NoMod, 0, {PRESSED}, 3)
    /\ Actions[2] = Action("state_change", {1, 3}, NoMod, 0, {RELEASED}, 1)
    /\ \A k \in 3..Len(Actions) :
          Actions[k].type = "state_change" => Actions[k].new_state = 0

(* The drive_to_shoot and shoot_to_drive actions make the robot's mode     *)
(* follow the button: it shoots exactly while the button is down, whatever *)
(* the other buttons, the order of presses and the selects in between.     *)
ModeFollowsButton ==
    pc = "idle" /\ undisturbed => (state_index = 3 <=> Down(0))

(* The inductive invariant: up to the actions the mode is that of the      *)
(* cycle before, then the first action follows a press and the second a    *)
(* release, whatever the rest of the table does.                           *)
WasDown(b) == btn_states_prev[b] \in {PRESSED, HELD}

ModeInStep ==
    undisturbed =>
        /\ state_index \in {1, 3}
        /\ state_index = 3 <=>
              CASE Loop \in {"buttons", "values"} -> WasDown(0)
                [] Loop = "actions" /\ i = 1 -> WasDown(0)
                [] Loop = "actions" /\ i = 2 ->
                       WasDown(0) \/ btn_states[0] = PRESSED
                [] OTHER -> Down(0)
=============================================================================
