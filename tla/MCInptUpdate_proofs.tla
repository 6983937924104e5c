------------------------ MODULE MCInptUpdate_proofs ------------------------
(***************************************************************************)
(* The robot's mode, for every number of buttons and every table of        *)
(* actions that begins as that of src/test/main.c does.                    *)
(***************************************************************************)
EXTENDS MCInptUpdate, InptUpdate_proofs

(* What the runs take for States and Actions is such a table.              *)
LEMMA TableOfMain ==
    /\ Len(MCActions) >= 2 /\ Len(MCStates) >= 3
    /\ MCActions[1] = Action("state_change", {1, 3}, NoMod, 0, {PRESSED}, 3)
    /\ MCActions[2] = Action("state_change", {1, 3}, NoMod, 0, {RELEASED}, 1)
    /\ \A k \in 3..Len(MCActions) :
          MCActions[k].type = "state_change" => MCActions[k].new_state = 0
  BY DEF MCActions, MCStates, Action

LEMMA ModeFacts ==
    /\ 0 \in Btns /\ Actions[1].input = 0 /\ Actions[2].input = 0
    /\ Actions[1].type = "state_change" /\ Actions[2].type = "state_change"
    /\ Actions[1].new_state = 3 /\ Actions[2].new_state = 1
    /\ Actions[1].flags = {PRESSED} /\ Actions[2].flags = {RELEASED}
    /\ Actions[1].states = {1, 3} /\ Actions[2].states = {1, 3}
    /\ Actions[1].input_mod = NoMod /\ Actions[2].input_mod = NoMod
  BY ModeAssumption, ActionFacts DEF ModeAssumption, Action, Btns

(* Over one cycle a button comes to be down by a press, and up by a        *)
(* release.                                                                *)
LEMMA ChangeOfCycle ==
    ASSUME TypeOK, CycleKeepsProtocol, in_step = "yes", NEW b \in Btns
    PROVE  /\ Down(b) /\ ~WasDown(b) => btn_states[b] = PRESSED
           /\ ~Down(b) /\ WasDown(b) => btn_states[b] = RELEASED
           /\ btn_states[b] = PRESSED => Down(b)
           /\ btn_states[b] = RELEASED => ~Down(b)
  BY DEF TypeOK, CycleKeepsProtocol, SkippedEdges, BtnStates, Down, WasDown,
     OFF, PRESSED, RELEASED, HELD

(* What the first two actions of the table do, and the others do not.      *)
LEMMA SwitchToShoot ==
    ASSUME TypeOK, state_index \in {1, 3}, ActionStep, i = 1
    PROVE  state_index' = IF btn_states[0] = PRESSED
                             /\ btn_states[0] # btn_states_prev[0]
                            THEN 3 ELSE state_index
  BY ModeFacts DEF ActionStep, Runs, Allowed, Flagged, Changed

LEMMA SwitchToDrive ==
    ASSUME TypeOK, state_index \in {1, 3}, ActionStep, i = 2
    PROVE  state_index' = IF btn_states[0] = RELEASED
                             /\ btn_states[0] # btn_states_prev[0]
                            THEN 1 ELSE state_index
  BY ModeFacts DEF ActionStep, Runs, Allowed, Flagged, Changed

LEMMA OthersKeepMode ==
    ASSUME TypeOK, ActionStep, i > 2
    PROVE  state_index' = state_index
  <1>1. i \in 3..Len(Actions)
    BY ActionFacts DEF TypeOK, ActionStep
  <1>2. CASE Actions[i].type = "state_change"
    BY <1>1, <1>2, ModeAssumption DEF ModeAssumption, ActionStep, Runs
  <1>3. CASE Actions[i].type # "state_change"
    BY <1>3 DEF ActionStep
  <1> QED
    BY <1>2, <1>3

LEMMA ModeInStepStep ==
    ASSUME IInv, ModeInStep, [Next]_vars
    PROVE  ModeInStep'
  <1> SUFFICES ASSUME undisturbed' PROVE ModeInStep'
    BY DEF ModeInStep
  <1> USE DEF IInv
  <1>1. undisturbed /\ in_step = "yes" /\ ~CallbackSelect
    BY DEF Next, Select, CallbackSelect, CallbackReturn, Cycle, Start,
       ButtonStep, ButtonsDone, ValueStep, ValuesDone, ActionStep, Finish,
       Done, history, vars, UndisturbedInStep
  <1> USE <1>1, ModeFacts DEF ModeInStep, WasDown, Down
  <1>2. CASE Select
    BY <1>2 DEF Select, Loop
  <1>3. CASE CallbackReturn
    BY <1>3 DEF CallbackReturn, CallbacksFromLoops, TypeOK, Loop, prev
  <1>4. CASE Start
    BY <1>4 DEF Start, Enter, PreviousIsCopied, Loop, prev
  <1>5. CASE ButtonStep
    BY <1>5, ButtonTurn DEF ButtonStep, prev
  <1>6. CASE ButtonsDone \/ ValueStep \/ ValuesDone
    BY <1>6 DEF ButtonsDone, ValueStep, ValuesDone, Enter, Continue, CallBack,
       Loop, prev
  <1>7. CASE ActionStep
    <2>1. /\ Loop = "actions" /\ Loop' = "actions" /\ i' = i + 1 /\ i \in Nat
          /\ i >= 1 /\ UNCHANGED <<btn_states, btn_states_prev>>
      BY <1>7 DEF ActionStep, ActionsFromOne, Loop, Continue, CallBack, prev,
         TypeOK
    <2>2. CASE i = 1
      BY <1>7, <2>1, <2>2, SwitchToShoot DEF PRESSED, HELD
    <2>3. CASE i = 2
      BY <1>7, <2>1, <2>3, SwitchToDrive, ChangeOfCycle DEF RELEASED, PRESSED,
         HELD
    <2>4. CASE i > 2
      BY <1>7, <2>1, <2>4, OthersKeepMode
    <2> QED
      BY <2>1, <2>2, <2>3, <2>4
  <1>8. CASE Finish
    <2>1. i > 2
      BY <1>8, ModeAssumption, ActionFacts DEF ModeAssumption, Finish, TypeOK
    <2> QED
      BY <1>8, <2>1 DEF Finish, Done, Enter, Loop, TypeOK
  <1>9. CASE UNCHANGED vars
    BY <1>9 DEF vars, Loop, prev
  <1> QED
    BY <1>1, <1>2, <1>3, <1>4, <1>5, <1>6, <1>7, <1>8, <1>9 DEF Next, Cycle

LEMMA ModeInit == Init => ModeInStep
  BY ModeFacts DEF Init, ModeInStep, Loop, WasDown, Down, OFF, PRESSED, HELD

(* The robot shoots exactly while its mode button is down: over any        *)
(* sequence of reports, selects and failed opens, as long as no callback   *)
(* selects a device.                                                       *)
THEOREM ModeFollows == Spec => []ModeFollowsButton
  <1>1. ModeInStep => ModeFollowsButton
    BY DEF ModeInStep, ModeFollowsButton, Loop
  <1>2. IInv /\ ModeInStep /\ [Next]_vars => ModeInStep'
    BY ModeInStepStep
  <1> QED
    BY <1>1, <1>2, ModeInit, Invariance, PTL DEF Spec
=============================================================================
