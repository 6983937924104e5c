------------------------- MODULE InptUpdate_proofs -------------------------
(***************************************************************************)
(* Proofs about InptUpdate for every number of buttons, every set of       *)
(* levels and every table of states and actions.                           *)
(***************************************************************************)
EXTENDS InptUpdate, TLAPS

(* An action of the table has a type, and an input that is a button.       *)
LEMMA ActionFacts ==
    /\ MaxBtns \in Nat \ {0} /\ Len(States) \in Nat \ {0}
    /\ Len(Actions) \in Nat /\ 0 \in Levels
    /\ \A k \in 1..Len(Actions) :
          /\ Actions[k].type \in {"state_change", "trigger", "value"}
          /\ Actions[k].input \in Btns
          /\ Actions[k].new_state \in 0..Len(States)
  <1> USE UpdateAssumption DEF UpdateAssumption
  <1>1. MaxBtns \in Nat \ {0} /\ Len(States) \in Nat \ {0} /\ 0 \in Levels
    OBVIOUS
  <1>2. Len(Actions) \in Nat
    OBVIOUS
  <1>3. ASSUME NEW k \in 1..Len(Actions)
        PROVE  Actions[k] \in ActionRecords
    BY <1>3
  <1> QED
    BY <1>1, <1>2, <1>3 DEF ActionRecords

(* A button is given the state that its last two reports make of it.       *)
LEMMA NewStateFacts ==
    ASSUME TypeOK, NEW b \in Btns
    PROVE  /\ NewState(b) \in BtnStates
           /\ NewState(b) \in {PRESSED, HELD} <=> hid[b] = 1
           /\ NewState(b) \in {HELD, RELEASED} <=> hid_prev[b] = 1
  BY DEF TypeOK, NewState, BtnStates, OFF, PRESSED, RELEASED, HELD

LEMMA InvInit == Init => IInv
  <1> SUFFICES ASSUME Init PROVE IInv
    OBVIOUS
  <1> USE ActionFacts DEF Init
  <1>1. TypeOK
    BY DEF TypeOK, BtnStates, OFF
  <1>2. EdgesRunOnce /\ CallbacksFromLoops /\ ActionsFromOne /\
       PreviousIsCopied
    BY DEF EdgesRunOnce, CallbacksFromLoops, ActionsFromOne, Loop,
       PreviousIsCopied
  <1>3. EdgesAreRecorded /\ UndisturbedInStep /\ ToldInStep /\ WholeCycles
    BY DEF EdgesAreRecorded, UndisturbedInStep, ToldInStep, WholeCycles, Loop
  <1>4. ButtonsInStep /\ CycleKeepsProtocol
    BY DEF ButtonsInStep, CycleKeepsProtocol, Loop, Follows, Down,
       SkippedEdges, OFF, PRESSED, RELEASED, HELD
  <1> QED
    BY <1>1, <1>2, <1>3, <1>4 DEF IInv

LEMMA TypeStep ==
    ASSUME TypeOK, ActionsFromOne, [Next]_vars
    PROVE  TypeOK'
  <1> USE ActionFacts DEF TypeOK, source, prev, history
  <1>1. CASE Select
    BY <1>1 DEF Select, SelectEffect
  <1>2. CASE CallbackSelect
    BY <1>2 DEF CallbackSelect, SelectEffect
  <1>3. CASE CallbackReturn
    BY <1>3 DEF CallbackReturn
  <1>4. CASE Start
    BY <1>4 DEF Start, Enter
  <1>5. CASE ButtonStep
    <2>1. i \in Btns
      BY <1>5 DEF ButtonStep, Btns
    <2>2. btn_states' \in [Btns -> BtnStates]
      BY <1>5, <2>1, NewStateFacts DEF ButtonStep
    <2>3. edged' \subseteq Btns
      BY <1>5, <2>1 DEF ButtonStep
    <2>4. /\ pc' \in {"buttons", "cb"} /\ back' \in {back, "buttons"}
          /\ i' = i + 1
      BY <1>5 DEF ButtonStep, Continue, CallBack
    <2>5. UNCHANGED <<source, prev, state_index, fired, told, undisturbed,
                      in_step>>
      BY <1>5 DEF ButtonStep
    <2> QED
      BY <2>2, <2>3, <2>4, <2>5
  <1>6. CASE ButtonsDone
    BY <1>6 DEF ButtonsDone, Enter
  <1>7. CASE ValueStep
    BY <1>7 DEF ValueStep, Continue, CallBack
  <1>8. CASE ValuesDone
    BY <1>8 DEF ValuesDone, Enter
  <1>9. CASE ActionStep
    <2>1. i \in 1..Len(Actions)
      BY <1>9 DEF ActionStep, ActionsFromOne, Loop
    <2>2. state_index' \in 1..Len(States)
      <3>1. CASE state_index' = state_index
        BY <3>1
      <3>2. CASE /\ Runs(Actions[i]) /\ Actions[i].type = "state_change"
                 /\ state_index' = Actions[i].new_state
        <4>1. Actions[i].new_state # 0
          BY <3>2 DEF Runs
        <4> QED
          BY <2>1, <3>2, <4>1
      <3> QED
        BY <1>9, <3>1, <3>2 DEF ActionStep
    <2>3. fired' \subseteq 1..Len(Actions)
      BY <1>9, <2>1 DEF ActionStep
    <2>4. /\ pc' \in {"actions", "cb"} /\ back' \in {back, "actions"}
          /\ i' = i + 1
      BY <1>9 DEF ActionStep, Continue, CallBack
    <2>5. UNCHANGED <<source, prev, btn_states, edged, told, undisturbed,
                      in_step>>
      BY <1>9 DEF ActionStep
    <2> QED
      BY <2>2, <2>3, <2>4, <2>5
  <1>10. CASE Finish
    BY <1>10 DEF Finish, Done, Enter
  <1>11. CASE UNCHANGED vars
    BY <1>11 DEF vars
  <1> QED
    BY <1>1, <1>2, <1>3, <1>4, <1>5, <1>6, <1>7, <1>8, <1>9, <1>10, <1>11
    DEF Next, Cycle
(* The places of the cycle and of a callback it waits for.                 *)
LEMMA PlacesStep ==
    ASSUME TypeOK, CallbacksFromLoops, ActionsFromOne, [Next]_vars
    PROVE  CallbacksFromLoops' /\ ActionsFromOne'
  <1> USE DEF TypeOK, CallbacksFromLoops, ActionsFromOne, Loop
  <1>1. CASE Select \/ CallbackSelect \/ CallbackReturn \/ UNCHANGED vars
    BY <1>1 DEF Select, CallbackSelect, CallbackReturn, vars
  <1>2. CASE Start \/ ButtonsDone \/ ValuesDone \/ Finish
    BY <1>2 DEF Start, ButtonsDone, ValuesDone, Finish, Done, Enter
  <1>3. CASE ButtonStep \/ ValueStep \/ ActionStep
    BY <1>3 DEF ButtonStep, ValueStep, ActionStep, Continue, CallBack
  <1> QED
    BY <1>1, <1>2, <1>3 DEF Next, Cycle

LEMMA PreviousIsCopiedStep ==
    ASSUME TypeOK, CallbacksFromLoops, PreviousIsCopied, [Next]_vars
    PROVE  PreviousIsCopied'
  <1> USE DEF CallbacksFromLoops, PreviousIsCopied, source, prev
  <1>1. CASE Select
    BY <1>1 DEF Select, SelectEffect
  <1>2. CASE Finish
    BY <1>2 DEF Finish, Done, Enter
  <1>3. CASE CallbackReturn
    BY <1>3 DEF CallbackReturn
  <1>4. CASE CallbackSelect \/ UNCHANGED vars
    BY <1>4 DEF CallbackSelect, vars
  <1>5. CASE Start \/ ButtonsDone \/ ValuesDone
    BY <1>5 DEF Start, ButtonsDone, ValuesDone, Enter
  <1>6. CASE ButtonStep \/ ValueStep \/ ActionStep
    BY <1>6 DEF ButtonStep, ValueStep, ActionStep, Continue, CallBack
  <1> QED
    BY <1>1, <1>2, <1>3, <1>4, <1>5, <1>6 DEF Next, Cycle

LEMMA EdgesAreRecordedStep ==
    ASSUME TypeOK, PreviousIsCopied, EdgesAreRecorded, [Next]_vars
    PROVE  EdgesAreRecorded'
  <1> USE DEF EdgesAreRecorded, source, prev, history
  <1>1. CASE Start
    BY <1>1 DEF Start, PreviousIsCopied
  <1>2. CASE ButtonStep
    BY <1>2 DEF ButtonStep, TypeOK
  <1>3. CASE Finish
    BY <1>3 DEF Finish
  <1>4. CASE Select \/ CallbackSelect \/ CallbackReturn
    BY <1>4 DEF Select, CallbackSelect, CallbackReturn
  <1>5. CASE ButtonsDone \/ ValueStep \/ ValuesDone \/ ActionStep
             \/ UNCHANGED vars
    BY <1>5 DEF ButtonsDone, ValueStep, ValuesDone, ActionStep, vars
  <1> QED
    BY <1>1, <1>2, <1>3, <1>4, <1>5 DEF Next, Cycle

(* An action that runs has an edge of this cycle, or its input is held.    *)
LEMMA RunsOnEdges ==
    ASSUME TypeOK, EdgesAreRecorded, NEW k \in 1..Len(Actions),
           Runs(Actions[k])
    PROVE  \/ Actions[k].type = "value"
           \/ Actions[k].input \in edged
           \/ /\ Actions[k].type = "trigger"
              /\ btn_states[Actions[k].input] = HELD
  BY ActionFacts DEF Runs, Changed, HeldButtons, EdgesAreRecorded

LEMMA EdgesRunOnceStep ==
    ASSUME TypeOK, ActionsFromOne, EdgesAreRecorded, EdgesRunOnce, [Next]_vars
    PROVE  EdgesRunOnce'
  <1> USE DEF EdgesRunOnce, source, prev, history
  <1>1. CASE Start
    BY <1>1 DEF Start
  <1>2. CASE ButtonStep
    BY <1>2, ActionFacts DEF ButtonStep, TypeOK
  <1>3. CASE ActionStep
    <2>1. i \in 1..Len(Actions)
      BY <1>3 DEF ActionStep, TypeOK, ActionsFromOne, Loop
    <2>2. \/ fired' = fired
          \/ Runs(Actions[i]) /\ fired' = fired \cup {i}
      BY <1>3 DEF ActionStep
    <2>3. UNCHANGED <<btn_states, edged>>
      BY <1>3 DEF ActionStep
    <2> QED
      BY <2>1, <2>2, <2>3, RunsOnEdges
  <1>4. CASE Select \/ CallbackSelect \/ CallbackReturn
    BY <1>4 DEF Select, CallbackSelect, CallbackReturn
  <1>5. CASE ButtonsDone \/ ValueStep \/ ValuesDone \/ Finish
             \/ UNCHANGED vars
    BY <1>5 DEF ButtonsDone, ValueStep, ValuesDone, Finish, Done, vars
  <1> QED
    BY <1>1, <1>2, <1>3, <1>4, <1>5 DEF Next, Cycle

LEMMA ToldInStepStep ==
    ASSUME TypeOK, CallbacksFromLoops, ActionsFromOne, PreviousIsCopied,
           ToldInStep, [Next]_vars
    PROVE  ToldInStep'
  <1> USE DEF TypeOK, CallbacksFromLoops, PreviousIsCopied, ToldInStep, Loop,
              source, prev, history
  <1>1. CASE Select
    BY <1>1 DEF Select, SelectEffect
  <1>2. CASE CallbackSelect \/ CallbackReturn
    BY <1>2 DEF CallbackSelect, CallbackReturn
  <1>3. CASE Start
    BY <1>3 DEF Start, Enter
  <1>4. CASE ButtonStep
    BY <1>4 DEF ButtonStep, Continue, CallBack
  <1>5. CASE ButtonsDone
    BY <1>5 DEF ButtonsDone, Enter
  <1>6. CASE ValueStep
    BY <1>6 DEF ValueStep, Continue, CallBack
  <1>7. CASE ValuesDone
    BY <1>7 DEF ValuesDone, Enter
  <1>8. CASE ActionStep
    BY <1>8 DEF ActionStep, Continue, CallBack
  <1>9. CASE Finish
    BY <1>9 DEF Finish, Done, Enter
  <1>10. CASE UNCHANGED vars
    BY <1>10 DEF vars
  <1> QED
    BY <1>1, <1>2, <1>3, <1>4, <1>5, <1>6, <1>7, <1>8, <1>9, <1>10
    DEF Next, Cycle

LEMMA UndisturbedInStepStep ==
    ASSUME TypeOK, UndisturbedInStep, [Next]_vars
    PROVE  UndisturbedInStep'
  <1> USE DEF TypeOK, UndisturbedInStep, history
  <1>1. CASE Select \/ CallbackSelect \/ CallbackReturn \/ UNCHANGED vars
    BY <1>1 DEF Select, CallbackSelect, CallbackReturn, vars
  <1>2. CASE Cycle
    BY <1>2 DEF Cycle, Start, ButtonStep, ButtonsDone, ValueStep, ValuesDone,
       ActionStep, Finish, Done
  <1> QED
    BY <1>1, <1>2 DEF Next

LEMMA WholeCyclesStep ==
    ASSUME TypeOK, CallbacksFromLoops, WholeCycles, [Next]_vars
    PROVE  WholeCycles'
  <1> USE DEF TypeOK, CallbacksFromLoops, WholeCycles, Loop, source, history
  <1>1. CASE Select \/ CallbackSelect \/ CallbackReturn
    BY <1>1 DEF Select, CallbackSelect, CallbackReturn
  <1>2. CASE Start
    BY <1>2 DEF Start, Enter
  <1>3. CASE Finish
    BY <1>3 DEF Finish, Done, Enter
  <1>4. CASE ButtonsDone \/ ValuesDone \/ UNCHANGED vars
    BY <1>4 DEF ButtonsDone, ValuesDone, Enter, vars
  <1>5. CASE ButtonStep \/ ValueStep \/ ActionStep
    BY <1>5 DEF ButtonStep, ValueStep, ActionStep, Continue, CallBack
  <1> QED
    BY <1>1, <1>2, <1>3, <1>4, <1>5 DEF Next, Cycle
(* A turn of the button loop brings one button in line with the report, by *)
(* a change its listener may see.                                          *)
LEMMA ButtonTurn ==
    ASSUME TypeOK, ButtonStep
    PROVE  /\ i \in Btns /\ i' = i + 1 /\ Loop = "buttons" /\ Loop' = "buttons"
           /\ btn_states' = [btn_states EXCEPT ![i] = NewState(i)]
           /\ UNCHANGED <<source, prev, in_step>>
  <1>1. i \in Btns
    BY ActionFacts DEF TypeOK, ButtonStep, Btns
  <1>2. btn_states' = [btn_states EXCEPT ![i] = NewState(i)]
    <2>1. NewState(i) = btn_states[i] =>
             btn_states = [btn_states EXCEPT ![i] = NewState(i)]
      BY <1>1 DEF TypeOK
    <2> QED
      BY <2>1 DEF ButtonStep
  <1>3. i' = i + 1 /\ Loop = "buttons" /\ Loop' = "buttons"
    BY DEF ButtonStep, Continue, CallBack, Loop
  <1> QED
    BY <1>1, <1>2, <1>3 DEF ButtonStep

LEMMA FollowsNew ==
    ASSUME TypeOK, ButtonStep
    PROVE  \A b \in Btns : b = i \/ Follows(b) => Follows(b)'
  <1>1. i \in Btns /\ hid' = hid
    BY ButtonTurn DEF source
  <1>2. btn_states'[i] = NewState(i)
    BY ButtonTurn, <1>1 DEF TypeOK
  <1>3. \A b \in Btns \ {i} : btn_states'[b] = btn_states[b]
    BY ButtonTurn, <1>1 DEF TypeOK
  <1> QED
    BY <1>1, <1>2, <1>3, NewStateFacts DEF Follows, Down

(* The changes between two states a listener may see.                      *)
LEMMA ProtocolFacts ==
    ASSUME NEW s \in BtnStates, NEW t \in BtnStates
    PROVE  /\ (s \in {PRESSED, HELD} <=> t \in {HELD, RELEASED})
                => <<s, t>> \notin SkippedEdges
           /\ <<s, s>> \notin SkippedEdges
  BY DEF BtnStates, SkippedEdges, OFF, PRESSED, RELEASED, HELD

(* In step, no turn of the button loop skips an edge.                      *)
LEMMA TurnKeepsProtocol ==
    ASSUME TypeOK, ButtonsInStep, ButtonStep, in_step = "yes"
    PROVE  /\ <<btn_states[i], NewState(i)>> \notin SkippedEdges
           /\ btn_states[i] = btn_states_prev[i]
  <1>1. i \in Btns /\ Loop = "buttons"
    BY ButtonTurn
  <1>2. btn_states[i] = btn_states_prev[i] /\ (Down(i) <=> hid_prev[i] = 1)
    BY <1>1 DEF ButtonsInStep, TypeOK
  <1>3. NewState(i) \in BtnStates /\ btn_states[i] \in BtnStates
    BY <1>1, NewStateFacts DEF TypeOK
  <1> QED
    BY <1>1, <1>2, <1>3, NewStateFacts, ProtocolFacts DEF Down

LEMMA ButtonsInStepStep ==
    ASSUME TypeOK, CallbacksFromLoops, PreviousIsCopied, WholeCycles,
           ButtonsInStep, [Next]_vars
    PROVE  ButtonsInStep'
  <1> USE DEF ButtonsInStep
  <1>1. CASE Select
    BY <1>1 DEF Select, SelectEffect, Loop, Follows, Down, history
  <1>2. CASE CallbackSelect
    BY <1>2 DEF CallbackSelect
  <1>3. CASE CallbackReturn
    BY <1>3 DEF CallbackReturn, CallbacksFromLoops, Loop, Follows, Down,
       source, prev, history
  <1>4. CASE Start
    BY <1>4 DEF Start, Enter, TypeOK, PreviousIsCopied, WholeCycles, Loop,
       Follows, Down, prev
  <1>5. CASE ButtonStep
    <2>1. ASSUME NEW b \in Btns, b < i', in_step # "no"
          PROVE  Follows(b)'
      BY <1>5, <2>1, ButtonTurn, FollowsNew DEF TypeOK, Btns
    <2>2. ASSUME NEW b \in Btns, b >= i'
          PROVE  b >= i /\ btn_states'[b] = btn_states[b]
      <3>1. b # i /\ b >= i
        BY <1>5, <2>2, ButtonTurn, ActionFacts DEF TypeOK, Btns
      <3> QED
        BY <1>5, <3>1, ButtonTurn DEF TypeOK
    <2>3. ASSUME NEW b \in Btns, b >= i', in_step = "yes"
          PROVE  /\ btn_states'[b] = btn_states_prev'[b]
                 /\ Down(b)' <=> hid_prev'[b] = 1
                 /\ b >= btn_count' => hid'[b] = hid_prev'[b]
      BY <1>5, <2>2, <2>3, ButtonTurn DEF Down, source, prev
    <2>4. in_step' = in_step
      BY <1>5, ButtonTurn
    <2>5. Loop' = "buttons"
      BY <1>5, ButtonTurn
    <2>6. i' \in Int /\ \A b \in Btns : b \in Int
      BY <1>5, ButtonTurn, ActionFacts DEF Btns
    <2> QED
      BY <2>1, <2>3, <2>4, <2>5, <2>6
  <1>6. CASE ButtonsDone
    BY <1>6 DEF ButtonsDone, Enter, TypeOK, WholeCycles, Btns, Loop, Follows,
       Down, source, prev, history
  <1>7. CASE ValueStep \/ ActionStep
    BY <1>7 DEF ValueStep, ActionStep, Continue, CallBack, Loop, Follows,
       Down, source, prev
  <1>8. CASE ValuesDone
    BY <1>8 DEF ValuesDone, Enter, Loop, Follows, Down, source, prev, history
  <1>9. CASE Finish
    BY <1>9 DEF Finish, Done, Enter, Loop, Follows, Down, source
  <1>10. CASE UNCHANGED vars
    BY <1>10 DEF vars, Loop, Follows, Down, source, prev, history
  <1> QED
    BY <1>1, <1>2, <1>3, <1>4, <1>5, <1>6, <1>7, <1>8, <1>9, <1>10
    DEF Next, Cycle

LEMMA CycleKeepsProtocolStep ==
    ASSUME TypeOK, PreviousIsCopied, ButtonsInStep, CycleKeepsProtocol,
           [Next]_vars
    PROVE  CycleKeepsProtocol'
  <1> USE DEF CycleKeepsProtocol
  <1>1. CASE Select \/ CallbackSelect \/ CallbackReturn
    BY <1>1 DEF Select, CallbackSelect, CallbackReturn, prev, history
  <1>2. CASE Start
    BY <1>2 DEF Start, prev
  <1>3. CASE ButtonStep
    BY <1>3, ButtonTurn, TurnKeepsProtocol DEF TypeOK, prev
  <1>4. CASE Finish
    BY <1>4, ProtocolFacts DEF Finish, TypeOK
  <1>5. CASE ButtonsDone \/ ValueStep \/ ValuesDone \/ ActionStep
             \/ UNCHANGED vars
    BY <1>5 DEF ButtonsDone, ValueStep, ValuesDone, ActionStep, prev, history,
       vars
  <1> QED
    BY <1>1, <1>2, <1>3, <1>4, <1>5 DEF Next, Cycle

(* The conjuncts of IInv are preserved together. *)
LEMMA InvStep == IInv /\ [Next]_vars => IInv'
  <1> SUFFICES ASSUME IInv, [Next]_vars PROVE IInv'
    OBVIOUS
  <1>1. TypeOK' /\ CallbacksFromLoops' /\ ActionsFromOne'
    BY TypeStep, PlacesStep DEF IInv
  <1>2. PreviousIsCopied' /\ EdgesAreRecorded' /\ EdgesRunOnce'
    BY PreviousIsCopiedStep, EdgesAreRecordedStep, EdgesRunOnceStep DEF IInv
  <1>3. UndisturbedInStep' /\ ToldInStep'
    BY UndisturbedInStepStep, ToldInStepStep DEF IInv
  <1>4. WholeCycles' /\ ButtonsInStep' /\ CycleKeepsProtocol'
    BY WholeCyclesStep, ButtonsInStepStep, CycleKeepsProtocolStep DEF IInv
  <1> QED
    BY <1>1, <1>2, <1>3, <1>4 DEF IInv

(* The strengthening holds in every reachable state. *)
THEOREM Invariance == Spec => []IInv
  BY InvInit, InvStep, PTL DEF Spec

(* Types and indices of the cycle: its loops stay within their tables,     *)
(* whatever a callback selects in the middle of them.                      *)
THEOREM TypeCorrect == Spec => []TypeOK
  BY Invariance, PTL DEF IInv

(* inpt_update runs no action twice for one edge.                          *)
THEOREM NoEdgeRunsTwice == Spec => []EdgesRunOnce
  BY Invariance, PTL DEF IInv

(* Between calls of inpt_update a button is down exactly when the report   *)
(* last copied has it down, if no callback broke into the cycle.           *)
THEOREM LevelsMatch == Spec => []LevelMatchesState
  <1>1. IInv => LevelMatchesState
    BY DEF IInv, ButtonsInStep, LevelMatchesState, Loop, Follows
  <1> QED
    BY <1>1, Invariance, PTL

(* The listener of the values knows the last one, if no callback broke in. *)
THEOREM ValuesAnnounced == Spec => []ValueAnnounced
  <1>1. IInv => ValueAnnounced
    BY DEF IInv, ToldInStep, ValueAnnounced, Loop
  <1> QED
    BY <1>1, Invariance, PTL

(* A step of the cycle, of a select or of a callback shows no listener a   *)
(* change that skips an edge.                                              *)
LEMMA ProtocolStep ==
    ASSUME IInv, [Next]_vars, in_step = "yes", NEW b \in Btns
    PROVE  <<btn_states[b], btn_states'[b]>> \notin SkippedEdges
  <1> USE DEF IInv
  <1>1. CASE ButtonStep
    BY <1>1, ButtonTurn, TurnKeepsProtocol, ProtocolFacts DEF TypeOK
  <1>2. CASE UNCHANGED btn_states
    BY <1>2, ProtocolFacts DEF TypeOK
  <1> QED
    BY <1>1, <1>2 DEF Next, Cycle, Select, CallbackSelect, CallbackReturn,
       Start, ButtonsDone, ValueStep, ValuesDone, ActionStep, Finish, vars

(* Press, hold, release: the events of a button come in this order.        *)
THEOREM EdgesInOrder == Spec => EdgeProtocol
  <1>1. IInv /\ [Next]_vars =>
           [in_step = "yes" =>
              \A b \in Btns :
                 <<btn_states[b], btn_states'[b]>> \notin SkippedEdges]_vars
    BY ProtocolStep
  <1> QED
    BY <1>1, Invariance, PTL DEF Spec, EdgeProtocol
=============================================================================
