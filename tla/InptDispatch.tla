---------------------------- MODULE InptDispatch ----------------------------
(***************************************************************************)
(* The pass of inpt_update over the actions, with the listeners it calls,  *)
(* and the loop of inpt_start around it (src/src/inpt.c).  A listener      *)
(* belongs to the application and may call the registry of InptRegistry,   *)
(* register listeners and stop the loop, all in the middle of the pass.    *)
(* inpt_stop may also come from another thread at any time.                *)
(*                                                                         *)
(* Whether the inputs an action looks at call for it in this cycle is      *)
(* InptUpdate's matter: here they may or may not.                          *)
(***************************************************************************)
EXTENDS InptRegistry

CONSTANTS
    Events,         \* callback functions
    MaxEvents,      \* MAX_ACT_STATE_CHANGE_EVENTS, MAX_ACT_TRIGGER_EVENTS
    MaxCalls        \* bound: calls of the registry

NoEvent == "NULL"
ASSUME DispatchAssumption ==
    MaxEvents \in Nat \ {0} /\ MaxCalls \in Nat /\ NoEvent \notin Events

VARIABLES
    listeners,      \* on_act_state_changes, on_act_triggers
    state_index,    \* inpt.state_index
    is_running,     \* inpt.is_running
    looping,        \* inpt_start is being executed
    pc,             \* "idle" outside inpt_update, "cb" in a callback
    i,              \* the pass's index of the action
    case,           \* the case of the switch the pass is in, else "none"
    target,         \* the index of action->new_state, read before callbacks
    j,              \* the index of the listener
    announced,      \* history: the state last announced to the listeners,
                    \* Free once a call has changed states or actions since
    calls           \* bound: calls of the registry made so far

loop     == <<is_running, looping>>
position == <<i, case, target, j>>
history  == <<announced, calls>>
vars == <<registry, listeners, state_index, loop, pc, position, history>>

Init ==
    /\ RegistryInit
    /\ listeners = [t \in Types |-> [e \in 1..MaxEvents |-> NoEvent]]
    /\ state_index = 0
    /\ is_running = 0 /\ looping = FALSE
    /\ pc = "idle" /\ i = 0 /\ case = "none" /\ target = 0 /\ j = 0
    /\ announced = Free /\ calls = 0

-----------------------------------------------------------------------------
(* The application: outside inpt_update and inpt_start, or in a callback.  *)

Application == pc = "cb" \/ (pc = "idle" /\ ~looping)

AppCall ==
    /\ Application /\ calls < MaxCalls
    /\ RegistryCall
    /\ calls' = calls + 1
    /\ announced' = IF <<states, actions>>' = <<states, actions>>
                      THEN announced ELSE Free
    /\ UNCHANGED <<listeners, state_index, loop, pc, position>>

(* inpt_act_on_*: the loop over the slots does not end at the first empty  *)
(* one, it fills them all.                                                 *)
Listen(t, e) ==
    /\ Application
    /\ \E k \in 1..MaxEvents : listeners[t][k] = NoEvent
    /\ listeners' = [listeners EXCEPT ![t] =
          [k \in 1..MaxEvents |-> IF @[k] = NoEvent THEN e ELSE @[k]]]
    /\ UNCHANGED <<registry, state_index, loop, pc, position, history>>

CallbackReturn ==
    /\ pc = "cb"
    /\ pc' = "notify" /\ j' = j + 1
    /\ UNCHANGED <<registry, listeners, state_index, loop, i, case, target,
                   history>>

-----------------------------------------------------------------------------
(* inpt_start and inpt_stop *)

LoopStart ==
    /\ pc = "idle" /\ ~looping
    /\ is_running' = 1 /\ looping' = TRUE
    /\ UNCHANGED <<registry, listeners, state_index, pc, position, history>>

Stop ==
    /\ is_running' = 0
    /\ UNCHANGED <<registry, listeners, state_index, looping, pc, position,
                   history>>

LoopEnd ==
    /\ pc = "idle" /\ looping /\ is_running = 0
    /\ looping' = FALSE
    /\ UNCHANGED <<registry, listeners, state_index, is_running, pc, position,
                   history>>

-----------------------------------------------------------------------------
(* inpt_update *)

(* Mutant: the loop does not look at is_running again.                     *)
BeginPassAnyway ==
    /\ pc = "idle"
    /\ pc' = "scan" /\ i' = 0
    /\ UNCHANGED <<registry, listeners, state_index, loop, case, target, j,
                   history>>

BeginPass ==
    /\ pc = "idle" /\ (looping => is_running = 1)
    /\ pc' = "scan" /\ i' = 0
    /\ UNCHANGED <<registry, listeners, state_index, loop, case, target, j,
                   history>>

EndPass ==
    /\ pc = "scan" /\ i = ActionCount
    /\ pc' = "idle" /\ i' = 0
    /\ UNCHANGED <<registry, listeners, state_index, loop, case, target, j,
                   history>>

Allowed(a) == state_index \in actions[a].bits

(* The action is not allowed, or its inputs do not call for it, or it asks *)
(* for a state that is not in the table.                                   *)
PassOver ==
    /\ pc = "scan" /\ i < ActionCount
    /\ i' = i + 1
    /\ UNCHANGED <<registry, listeners, state_index, loop, pc, case, target,
                   j, history>>

RunTrigger ==
    /\ pc = "scan" /\ i < ActionCount
    /\ Allowed(i) /\ actions[i].type = "trigger"
    /\ pc' = "notify" /\ case' = "trigger" /\ j' = 1
    /\ UNCHANGED <<registry, listeners, state_index, loop, i, target, history>>

RunStateChange ==
    /\ pc = "scan" /\ i < ActionCount
    /\ Allowed(i) /\ actions[i].type = "state_change"
    /\ target' \in FirstOf(actions[i].new_state)
    /\ pc' = "notify" /\ case' = "state_change" /\ j' = 1
    /\ announced' = actions[i].new_state
    /\ UNCHANGED <<registry, listeners, state_index, loop, i, calls>>

(* One turn of the loop over the listeners: each is told action->new_state *)
(* as it is then.                                                          *)
Notify ==
    /\ pc = "notify" /\ j <= MaxEvents
    /\ \/ /\ listeners[case][j] = NoEvent
          /\ j' = j + 1
          /\ UNCHANGED pc
       \/ /\ listeners[case][j] # NoEvent
          /\ pc' = "cb"
          /\ UNCHANGED j
    /\ UNCHANGED <<registry, listeners, state_index, loop, i, case, target,
                   history>>

(* Mutant: the index of the action is taken for that of the state.         *)
NotifiedOuterIndex ==
    /\ pc = "notify" /\ j > MaxEvents
    /\ state_index' = IF case = "state_change" THEN i ELSE state_index
    /\ pc' = "scan" /\ i' = i + 1
    /\ case' = "none" /\ target' = 0 /\ j' = 0
    /\ UNCHANGED <<registry, listeners, loop, history>>

(* The state changes after its listeners were called, to the index found   *)
(* before.                                                                 *)
Notified ==
    /\ pc = "notify" /\ j > MaxEvents
    /\ state_index' = IF case = "state_change" THEN target ELSE state_index
    /\ pc' = "scan" /\ i' = i + 1
    /\ case' = "none" /\ target' = 0 /\ j' = 0
    /\ UNCHANGED <<registry, listeners, loop, history>>

Update == \/ BeginPass \/ PassOver \/ RunTrigger \/ RunStateChange
          \/ Notify \/ Notified \/ EndPass

Next ==
    \/ AppCall \/ (\E t \in Types, e \in Events : Listen(t, e))
    \/ CallbackReturn
    \/ LoopStart \/ Stop \/ LoopEnd
    \/ Update

Spec == Init /\ [][Next]_vars

(* The thread in inpt_start runs on, and callbacks return. *)
FairSpec == Spec /\ WF_vars(Update) /\ WF_vars(CallbackReturn) /\ WF_vars(LoopEnd)

-----------------------------------------------------------------------------
(* Properties *)

TypeOK ==
    /\ RegistryTypeOK
    /\ listeners \in [Types -> [1..MaxEvents -> Events \cup {NoEvent}]]
    /\ state_index \in Slots /\ target \in Slots
    /\ is_running \in {0, 1} /\ looping \in BOOLEAN
    /\ pc \in {"idle", "scan", "notify", "cb"}
    /\ case \in Types \cup {"none"}
    /\ case = "none" <=> pc \in {"idle", "scan"}
    /\ i \in 0..ActionCount /\ j \in 0..(MaxEvents + 1)
    /\ announced \in StateNames \cup {Free} /\ calls \in 0..MaxCalls

(* The state the mapper is in is the one it last announced, whatever       *)
(* actions ran since, unless states or actions were changed by a call      *)
(* after the announcement: the index found before the callbacks is used    *)
(* after them.                                                             *)
InAnnouncedState ==
    case # "state_change" /\ announced # Free => states[state_index] = announced

(* A running loop that is stopped, by a callback or another thread, ends.  *)
StopEndsLoop == (looping /\ is_running = 0) ~> ~looping
=============================================================================
