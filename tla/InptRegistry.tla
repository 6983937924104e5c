---------------------------- MODULE InptRegistry ----------------------------
(***************************************************************************)
(* The tables of src/src/inpt.c that say when an action may run: the       *)
(* states of the input mapper and the actions, each with a bit per state.  *)
(* States and actions are kept in slots; a call names them, and the first  *)
(* slot with that name is meant.  An action's bits are about slots.        *)
(***************************************************************************)
EXTENDS Integers, Sequences

CONSTANTS
    StateNames,     \* names of states
    All,            \* the name "all", which stands for every state
    Free,           \* the hash 0 and the name NULL: an empty slot
    StateCount,     \* STATE_COUNT
    ByteBits,       \* bits in a byte of action->states: 8
    ActionCount,    \* ACTION_COUNT
    ActionNames,    \* names of actions
    Requests        \* what the application asks inpt_act_new_* for

Slots   == 0..(StateCount - 1)      \* of inpt.states
Actions == 0..(ActionCount - 1)     \* slots of inpt.actions

Types == {"state_change", "trigger"}    \* a value action is like a trigger

ASSUME RegistryAssumption ==
    /\ StateCount \in Nat \ {0} /\ ByteBits \in Nat \ {0}
    /\ StateCount % ByteBits = 0        \* "Should be divisible by 8."
    /\ ActionCount \in Nat \ {0}
    /\ All \notin StateNames /\ Free \notin StateNames \cup ActionNames
    /\ Requests \subseteq [name : ActionNames, type : Types,
                           states : Seq(StateNames \cup {All}),
                           new_state : StateNames \cup {Free}]

VARIABLES
    states,     \* inpt.states
    actions,    \* inpt.actions
    given,      \* history: the slots of the states an action was given
    stale,      \* history: slots given to it whose state was deleted since
    disturbed   \* history: actions whose bits "all" or a deletion wrote over;
                \* the other two are not kept for them

registry == <<states, actions, given, stale, disturbed>>

NoAction == [name |-> Free, type |-> "none", bits |-> {}, new_state |-> Free]

RegistryInit ==
    /\ states = [k \in Slots |-> Free]
    /\ actions = [a \in Actions |-> NoAction]
    /\ given = [a \in Actions |-> {}]
    /\ stale = given
    /\ disturbed = {}

(* Mutant: the index a loop ends with is taken without a look at it.       *)
FirstOfOrEnd(n) ==
    {k \in 0..StateCount :
        /\ k = StateCount \/ states[k] = n
        /\ \A l \in Slots : l < k => states[l] # n}

(* The first slot with a name, in a set of its own; none, if there is none. *)
FirstOf(n) ==
    {k \in Slots : states[k] = n /\ \A l \in Slots : l < k => states[l] # n}
FirstAction(n) ==
    {a \in Actions : /\ actions[a].name = n
                     /\ \A b \in Actions : b < a => actions[b].name # n}

Undisturbed(slots, d) ==
    [a \in Actions |-> IF a \in d THEN {} ELSE slots[a]]

Live == {a \in Actions : actions[a].name # Free}

-----------------------------------------------------------------------------
(* States.  A call that does not find its slot returns -1 and does nothing. *)

StateAdd(n) ==
    /\ \E k \in FirstOf(Free) : states' = [states EXCEPT ![k] = n]
    /\ UNCHANGED <<actions, given, stale, disturbed>>

(* The slot is freed; the bits that are about it stay.                     *)
StateDel(n) ==
    \E k \in FirstOf(n) :
       /\ states' = [states EXCEPT ![k] = Free]
       /\ given' = [a \in Actions |-> given[a] \ {k}]
       /\ stale' = [a \in Actions |-> stale[a] \cup (given[a] \cap {k})]
       /\ UNCHANGED <<actions, disturbed>>

(* inpt_state_set renames a state in place.                                *)
StateSet(n, new) ==
    /\ \E k \in FirstOf(n) : states' = [states EXCEPT ![k] = new]
    /\ UNCHANGED <<actions, given, stale, disturbed>>

-----------------------------------------------------------------------------
(* Actions *)

(* memset(action->states, 1, ...) sets the lowest bit of every byte. *)
LowBits == {k \in Slots : k % ByteBits = 0}
ByteOf(k) == {l \in Slots : l \div ByteBits = k \div ByteBits}

(* The bits b after inpt_act_add_state of the names ns, one after another: *)
(* "all" writes over the bits there were.                                  *)
AddStates(b, ns) ==
    LET alls  == {i \in DOMAIN ns : ns[i] = All}
        after == {i \in DOMAIN ns : \A j \in alls : j < i}
    IN  (IF alls = {} THEN b ELSE LowBits)
            \cup UNION {FirstOf(ns[i]) : i \in after}

(* inpt_act_new_*: the first empty slot is filled in; its bits are not     *)
(* cleared first.                                                          *)
ActNew(r) ==
    \E a \in FirstAction(Free) :
       /\ actions' = [actions EXCEPT ![a] =
              [name |-> r.name, type |-> r.type, new_state |-> r.new_state,
               bits |-> AddStates(@.bits, r.states)]]
       /\ disturbed' = IF \E i \in DOMAIN r.states : r.states[i] = All
                         THEN disturbed \cup {a} ELSE disturbed \ {a}
       /\ given' = Undisturbed([given EXCEPT ![a] =
              UNION {FirstOf(r.states[i]) : i \in DOMAIN r.states}], disturbed')
       /\ stale' = [stale EXCEPT ![a] = {}]
       /\ UNCHANGED states

(* Mutant: only the name is taken off the slot.                            *)
ActDelNameOnly(n) ==
    \E a \in FirstAction(n) :
       /\ actions' = [actions EXCEPT ![a].name = Free]
       /\ given' = [given EXCEPT ![a] = {}]
       /\ stale' = [stale EXCEPT ![a] = {}]
       /\ disturbed' = disturbed \ {a}
       /\ UNCHANGED states

ActDel(n) ==
    \E a \in FirstAction(n) :
       /\ actions' = [actions EXCEPT ![a] = NoAction]
       /\ given' = [given EXCEPT ![a] = {}]
       /\ stale' = [stale EXCEPT ![a] = {}]
       /\ disturbed' = disturbed \ {a}
       /\ UNCHANGED states

ActAddState(a, n) ==
    /\ a \in Live
    /\ n = All \/ FirstOf(n) # {}
    /\ actions' = [actions EXCEPT ![a].bits = AddStates(@, <<n>>)]
    /\ disturbed' = IF n = All THEN disturbed \cup {a} ELSE disturbed
    /\ given' = Undisturbed([given EXCEPT ![a] = @ \cup FirstOf(n)], disturbed')
    /\ stale' = Undisturbed([stale EXCEPT ![a] = @ \ FirstOf(n)], disturbed')
    /\ UNCHANGED states

(* Deleting "all" clears every bit.                                        *)
ActDelAll(a) ==
    /\ a \in Live
    /\ actions' = [actions EXCEPT ![a].bits = {}]
    /\ given' = [given EXCEPT ![a] = {}]
    /\ stale' = [stale EXCEPT ![a] = {}]
    /\ disturbed' = disturbed \ {a}
    /\ UNCHANGED states

(* BITFLD_CLR(bits, k) is bits[k / 8] |= ~(1 << k % 8): the other bits of  *)
(* the byte are set, and bit k stays as it is.                             *)
ActDelState(a, n) ==
    /\ a \in Live
    /\ \E k \in FirstOf(n) :
          /\ actions' = [actions EXCEPT ![a].bits =
                           @ \cup (ByteOf(k) \ {k})]
    /\ disturbed' = disturbed \cup {a}
    /\ given' = Undisturbed(given, disturbed')
    /\ stale' = Undisturbed(stale, disturbed')
    /\ UNCHANGED states

RegistryCall ==
    \/ \E n \in StateNames : StateAdd(n) \/ StateDel(n)
    \/ \E n, new \in StateNames : StateSet(n, new)
    \/ \E r \in Requests : ActNew(r)
    \/ \E n \in ActionNames : ActDel(n)
    \/ \E a \in Actions, n \in StateNames \cup {All} : ActAddState(a, n)
    \/ \E a \in Actions, n \in StateNames : ActDelState(a, n)
    \/ \E a \in Actions : ActDelAll(a)

-----------------------------------------------------------------------------
(* Properties *)

RegistryTypeOK ==
    /\ states \in [Slots -> StateNames \cup {Free}]
    /\ actions \in [Actions -> [name : ActionNames \cup {Free},
                                type : Types \cup {"none"},
                                bits : SUBSET Slots,
                                new_state : StateNames \cup {Free}]]
    /\ given \in [Actions -> SUBSET Slots]
    /\ stale \in [Actions -> SUBSET Slots]
    /\ disturbed \subseteq Actions

(* An action may run in exactly the states it was given, whatever states   *)
(* and actions are added, deleted and renamed around it and whichever      *)
(* slots they come to share; and in a state that has the slot of a deleted *)
(* one it was given, which the code does not take back.  Not so after      *)
(* "all", or the deletion of a state from it: they write over other bits.  *)
BitsAccounted ==
    \A a \in Actions \ disturbed : actions[a].bits = given[a] \cup stale[a]

(* Deleting a state from an action forbids it that state and no step of it *)
(* allows another ("Use search and destroy technology to find that hash    *)
(* and delete it", of inpt_act_del_state).                                 *)
DeletionForbids ==
    [][\A a \in Actions, n \in StateNames :
         ActDelState(a, n)
           => actions'[a].bits \subseteq actions[a].bits \ FirstOf(n)]_registry
=============================================================================
