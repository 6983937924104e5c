------------------------- MODULE InptDispatch_proofs -------------------------
(***************************************************************************)
(* For every number of states, actions, listeners and calls, and whatever  *)
(* the callbacks do to the registry: the bits of an action are accounted   *)
(* for, and the mapper is in the state it announced.                       *)
(***************************************************************************)
EXTENDS InptDispatch, TLAPS

ActionRecords == [name : ActionNames \cup {Free}, type : Types \cup {"none"},
                  bits : SUBSET Slots, new_state : StateNames \cup {Free}]

(* An empty slot is all zero, so a new action starts with no bit set.      *)
FreeIsClear == \A a \in Actions : actions[a].name = Free => actions[a] = NoAction

RegistryInv == RegistryTypeOK /\ BitsAccounted /\ FreeIsClear

(* While its listeners are called, the index that was found for the state  *)
(* that was announced still has it.                                        *)
TargetIsAnnounced ==
    case = "state_change" /\ announced # Free => states[target] = announced

(* A listener is called for an action and is in the table.                 *)
InBounds == /\ pc \in {"notify", "cb"} => i < ActionCount
            /\ pc = "cb" => j <= MaxEvents

IInv == TypeOK /\ RegistryInv /\ TargetIsAnnounced /\ InAnnouncedState /\ InBounds

-----------------------------------------------------------------------------
(* What the tables' lookups return. *)
LEMMA Lookups ==
    /\ \A n : FirstOf(n) \in SUBSET Slots
    /\ \A n : FirstAction(n) \in SUBSET Actions
    /\ \A n : \A a \in FirstAction(n) : actions[a].name = n
    /\ \A n : \A k \in FirstOf(n) : states[k] = n
    /\ \A k \in Slots : ByteOf(k) \in SUBSET Slots
    /\ LowBits \in SUBSET Slots
  BY DEF FirstOf, FirstAction, ByteOf, LowBits

(* Adding states to bits gives bits; without "all" it adds the slots of    *)
(* each state.                                                             *)
LEMMA AddStatesTyped ==
    ASSUME NEW b \in SUBSET Slots, NEW ns
    PROVE  AddStates(b, ns) \in SUBSET Slots
  BY Lookups DEF AddStates

LEMMA AddStatesEach ==
    ASSUME NEW b, NEW ns, \A m \in DOMAIN ns : ns[m] # All
    PROVE  AddStates(b, ns) = b \cup UNION {FirstOf(ns[m]) : m \in DOMAIN ns}
  BY DEF AddStates

LEMMA AddStatesOne ==
    ASSUME NEW b, NEW n, n # All
    PROVE  AddStates(b, <<n>>) = b \cup FirstOf(n)
<1>1. DOMAIN <<n>> = {1} /\ <<n>>[1] = n
  OBVIOUS
<1>2. AddStates(b, <<n>>) = b \cup UNION {FirstOf(<<n>>[m]) : m \in {1}}
  BY <1>1, AddStatesEach
<1> QED BY <1>1, <1>2

-----------------------------------------------------------------------------
(* Every call of the registry keeps the accounts. *)
LEMMA StatesOK ==
    ASSUME RegistryInv, NEW n \in StateNames, NEW new \in StateNames,
           StateAdd(n) \/ StateDel(n) \/ StateSet(n, new)
    PROVE  RegistryInv'
<1> USE Lookups DEF RegistryInv, RegistryTypeOK, BitsAccounted, FreeIsClear
<1>1. CASE StateAdd(n)
  BY <1>1 DEF StateAdd
<1>2. CASE StateDel(n)
  BY <1>2 DEF StateDel
<1>3. CASE StateSet(n, new)
  BY <1>3 DEF StateSet
<1> QED BY <1>1, <1>2, <1>3

LEMMA ActNewOK ==
    ASSUME RegistryInv, NEW r \in Requests, ActNew(r)
    PROVE  RegistryInv'
<1>1. PICK a \in FirstAction(Free) :
        /\ actions' = [actions EXCEPT ![a] =
              [name |-> r.name, type |-> r.type, new_state |-> r.new_state,
               bits |-> AddStates(@.bits, r.states)]]
        /\ disturbed' = IF \E m \in DOMAIN r.states : r.states[m] = All
                          THEN disturbed \cup {a} ELSE disturbed \ {a}
        /\ given' = Undisturbed([given EXCEPT ![a] =
              UNION {FirstOf(r.states[m]) : m \in DOMAIN r.states}], disturbed')
        /\ stale' = [stale EXCEPT ![a] = {}]
        /\ UNCHANGED states
  BY DEF ActNew
<1>2. /\ a \in Actions /\ actions[a] = NoAction
      /\ r.name \in ActionNames /\ r.name # Free /\ r.type \in Types
      /\ r.new_state \in StateNames \cup {Free}
  BY Lookups, RegistryAssumption DEF RegistryInv, FreeIsClear
<1> DEFINE slots == UNION {FirstOf(r.states[m]) : m \in DOMAIN r.states}
           bits  == AddStates({}, r.states)
<1>3. slots \in SUBSET Slots /\ bits \in SUBSET Slots
  BY Lookups, AddStatesTyped
<1>4. a \notin disturbed' => bits = slots
  BY <1>1, AddStatesEach
<1> HIDE DEF slots, bits
<1>5. actions' = [actions EXCEPT ![a] =
         [name |-> r.name, type |-> r.type, new_state |-> r.new_state,
          bits |-> bits]]
  BY <1>1, <1>2 DEF NoAction, bits
<1>6. given' = Undisturbed([given EXCEPT ![a] = slots], disturbed')
  BY <1>1 DEF slots
<1>7. RegistryTypeOK'
  BY <1>1, <1>2, <1>3, <1>5, <1>6 DEF RegistryInv, RegistryTypeOK, Undisturbed
<1>8. BitsAccounted'
  BY <1>1, <1>2, <1>4, <1>5, <1>6
     DEF RegistryInv, RegistryTypeOK, BitsAccounted, Undisturbed
<1>9. FreeIsClear'
  BY <1>2, <1>5 DEF RegistryInv, RegistryTypeOK, FreeIsClear
<1> QED BY <1>7, <1>8, <1>9 DEF RegistryInv

LEMMA ActDelOK ==
    ASSUME RegistryInv, NEW n \in ActionNames, ActDel(n)
    PROVE  RegistryInv'
<1>1. PICK a \in FirstAction(n) :
        /\ actions' = [actions EXCEPT ![a] = NoAction]
        /\ given' = [given EXCEPT ![a] = {}]
        /\ stale' = [stale EXCEPT ![a] = {}]
        /\ disturbed' = disturbed \ {a}
        /\ UNCHANGED states
  BY DEF ActDel
<1>2. /\ a \in Actions /\ NoAction \in ActionRecords
      /\ NoAction.name = Free /\ NoAction.bits = {}
  BY Lookups DEF NoAction, ActionRecords
<1>3. RegistryTypeOK'
  BY <1>1, <1>2 DEF RegistryInv, RegistryTypeOK, ActionRecords
<1>4. BitsAccounted'
  BY <1>1, <1>2 DEF RegistryInv, RegistryTypeOK, BitsAccounted
<1>5. FreeIsClear'
  BY <1>1, <1>2 DEF RegistryInv, RegistryTypeOK, FreeIsClear
<1> QED BY <1>3, <1>4, <1>5 DEF RegistryInv

LEMMA ActAddStateOK ==
    ASSUME RegistryInv, NEW a \in Actions, NEW n \in StateNames \cup {All},
           ActAddState(a, n)
    PROVE  RegistryInv'
<1> DEFINE bits == AddStates(actions[a].bits, <<n>>)
<1>1. bits \in SUBSET Slots
  BY AddStatesTyped DEF RegistryInv, RegistryTypeOK
<1>2. n # All => bits = actions[a].bits \cup FirstOf(n)
  BY AddStatesOne
<1>3. actions' = [actions EXCEPT ![a].bits = bits] /\ a \in Live
  BY DEF ActAddState
<1> HIDE DEF bits
<1>4. RegistryTypeOK'
  BY <1>1, <1>3, Lookups DEF ActAddState, RegistryInv, RegistryTypeOK, Undisturbed
<1>5. BitsAccounted'
  BY <1>2, <1>3, Lookups
     DEF ActAddState, RegistryInv, RegistryTypeOK, BitsAccounted, Undisturbed
<1>6. FreeIsClear'
  BY <1>3 DEF Live, RegistryInv, RegistryTypeOK, FreeIsClear
<1> QED BY <1>4, <1>5, <1>6 DEF RegistryInv

LEMMA ActDelStateOK ==
    ASSUME RegistryInv, NEW a \in Actions, NEW n \in StateNames, ActDelState(a, n)
    PROVE  RegistryInv'
<1>1. PICK k \in FirstOf(n) :
         actions' = [actions EXCEPT ![a].bits = @ \cup (ByteOf(k) \ {k})]
  BY DEF ActDelState
<1> DEFINE bits == actions[a].bits \cup (ByteOf(k) \ {k})
<1>2. bits \in SUBSET Slots
  BY Lookups DEF RegistryInv, RegistryTypeOK
<1>3. actions' = [actions EXCEPT ![a].bits = bits]
  BY <1>1
<1> HIDE DEF bits
<1>4. /\ a \in Live /\ disturbed' = disturbed \cup {a} /\ UNCHANGED states
      /\ given' = Undisturbed(given, disturbed')
      /\ stale' = Undisturbed(stale, disturbed')
  BY DEF ActDelState
<1>5. RegistryTypeOK'
  BY <1>2, <1>3, <1>4 DEF RegistryInv, RegistryTypeOK, Undisturbed
<1>6. BitsAccounted'
  BY <1>3, <1>4 DEF RegistryInv, RegistryTypeOK, BitsAccounted, Undisturbed
<1>7. FreeIsClear'
  BY <1>3, <1>4 DEF Live, RegistryInv, RegistryTypeOK, FreeIsClear
<1> QED BY <1>5, <1>6, <1>7 DEF RegistryInv

LEMMA ActDelAllOK ==
    ASSUME RegistryInv, NEW a \in Actions, ActDelAll(a)
    PROVE  RegistryInv'
<1>1. RegistryTypeOK'
  BY DEF ActDelAll, RegistryInv, RegistryTypeOK
<1>2. BitsAccounted'
  BY DEF ActDelAll, RegistryInv, RegistryTypeOK, BitsAccounted
<1>3. FreeIsClear'
  BY DEF ActDelAll, Live, RegistryInv, RegistryTypeOK, FreeIsClear
<1> QED BY <1>1, <1>2, <1>3 DEF RegistryInv

LEMMA CallOK == ASSUME RegistryInv, RegistryCall PROVE RegistryInv'
  BY StatesOK, ActNewOK, ActDelOK, ActAddStateOK, ActDelStateOK, ActDelAllOK
     DEF RegistryCall

LEMMA RegistryStutter == ASSUME RegistryInv, UNCHANGED registry PROVE RegistryInv'
  BY DEF registry, RegistryInv, RegistryTypeOK, BitsAccounted, FreeIsClear

-----------------------------------------------------------------------------
(* The invariant of the pass. *)
LEMMA InitOK == Init => IInv
<1> SUFFICES ASSUME Init PROVE IInv
  OBVIOUS
<1>1. NoAction \in ActionRecords /\ NoAction.bits = {}
  BY DEF NoAction, ActionRecords
<1>2. RegistryInv
  BY <1>1 DEF Init, RegistryInit, RegistryInv, RegistryTypeOK, BitsAccounted,
     FreeIsClear, ActionRecords
<1>3. 0 \in Slots /\ 0 \in 0..ActionCount /\ 0 \in 0..(MaxEvents + 1)
      /\ 0 \in 0..MaxCalls
  BY RegistryAssumption, DispatchAssumption DEF Slots
<1>4. TypeOK
  BY <1>2, <1>3 DEF Init, TypeOK, RegistryInv, Types
<1> QED BY <1>2, <1>4 DEF IInv, Init, TargetIsAnnounced, InAnnouncedState,
        InBounds

(* The application's steps: a call that changes a table withdraws what was *)
(* announced.                                                              *)
LEMMA AppOK ==
    ASSUME IInv, \/ AppCall \/ CallbackReturn \/ LoopStart \/ Stop \/ LoopEnd
                 \/ \E t \in Types, e \in Events : Listen(t, e)
    PROVE  IInv'
<1> USE DEF IInv
<1>1. CASE AppCall
  <2>1. RegistryInv'
    BY <1>1, CallOK DEF AppCall
  <2>2. calls' \in 0..MaxCalls
        /\ announced' \in StateNames \cup {Free}
    BY <1>1, DispatchAssumption DEF AppCall, TypeOK
  <2> HIDE DEF IInv
  <2>4. TypeOK'
    <3>1. TypeOK
      BY DEF IInv
    <3> QED BY <1>1, <2>1, <2>2, <3>1
              DEF AppCall, RegistryInv, TypeOK, loop, position
  <2>3. TargetIsAnnounced' /\ InAnnouncedState' /\ InBounds'
    BY <1>1 DEF IInv, AppCall, TargetIsAnnounced, InAnnouncedState, InBounds,
       loop, position
  <2> QED BY <2>1, <2>3, <2>4 DEF IInv
<1>2. CASE CallbackReturn
  <2>1. RegistryInv'
    BY <1>2, RegistryStutter DEF CallbackReturn
  <2>2. TypeOK'
    BY <1>2, <2>1, DispatchAssumption
       DEF CallbackReturn, InBounds, RegistryInv, TypeOK, loop, history, registry
  <2>3. TargetIsAnnounced' /\ InAnnouncedState' /\ InBounds'
    BY <1>2 DEF CallbackReturn, TargetIsAnnounced, InAnnouncedState, InBounds,
       registry, history
  <2> QED BY <2>1, <2>2, <2>3
<1>3. CASE LoopStart \/ Stop \/ LoopEnd
  <2>1. RegistryInv'
    BY <1>3, RegistryStutter DEF LoopStart, Stop, LoopEnd
  <2> QED BY <1>3, <2>1 DEF LoopStart, Stop, LoopEnd, RegistryInv, TypeOK,
        TargetIsAnnounced, InAnnouncedState, InBounds, registry, position, history
<1>4. ASSUME NEW t \in Types, NEW e \in Events, Listen(t, e) PROVE IInv'
  <2>1. RegistryInv'
    BY <1>4, RegistryStutter DEF Listen
  <2>2. listeners' \in [Types -> [1..MaxEvents -> Events \cup {NoEvent}]]
    BY <1>4 DEF Listen, TypeOK
  <2> QED BY <1>4, <2>1, <2>2 DEF Listen, RegistryInv, TypeOK,
        TargetIsAnnounced, InAnnouncedState, InBounds, registry, loop, position,
        history
<1> QED BY <1>1, <1>2, <1>3, <1>4

(* The pass itself does not touch the registry. *)
LEMMA UpdateOK == ASSUME IInv, Update PROVE IInv'
<1> USE RegistryAssumption, DispatchAssumption
    DEF IInv, registry, loop, position, history
<1>1. RegistryInv'
  BY RegistryStutter DEF Update, BeginPass, PassOver, RunTrigger,
     RunStateChange, Notify, Notified, EndPass
<1>2. CASE BeginPass \/ EndPass \/ PassOver
  BY <1>1, <1>2 DEF BeginPass, EndPass, PassOver, RegistryInv, TypeOK,
     TargetIsAnnounced, InAnnouncedState, InBounds
<1>3. CASE RunTrigger
  BY <1>1, <1>3 DEF RunTrigger, Types, RegistryInv, TypeOK,
     TargetIsAnnounced, InAnnouncedState, InBounds
<1>4. CASE RunStateChange
  <2>1. /\ i \in Actions /\ target' \in Slots
        /\ states[target'] = actions[i].new_state
        /\ actions[i].new_state \in StateNames \cup {Free}
    BY <1>4, Lookups
       DEF RunStateChange, Actions, RegistryInv, RegistryTypeOK, TypeOK
  <2> QED BY <1>1, <1>4, <2>1 DEF RunStateChange, Types, RegistryInv, TypeOK,
        TargetIsAnnounced, InAnnouncedState, InBounds
<1>5. CASE Notify
  BY <1>1, <1>5 DEF Notify, Types, RegistryInv, TypeOK,
     TargetIsAnnounced, InAnnouncedState, InBounds
<1>6. CASE Notified
  <2>1. i + 1 \in 0..ActionCount
    BY <1>6 DEF Notified, TypeOK, InBounds
  <2>2. state_index' \in Slots
    BY <1>6 DEF Notified, TypeOK
  <2>3. InAnnouncedState' /\ TargetIsAnnounced' /\ InBounds'
    BY <1>6 DEF Notified, TargetIsAnnounced, InAnnouncedState, InBounds
  <2>4. TypeOK'
    BY <1>1, <1>6, <2>1, <2>2 DEF Notified, Types, Slots, RegistryInv, TypeOK
  <2> QED BY <1>1, <2>3, <2>4
<1> QED BY <1>2, <1>3, <1>4, <1>5, <1>6 DEF Update

LEMMA IInvAlways == Spec => []IInv
<1>1. IInv /\ [Next]_vars => IInv'
  <2> SUFFICES ASSUME IInv, [Next]_vars PROVE IInv'
    OBVIOUS
  <2>1. CASE Next
    BY <2>1, AppOK, UpdateOK DEF Next
  <2>2. CASE UNCHANGED vars
    BY <2>2, RegistryStutter DEF vars, IInv, RegistryInv, TypeOK,
       TargetIsAnnounced, InAnnouncedState, InBounds, registry, loop, position,
       history
  <2> QED BY <2>1, <2>2
<1> QED BY InitOK, <1>1, PTL DEF Spec

(* Type correctness of the registry and the pass: TypeOK of InptDispatch.  *)
THEOREM TypeCorrect == Spec => []TypeOK
  BY IInvAlways, PTL DEF IInv

(* An action may run in the states it was given and in no other, but for   *)
(* slots of deleted states that others took, "all" and deleted states.     *)
THEOREM AccountKept == Spec => []BitsAccounted
  BY IInvAlways, PTL DEF IInv, RegistryInv

(* The mapper is in the state it announced, whatever the listeners do.     *)
THEOREM StateIsAnnounced == Spec => []InAnnouncedState
  BY IInvAlways, PTL DEF IInv
=============================================================================
