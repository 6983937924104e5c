-------------------------- MODULE RhidCount_proofs --------------------------
(***************************************************************************)
(* Proofs about RhidCount for every jump, list length and number of        *)
(* failing probes.                                                         *)
(***************************************************************************)
EXTENDS RhidCount, TLAPS

LEMMA InvInit == Init => IInv
  BY CountAssumption
  DEF Init, IInv, TypeOK, CountIsExact, CountNeverExceeds, NothingBeyond,
      JumpsAreThere, CountAssumption

LEMMA InvStep == IInv /\ [Next]_vars => IInv'
  <1> SUFFICES ASSUME IInv, [Next]_vars PROVE IInv'
    OBVIOUS
  <1> USE CountAssumption
      DEF CountAssumption, IInv, TypeOK, CountIsExact, CountNeverExceeds,
          NothingBeyond, JumpsAreThere
  <1>1. CASE Call
    BY <1>1 DEF Call
  <1>2. CASE Error
    BY <1>2 DEF Error, Fault
  <1>3. CASE Jump
    BY <1>3 DEF Jump, There
  <1>4. CASE OutOfBounds
    BY <1>4 DEF OutOfBounds, There
  <1>5. CASE WalkBack
    BY <1>5 DEF WalkBack, There, Fault
  <1>6. CASE Return
    BY <1>6 DEF Return, There
  <1>7. CASE UNCHANGED vars
    BY <1>7 DEF vars
  <1> QED
    BY <1>1, <1>2, <1>3, <1>4, <1>5, <1>6, <1>7 DEF Next

(* The strengthening holds in every reachable state. *)
THEOREM Invariance == Spec => []IInv
  BY InvInit, InvStep, PTL DEF Spec

(* The index stays between the front of the list and one jump past it.     *)
THEOREM TypeCorrect == Spec => []TypeOK
  BY Invariance, PTL DEF IInv

(* rhid_get_device_count returns the length of the list whatever the jump  *)
(* and the length, when no probe fails.                                    *)
THEOREM CountExact == Spec => []CountIsExact
  BY Invariance, PTL DEF IInv

(* It never returns more than the length, whichever probes fail.           *)
THEOREM CountBounded == Spec => []CountNeverExceeds
  BY Invariance, PTL DEF IInv
=============================================================================
