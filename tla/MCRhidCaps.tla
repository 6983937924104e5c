----------------------------- MODULE MCRhidCaps -----------------------------
(***************************************************************************)
(* RhidCaps for every device of up to three capabilities out of five, and  *)
(* one with too many; usages have three bits.  The driver's count is that  *)
(* of all buttons, or 1 as for a device that sends an array.               *)
(***************************************************************************)
EXTENDS RhidCaps

Cap(range, min, max) == [range |-> range, min |-> min, max |-> max]

MCCaps == {Cap(TRUE, 1, 2), Cap(TRUE, 2, 4), Cap(TRUE, 6, 7),
           Cap(FALSE, 1, 1), Cap(FALSE, 3, 3)}

MCButtons == UNION {[1..n -> MCCaps] : n \in 0..3}
                \cup {[n \in 1..4 |-> Cap(FALSE, n, n)]}

Length(caps) == Cardinality({b \in (1..4) \X (1..7) : /\ b[1] \in DOMAIN caps
                             /\ b[2] \in caps[b[1]].min..caps[b[1]].max})

MCDevices == {d \in [buttons : MCButtons, values : {0, 1, 2, 4}, length : 0..9] :
                d.length \in {Length(d.buttons)} \cup
                             (IF d.buttons = <<>> THEN {} ELSE {1})}
=============================================================================
