----------------------------- MODULE MCInptHid ------------------------------
(***************************************************************************)
(* InptHid with two devices of different ids and button counts in a table  *)
(* of two entries.  Unplugging the pad moves the stick to the front of the *)
(* enumeration, and a refresh then finds fewer devices than it counted.  A *)
(* third device, with the pad's ids, is one more than the table has room   *)
(* for.                                                                    *)
(***************************************************************************)
EXTENDS InptHid, TLC

CONSTANTS pad, stick, twin

MCDevs == {pad, stick, twin}
MCId   == pad :> <<1, 2>> @@ stick :> <<1, 3>> @@ twin :> <<1, 2>>
MCBtns == pad :> 1 @@ stick :> 2 @@ twin :> 1
MCAttachments == {<<stick>>, <<pad, stick, twin>>}
=============================================================================
