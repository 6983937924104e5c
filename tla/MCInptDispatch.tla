--------------------------- MODULE MCInptDispatch ---------------------------
(***************************************************************************)
(* InptDispatch with two states in one byte, two actions and two slots for *)
(* listeners.  The application asks for an action that changes the state   *)
(* and for a trigger, with states named one by one or "all" before others. *)
(***************************************************************************)
EXTENDS InptDispatch

CONSTANTS drive, shoot, change, fire

Request(name, type, names, new) ==
    [name |-> name, type |-> type, states |-> names, new_state |-> new]

MCRequests ==
    { Request(change, "state_change", <<drive>>, shoot),
      Request(fire, "trigger", <<All, shoot>>, Free) }
=============================================================================
