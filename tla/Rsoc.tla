-------------------------------- MODULE Rsoc --------------------------------
(***************************************************************************)
(* The sockets of src/src/rsoc.c over Winsock.  Threads may be in calls    *)
(* for different sockets at once, and share the table of descriptors: a    *)
(* number that is closed is given out again.                               *)
(*                                                                         *)
(* The application hosts or resolves a socket it is not using, and closes  *)
(* one that rsoc_host or rsoc_resolve_ip returned 0 for, once.             *)
(***************************************************************************)
EXTENDS Integers

CONSTANTS
    Sockets,        \* rsoc_socket_t structures
    Fds,            \* descriptors the system has
    MaxAddrs        \* bound: addresses a name resolves to

Bad == -1           \* what socket() returns when it fails

ASSUME RsocAssumption == Bad \notin Fds /\ MaxAddrs \in Nat \ {0}

Roles == {"RSOC_ROLE_NONE", "RSOC_ROLE_HOST", "RSOC_ROLE_CLIENT"}

VARIABLES
    fds,            \* what the system knows each descriptor as
    role, fd,       \* of the structure; an empty one has role NONE and fd 0
    pc,             \* where the call for the socket is
    wanted,         \* _rsoc_conn's role
    left,           \* addresses from info_curr on
    result,         \* of the last call for the socket; of the -1 of send and
                    \* receive, "network" are those of Winsock's conditions
    used,           \* the application takes the socket to be set up
    heard,          \* history: data was received since it was
    leaked          \* history: descriptors of client calls that connected

struct == <<role, fd>>
call   == <<pc, wanted, left>>
vars   == <<fds, struct, call, result, used, heard, leaked>>

Init ==
    /\ fds = [f \in Fds |-> "closed"]
    /\ role = [s \in Sockets |-> "RSOC_ROLE_NONE"]
    /\ fd = [s \in Sockets |-> 0]
    /\ pc = [s \in Sockets |-> "idle"]
    /\ wanted = role
    /\ left = [s \in Sockets |-> 0]
    /\ result = [s \in Sockets |-> "none"]
    /\ used = [s \in Sockets |-> FALSE]
    /\ heard = used
    /\ leaked = {}

(* A list of addresses nobody filled in is dereferenced: the program ends. *)
Running == \A s \in Sockets : pc[s] # "crashed"

At(s, p) == Running /\ pc[s] = p

-----------------------------------------------------------------------------
(* _rsoc_conn, called by rsoc_host and rsoc_resolve_ip.  getaddrinfo may   *)
(* fail; on Windows its errors are positive and pass the test.             *)

Call(s, r) ==
    /\ At(s, "idle") /\ ~used[s]
    /\ \/ /\ pc' = [pc EXCEPT ![s] = "socket"]
          /\ wanted' = [wanted EXCEPT ![s] = r]
          /\ \E n \in 1..MaxAddrs : left' = [left EXCEPT ![s] = n]
       \/ pc' = [pc EXCEPT ![s] = "crashed"] /\ UNCHANGED <<wanted, left>>
    /\ heard' = [heard EXCEPT ![s] = FALSE]
    /\ UNCHANGED <<fds, struct, result, used, leaked>>

Return(s, res) ==
    /\ pc' = [pc EXCEPT ![s] = "idle"]
    /\ wanted' = [wanted EXCEPT ![s] = "RSOC_ROLE_NONE"]
    /\ left' = [left EXCEPT ![s] = 0]
    /\ result' = [result EXCEPT ![s] = res]
    /\ used' = [used EXCEPT ![s] = (res = "ok")]

(* Mutant: the same address is tried again. *)
SocketAgain(s) ==
    /\ At(s, "socket")
    /\ fd' = [fd EXCEPT ![s] = Bad]
    /\ UNCHANGED <<fds, role, call, result, used, heard, leaked>>

(* Mutant: the end of the list is passed. *)
MorePast(s) == left[s] > 0

More(s) == left[s] > 1

(* socket() fails: the next address, and after the last one 0 is returned. *)
SocketFails(s) ==
    /\ At(s, "socket")
    /\ fd' = [fd EXCEPT ![s] = Bad]
    /\ IF More(s)
         THEN /\ left' = [left EXCEPT ![s] = @ - 1]
              /\ UNCHANGED <<pc, wanted, result, used>>
         ELSE Return(s, "ok")
    /\ UNCHANGED <<fds, role, heard, leaked>>

SocketMade(s) ==
    /\ At(s, "socket")
    /\ \E f \in Fds : /\ fds[f] = "closed"
                      /\ fd' = [fd EXCEPT ![s] = f]
                      /\ fds' = [fds EXCEPT ![f] = "open"]
    /\ pc' = [pc EXCEPT ![s] = "made"]
    /\ UNCHANGED <<role, wanted, left, result, used, heard, leaked>>

(* A client's call returns the same error whether connect failed or not.   *)
Connect(s) ==
    /\ At(s, "made") /\ wanted[s] = "RSOC_ROLE_CLIENT"
    /\ \/ /\ fds' = [fds EXCEPT ![fd[s]] = "connected"]
          /\ leaked' = leaked \cup {fd[s]}
       \/ /\ fds' = [fds EXCEPT ![fd[s]] = "closed"]
          /\ UNCHANGED leaked
    /\ Return(s, "RSOC_ERR_RESOLV_CONN")
    /\ UNCHANGED <<struct, heard>>

(* Mutant: the descriptor that could not be bound is not closed.           *)
BindFailsOpen(s) ==
    /\ At(s, "made") /\ wanted[s] = "RSOC_ROLE_HOST"
    /\ Return(s, "RSOC_ERR_HOST_BIND")
    /\ UNCHANGED <<fds, struct, heard, leaked>>

BindFails(s) ==
    /\ At(s, "made") /\ wanted[s] = "RSOC_ROLE_HOST"
    /\ fds' = [fds EXCEPT ![fd[s]] = "closed"]
    /\ Return(s, "RSOC_ERR_HOST_BIND")
    /\ UNCHANGED <<struct, heard, leaked>>

Bind(s) ==
    /\ At(s, "made") /\ wanted[s] = "RSOC_ROLE_HOST"
    /\ fds' = [fds EXCEPT ![fd[s]] = "bound"]
    /\ role' = [role EXCEPT ![s] = "RSOC_ROLE_CLIENT"]
    /\ Return(s, "ok")
    /\ UNCHANGED <<fd, heard, leaked>>

-----------------------------------------------------------------------------
(* Calls that are one step.  A role other than CLIENT and NONE is never    *)
(* given to a structure; where the code distinguishes it, so does this.    *)

Results(s, outcomes) ==
    \E res \in outcomes : result' = [result EXCEPT ![s] = res]

(* rsoc_send.  A host sends to the address saved in the structure; send()  *)
(* needs a descriptor that is connected.                                   *)
Send(s) ==
    /\ At(s, "idle")
    /\ Results(s, CASE role[s] = "RSOC_ROLE_NONE" -> {"error"}
                    [] role[s] = "RSOC_ROLE_HOST" -> {"ok", "network"}
                    [] OTHER -> IF fds[fd[s]] = "connected"
                                  THEN {"ok", "network"} ELSE {"error"})
    /\ UNCHANGED <<fds, struct, call, used, heard, leaked>>

(* rsoc_receive and rsoc_peek.  A host saves the address of the sender,    *)
(* and a client does not.                                                  *)
Receive(s) ==
    /\ At(s, "idle")
    /\ Results(s, IF role[s] = "RSOC_ROLE_NONE" THEN {"error"}
                    ELSE {"ok", "network"})
    /\ heard' = [heard EXCEPT ![s] = @ \/ result'[s] = "ok"]
    /\ UNCHANGED <<fds, struct, call, used, leaked>>

(* Mutant: the role stays. *)
CloseKeepsRole(s) ==
    /\ At(s, "idle") /\ used[s]
    /\ used' = [used EXCEPT ![s] = FALSE]
    /\ IF fd[s] \in Fds /\ fds[fd[s]] # "closed"
         THEN /\ fds' = [fds EXCEPT ![fd[s]] = "closed"]
              /\ Results(s, {"ok"})
         ELSE Results(s, {"error"}) /\ UNCHANGED fds
    /\ UNCHANGED <<struct, call, heard, leaked>>

(* rsoc_close.  Whatever has the number is closed; the number stays.       *)
Close(s) ==
    /\ At(s, "idle") /\ used[s]
    /\ used' = [used EXCEPT ![s] = FALSE]
    /\ IF fd[s] \in Fds /\ fds[fd[s]] # "closed"
         THEN /\ fds' = [fds EXCEPT ![fd[s]] = "closed"]
              /\ role' = [role EXCEPT ![s] = "RSOC_ROLE_NONE"]
              /\ Results(s, {"ok"})
         ELSE Results(s, {"error"}) /\ UNCHANGED <<fds, role>>
    /\ UNCHANGED <<fd, call, heard, leaked>>

Conn(s) == \/ SocketFails(s) \/ SocketMade(s) \/ Connect(s)
           \/ BindFails(s) \/ Bind(s)

Next ==
    \E s \in Sockets :
       \/ \E r \in Roles \ {"RSOC_ROLE_NONE"} : Call(s, r)
       \/ Conn(s)
       \/ Send(s) \/ Receive(s) \/ Close(s)

Spec == Init /\ [][Next]_vars

(* A thread in a call runs on. *)
FairSpec == Spec /\ \A s \in Sockets : WF_vars(Conn(s))

-----------------------------------------------------------------------------
(* Properties *)

TypeOK ==
    /\ fds \in [Fds -> {"closed", "open", "connected", "bound"}]
    /\ role \in [Sockets -> Roles] /\ fd \in [Sockets -> Fds \cup {0, Bad}]
    /\ pc \in [Sockets -> {"idle", "socket", "made", "crashed"}]
    /\ wanted \in [Sockets -> Roles] /\ left \in [Sockets -> 0..MaxAddrs]
    /\ \A s \in Sockets : pc[s] = "socket" => left[s] > 0
    /\ result \in [Sockets -> {"none", "ok", "RSOC_ERR_RESOLV_CONN",
                               "RSOC_ERR_HOST_BIND", "error", "network"}]
    /\ used \in [Sockets -> BOOLEAN] /\ heard \in [Sockets -> BOOLEAN]
    /\ leaked \subseteq Fds

(* The socket has a descriptor of its own, or its call is about to use it. *)
Holds(s) == role[s] # "RSOC_ROLE_NONE" \/ pc[s] = "made"

(* A socket with a role, or a call that goes on with the descriptor it     *)
(* made, has one that is open, that it alone has and that no connection    *)
(* left behind has, however the numbers were closed and given out again.   *)
OwnsDescriptor ==
    \A s \in Sockets : Holds(s) =>
       /\ fd[s] \in Fds \ leaked /\ fds[fd[s]] # "closed"
       /\ \A t \in Sockets \ {s} : Holds(t) => fd[t] # fd[s]

(* Every descriptor that is open can still be closed by the application or *)
(* by a call in progress, save those a client's call connected: no failure *)
(* on the way loses one.                                                   *)
OnlyConnectionsLost ==
    \A f \in Fds \ leaked : fds[f] # "closed" =>
       \E s \in Sockets : Holds(s) /\ fd[s] = f

(* Every rsoc_host and rsoc_resolve_ip returns, unless the program ends.   *)
ConnReturns == \A s \in Sockets : pc[s] # "idle" ~> pc[s] = "idle" \/ ~Running

(* Data is sent "to whatever address is saved in sock if this is a host or *)
(* to whatever address the socket is connected if this is a client": send  *)
(* fails by the network only, if a client's call connected the descriptor, *)
(* or the host has received and so saved an address.                       *)
Addressed(s) ==
    fd[s] \in Fds /\ (fds[fd[s]] = "connected" \/ (heard[s] /\ used[s]))
AddressedIsSent ==
    [][\A s \in Sockets :
         Send(s) /\ Addressed(s) => result'[s] \in {"ok", "network"}]_vars
=============================================================================
