----------------------------- MODULE Rsoc_proofs -----------------------------
(***************************************************************************)
(* The descriptors of Rsoc, for every set of sockets and of descriptors    *)
(* and every number of addresses: a socket with a role owns its descriptor *)
(* and no failure loses one.                                               *)
(***************************************************************************)
EXTENDS Rsoc, TLAPS

None == "RSOC_ROLE_NONE"

(* What the application takes to be set up is idle, and has a role, unless *)
(* the system made no descriptor for it; only such a socket has a role.    *)
UsedIsSetUp ==
    \A s \in Sockets :
       /\ used[s] => pc[s] = "idle" /\ (role[s] = None => fd[s] = Bad)
       /\ role[s] # None => used[s]

(* Descriptors a client's call left behind are never closed.               *)
LeakedStayOpen == \A f \in leaked : fds[f] # "closed"

IInv == TypeOK /\ OwnsDescriptor /\ OnlyConnectionsLost /\ UsedIsSetUp
        /\ LeakedStayOpen

Step(s) == \/ \E r \in Roles \ {None} : Call(s, r)
           \/ Conn(s) \/ Send(s) \/ Receive(s) \/ Close(s)

-----------------------------------------------------------------------------
(* The program starts with closed descriptors and idle sockets. *)
LEMMA InitOK == Init => IInv
  BY RsocAssumption DEF Init, IInv, TypeOK, OwnsDescriptor, OnlyConnectionsLost,
     UsedIsSetUp, LeakedStayOpen, Holds, Roles, None

(* What a call that returns leaves of its position and its result.         *)
LEMMA ReturnTyped ==
    ASSUME TypeOK, NEW s \in Sockets, Return(s, "ok")
    PROVE  /\ pc' \in [Sockets -> {"idle", "socket", "made", "crashed"}]
           /\ wanted' \in [Sockets -> Roles] /\ left' \in [Sockets -> 0..MaxAddrs]
           /\ \A t \in Sockets : pc'[t] = "socket" => left'[t] > 0
           /\ result' \in [Sockets -> {"none", "ok", "RSOC_ERR_RESOLV_CONN",
                                       "RSOC_ERR_HOST_BIND", "error", "network"}]
           /\ used' \in [Sockets -> BOOLEAN]
<1>1. 0 \in 0..MaxAddrs
  BY RsocAssumption
<1>2. used' \in [Sockets -> BOOLEAN]
  BY DEF Return, TypeOK
<1> QED BY <1>1, <1>2 DEF Return, TypeOK, Roles

(* The steps before a descriptor is made change no descriptor: Call, a     *)
(* socket() that fails, and the calls that only have a result.             *)
LEMMA CallOK ==
    ASSUME IInv, NEW s \in Sockets, NEW r \in Roles \ {None}, Call(s, r)
    PROVE  IInv'
  BY RsocAssumption DEF Call, At, IInv, TypeOK, OwnsDescriptor,
     OnlyConnectionsLost, UsedIsSetUp, LeakedStayOpen, Holds, Roles, None, struct

LEMMA SocketFailsOK ==
    ASSUME IInv, NEW s \in Sockets, SocketFails(s)
    PROVE  IInv'
<1> USE RsocAssumption DEF SocketFails, At, IInv, TypeOK, Roles, None
<1>1. CASE More(s)
  BY <1>1 DEF More, OwnsDescriptor, OnlyConnectionsLost, UsedIsSetUp,
     LeakedStayOpen, Holds
<1>2. CASE ~More(s)
  <2> USE <1>2 DEF Return
  <2>1. TypeOK'
    BY ReturnTyped
  <2>2. \A t \in Sockets : Holds(t)' <=> Holds(t) /\ t # s
    BY DEF Holds, UsedIsSetUp
  <2>3. OwnsDescriptor' /\ OnlyConnectionsLost'
    BY <2>2 DEF OwnsDescriptor, OnlyConnectionsLost, Holds, UsedIsSetUp
  <2>4. UsedIsSetUp' /\ LeakedStayOpen'
    BY DEF UsedIsSetUp, LeakedStayOpen
  <2> QED BY <2>1, <2>3, <2>4
<1> QED BY <1>1, <1>2

LEMMA ResultOK ==
    ASSUME IInv, NEW s \in Sockets, Send(s) \/ Receive(s)
    PROVE  IInv'
  BY RsocAssumption DEF Send, Receive, Results, At, IInv, TypeOK,
     OwnsDescriptor, OnlyConnectionsLost, UsedIsSetUp, LeakedStayOpen, Holds,
     Roles, None, struct, call

(* A new descriptor was closed, so nobody has it and it is not leaked.     *)
LEMMA SocketMadeOK ==
    ASSUME IInv, NEW s \in Sockets, SocketMade(s)
    PROVE  IInv'
  BY RsocAssumption DEF SocketMade, At, IInv, TypeOK,
     OwnsDescriptor, OnlyConnectionsLost, UsedIsSetUp, LeakedStayOpen, Holds,
     Roles, None

(* The end of a call closes its own descriptor, leaks it or keeps it with  *)
(* a role; the others' are other ones.                                     *)
LEMMA MadeOK ==
    ASSUME IInv, NEW s \in Sockets, Connect(s) \/ BindFails(s) \/ Bind(s)
    PROVE  IInv'
<1> USE RsocAssumption DEF At, Return, IInv, Holds, Roles, None, struct
<1>1. CASE Connect(s)
  BY <1>1 DEF Connect, TypeOK, OwnsDescriptor, OnlyConnectionsLost, UsedIsSetUp,
     LeakedStayOpen
<1>2. CASE BindFails(s)
  BY <1>2 DEF BindFails, TypeOK, OwnsDescriptor, OnlyConnectionsLost, UsedIsSetUp,
     LeakedStayOpen
<1>3. CASE Bind(s)
  <2> USE <1>3 DEF Bind, TypeOK
  <2>1. TypeOK'
    BY ReturnTyped
  <2>2. \A t \in Sockets : Holds(t)' <=> Holds(t)
    BY DEF UsedIsSetUp
  <2>3. OwnsDescriptor' /\ OnlyConnectionsLost'
    BY <2>2 DEF OwnsDescriptor, OnlyConnectionsLost
  <2>4. UsedIsSetUp' /\ LeakedStayOpen'
    BY DEF UsedIsSetUp, LeakedStayOpen, OwnsDescriptor
  <2> QED BY <2>1, <2>3, <2>4
<1> QED BY <1>1, <1>2, <1>3

(* What is closed is the socket's own, or nothing.                         *)
LEMMA CloseOK ==
    ASSUME IInv, NEW s \in Sockets, Close(s)
    PROVE  IInv'
  BY RsocAssumption DEF Close, Results, At, IInv, TypeOK, OwnsDescriptor,
     OnlyConnectionsLost, UsedIsSetUp, LeakedStayOpen, Holds, Roles, None, call

LEMMA StepOK == IInv /\ [Next]_vars => IInv'
<1> SUFFICES ASSUME IInv, [Next]_vars PROVE IInv'
  OBVIOUS
<1>1. ASSUME NEW s \in Sockets, Step(s) PROVE IInv'
  BY <1>1, CallOK, SocketFailsOK, ResultOK, SocketMadeOK, MadeOK, CloseOK
     DEF Step, Conn
<1>2. CASE UNCHANGED vars
  BY <1>2 DEF vars, struct, call, IInv, TypeOK, OwnsDescriptor,
     OnlyConnectionsLost, UsedIsSetUp, LeakedStayOpen, Holds
<1> QED BY <1>1, <1>2 DEF Next, Step, None

LEMMA IInvAlways == Spec => []IInv
  BY InitOK, StepOK, PTL DEF Spec

(* Type correctness of the sockets: TypeOK of Rsoc.                        *)
THEOREM TypeCorrect == Spec => []TypeOK
  BY IInvAlways, PTL DEF IInv

(* A socket with a role has an open descriptor of its own, whatever the    *)
(* other threads close and are given meanwhile.                            *)
THEOREM DescriptorOwned == Spec => []OwnsDescriptor
  BY IInvAlways, PTL DEF IInv

(* No failure on the way to a socket loses a descriptor; only a client's   *)
(* connect does.                                                           *)
THEOREM NoOtherLost == Spec => []OnlyConnectionsLost
  BY IInvAlways, PTL DEF IInv
=============================================================================
