---------------------------- MODULE SessionLedger ----------------------------
(***************************************************************************)
(* What the server promises of its sessions, without goroutines, sockets   *)
(* or locks: the life of a connection as the DMVs, CloseSessions and the   *)
(* audit trail tell it.                                                    *)
(*                                                                         *)
(* A connection is listed under a number nobody has had before, becomes    *)
(* reachable and is audited as signed in while it is listed, is taken off  *)
(* both tables at once, and is audited as signed out after that.           *)
(***************************************************************************)
EXTENDS Naturals, Sequences

CONSTANT Conn

VARIABLES
  number,      \* the session number of a connection, 0 until it has one
  listed,      \* the connections the DMVs enumerate
  reachable,   \* the connections CloseSessions can end
  trail        \* what the audit hook has been told of a connection

ledgerVars == <<number, listed, reachable, trail>>

LoginOK  == [kind |-> "login", ok |-> TRUE]
LoginBad == [kind |-> "login", ok |-> FALSE]
Logout   == [kind |-> "logout", ok |-> TRUE]

Init ==
  /\ number = [c \in Conn |-> 0]
  /\ listed = {}
  /\ reachable = {}
  /\ trail = [c \in Conn |-> <<>>]

Refuse(c) ==
  /\ number[c] = 0 /\ trail[c] = <<>>
  /\ trail' = [trail EXCEPT ![c] = <<LoginBad>>]
  /\ UNCHANGED <<number, listed, reachable>>

Enlist(c) ==
  /\ number[c] = 0 /\ trail[c] = <<>>
  /\ listed' = listed \cup {c}
  /\ number' = [number EXCEPT ![c] = number'[c]]
  /\ \A d \in Conn : number[d] < number'[c]
  /\ UNCHANGED <<reachable, trail>>

BecomeReachable(c) ==
  /\ c \in listed /\ trail[c] = <<>>
  /\ reachable' = reachable \cup {c}
  /\ UNCHANGED <<number, listed, trail>>

SignIn(c) ==
  /\ c \in reachable /\ trail[c] = <<>>
  /\ trail' = [trail EXCEPT ![c] = <<LoginOK>>]
  /\ UNCHANGED <<number, listed, reachable>>

Delist(c) ==
  /\ c \in listed /\ trail[c] = <<LoginOK>>
  /\ listed' = listed \ {c}
  /\ reachable' = reachable \ {c}
  /\ UNCHANGED <<number, trail>>

SignOut(c) ==
  /\ c \notin listed /\ trail[c] = <<LoginOK>>
  /\ trail' = [trail EXCEPT ![c] = <<LoginOK, Logout>>]
  /\ UNCHANGED <<number, listed, reachable>>

Next == \E c \in Conn :
  \/ Refuse(c) \/ Enlist(c) \/ BecomeReachable(c) \/ SignIn(c) \/ Delist(c) \/ SignOut(c)

Spec == Init /\ [][Next]_ledgerVars
=============================================================================
