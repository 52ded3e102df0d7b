--------------------------- MODULE SessionRegistry ---------------------------
(***************************************************************************)
(* server/registry.go: the table of live connections behind the runtime    *)
(* DMVs, sp_who and Server.CloseSessions.  Every method takes r.mu for its *)
(* whole body, so each is one atomic step here.                            *)
(*                                                                         *)
(* The two Go maps are sets of records with at most one record per spid;   *)
(* of a tds.SessionInfo only the spid and the login name are kept.         *)
(***************************************************************************)
EXTENDS Naturals, FiniteSets

CONSTANTS
  Conn,    \* the connections the listener may accept, one goroutine each
  User     \* login names

VARIABLES
  nextSPID,   \* sessionRegistry.nextSPID
  sessions,   \* sessionRegistry.sessions: what the DMVs enumerate
  conns       \* sessionRegistry.conns: what CloseSessions can reach

registryVars == <<nextSPID, sessions, conns>>

FirstSPID == 51      \* newSessionRegistry starts where SQL Server's user sessions do

SessionInfo == [spid : Nat, login : User]
LiveSession == [info : SessionInfo, conn : Conn, princ : User]

RegistryInit ==
  /\ nextSPID = FirstSPID
  /\ sessions = {}
  /\ conns = {}

(* A bug: the login name is left unset. *)
BugNewInfo(u) == [spid |-> nextSPID, login |-> ""]

(* The SessionInfo that add returns for a login. *)
NewInfo(u) == [spid |-> nextSPID, login |-> u]

(* A bug: nextSPID is not advanced. *)
BugAdd(u) ==
  /\ sessions' = sessions \cup {NewInfo(u)}
  /\ UNCHANGED <<nextSPID, conns>>

Add(u) ==
  /\ sessions' = sessions \cup {NewInfo(u)}
  /\ nextSPID' = nextSPID + 1
  /\ conns' = conns

(* attach records the connection only of a session that is still listed,   *)
(* replacing the entry its spid may have.                                  *)
Attach(info, c, princ) ==
  /\ conns' = IF \E s \in sessions : s.spid = info.spid
              THEN {l \in conns : l.info.spid # info.spid}
                     \cup {[info |-> info, conn |-> c, princ |-> princ]}
              ELSE conns
  /\ UNCHANGED <<nextSPID, sessions>>

(* Bugs: remove forgets one of the two tables. *)
BugRemoveConnOnly(id) ==
  /\ conns' = {l \in conns : l.info.spid # id}
  /\ UNCHANGED <<nextSPID, sessions>>

BugRemoveSessionOnly(id) ==
  /\ sessions' = {s \in sessions : s.spid # id}
  /\ UNCHANGED <<nextSPID, conns>>

Remove(id) ==
  /\ sessions' = {s \in sessions : s.spid # id}
  /\ conns' = {l \in conns : l.info.spid # id}
  /\ nextSPID' = nextSPID

(* live() and snapshot() copy a map out from under the lock. *)
Live == conns
Snapshot == sessions

(* A bug: the caller's rows are looked for by login name. *)
BugOwnSession(info, all) == {s \in all : s.login = info.login}

(* ownSession narrows a snapshot to the caller's row. *)
OwnSession(info, all) == {s \in all : s.spid = info.spid}

RegistryTypeOK ==
  /\ nextSPID \in Nat
  /\ sessions \subseteq SessionInfo
  /\ conns \subseteq LiveSession
=============================================================================
