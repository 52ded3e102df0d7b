-------------------------------- MODULE Server --------------------------------
(***************************************************************************)
(* server/server.go: Serve accepts connections and runs one goroutine      *)
(* (handle) per connection: the PRELOGIN/TLS/LOGIN7 handshake, the         *)
(* registry entry, the serve loop with one message at a time, and the      *)
(* deferred clean-up.  CloseSessions runs in callers of its own.           *)
(*                                                                         *)
(* A goroutine is cut where another one can observe it: at a blocking      *)
(* read, at each acquisition of the registry lock, and at each call to a   *)
(* hook of the embedder (Auth, Audit, SessionVisibility), which may panic  *)
(* where the constant Panics says so.                                      *)
(***************************************************************************)
EXTENDS SessionRegistry, Sequences

CONSTANTS
  Closer,          \* callers of CloseSessions
  Target,          \* Target[k]: the login that caller k's predicate selects
  TLSConfigured,   \* Server.TLSConfig # nil
  AllowPlaintext,  \* Server.AllowPlaintext
  Panics,          \* the embedder hooks that may panic
  ClientKinds,     \* the kinds of message the clients send after their login
  MaxMsgs          \* bound: how many of them one client sends

ASSUME ServerAssumption ==
  /\ Target \in [Closer -> User]
  /\ TLSConfigured \in BOOLEAN
  /\ AllowPlaintext \in BOOLEAN
  /\ Panics \subseteq {"authenticate", "audit_login", "visibility"}
  /\ ClientKinds \subseteq {"batch", "rpc", "bad_rpc", "attention", "other"}
  /\ MaxMsgs \in Nat

VARIABLES
  pc,        \* where connection c's goroutine is
  client,    \* the client's end: "up" or "gone"
  sock,      \* the server's end: "open" or "closed" (net.Conn.Close)
  tls,       \* the connection runs over TLS from here on
  login,     \* UserName of c's LOGIN7 (of no meaning before it is read)
  spid,      \* SessionID of c's SessionInfo, 0 before registry.add
  seeAll,    \* SessionVisibility's answer, asked once per connection
  visible,   \* the DMV snapshot the current message runs with
  sent,      \* the messages the client has sent since its login
  taken,     \* how many of them ReadMessage has returned
  replies,   \* the replies the server has sent to them
  audit,     \* history: the SessionEvents of c, in order
  closer,    \* the callers of CloseSessions
  owed       \* history: the matching sessions when a CloseSessions call read the registry

connVars == <<pc, client, sock, tls, login, spid, seeAll, visible, sent, taken, replies, audit>>
closerVars == <<closer, owed>>
vars == <<registryVars, connVars, closerVars>>

PC == {"new", "prelogin", "tls", "login7", "authenticate", "login_ack", "register",
       "attach", "audit_login", "start", "read", "handle", "exec",
       "remove", "audit_logout", "close", "done"}

MsgKind == {"batch", "rpc", "bad_rpc", "attention", "other"}
Reply   == {"result", "error", "empty_done", "attention_ack"}
Event   == [kind : {"login", "logout"}, ok : BOOLEAN]

Enc   == {"off", "on", "not_sup", "req"}
Offer == Enc \cup {"absent", "unreadable"}      \* what a PRELOGIN payload asks for

(* A bug: a client that cannot encrypt is told so and let in. *)
BugNegotiateEncryption(offer) ==
  [enc |-> "not_sup", useTLS |-> TLSConfigured /\ offer \in Enc \ {"not_sup"}, refused |-> FALSE]

(***************************************************************************)
(* negotiateEncryption: the answer to send, whether the TLS handshake      *)
(* follows, and whether the connection is refused.                         *)
(***************************************************************************)
NegotiateEncryption(offer) ==
  LET required == ~AllowPlaintext
      wantsTLS == offer \in Enc \ {"not_sup"}
  IN  IF ~TLSConfigured THEN [enc |-> "not_sup", useTLS |-> FALSE, refused |-> FALSE]
      ELSE IF wantsTLS
           THEN [enc |-> IF required THEN "req" ELSE "on", useTLS |-> TRUE, refused |-> FALSE]
      ELSE [enc |-> IF required THEN "req" ELSE "not_sup", useTLS |-> FALSE, refused |-> required]

-----------------------------------------------------------------------------
Init ==
  /\ RegistryInit
  /\ pc = [c \in Conn |-> "new"]
  /\ client = [c \in Conn |-> "up"]
  /\ sock = [c \in Conn |-> "open"]
  /\ tls = [c \in Conn |-> FALSE]
  /\ login \in [Conn -> User]
  /\ spid = [c \in Conn |-> 0]
  /\ seeAll = [c \in Conn |-> FALSE]
  /\ visible = [c \in Conn |-> {}]
  /\ sent = [c \in Conn |-> <<>>]
  /\ taken = [c \in Conn |-> 0]
  /\ replies = [c \in Conn |-> <<>>]
  /\ audit = [c \in Conn |-> <<>>]
  /\ closer = [k \in Closer |-> [at |-> "idle", todo |-> {}, ended |-> {}]]
  /\ owed = [k \in Closer |-> [attached |-> {}, listed |-> {}]]

Info(c) == [spid |-> spid[c], login |-> login[c]]

Goto(c, from, to) == pc[c] = from /\ pc' = [pc EXCEPT ![c] = to]

(* A write to the socket: it fails on a closed end, may fail once the peer *)
(* has gone, and succeeds otherwise.                                       *)
CanSend(c) == sock[c] = "open"
CanFail(c) == sock[c] = "closed" \/ client[c] = "gone"

Audited(c, kind, ok) == audit' = [audit EXCEPT ![c] = Append(@, [kind |-> kind, ok |-> ok])]

-----------------------------------------------------------------------------
(* Serve, handle and handshake. *)

Accept(c) ==
  /\ Goto(c, "new", "prelogin")
  /\ UNCHANGED <<registryVars, client, sock, tls, login, spid, seeAll, visible, sent, taken,
                 replies, audit, closerVars>>

(* ReadMessage fails: the connection is closed on either side (or, in the  *)
(* handshake, the message is not the one expected or does not parse).      *)
HandshakeFails(c) ==
  /\ \/ pc[c] \in {"prelogin", "tls", "login7"}
     \/ pc[c] = "login_ack" /\ CanFail(c)
  /\ pc' = [pc EXCEPT ![c] = "close"]
  /\ UNCHANGED <<registryVars, client, sock, tls, login, spid, seeAll, visible, sent, taken,
                 replies, audit, closerVars>>

(* PRELOGIN is read and answered, also when the answer is a refusal. *)
ReadPrelogin(c) ==
  /\ client[c] = "up"
  /\ \E offer \in Offer :
       LET n == NegotiateEncryption(offer)
       IN  Goto(c, "prelogin", IF n.refused THEN "close" ELSE IF n.useTLS THEN "tls" ELSE "login7")
  /\ UNCHANGED <<registryVars, client, sock, tls, login, spid, seeAll, visible, sent, taken,
                 replies, audit, closerVars>>

(* wire.ServerTLS succeeds and replaces conn. *)
TLSHandshake(c) ==
  /\ client[c] = "up"
  /\ Goto(c, "tls", "login7")
  /\ tls' = [tls EXCEPT ![c] = TRUE]
  /\ UNCHANGED <<registryVars, client, sock, login, spid, seeAll, visible, sent, taken,
                 replies, audit, closerVars>>

ReadLogin7(c) ==
  /\ client[c] = "up"
  /\ Goto(c, "login7", "authenticate")
  /\ UNCHANGED <<registryVars, client, sock, tls, login, spid, seeAll, visible, sent, taken,
                 replies, audit, closerVars>>

(* s.authenticate: the Authenticator's go. *)
AuthAccept(c) ==
  /\ Goto(c, "authenticate", "login_ack")
  /\ UNCHANGED <<registryVars, client, sock, tls, login, spid, seeAll, visible, sent, taken,
                 replies, audit, closerVars>>

(* Its no-go: audited as a failed login, answered with 18456, closed. *)
AuthReject(c) ==
  /\ Goto(c, "authenticate", "close")
  /\ Audited(c, "login", FALSE)
  /\ UNCHANGED <<registryVars, client, sock, tls, login, spid, seeAll, visible, sent, taken,
                 replies, closerVars>>

SendLoginAck(c) ==
  /\ CanSend(c)
  /\ Goto(c, "login_ack", "register")
  /\ UNCHANGED <<registryVars, client, sock, tls, login, spid, seeAll, visible, sent, taken,
                 replies, audit, closerVars>>

Register(c) ==
  /\ Goto(c, "register", "attach")
  /\ Add(login[c])
  /\ spid' = [spid EXCEPT ![c] = nextSPID]
  /\ UNCHANGED <<client, sock, tls, login, seeAll, visible, sent, taken, replies, audit, closerVars>>

AttachConn(c) ==
  /\ Goto(c, "attach", "audit_login")
  /\ Attach(Info(c), c, login[c])
  /\ UNCHANGED <<client, sock, tls, login, spid, seeAll, visible, sent, taken, replies, audit,
                 closerVars>>

(* handshake returns, and handle defers the registry's clean-up. *)
AuditLogin(c) ==
  /\ Goto(c, "audit_login", "start")
  /\ Audited(c, "login", TRUE)
  /\ UNCHANGED <<registryVars, client, sock, tls, login, spid, seeAll, visible, sent, taken,
                 replies, closerVars>>

(* A hook panics: handle recovers and runs the defers registered so far.   *)
(* Inside handshake that is conn.Close alone; inside serve the registry's  *)
(* clean-up comes first.                                                   *)
HookPanics(c) ==
  /\ \/ "authenticate" \in Panics /\ Goto(c, "authenticate", "close") /\ audit' = audit
     \/ "audit_login" \in Panics /\ Goto(c, "audit_login", "close") /\ Audited(c, "login", TRUE)
     \/ "visibility" \in Panics /\ Goto(c, "start", "remove") /\ audit' = audit
  /\ UNCHANGED <<registryVars, client, sock, tls, login, spid, seeAll, visible, sent, taken,
                 replies, closerVars>>

(* serve: the session context is built and SessionVisibility asked. *)
StartServe(c) ==
  /\ Goto(c, "start", "read")
  /\ \E all \in BOOLEAN : seeAll' = [seeAll EXCEPT ![c] = all]
  /\ UNCHANGED <<registryVars, client, sock, tls, login, spid, visible, sent, taken, replies,
                 audit, closerVars>>

-----------------------------------------------------------------------------
(* The serve loop. *)

(* The next message arrives whole (wire.ReadMessage). *)
ReadMessage(c) ==
  /\ sock[c] = "open"
  /\ taken[c] < Len(sent[c])
  /\ Goto(c, "read", "handle")
  /\ taken' = [taken EXCEPT ![c] = @ + 1]
  /\ UNCHANGED <<registryVars, client, sock, tls, login, spid, seeAll, visible, sent, replies,
                 audit, closerVars>>

(* A bug: serve reads on after an error. *)
BugReadFails(c) ==
  /\ CanFail(c)
  /\ Goto(c, "read", "read")
  /\ UNCHANGED <<registryVars, client, sock, tls, login, spid, seeAll, visible, sent, taken, replies,
                 audit, closerVars>>

(* ReadMessage fails (EOF included) and serve returns. *)
ReadFails(c) ==
  /\ CanFail(c)
  /\ Goto(c, "read", "remove")
  /\ UNCHANGED <<registryVars, client, sock, tls, login, spid, seeAll, visible, sent, taken,
                 replies, audit, closerVars>>

Message(c) == sent[c][taken[c]]

(* Send reply r and go to "ok"; when the write fails go to "failed".       *)
SendReply(c, from, r, failed) ==
  \/ /\ CanSend(c)
     /\ Goto(c, from, "read")
     /\ replies' = [replies EXCEPT ![c] = Append(@, r)]
  \/ /\ CanFail(c)
     /\ Goto(c, from, failed)
     /\ replies' = replies

(* A bug: an ATTENTION is skipped like an unknown packet. *)
BugHandleSimple(c) ==
  /\ pc[c] = "handle"
  /\ \/ Message(c) = "bad_rpc" /\ SendReply(c, "handle", "empty_done", "remove")
     \/ Message(c) \in {"attention", "other"} /\ Goto(c, "handle", "read") /\ replies' = replies
  /\ UNCHANGED <<registryVars, client, sock, tls, login, spid, seeAll, visible, sent, taken,
                 audit, closerVars>>

(* handleMessage for the kinds that run no SQL: an undecodable RPC and an  *)
(* ATTENTION are answered at once, any other packet type is skipped.  Only *)
(* the RPC's answer stops the loop when it cannot be sent.                 *)
HandleSimple(c) ==
  /\ pc[c] = "handle"
  /\ \/ Message(c) = "bad_rpc" /\ SendReply(c, "handle", "empty_done", "remove")
     \/ Message(c) = "attention" /\ SendReply(c, "handle", "attention_ack", "read")
     \/ Message(c) = "other" /\ Goto(c, "handle", "read") /\ replies' = replies
  /\ UNCHANGED <<registryVars, client, sock, tls, login, spid, seeAll, visible, sent, taken,
                 audit, closerVars>>

(* A bug: a decoded RPC is not run. *)
BugTakeSnapshot(c) ==
  /\ Goto(c, "handle", "exec")
  /\ Message(c) = "batch"
  /\ visible' = [visible EXCEPT ![c] = IF seeAll[c] THEN Snapshot ELSE OwnSession(Info(c), Snapshot)]
  /\ UNCHANGED <<registryVars, client, sock, tls, login, spid, seeAll, sent, taken, replies,
                 audit, closerVars>>

(* A SQL batch or a decoded RPC: the sessions it may see are read first. *)
TakeSnapshot(c) ==
  /\ Goto(c, "handle", "exec")
  /\ Message(c) \in {"batch", "rpc"}
  /\ visible' = [visible EXCEPT ![c] = IF seeAll[c] THEN Snapshot ELSE OwnSession(Info(c), Snapshot)]
  /\ UNCHANGED <<registryVars, client, sock, tls, login, spid, seeAll, sent, taken, replies,
                 audit, closerVars>>

(* ExecBatch and buildResponse end.  The result is sent; an error of       *)
(* either, or a panic handleMessage recovers from, is answered with an     *)
(* ERROR and the loop goes on.                                             *)
FinishExec(c) ==
  /\ \/ SendReply(c, "exec", "result", "remove")
     \/ SendReply(c, "exec", "error", "read")
  /\ visible' = [visible EXCEPT ![c] = {}]
  /\ UNCHANGED <<registryVars, client, sock, tls, login, spid, seeAll, sent, taken, audit,
                 closerVars>>

-----------------------------------------------------------------------------
(* The deferred functions of handle, last first. *)

RemoveSession(c) ==
  /\ Goto(c, "remove", "audit_logout")
  /\ Remove(spid[c])
  /\ UNCHANGED <<client, sock, tls, login, spid, seeAll, visible, sent, taken, replies, audit,
                 closerVars>>

(* A bug: the logout is not audited. *)
BugAuditLogout(c) ==
  /\ Goto(c, "audit_logout", "close")
  /\ UNCHANGED <<registryVars, client, sock, tls, login, spid, seeAll, visible, sent, taken,
                 replies, audit, closerVars>>

AuditLogout(c) ==
  /\ Goto(c, "audit_logout", "close")
  /\ Audited(c, "logout", TRUE)
  /\ UNCHANGED <<registryVars, client, sock, tls, login, spid, seeAll, visible, sent, taken,
                 replies, closerVars>>

CloseConn(c) ==
  /\ Goto(c, "close", "done")
  /\ sock' = [sock EXCEPT ![c] = "closed"]
  /\ UNCHANGED <<registryVars, client, tls, login, spid, seeAll, visible, sent, taken, replies,
                 audit, closerVars>>

-----------------------------------------------------------------------------
(* Server.CloseSessions, called by k. *)

BeginClose(k) ==
  /\ closer[k].at = "idle"
  /\ closer' = [closer EXCEPT ![k] = [at |-> "closing", todo |-> Live, ended |-> {}]]
  /\ owed' = [owed EXCEPT ![k] =
       [attached |-> {c \in Conn : \E l \in conns : l.conn = c /\ l.princ = Target[k]},
        listed |-> {c \in Conn : login[c] = Target[k] /\ Info(c) \in sessions}]]
  /\ UNCHANGED <<registryVars, connVars>>

(* A bug: every connection is closed, matching or not. *)
BugCloseNext(k) ==
  /\ closer[k].at = "closing"
  /\ \E l \in closer[k].todo :
       /\ closer' = [closer EXCEPT ![k] =
            [at |-> "closing", todo |-> @.todo \ {l}, ended |-> @.ended \cup {l.info}]]
       /\ sock' = [sock EXCEPT ![l.conn] = "closed"]
  /\ UNCHANGED <<registryVars, pc, client, tls, login, spid, seeAll, visible, sent, taken,
                 replies, audit, owed>>

(* match runs outside the lock; the order is that of a Go map, i.e. any. *)
CloseNext(k) ==
  /\ closer[k].at = "closing"
  /\ \E l \in closer[k].todo :
       LET matches == l.princ = Target[k]
       IN  /\ closer' = [closer EXCEPT ![k] =
                [at |-> "closing", todo |-> @.todo \ {l},
                 ended |-> @.ended \cup (IF matches THEN {l.info} ELSE {})]]
           /\ sock' = IF matches THEN [sock EXCEPT ![l.conn] = "closed"] ELSE sock
  /\ UNCHANGED <<registryVars, pc, client, tls, login, spid, seeAll, visible, sent, taken,
                 replies, audit, owed>>

(* A bug: the call returns at the first session it ended. *)
BugEndClose(k) ==
  /\ closer[k].at = "closing" /\ (closer[k].todo = {} \/ closer[k].ended # {})
  /\ closer' = [closer EXCEPT ![k].at = "returned"]
  /\ UNCHANGED <<registryVars, connVars, owed>>

EndClose(k) ==
  /\ closer[k].at = "closing" /\ closer[k].todo = {}
  /\ closer' = [closer EXCEPT ![k].at = "returned"]
  /\ UNCHANGED <<registryVars, connVars, owed>>

-----------------------------------------------------------------------------
(* The clients. *)

ClientSends(c) ==
  /\ client[c] = "up"
  /\ pc[c] \in {"start", "read", "handle", "exec"}
  /\ Len(sent[c]) < MaxMsgs
  /\ \E m \in ClientKinds : sent' = [sent EXCEPT ![c] = Append(@, m)]
  /\ UNCHANGED <<registryVars, pc, client, sock, tls, login, spid, seeAll, visible, taken,
                 replies, audit, closerVars>>

ClientGoes(c) ==
  /\ client[c] = "up" /\ pc[c] \notin {"new", "done"}
  /\ client' = [client EXCEPT ![c] = "gone"]
  /\ UNCHANGED <<registryVars, pc, sock, tls, login, spid, seeAll, visible, sent, taken,
                 replies, audit, closerVars>>

-----------------------------------------------------------------------------
(* The steps of c's goroutine that wait for nobody. *)
Goroutine(c) ==
  \/ AuthAccept(c) \/ AuthReject(c) \/ SendLoginAck(c) \/ Register(c) \/ AttachConn(c)
  \/ AuditLogin(c) \/ HookPanics(c) \/ StartServe(c)
  \/ ReadMessage(c) \/ ReadFails(c) \/ HandleSimple(c) \/ TakeSnapshot(c) \/ FinishExec(c)
  \/ RemoveSession(c) \/ AuditLogout(c) \/ CloseConn(c)

Handshake(c) ==
  Accept(c) \/ HandshakeFails(c) \/ ReadPrelogin(c) \/ TLSHandshake(c) \/ ReadLogin7(c)

CloseSessions(k) == BeginClose(k) \/ CloseNext(k) \/ EndClose(k)

Next ==
  \/ \E c \in Conn : Handshake(c) \/ Goroutine(c) \/ ClientSends(c) \/ ClientGoes(c)
  \/ \E k \in Closer : CloseSessions(k)

(* Go schedules every runnable goroutine, the embedder's hooks and the     *)
(* statements return, and a read from a peer that has gone fails; nobody   *)
(* makes a client connect, speak or leave.                                 *)
Fairness ==
  \A c \in Conn :
    /\ WF_vars(Goroutine(c))
    /\ WF_vars(client[c] = "gone" /\ HandshakeFails(c))

Spec == Init /\ [][Next]_vars
FairSpec == Spec /\ Fairness

-----------------------------------------------------------------------------
(* Properties *)

TypeOK ==
  /\ RegistryTypeOK
  /\ pc \in [Conn -> PC]
  /\ client \in [Conn -> {"up", "gone"}]
  /\ sock \in [Conn -> {"open", "closed"}]
  /\ tls \in [Conn -> BOOLEAN]
  /\ login \in [Conn -> User]
  /\ spid \in [Conn -> Nat]
  /\ seeAll \in [Conn -> BOOLEAN]
  /\ visible \in [Conn -> SUBSET SessionInfo]
  /\ sent \in [Conn -> Seq(MsgKind)]
  /\ taken \in [Conn -> Nat]
  /\ replies \in [Conn -> Seq(Reply)]
  /\ audit \in [Conn -> Seq(Event)]
  /\ closer \in [Closer -> [at : {"idle", "closing", "returned"},
                            todo : SUBSET LiveSession, ended : SUBSET SessionInfo]]
  /\ owed \in [Closer -> [attached : SUBSET Conn, listed : SUBSET Conn]]

(* The places where a goroutine has an entry of its own in the registry.   *)
Registered == {"attach", "audit_login", "start", "read", "handle", "exec", "remove"}
Holders == {c \in Conn : pc[c] \in Registered}

(* What the DMVs enumerate is exactly the connections between LOGIN7 and   *)
(* the end of their goroutine, each under a spid of its own.               *)
SessionsAreLive ==
  /\ sessions = {Info(c) : c \in Holders}
  /\ \A c, d \in Holders : c # d => spid[c] # spid[d]

(* Whatever CloseSessions can reach belongs to the session it is listed    *)
(* under and signed in as that principal.                                  *)
ConnsReachOwner ==
  \A l \in conns :
    /\ l.info \in sessions
    /\ l.info = Info(l.conn) /\ l.princ = login[l.conn]
    /\ pc[l.conn] \in Registered

(* The registry's two maps are of the live sessions: none is missing while *)
(* its goroutine runs, none left when it is gone, no two share a spid; and *)
(* no entry of conns outlives its session or points at another one's       *)
(* connection (registry.add and attach against the deferred remove).       *)
RegistryIsLive == SessionsAreLive /\ ConnsReachOwner

(* With TLSConfig set and AllowPlaintext unset no LOGIN7, whose password   *)
(* is only obfuscated, is ever read over cleartext, whatever the client    *)
(* offers in its PRELOGIN (negotiateEncryption and the handshake).         *)
NoCleartextLogin ==
  TLSConfigured /\ ~AllowPlaintext =>
    \A c \in Conn : pc[c] \notin {"new", "prelogin", "tls", "close", "done"} => tls[c]

(* A running statement sees its own session, and nobody else's unless      *)
(* SessionVisibility said so (snapshot and ownSession against concurrent   *)
(* logins and logouts).                                                    *)
VisibilityRespected ==
  \A c \in Conn : pc[c] = "exec" =>
    /\ Info(c) \in visible[c]
    /\ visible[c] # {Info(c)} => seeAll[c]

(* The life of every session is the one SessionLedger tells: listed under  *)
(* a fresh spid, attached, audited as signed in, out of both tables in one *)
(* step, audited as signed out last (handshake and handle's defers).       *)
Ledger == INSTANCE SessionLedger WITH
  number <- spid,
  listed <- {c \in Conn : Info(c) \in sessions},
  reachable <- {l.conn : l \in conns},
  trail <- audit

LedgerKept == Ledger!Spec

(* A connection that is over was refused, never got as far as an answer    *)
(* from the Authenticator, or has its login and its logout audited.        *)
AuditBalanced ==
  \A c \in Conn : pc[c] = "done" => Len(audit[c]) # 1 \/ ~audit[c][1].ok

(* When CloseSessions returns, every matching session that was attached    *)
(* when it read the registry has its connection closed.                    *)
CloseEndsAttached ==
  \A k \in Closer : closer[k].at = "returned" =>
    /\ \A c \in owed[k].attached : sock[c] = "closed"
    /\ {i.spid : i \in closer[k].ended} = {spid[c] : c \in owed[k].attached}

(* "CloseSessions ends every live session for which match reports true"    *)
(* (server.go), the registry being what "tracks every live connection"     *)
(* (registry.go): every matching session listed when it was called is      *)
(* over, or at least closed, when it returns.                              *)
CloseEndsListed ==
  \A k \in Closer : closer[k].at = "returned" =>
    \A c \in owed[k].listed : sock[c] = "closed" \/ pc[c] = "done"

(* A connection the server closes before its goroutine is done with it is  *)
(* one a CloseSessions caller selected.                                    *)
OnlyMatchingClosed ==
  [][\A c \in Conn : sock[c] = "open" /\ sock'[c] = "closed" =>
       pc[c] = "close" \/ \E k \in Closer : Target[k] = login[c]]_vars

Answer(m) == CASE m \in {"batch", "rpc"} -> {"result", "error"}
               [] m = "bad_rpc" -> {"empty_done"}
               [] m = "attention" -> {"attention_ack"}

(* How many of the first n messages of s ask for an answer *)
Asked(s, n) == Cardinality({i \in 1..n : s[i] # "other"})

(* r has one answer for each of them, of its kind and in its place *)
Matched(s, r, n) ==
  /\ Len(r) = Asked(s, n)
  /\ \A i \in 1..n : s[i] # "other" => r[Asked(s, i)] \in Answer(s[i])

(* Between two messages every message read so far that asks for an answer  *)
(* has got exactly one, of its kind and in its place (handleMessage with   *)
(* its recovered panic).                                                   *)
RepliesMatch ==
  \A c \in Conn : pc[c] = "read" /\ ~CanFail(c) => Matched(sent[c], replies[c], taken[c])

(* A message of a client that stays is handled, unless its connection is   *)
(* being ended ("so the client doesn't wait forever").                     *)
MessageHandled ==
  \A c \in Conn : \A n \in 1..MaxMsgs :
    Len(sent[c]) >= n ~> \/ taken[c] >= n /\ pc[c] = "read"
                         \/ CanFail(c) \/ pc[c] = "done"

(* A connection closed by CloseSessions or left by its client is given up  *)
(* (serve and handle's defers): its goroutine ends, and the session it had *)
(* is listed and reachable no longer, unless it is one whose login audit   *)
(* hook panicked: signed in, and never signed out (server.go:216).         *)
GivenUp ==
  \A c \in Conn : CanFail(c) /\ pc[c] # "new" ~>
    /\ pc[c] = "done"
    /\ \/ Info(c) \notin sessions /\ \A l \in conns : l.conn # c
       \/ /\ "audit_login" \in Panics
          /\ audit[c] = <<[kind |-> "login", ok |-> TRUE]>>
=============================================================================
