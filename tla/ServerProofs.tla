----------------------------- MODULE ServerProofs -----------------------------
(***************************************************************************)
(* Theorems about Server, for any number of connections, logins, callers   *)
(* of CloseSessions and messages.                                          *)
(***************************************************************************)
EXTENDS Server, FiniteSetTheorems, SequenceTheorems, TLAPS

(* The initial state is well typed. *)
LEMMA InitTypeOK == Init => TypeOK
  BY DEF Init, TypeOK, RegistryInit, RegistryTypeOK, FirstSPID, PC

(* So is every state a handshake step reads its way into. *)
LEMMA HandshakeTypeOK ==
  ASSUME TypeOK, NEW c \in Conn, Handshake(c)
  PROVE  TypeOK'
<1> USE DEF TypeOK, RegistryTypeOK, registryVars, closerVars, Goto, PC
<1>1. CASE Accept(c)          BY <1>1 DEF Accept
<1>2. CASE HandshakeFails(c)  BY <1>2 DEF HandshakeFails
<1>3. CASE ReadPrelogin(c)    BY <1>3 DEF ReadPrelogin
<1>4. CASE TLSHandshake(c)    BY <1>4 DEF TLSHandshake
<1>5. CASE ReadLogin7(c)      BY <1>5 DEF ReadLogin7
<1> QED  BY <1>1, <1>2, <1>3, <1>4, <1>5 DEF Handshake

(* The audit trail keeps its type. *)
LEMMA AuditedType ==
  ASSUME TypeOK, NEW c \in Conn, NEW kind \in {"login", "logout"}, NEW ok \in BOOLEAN,
         Audited(c, kind, ok)
  PROVE  audit' \in [Conn -> Seq(Event)]
<1>1. audit \in [Conn -> Seq(Event)] /\ audit[c] \in Seq(Event)
  BY DEF TypeOK
<1>2. [kind |-> kind, ok |-> ok] \in Event
  BY DEF Event
<1>3. Append(audit[c], [kind |-> kind, ok |-> ok]) \in Seq(Event)
  BY <1>1, <1>2
<1> QED  BY <1>1, <1>3 DEF Audited

(* A reply, or a failed one, keeps the types. *)
LEMMA RepliesType ==
  ASSUME TypeOK, NEW c \in Conn, NEW r \in Reply, NEW from \in PC, NEW failed \in PC,
         SendReply(c, from, r, failed)
  PROVE  /\ replies' \in [Conn -> Seq(Reply)]
         /\ pc' \in [Conn -> PC]
<1>1. replies \in [Conn -> Seq(Reply)] /\ replies[c] \in Seq(Reply) /\ pc \in [Conn -> PC]
  BY DEF TypeOK
<1>2. Append(replies[c], r) \in Seq(Reply)
  BY <1>1
<1>3. replies' = replies \/ replies' = [replies EXCEPT ![c] = Append(replies[c], r)]
  BY DEF SendReply
<1>4. "read" \in PC
  BY DEF PC
<1>5. pc' = [pc EXCEPT ![c] = "read"] \/ pc' = [pc EXCEPT ![c] = failed]
  BY DEF SendReply, Goto
<1> QED  BY <1>1, <1>2, <1>3, <1>4, <1>5

(* Every step of a connection's goroutine keeps the types. *)
LEMMA GoroutineTypeOK ==
  ASSUME TypeOK, NEW c \in Conn, Goroutine(c)
  PROVE  TypeOK'
<1> USE DEF TypeOK, RegistryTypeOK, registryVars, closerVars
<1>1. CASE AuthAccept(c)    BY <1>1 DEF AuthAccept, Goto, PC
<1>2. CASE AuthReject(c)
  <2>1. audit' \in [Conn -> Seq(Event)]  BY <1>2, AuditedType DEF AuthReject
  <2> QED  BY <1>2, <2>1 DEF AuthReject, Goto, PC
<1>3. CASE SendLoginAck(c)  BY <1>3 DEF SendLoginAck, Goto, PC
<1>4. CASE Register(c)
  <2>1. NewInfo(login[c]) \in SessionInfo  BY DEF NewInfo, SessionInfo
  <2>2. sessions' \subseteq SessionInfo /\ nextSPID' \in Nat /\ conns' = conns
    BY <1>4, <2>1 DEF Register, Add
  <2> QED  BY <1>4, <2>2 DEF Register, Goto, PC
<1>5. CASE AttachConn(c)
  <2>1. [info |-> Info(c), conn |-> c, princ |-> login[c]] \in LiveSession
    BY DEF Info, SessionInfo, LiveSession
  <2>2. conns' \subseteq LiveSession /\ UNCHANGED <<nextSPID, sessions>>
    BY <1>5, <2>1 DEF AttachConn, Attach
  <2> QED  BY <1>5, <2>2 DEF AttachConn, Goto, PC
<1>6. CASE AuditLogin(c)
  <2>1. audit' \in [Conn -> Seq(Event)]  BY <1>6, AuditedType DEF AuditLogin
  <2> QED  BY <1>6, <2>1 DEF AuditLogin, Goto, PC
<1>7. CASE HookPanics(c)
  <2>1. audit' \in [Conn -> Seq(Event)]  BY <1>7, AuditedType DEF HookPanics
  <2>2. pc' = [pc EXCEPT ![c] = "close"] \/ pc' = [pc EXCEPT ![c] = "remove"]
    BY <1>7 DEF HookPanics, Goto
  <2>3. pc' \in [Conn -> PC]  BY <2>2 DEF PC
  <2> QED  BY <1>7, <2>1, <2>3 DEF HookPanics
<1>8. CASE StartServe(c)
  <2>1. seeAll' \in [Conn -> BOOLEAN]  BY <1>8, Zenon DEF StartServe
  <2>2. pc' \in [Conn -> PC]  BY <1>8 DEF StartServe, Goto, PC
  <2> QED  BY <1>8, <2>1, <2>2 DEF StartServe
<1>9. CASE ReadMessage(c)
  <2>1. taken' = [taken EXCEPT ![c] = taken[c] + 1]  BY <1>9 DEF ReadMessage
  <2>2. taken' \in [Conn -> Nat]  BY <2>1
  <2>3. pc' \in [Conn -> PC]  BY <1>9 DEF ReadMessage, Goto, PC
  <2> QED  BY <1>9, <2>2, <2>3 DEF ReadMessage
<1>10. CASE ReadFails(c)
  <2>1. pc' \in [Conn -> PC]  BY <1>10 DEF ReadFails, Goto, PC
  <2> QED  BY <1>10, <2>1 DEF ReadFails
<1>11. CASE HandleSimple(c)
  <2>1. replies' \in [Conn -> Seq(Reply)] /\ pc' \in [Conn -> PC]
    <3>1. CASE SendReply(c, "handle", "empty_done", "remove")
      BY <3>1, RepliesType DEF Reply, PC
    <3>2. CASE SendReply(c, "handle", "attention_ack", "read")
      BY <3>2, RepliesType DEF Reply, PC
    <3>3. CASE Goto(c, "handle", "read") /\ replies' = replies
      BY <3>3 DEF Goto, PC
    <3> QED  BY <1>11, <3>1, <3>2, <3>3 DEF HandleSimple
  <2> QED  BY <1>11, <2>1 DEF HandleSimple
<1>12. CASE TakeSnapshot(c)
  <2>1. visible' \in [Conn -> SUBSET SessionInfo]
    BY <1>12 DEF TakeSnapshot, OwnSession, Snapshot
  <2> QED  BY <1>12, <2>1 DEF TakeSnapshot, Goto, PC
<1>13. CASE FinishExec(c)
  <2>1. replies' \in [Conn -> Seq(Reply)] /\ pc' \in [Conn -> PC]
    BY <1>13, RepliesType DEF FinishExec, Reply, PC
  <2>2. visible' \in [Conn -> SUBSET SessionInfo]  BY <1>13 DEF FinishExec
  <2> QED  BY <1>13, <2>1, <2>2 DEF FinishExec
<1>14. CASE RemoveSession(c)
  <2>1. sessions' \subseteq sessions /\ conns' \subseteq conns /\ nextSPID' = nextSPID
    BY <1>14 DEF RemoveSession, Remove
  <2> QED  BY <1>14, <2>1 DEF RemoveSession, Goto, PC
<1>15. CASE AuditLogout(c)
  <2>1. audit' \in [Conn -> Seq(Event)]  BY <1>15, AuditedType DEF AuditLogout
  <2> QED  BY <1>15, <2>1 DEF AuditLogout, Goto, PC
<1>16. CASE CloseConn(c)    BY <1>16 DEF CloseConn, Goto, PC
<1> QED  BY <1>1, <1>2, <1>3, <1>4, <1>5, <1>6, <1>7, <1>8, <1>9, <1>10, <1>11, <1>12, <1>13,
            <1>14, <1>15, <1>16 DEF Goroutine

(* Every step of CloseSessions keeps the types. *)
LEMMA CloserTypeOK ==
  ASSUME TypeOK, NEW k \in Closer, CloseSessions(k)
  PROVE  TypeOK'
<1> USE DEF TypeOK, RegistryTypeOK, registryVars, connVars
<1>1. CASE BeginClose(k)
  <2>1. closer' \in [Closer -> [at : {"idle", "closing", "returned"},
                                todo : SUBSET LiveSession, ended : SUBSET SessionInfo]]
    BY <1>1 DEF BeginClose, Live
  <2>2. owed' \in [Closer -> [attached : SUBSET Conn, listed : SUBSET Conn]]
    BY <1>1 DEF BeginClose
  <2> QED  BY <1>1, <2>1, <2>2 DEF BeginClose
<1>2. CASE CloseNext(k)
  <2> DEFINE ck(l) == [at |-> "closing", todo |-> closer[k].todo \ {l},
                       ended |-> closer[k].ended
                                   \cup (IF l.princ = Target[k] THEN {l.info} ELSE {})]
  <2>1. PICK l \in closer[k].todo :
          /\ closer' = [closer EXCEPT ![k] = ck(l)]
          /\ sock' = IF l.princ = Target[k] THEN [sock EXCEPT ![l.conn] = "closed"] ELSE sock
    BY <1>2 DEF CloseNext
  <2>2. l.conn \in Conn /\ l.info \in SessionInfo  BY DEF LiveSession
  <2>3. closer' \in [Closer -> [at : {"idle", "closing", "returned"},
                                todo : SUBSET LiveSession, ended : SUBSET SessionInfo]]
    <3>1. ck(l) \in [at : {"idle", "closing", "returned"},
                     todo : SUBSET LiveSession, ended : SUBSET SessionInfo]
      BY <2>2
    <3> QED  BY <2>1, <3>1
  <2>4. sock' \in [Conn -> {"open", "closed"}]  BY <2>1, <2>2
  <2> QED  BY <1>2, <2>3, <2>4 DEF CloseNext
<1>3. CASE EndClose(k)    BY <1>3 DEF EndClose
<1> QED  BY <1>1, <1>2, <1>3 DEF CloseSessions

(* Every step of a client keeps the types. *)
LEMMA ClientTypeOK ==
  ASSUME TypeOK, NEW c \in Conn, ClientSends(c) \/ ClientGoes(c)
  PROVE  TypeOK'
<1> USE DEF TypeOK, RegistryTypeOK, registryVars, closerVars
<1>1. CASE ClientSends(c)
  <2>1. PICK m \in ClientKinds : sent' = [sent EXCEPT ![c] = Append(@, m)]
    BY <1>1 DEF ClientSends
  <2>2. m \in MsgKind  BY ServerAssumption DEF MsgKind
  <2>3. Append(sent[c], m) \in Seq(MsgKind)  BY <2>2
  <2>4. sent' \in [Conn -> Seq(MsgKind)]  BY <2>1, <2>3
  <2>5. UNCHANGED <<registryVars, pc, client, sock, tls, login, spid, seeAll, visible, taken,
                    replies, audit, closerVars>>
    BY <1>1 DEF ClientSends
  <2> QED  BY <2>4, <2>5
<1>2. CASE ClientGoes(c)   BY <1>2 DEF ClientGoes
<1> QED  BY <1>1, <1>2

(* TypeOK is inductive by itself. *)
LEMMA NextTypeOK == TypeOK /\ [Next]_vars => TypeOK'
<1> SUFFICES ASSUME TypeOK, [Next]_vars PROVE TypeOK'
  OBVIOUS
<1>1. CASE Next
  BY <1>1, HandshakeTypeOK, GoroutineTypeOK, CloserTypeOK, ClientTypeOK DEF Next
<1>2. CASE UNCHANGED vars
  BY <1>2 DEF vars, registryVars, connVars, closerVars, TypeOK, RegistryTypeOK
<1> QED  BY <1>1, <1>2

(* Every variable keeps its type in every reachable state. *)
THEOREM TypeCorrect == Spec => []TypeOK
<1>1. QED  BY InitTypeOK, NextTypeOK, PTL DEF Spec

-----------------------------------------------------------------------------
(* Where a step may leave a goroutine whose connection is not on TLS.      *)
Cleartext == {"new", "prelogin", "tls", "close", "done"}

(* A connection leaves PRELOGIN over TLS or not at all. *)
LEMMA CleartextStep ==
  ASSUME TypeOK, TLSConfigured, ~AllowPlaintext, [Next]_vars,
         \A c \in Conn : pc[c] \notin Cleartext => tls[c] = TRUE
  PROVE  \A c \in Conn : pc'[c] \notin Cleartext => tls'[c] = TRUE
<1> USE DEF Goto, Cleartext
<1>1. pc \in [Conn -> PC] /\ tls \in [Conn -> BOOLEAN]
  BY DEF TypeOK
<1>2. ASSUME NEW c \in Conn, Handshake(c) \/ Goroutine(c)
      PROVE  /\ \A d \in Conn \ {c} : pc'[d] = pc[d] /\ tls'[d] = tls[d]
             /\ \/ pc'[c] \in Cleartext
                \/ tls'[c] = TRUE
                \/ tls'[c] = tls[c] /\ pc[c] \notin Cleartext
  <2>1. CASE Accept(c)          BY <1>1, <2>1 DEF Accept
  <2>2. CASE HandshakeFails(c)  BY <1>1, <2>2 DEF HandshakeFails
  <2>3. CASE ReadPrelogin(c)
    <3>1. PICK offer \in Offer :
            LET n == NegotiateEncryption(offer)
            IN  Goto(c, "prelogin", IF n.refused THEN "close"
                                    ELSE IF n.useTLS THEN "tls" ELSE "login7")
      BY <2>3 DEF ReadPrelogin
    <3>2. NegotiateEncryption(offer).refused \/ NegotiateEncryption(offer).useTLS
      BY DEF NegotiateEncryption
    <3>3. tls' = tls /\ \E to \in {"close", "tls"} : pc' = [pc EXCEPT ![c] = to]
      BY <2>3, <3>1, <3>2 DEF ReadPrelogin
    <3> QED  BY <1>1, <3>3
  <2>4. CASE TLSHandshake(c)    BY <1>1, <2>4 DEF TLSHandshake
  <2>5. CASE ReadLogin7(c)      BY <1>1, <2>5 DEF ReadLogin7
  <2>6. CASE Goroutine(c)
    <3>1. tls' = tls
      BY <2>6 DEF Goroutine, AuthAccept, AuthReject, SendLoginAck, Register, AttachConn, AuditLogin,
                  HookPanics, StartServe, ReadMessage, ReadFails, HandleSimple, TakeSnapshot,
                  FinishExec, RemoveSession, AuditLogout, CloseConn
    <3>2. \E to \in PC : pc' = [pc EXCEPT ![c] = to] /\ (pc[c] \in Cleartext => to \in Cleartext)
      BY <2>6 DEF Goroutine, AuthAccept, AuthReject, SendLoginAck, Register, AttachConn, AuditLogin,
                  HookPanics, StartServe, ReadMessage, ReadFails, HandleSimple, TakeSnapshot,
                  FinishExec, RemoveSession, AuditLogout, CloseConn, SendReply, PC
    <3> QED  BY <1>1, <3>1, <3>2
  <2> QED  BY <1>2, <2>1, <2>2, <2>3, <2>4, <2>5, <2>6 DEF Handshake
<1>3. ASSUME NEW c \in Conn, ClientSends(c) \/ ClientGoes(c) PROVE UNCHANGED <<pc, tls>>
  BY <1>3 DEF ClientSends, ClientGoes
<1>4. ASSUME NEW k \in Closer, CloseSessions(k) PROVE UNCHANGED <<pc, tls>>
  BY <1>4 DEF CloseSessions, BeginClose, CloseNext, EndClose, connVars
<1>5. UNCHANGED vars => UNCHANGED <<pc, tls>>
  BY DEF vars, connVars
<1> QED  BY <1>2, <1>3, <1>4, <1>5 DEF Next

(* With TLS configured and plaintext not allowed, no LOGIN7 is read and    *)
(* nothing after it is said but over TLS, whatever PRELOGIN offers.        *)
THEOREM CleartextCorrect == Spec => []NoCleartextLogin
<1> DEFINE Inv == TLSConfigured /\ ~AllowPlaintext =>
                    \A c \in Conn : pc[c] \notin Cleartext => tls[c] = TRUE
<1>1. Init => Inv
  BY DEF Init, Cleartext
<1>2. TypeOK /\ Inv /\ [Next]_vars => Inv'
  BY CleartextStep
<1>3. Inv => NoCleartextLogin
  BY DEF NoCleartextLogin, Cleartext
<1> HIDE DEF Inv
<1> QED  BY <1>1, <1>2, <1>3, TypeCorrect, PTL DEF Spec

-----------------------------------------------------------------------------
(* Answers: counting those a row of messages asks for.                     *)

LEMMA AskedFinite ==
  ASSUME NEW s, NEW n \in Nat
  PROVE  IsFiniteSet({i \in 1..n : s[i] # "other"}) /\ Asked(s, n) \in Nat
<1>1. IsFiniteSet(1..n)
  BY FS_Interval
<1>2. IsFiniteSet({i \in 1..n : s[i] # "other"})
  BY <1>1, FS_Subset
<1> QED  BY <1>2, FS_CardinalityType DEF Asked

LEMMA AskedNone == \A s : Asked(s, 0) = 0
<1> SUFFICES ASSUME NEW s PROVE Asked(s, 0) = 0
  OBVIOUS
<1>1. {i \in 1..0 : s[i] # "other"} = {}
  OBVIOUS
<1> QED  BY <1>1, FS_EmptySet DEF Asked

(* One message more asks for one answer more, or for none. *)
LEMMA AskedNext ==
  ASSUME NEW s, NEW n \in Nat
  PROVE  Asked(s, n + 1) = IF s[n + 1] = "other" THEN Asked(s, n) ELSE Asked(s, n) + 1
<1> DEFINE A == {i \in 1..n : s[i] # "other"}
           B == {i \in 1..(n + 1) : s[i] # "other"}
<1>1. IsFiniteSet(A) /\ n + 1 \notin A
  <2>1. IsFiniteSet(1..n) /\ A \subseteq 1..n
    BY FS_Interval
  <2> QED  BY <2>1, FS_Subset
<1>2. CASE s[n + 1] = "other"
  <2>1. B = A
    BY <1>2
  <2> QED  BY <1>2, <2>1 DEF Asked
<1>3. CASE s[n + 1] # "other"
  <2>1. B = A \cup {n + 1}
    BY <1>3
  <2>2. Cardinality(A \cup {n + 1}) = Cardinality(A) + 1
    BY <1>1, FS_AddElement
  <2> QED  BY <1>3, <2>1, <2>2 DEF Asked
<1> QED  BY <1>2, <1>3

(* The count depends on the messages counted only, and does not go down. *)
LEMMA AskedSame ==
  ASSUME NEW s, NEW t, NEW n \in Nat, \A i \in 1..n : t[i] = s[i]
  PROVE  \A i \in 0..n : Asked(t, i) = Asked(s, i)
<1> SUFFICES ASSUME NEW i \in 0..n PROVE Asked(t, i) = Asked(s, i)
  OBVIOUS
<1>1. {j \in 1..i : t[j] # "other"} = {j \in 1..i : s[j] # "other"}
  OBVIOUS
<1> QED  BY <1>1 DEF Asked

LEMMA AskedMonotone ==
  ASSUME NEW s, NEW n \in Nat, NEW i \in 1..n
  PROVE  Asked(s, i) <= Asked(s, n) /\ (s[i] # "other" => Asked(s, i) >= 1)
<1> DEFINE A == {j \in 1..i : s[j] # "other"}
           B == {j \in 1..n : s[j] # "other"}
<1>1. IsFiniteSet(A) /\ IsFiniteSet(B) /\ A \subseteq B
  <2>1. IsFiniteSet(1..n) /\ B \subseteq 1..n /\ A \subseteq B
    BY FS_Interval
  <2>2. IsFiniteSet(B)
    BY <2>1, FS_Subset
  <2> QED  BY <2>1, <2>2, FS_Subset
<1>2. Asked(s, i) <= Asked(s, n)
  BY <1>1, FS_Subset DEF Asked
<1>3. ASSUME s[i] # "other" PROVE Asked(s, i) >= 1
  <2>1. A # {}
    BY <1>3
  <2>2. Cardinality(A) # 0 /\ Cardinality(A) \in Nat
    BY <1>1, <2>1, FS_EmptySet, FS_CardinalityType
  <2> QED  BY <2>2 DEF Asked
<1> QED  BY <1>2, <1>3

(* Nothing is asked of no message. *)
LEMMA MatchedNone == \A s : Matched(s, <<>>, 0)
BY AskedNone DEF Matched

(* A message the client sends in the meantime changes nothing. *)
LEMMA MatchedMore ==
  ASSUME NEW s, NEW t, NEW r, NEW n \in Nat, \A i \in 1..n : t[i] = s[i], Matched(s, r, n)
  PROVE  Matched(t, r, n)
<1>1. Asked(t, n) = Asked(s, n) /\ \A i \in 1..n : Asked(t, i) = Asked(s, i) /\ t[i] = s[i]
  BY AskedSame
<1> QED  BY <1>1 DEF Matched

(* The next message is answered, or asks for nothing. *)
LEMMA MatchedAnswer ==
  ASSUME NEW s, NEW r \in Seq(Reply), NEW n \in Nat, Matched(s, r, n),
         s[n + 1] # "other", NEW a \in Answer(s[n + 1]), a \in Reply
  PROVE  Matched(s, Append(r, a), n + 1)
<1>1. Asked(s, n + 1) = Len(r) + 1 /\ Len(r) = Asked(s, n) /\ Len(r) \in Nat
  BY AskedNext DEF Matched
<1> DEFINE q == Append(r, a)
<1>2. Len(q) = Len(r) + 1 /\ q[Len(r) + 1] = a /\ \A i \in 1..Len(r) : q[i] = r[i]
  OBVIOUS
<1> HIDE DEF q
<1>3. ASSUME NEW i \in 1..(n + 1), s[i] # "other" PROVE q[Asked(s, i)] \in Answer(s[i])
  <2>1. CASE i = n + 1
    BY <1>1, <1>2, <2>1
  <2>2. CASE i \in 1..n
    <3>1. Asked(s, i) \in 1..Len(r)
      <4>1. Asked(s, i) <= Asked(s, n) /\ Asked(s, i) >= 1
        BY <1>3, <2>2, AskedMonotone
      <4>2. Asked(s, i) \in Nat /\ Asked(s, n) \in Nat
        <5>1. i \in Nat
          BY <2>2
        <5> QED  BY <5>1, AskedFinite
      <4> QED  BY <1>1, <4>1, <4>2
    <3>2. r[Asked(s, i)] \in Answer(s[i])
      BY <1>3, <2>2 DEF Matched
    <3> QED  BY <1>2, <3>1, <3>2
  <2> QED  BY <2>1, <2>2
<1>4. Matched(s, q, n + 1)
  BY <1>1, <1>2, <1>3 DEF Matched
<1> QED  BY <1>4 DEF q

LEMMA MatchedSkip ==
  ASSUME NEW s, NEW r, NEW n \in Nat, Matched(s, r, n), s[n + 1] = "other"
  PROVE  Matched(s, r, n + 1)
<1>1. Asked(s, n + 1) = Asked(s, n)
  BY AskedNext
<1>2. \A i \in 1..(n + 1) : s[i] # "other" => i \in 1..n
  OBVIOUS
<1> QED  BY <1>1, <1>2 DEF Matched

-----------------------------------------------------------------------------
(* RepliesMatch by induction: the message being handled is the one answer  *)
(* still due.  A write that failed leaves the count behind, and then the   *)
(* connection is closed on one side for good.                              *)

Handling == {"handle", "exec"}

(* The messages of c that are dealt with *)
Handled(c) == IF pc[c] \in Handling THEN taken[c] - 1 ELSE taken[c]

AnswersInv ==
  \A c \in Conn :
    /\ taken[c] <= Len(sent[c])
    /\ pc[c] \in Handling => taken[c] >= 1
    /\ pc[c] = "exec" => Message(c) \in {"batch", "rpc"}
    /\ ~CanFail(c) => Matched(sent[c], replies[c], Handled(c))

(* What a step of its own goroutine does to the messages of c and their    *)
(* answers: nothing, the next message is read, a statement is started, one *)
(* answer is sent, one message needs none, or a write fails.               *)
Untouched(c) ==
  /\ UNCHANGED <<sent, taken, replies>>
  /\ pc'[c] \notin Handling /\ pc[c] \notin Handling

Taken(c) ==
  /\ pc[c] = "read" /\ pc'[c] = "handle" /\ taken[c] < Len(sent[c])
  /\ taken' = [taken EXCEPT ![c] = @ + 1] /\ UNCHANGED <<sent, replies>>

Started(c) ==
  /\ pc[c] = "handle" /\ pc'[c] = "exec" /\ Message(c) \in {"batch", "rpc"}
  /\ UNCHANGED <<sent, taken, replies>>

Answered(c) ==
  /\ pc[c] \in Handling /\ pc'[c] \notin Handling /\ UNCHANGED <<sent, taken>>
  /\ \E r \in Reply :
       /\ pc[c] = "handle" => r \in Answer(Message(c)) /\ Message(c) # "other"
       /\ pc[c] = "exec" => r \in {"result", "error"}
       /\ replies' = [replies EXCEPT ![c] = Append(@, r)]

Skipped(c) ==
  /\ pc[c] = "handle" /\ pc'[c] \notin Handling /\ Message(c) = "other"
  /\ UNCHANGED <<sent, taken, replies>>

Failed(c) ==
  /\ CanFail(c)' /\ pc[c] \in Handling /\ pc'[c] \notin Handling
  /\ UNCHANGED <<sent, taken, replies>>

LEMMA GoroutineAnswers ==
  ASSUME TypeOK, NEW c \in Conn, Handshake(c) \/ Goroutine(c)
  PROVE  /\ \A d \in Conn \ {c} : pc'[d] = pc[d]
         /\ Untouched(c) \/ Taken(c) \/ Started(c) \/ Answered(c) \/ Skipped(c) \/ Failed(c)
<1> USE DEF Goto, Handling
<1>1. pc \in [Conn -> PC]
  BY DEF TypeOK
<1>2. ASSUME NEW from \in Handling, NEW failed \in {"remove", "read"}, NEW r \in Reply,
             SendReply(c, from, r, failed), UNCHANGED <<client, sock, sent, taken>>
      PROVE  /\ pc[c] = from /\ pc'[c] \notin Handling /\ \A d \in Conn \ {c} : pc'[d] = pc[d]
             /\ \/ replies' = [replies EXCEPT ![c] = Append(@, r)]
                \/ Failed(c)
  <2>1. CanFail(c)' <=> CanFail(c)
    BY <1>2 DEF CanFail
  <2> QED  BY <1>1, <1>2, <2>1 DEF SendReply, Failed
<1>3. CASE Handshake(c)
  BY <1>1, <1>3 DEF Handshake, Accept, HandshakeFails, ReadPrelogin, TLSHandshake, ReadLogin7, Untouched
<1>4. CASE \/ AuthAccept(c) \/ AuthReject(c) \/ SendLoginAck(c) \/ Register(c) \/ AttachConn(c)
           \/ AuditLogin(c) \/ HookPanics(c) \/ StartServe(c) \/ ReadFails(c)
           \/ RemoveSession(c) \/ AuditLogout(c) \/ CloseConn(c)
  BY <1>1, <1>4 DEF AuthAccept, AuthReject, SendLoginAck, Register, AttachConn, AuditLogin, HookPanics,
                    StartServe, ReadFails, RemoveSession, AuditLogout, CloseConn, Untouched
<1>5. CASE ReadMessage(c)
  BY <1>1, <1>5 DEF ReadMessage, Taken
<1>6. CASE HandleSimple(c)
  <2>1. UNCHANGED <<client, sock, sent, taken>> /\ pc[c] = "handle"
    BY <1>6 DEF HandleSimple
  <2>2. CASE Message(c) = "bad_rpc" /\ SendReply(c, "handle", "empty_done", "remove")
    <3>1. "empty_done" \in Reply /\ "empty_done" \in Answer(Message(c)) /\ Message(c) # "other"
      BY <2>2 DEF Reply, Answer
    <3> QED  BY <1>2, <2>1, <2>2, <3>1 DEF Answered
  <2>3. CASE Message(c) = "attention" /\ SendReply(c, "handle", "attention_ack", "read")
    <3>1. "attention_ack" \in Reply /\ "attention_ack" \in Answer(Message(c)) /\ Message(c) # "other"
      BY <2>3 DEF Reply, Answer
    <3> QED  BY <1>2, <2>1, <2>3, <3>1 DEF Answered
  <2>4. CASE Message(c) = "other" /\ pc' = [pc EXCEPT ![c] = "read"] /\ replies' = replies
    BY <1>1, <2>1, <2>4 DEF Skipped
  <2> QED  BY <1>6, <2>2, <2>3, <2>4 DEF HandleSimple
<1>7. CASE TakeSnapshot(c)
  BY <1>1, <1>7 DEF TakeSnapshot, Started
<1>8. CASE FinishExec(c)
  <2>1. UNCHANGED <<client, sock, sent, taken>>
    BY <1>8 DEF FinishExec
  <2>2. PICK r \in {"result", "error"}, failed \in {"remove", "read"} : SendReply(c, "exec", r, failed)
    BY <1>8 DEF FinishExec
  <2>3. r \in Reply
    BY DEF Reply
  <2>4. /\ pc[c] = "exec" /\ pc'[c] \notin Handling /\ \A d \in Conn \ {c} : pc'[d] = pc[d]
        /\ replies' = [replies EXCEPT ![c] = Append(@, r)] \/ Failed(c)
    BY <1>2, <2>1, <2>2, <2>3
  <2>5. CASE Failed(c)
    BY <2>4, <2>5
  <2>6. CASE replies' = [replies EXCEPT ![c] = Append(@, r)]
    <3>1. Answered(c)
      BY <2>1, <2>2, <2>3, <2>4, <2>6 DEF Answered
    <3> QED  BY <2>4, <3>1
  <2> QED  BY <2>4, <2>5, <2>6
<1> QED  BY <1>3, <1>4, <1>5, <1>6, <1>7, <1>8 DEF Goroutine

(* A connection closed on one side stays so. *)
LEMMA FailsForGood ==
  ASSUME TypeOK, [Next]_vars, NEW c \in Conn, CanFail(c)
  PROVE  CanFail(c)'
<1> USE DEF CanFail, TypeOK
<1>1. ASSUME NEW d \in Conn, Handshake(d) \/ Goroutine(d) PROVE CanFail(c)'
  <2>1. client' = client /\ (sock' = sock \/ sock' = [sock EXCEPT ![d] = "closed"])
    BY <1>1 DEF Handshake, Accept, HandshakeFails, ReadPrelogin, TLSHandshake, ReadLogin7, Goroutine,
                AuthAccept, AuthReject, SendLoginAck, Register, AttachConn, AuditLogin, HookPanics,
                StartServe, ReadMessage, ReadFails, HandleSimple, TakeSnapshot, FinishExec,
                RemoveSession, AuditLogout, CloseConn
  <2> QED  BY <2>1
<1>2. ASSUME NEW d \in Conn, ClientSends(d) \/ ClientGoes(d) PROVE CanFail(c)'
  BY <1>2 DEF ClientSends, ClientGoes
<1>3. ASSUME NEW k \in Closer, CloseSessions(k) PROVE CanFail(c)'
  <2>1. client' = client /\ (sock' = sock \/ \E l : sock' = [sock EXCEPT ![l] = "closed"])
    BY <1>3 DEF CloseSessions, BeginClose, CloseNext, EndClose, connVars
  <2> QED  BY <2>1
<1>4. CASE UNCHANGED vars
  BY <1>4 DEF vars, connVars
<1> QED  BY <1>1, <1>2, <1>3, <1>4 DEF Next

(* For a connection none of whose messages, answers or place changes. *)
LEMMA AnswersKept ==
  ASSUME TypeOK, AnswersInv, [Next]_vars, NEW c \in Conn,
         pc'[c] = pc[c], sent'[c] = sent[c], taken'[c] = taken[c], replies'[c] = replies[c]
  PROVE  /\ taken'[c] <= Len(sent'[c])
         /\ pc'[c] \in Handling => taken'[c] >= 1
         /\ pc'[c] = "exec" => Message(c)' \in {"batch", "rpc"}
         /\ ~CanFail(c)' => Matched(sent'[c], replies'[c], Handled(c)')
<1>1. Message(c)' = Message(c) /\ Handled(c)' = Handled(c)
  BY DEF Message, Handled
<1>2. ~CanFail(c)' => ~CanFail(c)
  BY FailsForGood
<1> QED  BY <1>1, <1>2 DEF AnswersInv

LEMMA GoroutineKeepsAnswers ==
  ASSUME TypeOK, AnswersInv, [Next]_vars, NEW c \in Conn, Handshake(c) \/ Goroutine(c)
  PROVE  AnswersInv'
<1>1. /\ \A d \in Conn \ {c} : pc'[d] = pc[d]
      /\ Untouched(c) \/ Taken(c) \/ Started(c) \/ Answered(c) \/ Skipped(c) \/ Failed(c)
  BY GoroutineAnswers
<1>2. /\ sent \in [Conn -> Seq(MsgKind)] /\ taken \in [Conn -> Nat] /\ replies \in [Conn -> Seq(Reply)]
      /\ Len(sent[c]) \in Nat /\ taken[c] \in Nat /\ replies[c] \in Seq(Reply)
  BY DEF TypeOK
<1>3. /\ taken[c] <= Len(sent[c]) /\ (pc[c] \in Handling => taken[c] >= 1)
      /\ (pc[c] = "exec" => Message(c) \in {"batch", "rpc"})
      /\ (~CanFail(c) => Matched(sent[c], replies[c], Handled(c)))
  BY DEF AnswersInv
<1>4. ~CanFail(c)' => ~CanFail(c)
  BY FailsForGood
<1>5. ASSUME NEW d \in Conn \ {c}
      PROVE  pc'[d] = pc[d] /\ sent'[d] = sent[d] /\ taken'[d] = taken[d] /\ replies'[d] = replies[d]
  BY <1>1, <1>2 DEF Untouched, Taken, Started, Answered, Skipped, Failed
<1> DEFINE Kept == /\ taken'[c] <= Len(sent'[c])
                   /\ pc'[c] \in Handling => taken'[c] >= 1
                   /\ pc'[c] = "exec" => Message(c)' \in {"batch", "rpc"}
                   /\ ~CanFail(c)' => Matched(sent'[c], replies'[c], Handled(c)')
<1>6. Kept
  <2>1. CASE Untouched(c)
    BY <1>3, <1>4, <2>1 DEF Untouched, Handling, Handled, Message
  <2>2. CASE Taken(c)
    <3>1. taken'[c] = taken[c] + 1 /\ taken[c] < Len(sent[c]) /\ UNCHANGED <<sent, replies>>
          /\ pc[c] = "read" /\ pc'[c] = "handle"
      BY <1>2, <2>2 DEF Taken
    <3>2. Handled(c) = taken[c] /\ Handled(c)' = taken[c]
      BY <1>2, <3>1 DEF Handled, Handling
    <3> QED  BY <1>2, <1>3, <1>4, <3>1, <3>2
  <2>3. CASE Started(c)
    BY <1>3, <1>4, <2>3 DEF Started, Handling, Handled, Message
  <2>4. CASE Answered(c)
    <3>1. pc[c] \in Handling /\ pc'[c] \notin Handling /\ UNCHANGED <<sent, taken>>
      BY <2>4 DEF Answered
    <3>2. PICK r \in Reply : /\ r \in Answer(Message(c)) /\ Message(c) # "other"
                             /\ replies' = [replies EXCEPT ![c] = Append(@, r)]
      <4>1. Message(c) \in {"batch", "rpc"} => Answer(Message(c)) = {"result", "error"} /\ Message(c) # "other"
        BY DEF Answer
      <4>2. PICK r \in Reply : /\ pc[c] = "handle" => r \in Answer(Message(c)) /\ Message(c) # "other"
                               /\ pc[c] = "exec" => r \in {"result", "error"}
                               /\ replies' = [replies EXCEPT ![c] = Append(@, r)]
        BY <2>4 DEF Answered
      <4>3. r \in Answer(Message(c)) /\ Message(c) # "other"
        BY <1>3, <3>1, <4>1, <4>2 DEF Handling
      <4> QED  BY <4>2, <4>3
    <3>3. replies'[c] = Append(replies[c], r)
      BY <1>2, <3>2
    <3> DEFINE n == taken[c] - 1
    <3>4. n \in Nat /\ n + 1 = taken[c] /\ Handled(c) = n /\ Handled(c)' = n + 1 /\ Message(c) = sent[c][n + 1]
      BY <1>2, <1>3, <3>1 DEF Handled, Message
    <3> HIDE DEF n
    <3>5. ~CanFail(c) => Matched(sent[c], Append(replies[c], r), n + 1)
      BY <1>2, <1>3, <3>2, <3>4, MatchedAnswer
    <3> QED  BY <1>3, <1>4, <3>1, <3>3, <3>4, <3>5 DEF Handling
  <2>5. CASE Skipped(c)
    <3>1. pc[c] \in Handling /\ pc'[c] \notin Handling /\ Message(c) = "other" /\ UNCHANGED <<sent, taken, replies>>
      BY <2>5 DEF Skipped, Handling
    <3> DEFINE n == taken[c] - 1
    <3>2. n \in Nat /\ n + 1 = taken[c] /\ Handled(c) = n /\ Handled(c)' = n + 1 /\ Message(c) = sent[c][n + 1]
      BY <1>2, <1>3, <3>1 DEF Handled, Message
    <3> HIDE DEF n
    <3>3. ~CanFail(c) => Matched(sent[c], replies[c], n + 1)
      BY <1>3, <3>1, <3>2, MatchedSkip
    <3> QED  BY <1>3, <1>4, <3>1, <3>2, <3>3 DEF Handling
  <2>6. CASE Failed(c)
    BY <1>3, <2>6 DEF Failed, Handling
  <2> QED  BY <1>1, <2>1, <2>2, <2>3, <2>4, <2>5, <2>6
<1> HIDE DEF Kept
<1>7. ASSUME NEW d \in Conn
      PROVE  /\ taken'[d] <= Len(sent'[d])
             /\ pc'[d] \in Handling => taken'[d] >= 1
             /\ pc'[d] = "exec" => Message(d)' \in {"batch", "rpc"}
             /\ ~CanFail(d)' => Matched(sent'[d], replies'[d], Handled(d)')
  <2>1. CASE d = c
    BY <1>6, <2>1 DEF Kept
  <2>2. CASE d # c
    BY <1>5, <2>2, AnswersKept
  <2> QED  BY <2>1, <2>2
<1> QED  BY <1>7 DEF AnswersInv

LEMMA AnswersStep == TypeOK /\ AnswersInv /\ [Next]_vars => AnswersInv'
<1> SUFFICES ASSUME TypeOK, AnswersInv, [Next]_vars PROVE AnswersInv'
  OBVIOUS
<1>1. CASE UNCHANGED <<pc, sent, taken, replies>>
  <2>1. ASSUME NEW d \in Conn
        PROVE  pc'[d] = pc[d] /\ sent'[d] = sent[d] /\ taken'[d] = taken[d] /\ replies'[d] = replies[d]
    BY <1>1
  <2> QED  BY <2>1, AnswersKept DEF AnswersInv
<1>2. ASSUME NEW c \in Conn, Handshake(c) \/ Goroutine(c) PROVE AnswersInv'
  BY <1>2, GoroutineKeepsAnswers
<1>3. ASSUME NEW c \in Conn, ClientSends(c) PROVE AnswersInv'
  <2>1. PICK m \in ClientKinds : sent' = [sent EXCEPT ![c] = Append(@, m)]
    BY <1>3 DEF ClientSends
  <2>2. /\ UNCHANGED <<pc, taken, replies, client, sock>>
        /\ sent \in [Conn -> Seq(MsgKind)] /\ sent[c] \in Seq(MsgKind) /\ taken[c] \in Nat
    BY <1>3 DEF ClientSends, TypeOK
  <2>3. ASSUME NEW d \in Conn \ {c}
        PROVE  pc'[d] = pc[d] /\ sent'[d] = sent[d] /\ taken'[d] = taken[d] /\ replies'[d] = replies[d]
    BY <2>1, <2>2
  <2>4. /\ Len(sent'[c]) = Len(sent[c]) + 1 /\ Len(sent[c]) \in Nat
        /\ \A i \in 1..Len(sent[c]) : sent'[c][i] = sent[c][i]
    <3>1. m \in MsgKind
      BY ServerAssumption DEF MsgKind
    <3>2. sent'[c] = Append(sent[c], m)
      BY <2>1, <2>2
    <3> QED  BY <2>2, <3>1, <3>2
  <2>5. /\ taken[c] <= Len(sent[c]) /\ (pc[c] \in Handling => taken[c] >= 1)
        /\ (pc[c] = "exec" => Message(c) \in {"batch", "rpc"})
        /\ (~CanFail(c) => Matched(sent[c], replies[c], Handled(c)))
    BY DEF AnswersInv
  <2>6. /\ taken'[c] <= Len(sent'[c]) /\ (pc'[c] \in Handling => taken'[c] >= 1)
        /\ (pc'[c] = "exec" => Message(c)' \in {"batch", "rpc"})
        /\ (~CanFail(c)' => Matched(sent'[c], replies'[c], Handled(c)'))
    <3>1. pc[c] = "exec" => Message(c)' = Message(c)
      <4>1. pc[c] = "exec" => taken[c] \in 1..Len(sent[c])
        BY <2>2, <2>4, <2>5 DEF Handling
      <4> QED  BY <2>2, <2>4, <4>1 DEF Message
    <3>2. Handled(c)' = Handled(c) /\ Handled(c) \in 0..Len(sent[c])
      BY <2>2, <2>4, <2>5 DEF Handled
    <3>3. Handled(c) \in Nat /\ \A i \in 1..Handled(c) : sent'[c][i] = sent[c][i]
      BY <2>4, <3>2
    <3>4. ~CanFail(c)' => ~CanFail(c)
      BY <2>2 DEF CanFail
    <3>5. ~CanFail(c)' => Matched(sent'[c], replies'[c], Handled(c)')
      BY <2>2, <2>5, <3>2, <3>3, <3>4, MatchedMore
    <3> QED  BY <2>2, <2>4, <2>5, <3>1, <3>5
  <2>7. ASSUME NEW d \in Conn
        PROVE  /\ taken'[d] <= Len(sent'[d])
               /\ pc'[d] \in Handling => taken'[d] >= 1
               /\ pc'[d] = "exec" => Message(d)' \in {"batch", "rpc"}
               /\ ~CanFail(d)' => Matched(sent'[d], replies'[d], Handled(d)')
    <3>1. CASE d = c
      BY <2>6, <3>1
    <3>2. CASE d # c
      BY <2>3, <3>2, AnswersKept
    <3> QED  BY <3>1, <3>2
  <2> QED  BY <2>7 DEF AnswersInv
<1>4. ASSUME NEW c \in Conn, ClientGoes(c) PROVE AnswersInv'
  BY <1>1, <1>4 DEF ClientGoes
<1>5. ASSUME NEW k \in Closer, CloseSessions(k) PROVE AnswersInv'
  BY <1>1, <1>5 DEF CloseSessions, BeginClose, CloseNext, EndClose, connVars
<1>6. CASE UNCHANGED vars
  BY <1>1, <1>6 DEF vars, connVars
<1> QED  BY <1>2, <1>3, <1>4, <1>5, <1>6 DEF Next

(* Between two messages, every message read that asks for an answer has    *)
(* its own, however many messages, connections and callers of              *)
(* CloseSessions there are.                                                *)
THEOREM RepliesCorrect == Spec => []RepliesMatch
<1>1. Init => AnswersInv
  <2> SUFFICES ASSUME Init, NEW c \in Conn
               PROVE  /\ pc[c] = "new" /\ sent[c] = <<>> /\ taken[c] = 0 /\ replies[c] = <<>>
    BY MatchedNone DEF AnswersInv, Handled, Handling
  <2> QED  BY DEF Init
<1>2. AnswersInv => RepliesMatch
  BY DEF AnswersInv, RepliesMatch, Handled, Handling
<1> QED  BY <1>1, <1>2, AnswersStep, TypeCorrect, PTL DEF Spec

-----------------------------------------------------------------------------
(***************************************************************************)
(* The sessions of the server, for any number of connections, logins,      *)
(* callers of CloseSessions and messages: what the registry holds, what a  *)
(* statement may see of it, what CloseSessions ends, and that the whole    *)
(* life of a session is the one SessionLedger tells.                       *)
(*                                                                         *)
(* An audit hook that panics on a login leaves its session in the registry *)
(* for good: handle has not deferred its removal yet.  What the registry   *)
(* holds is proved for embedders whose hook does not panic.                *)
(***************************************************************************)

Before  == {"new", "prelogin", "tls", "login7", "authenticate", "login_ack", "register"}
Joining == {"attach", "audit_login"}
Serving == {"start", "read", "handle", "exec", "remove"}
Over    == {"close", "done"}
Listed  == Joining \cup Serving

(* The registry lists the goroutines that are in it and no others. *)
ListInv ==
  /\ \A c \in Conn : pc[c] \in Listed => Info(c) \in sessions
  /\ \A s \in sessions : \E c \in Conn : pc[c] \in Listed /\ s = Info(c)

(* Numbers are given out once: none is at or above nextSPID, a connection  *)
(* has none (0) before its login, two connections never share one.         *)
SpidInv ==
  /\ nextSPID > 0
  /\ \A c \in Conn : /\ spid[c] < nextSPID
                     /\ pc[c] \in Before => spid[c] = 0
                     /\ pc[c] \in Listed => spid[c] > 0
  /\ \A c, d \in Conn : c # d /\ spid[c] = spid[d] => spid[c] = 0

(* What CloseSessions can reach is a listed connection under its own entry. *)
EntryInv ==
  \A l \in conns : /\ l.info = Info(l.conn) /\ l.princ = login[l.conn]
                   /\ pc[l.conn] = "audit_login" \/ pc[l.conn] \in Serving

(* From attach to the end of the goroutine CloseSessions can reach it. *)
ReachInv ==
  \A c \in Conn : pc[c] = "audit_login" \/ pc[c] \in Serving => \E l \in conns : l.conn = c

(* The audit trail says where the goroutine is. *)
LoginOK  == Ledger!LoginOK
LoginBad == Ledger!LoginBad
Logout   == Ledger!Logout

TrailInv ==
  \A c \in Conn :
    /\ pc[c] \in Before \cup Joining => audit[c] = <<>>
    /\ pc[c] \in Serving \cup {"audit_logout"} => audit[c] = <<LoginOK>>
    /\ pc[c] \in Over => audit[c] \in {<<>>, <<LoginBad>>, <<LoginOK, Logout>>}

SessionInv == TypeOK /\ ListInv /\ SpidInv /\ EntryInv /\ ReachInv /\ TrailInv

-----------------------------------------------------------------------------
(* Nothing is registered to begin with. *)
LEMMA InitSession == Init => SessionInv
<1> SUFFICES ASSUME Init PROVE SessionInv
  OBVIOUS
<1>1. TypeOK    BY InitTypeOK
<1>2. ListInv   BY DEF Init, RegistryInit, ListInv, Listed, Joining, Serving
<1>3. SpidInv   BY DEF Init, RegistryInit, FirstSPID, SpidInv, Listed, Joining, Serving
<1>4. EntryInv  BY DEF Init, RegistryInit, EntryInv
<1>5. ReachInv  BY DEF Init, RegistryInit, ReachInv, Serving
<1>6. TrailInv  BY DEF Init, TrailInv, Joining, Serving, Over
<1> QED  BY <1>1, <1>2, <1>3, <1>4, <1>5, <1>6 DEF SessionInv

(* What the proofs below need of the types and of the entries. *)
LEMMA Types ==
  ASSUME TypeOK
  PROVE  /\ pc \in [Conn -> PC] /\ spid \in [Conn -> Nat] /\ login \in [Conn -> User]
         /\ audit \in [Conn -> Seq(Event)] /\ nextSPID \in Nat
         /\ \A l \in conns : l.conn \in Conn /\ l.info \in SessionInfo
  BY DEF TypeOK, RegistryTypeOK, LiveSession

(* A step that leaves the registry, the numbers and the audit trail alone  *)
(* and moves its goroutine within a stage, or out of the handshake.        *)
LEMMA PlainStep ==
  ASSUME SessionInv, TypeOK', NEW c \in Conn, NEW to \in PC,
         pc' = [pc EXCEPT ![c] = to],
         UNCHANGED <<registryVars, spid, login, audit>>,
         \/ pc[c] \in Before /\ to \in Before \cup Over
         \/ pc[c] \in Serving /\ to \in Serving
         \/ pc[c] \in Over /\ to \in Over
  PROVE  SessionInv'
<1> USE Types DEF SessionInv
<1>1. UNCHANGED <<nextSPID, sessions, conns, spid, login, audit>>
  BY DEF registryVars
<1>2. pc'[c] = to /\ \A d \in Conn : d # c => pc'[d] = pc[d]
  OBVIOUS
<1>3. \A d \in Conn : /\ pc'[d] \in Listed <=> pc[d] \in Listed
                      /\ pc'[d] \in Serving <=> pc[d] \in Serving
                      /\ pc'[d] = "audit_login" <=> pc[d] = "audit_login"
                      /\ pc'[d] \in Before => pc[d] \in Before
  BY <1>2 DEF Before, Listed, Joining, Serving, Over
<1>4. ListInv'   BY <1>1, <1>3 DEF ListInv, Info
<1>5. SpidInv'   BY <1>1, <1>3 DEF SpidInv
<1>6. EntryInv'  BY <1>1, <1>3 DEF EntryInv, Info
<1>7. ReachInv'  BY <1>1, <1>3 DEF ReachInv
<1>8. TrailInv'  BY <1>1, <1>2 DEF TrailInv, Before, Joining, Serving, Over
<1> QED  BY <1>4, <1>5, <1>6, <1>7, <1>8

(* A refused login is audited; its connection is never registered. *)
LEMMA RefusedStep ==
  ASSUME SessionInv, TypeOK', NEW c \in Conn, AuthReject(c)
  PROVE  SessionInv'
<1> USE Types DEF SessionInv
<1>1. /\ UNCHANGED <<nextSPID, sessions, conns, spid, login>>
      /\ pc[c] = "authenticate" /\ pc' = [pc EXCEPT ![c] = "close"]
      /\ audit' = [audit EXCEPT ![c] = Append(audit[c], LoginBad)]
  BY DEF AuthReject, Goto, Audited, registryVars, LoginBad, Ledger!LoginBad
<1>2. pc'[c] = "close" /\ \A d \in Conn : d # c => pc'[d] = pc[d] /\ audit'[d] = audit[d]
  BY <1>1
<1>3. \A d \in Conn : /\ pc'[d] \in Listed <=> pc[d] \in Listed
                      /\ pc'[d] \in Serving <=> pc[d] \in Serving
                      /\ pc'[d] = "audit_login" <=> pc[d] = "audit_login"
                      /\ pc'[d] \in Before => pc[d] \in Before
  BY <1>1, <1>2 DEF Before, Listed, Joining, Serving
<1>4. ListInv'   BY <1>1, <1>3 DEF ListInv, Info
<1>5. SpidInv'   BY <1>1, <1>3 DEF SpidInv
<1>6. EntryInv'  BY <1>1, <1>3 DEF EntryInv, Info
<1>7. ReachInv'  BY <1>1, <1>3 DEF ReachInv
<1>8. TrailInv'
  <2>1. audit[c] = <<>>           BY <1>1 DEF TrailInv, Before
  <2>2. audit'[c] = <<LoginBad>>  BY <1>1, <2>1
  <2> QED  BY <1>2, <2>2 DEF TrailInv, Before, Joining, Serving, Over
<1> QED  BY <1>4, <1>5, <1>6, <1>7, <1>8

(* registry.add lists the connection under a fresh spid. *)
LEMMA RegisterStep ==
  ASSUME SessionInv, TypeOK', NEW c \in Conn, Register(c)
  PROVE  SessionInv'
<1> USE Types DEF SessionInv
<1> DEFINE new == [spid |-> nextSPID, login |-> login[c]]
<1>1. /\ UNCHANGED <<conns, login, audit>>
      /\ pc[c] = "register" /\ pc' = [pc EXCEPT ![c] = "attach"]
      /\ spid' = [spid EXCEPT ![c] = nextSPID]
      /\ sessions' = sessions \cup {new}
      /\ nextSPID' = nextSPID + 1
  BY DEF Register, Goto, Add, NewInfo
<1>2. /\ pc'[c] = "attach" /\ spid'[c] = nextSPID
      /\ \A d \in Conn : d # c => pc'[d] = pc[d] /\ spid'[d] = spid[d]
  BY <1>1
<1>3. \A d \in Conn : /\ pc'[d] \in Listed <=> pc[d] \in Listed \/ d = c
                      /\ pc'[d] \in Serving <=> pc[d] \in Serving
                      /\ pc'[d] = "audit_login" <=> pc[d] = "audit_login"
                      /\ pc'[d] \in Before <=> pc[d] \in Before /\ d # c
  BY <1>1, <1>2 DEF Before, Listed, Joining, Serving
<1>4. pc[c] \notin Listed /\ pc[c] # "audit_login" /\ pc[c] \notin Serving /\ c \in Conn
  BY <1>1 DEF Listed, Joining, Serving
<1>5. ListInv'
  <2>1. \A d \in Conn : pc'[d] \in Listed => Info(d)' \in sessions'
    BY <1>1, <1>2, <1>3 DEF ListInv, Info
  <2>2. \A s \in sessions' : \E d \in Conn : pc'[d] \in Listed /\ s = Info(d)'
    BY <1>1, <1>2, <1>3, <1>4 DEF ListInv, Info
  <2> QED  BY <2>1, <2>2 DEF ListInv
<1>6. SpidInv'
  <2>1. nextSPID \in Nat /\ \A d \in Conn : spid[d] \in Nat  OBVIOUS
  <2> QED  BY <1>1, <1>2, <1>3, <2>1 DEF SpidInv
<1>7. EntryInv'  BY <1>1, <1>2, <1>3, <1>4 DEF EntryInv, Info
<1>8. ReachInv'  BY <1>1, <1>3 DEF ReachInv
<1>9. TrailInv'  BY <1>1, <1>2 DEF TrailInv, Before, Joining, Serving, Over
<1> QED  BY <1>5, <1>6, <1>7, <1>8, <1>9

(* The session is still listed, so attach records the connection. *)
LEMMA AttachStep ==
  ASSUME SessionInv, TypeOK', NEW c \in Conn, AttachConn(c)
  PROVE  SessionInv'
<1> USE Types DEF SessionInv
<1> DEFINE new == [info |-> Info(c), conn |-> c, princ |-> login[c]]
<1>1. /\ UNCHANGED <<nextSPID, sessions, spid, login, audit>>
      /\ pc[c] = "attach" /\ pc' = [pc EXCEPT ![c] = "audit_login"]
  BY DEF AttachConn, Goto, Attach
<1>2. conns' = {l \in conns : l.info.spid # spid[c]} \cup {new}
  <2>1. pc[c] \in Listed  BY <1>1 DEF Listed, Joining
  <2>2. \E s \in sessions : s.spid = spid[c]  BY <2>1 DEF ListInv, Info
  <2>3. Info(c).spid = spid[c]  BY DEF Info
  <2> QED  BY <2>2, <2>3 DEF AttachConn, Attach
<1>3. pc'[c] = "audit_login" /\ \A d \in Conn : d # c => pc'[d] = pc[d]
  BY <1>1
<1>4. \A d \in Conn : /\ pc'[d] \in Listed <=> pc[d] \in Listed
                      /\ pc'[d] \in Serving <=> pc[d] \in Serving
                      /\ pc'[d] = "audit_login" <=> pc[d] = "audit_login" \/ d = c
                      /\ pc'[d] \in Before => pc[d] \in Before
  BY <1>1, <1>3 DEF Before, Listed, Joining, Serving
<1>5. ListInv'   BY <1>1, <1>4 DEF ListInv, Info
<1>6. SpidInv'   BY <1>1, <1>4 DEF SpidInv
<1>7. EntryInv'  BY <1>1, <1>2, <1>4 DEF EntryInv, Info
<1>8. ReachInv'
  <2>1. \A d \in Conn : d # c /\ (pc[d] = "audit_login" \/ pc[d] \in Serving) =>
          \E l \in conns' : l.conn = d
    <3> SUFFICES ASSUME NEW d \in Conn, d # c, pc[d] = "audit_login" \/ pc[d] \in Serving
                 PROVE  \E l \in conns' : l.conn = d
      OBVIOUS
    <3>1. PICK l \in conns : l.conn = d  BY DEF ReachInv
    <3>2. l.info = Info(d)  BY <3>1 DEF EntryInv
    <3>3. l.info.spid = spid[d]  BY <3>2 DEF Info
    <3>4. spid[d] # spid[c]
      BY <1>1 DEF SpidInv, Listed, Joining
    <3> QED  BY <1>2, <3>1, <3>3, <3>4
  <2>2. new \in conns' /\ new.conn = c  BY <1>2
  <2> QED  BY <1>4, <2>1, <2>2 DEF ReachInv
<1>9. TrailInv'  BY <1>1, <1>3 DEF TrailInv, Before, Joining, Serving, Over
<1> QED  BY <1>5, <1>6, <1>7, <1>8, <1>9

(* The login is audited while the session is attached. *)
LEMMA SignInStep ==
  ASSUME SessionInv, TypeOK', NEW c \in Conn, AuditLogin(c)
  PROVE  SessionInv'
<1> USE Types DEF SessionInv
<1>1. /\ UNCHANGED <<nextSPID, sessions, conns, spid, login>>
      /\ pc[c] = "audit_login" /\ pc' = [pc EXCEPT ![c] = "start"]
      /\ audit' = [audit EXCEPT ![c] = Append(audit[c], LoginOK)]
  BY DEF AuditLogin, Goto, Audited, registryVars, LoginOK, Ledger!LoginOK
<1>2. pc'[c] = "start" /\ \A d \in Conn : d # c => pc'[d] = pc[d] /\ audit'[d] = audit[d]
  BY <1>1
<1>3. \A d \in Conn : /\ pc'[d] \in Listed <=> pc[d] \in Listed
                      /\ (pc'[d] = "audit_login" \/ pc'[d] \in Serving)
                           <=> (pc[d] = "audit_login" \/ pc[d] \in Serving)
                      /\ pc'[d] \in Before => pc[d] \in Before
  BY <1>1, <1>2 DEF Before, Listed, Joining, Serving
<1>4. ListInv'   BY <1>1, <1>3 DEF ListInv, Info
<1>5. SpidInv'   BY <1>1, <1>3 DEF SpidInv
<1>6. EntryInv'  BY <1>1, <1>3 DEF EntryInv, Info
<1>7. ReachInv'  BY <1>1, <1>3 DEF ReachInv
<1>8. TrailInv'
  <2>1. audit[c] = <<>>          BY <1>1 DEF TrailInv, Joining
  <2>2. audit'[c] = <<LoginOK>>  BY <1>1, <2>1
  <2> QED  BY <1>2, <2>2 DEF TrailInv, Before, Joining, Serving, Over
<1> QED  BY <1>4, <1>5, <1>6, <1>7, <1>8

(* Entries of the registry are told apart by their spids. *)
LEMMA EntrySpid ==
  ASSUME EntryInv, NEW l \in conns
  PROVE  l.info.spid = spid[l.conn]
<1>1. l.info = Info(l.conn)                 BY DEF EntryInv
<1>2. Info(l.conn).spid = spid[l.conn]      BY DEF Info
<1> QED  BY <1>1, <1>2

(* registry.remove takes exactly this session off both tables. *)
LEMMA DelistStep ==
  ASSUME SessionInv, TypeOK', NEW c \in Conn, RemoveSession(c)
  PROVE  SessionInv'
<1> USE Types DEF SessionInv
<1>1. /\ UNCHANGED <<nextSPID, spid, login, audit>>
      /\ pc[c] = "remove" /\ pc' = [pc EXCEPT ![c] = "audit_logout"]
      /\ sessions' = {s \in sessions : s.spid # spid[c]}
      /\ conns' = {l \in conns : l.info.spid # spid[c]}
  BY DEF RemoveSession, Goto, Remove
<1>2. pc'[c] = "audit_logout" /\ \A d \in Conn : d # c => pc'[d] = pc[d]
  BY <1>1
<1>3. \A d \in Conn : /\ pc'[d] \in Listed <=> pc[d] \in Listed /\ d # c
                      /\ pc'[d] \in Serving <=> pc[d] \in Serving /\ d # c
                      /\ pc'[d] = "audit_login" <=> pc[d] = "audit_login" /\ d # c
                      /\ pc'[d] \in Before => pc[d] \in Before
  BY <1>1, <1>2 DEF Before, Listed, Joining, Serving
<1>4. spid[c] > 0 /\ \A d \in Conn : d # c => spid[d] # spid[c]
  BY <1>1 DEF SpidInv, Listed, Serving
<1>5. \A d \in Conn : Info(d).spid = spid[d]
  BY DEF Info
<1>6. ListInv'
  <2>1. \A d \in Conn : pc'[d] \in Listed => Info(d)' \in sessions'
    <3>1. \A d \in Conn : pc[d] \in Listed /\ d # c => Info(d) \in sessions'
      BY <1>1, <1>4, <1>5 DEF ListInv
    <3> QED  BY <1>1, <1>3, <3>1 DEF Info
  <2>2. \A s \in sessions' : \E d \in Conn : pc[d] \in Listed /\ d # c /\ s = Info(d)
    BY <1>1, <1>5 DEF ListInv
  <2>3. \A s \in sessions' : \E d \in Conn : pc'[d] \in Listed /\ s = Info(d)'
    BY <1>1, <1>3, <2>2 DEF Info
  <2> QED  BY <2>1, <2>3 DEF ListInv
<1>7. SpidInv'   BY <1>1, <1>3 DEF SpidInv
<1>8. EntryInv'
  <2>1. \A l \in conns' : l.conn # c /\ l \in conns
    BY <1>1, <1>5 DEF EntryInv
  <2> QED  BY <1>1, <1>3, <2>1 DEF EntryInv, Info
<1>9. ReachInv'
  <2>1. \A l \in conns : l.conn # c => l \in conns'
    BY <1>1, <1>4, <1>5 DEF EntryInv
  <2> QED  BY <1>3, <2>1 DEF ReachInv
<1>10. TrailInv'  BY <1>1, <1>2 DEF TrailInv, Before, Joining, Serving, Over
<1> QED  BY <1>6, <1>7, <1>8, <1>9, <1>10

(* A trail of two events is a login and its logout. *)
LEMMA PairOf ==
  ASSUME NEW x, NEW y
  PROVE  Append(<<x>>, y) = <<x, y>>
<1> DEFINE S == {x, y}
<1>1. <<x>> \in Seq(S) /\ Len(<<x>>) = 1 /\ <<x, y>> \in Seq(S) /\ Len(<<x, y>>) = 2
  OBVIOUS
<1>2. /\ Append(<<x>>, y) \in Seq(S) /\ Len(Append(<<x>>, y)) = 2
      /\ Append(<<x>>, y)[1] = x /\ Append(<<x>>, y)[2] = y
  BY <1>1, AppendProperties
<1>3. \A i \in 1..2 : Append(<<x>>, y)[i] = <<x, y>>[i]
  BY <1>2
<1> HIDE DEF S
<1> QED  BY <1>1, <1>2, <1>3, SeqEqual

(* The logout is audited after the session is off both tables. *)
LEMMA SignOutStep ==
  ASSUME SessionInv, TypeOK', NEW c \in Conn, AuditLogout(c)
  PROVE  SessionInv'
<1> USE Types DEF SessionInv
<1>1. /\ UNCHANGED <<nextSPID, sessions, conns, spid, login>>
      /\ pc[c] = "audit_logout" /\ pc' = [pc EXCEPT ![c] = "close"]
      /\ audit' = [audit EXCEPT ![c] = Append(audit[c], Logout)]
  BY DEF AuditLogout, Goto, Audited, registryVars, Logout, Ledger!Logout
<1>2. pc'[c] = "close" /\ \A d \in Conn : d # c => pc'[d] = pc[d] /\ audit'[d] = audit[d]
  BY <1>1
<1>3. \A d \in Conn : /\ pc'[d] \in Listed <=> pc[d] \in Listed
                      /\ pc'[d] \in Serving <=> pc[d] \in Serving
                      /\ pc'[d] = "audit_login" <=> pc[d] = "audit_login"
                      /\ pc'[d] \in Before => pc[d] \in Before
  BY <1>1, <1>2 DEF Before, Listed, Joining, Serving
<1>4. ListInv'   BY <1>1, <1>3 DEF ListInv, Info
<1>5. SpidInv'   BY <1>1, <1>3 DEF SpidInv
<1>6. EntryInv'  BY <1>1, <1>3 DEF EntryInv, Info
<1>7. ReachInv'  BY <1>1, <1>3 DEF ReachInv
<1>8. TrailInv'
  <2>1. audit[c] = <<LoginOK>>           BY <1>1 DEF TrailInv
  <2>2. audit'[c] = Append(<<LoginOK>>, Logout)  BY <1>1, <2>1
  <2>3. audit'[c] = <<LoginOK, Logout>>  BY <2>2, PairOf
  <2> QED  BY <1>2, <2>3 DEF TrailInv, Before, Joining, Serving, Over
<1> QED  BY <1>4, <1>5, <1>6, <1>7, <1>8

(* Nothing any goroutine, client or caller of CloseSessions does else. *)
LEMMA IdleStep ==
  ASSUME SessionInv, TypeOK', UNCHANGED <<registryVars, pc, spid, login, audit>>
  PROVE  SessionInv'
BY DEF SessionInv, registryVars, ListInv, SpidInv, EntryInv, ReachInv, TrailInv, Info

-----------------------------------------------------------------------------
(* Every step of the server is one of those above. *)
LEMMA GoroutineStep ==
  ASSUME "audit_login" \notin Panics, SessionInv, TypeOK', NEW c \in Conn, Goroutine(c)
  PROVE  SessionInv'
<1> USE DEF Goto, Before, Serving, Over, PC
<1>1. CASE AuthAccept(c)    BY <1>1, PlainStep DEF AuthAccept
<1>2. CASE AuthReject(c)    BY <1>2, RefusedStep
<1>3. CASE SendLoginAck(c)  BY <1>3, PlainStep DEF SendLoginAck
<1>4. CASE Register(c)      BY <1>4, RegisterStep
<1>5. CASE AttachConn(c)    BY <1>5, AttachStep
<1>6. CASE AuditLogin(c)    BY <1>6, SignInStep
<1>7. CASE HookPanics(c)
  <2>1. CASE Goto(c, "authenticate", "close") /\ audit' = audit
    BY <1>7, <2>1, PlainStep DEF HookPanics
  <2>2. CASE Goto(c, "start", "remove") /\ audit' = audit
    BY <1>7, <2>2, PlainStep DEF HookPanics
  <2> QED  BY <1>7, <2>1, <2>2 DEF HookPanics
<1>8. CASE StartServe(c)     BY <1>8, PlainStep DEF StartServe
<1>9. CASE ReadMessage(c)    BY <1>9, PlainStep DEF ReadMessage
<1>10. CASE ReadFails(c)     BY <1>10, PlainStep DEF ReadFails
<1>11. CASE HandleSimple(c)
  <2>1. \E to \in {"read", "remove"} : Goto(c, "handle", to)
    BY <1>11 DEF HandleSimple, SendReply
  <2> QED  BY <1>11, <2>1, PlainStep DEF HandleSimple
<1>12. CASE TakeSnapshot(c)  BY <1>12, PlainStep DEF TakeSnapshot
<1>13. CASE FinishExec(c)
  <2>1. \E to \in {"read", "remove"} : Goto(c, "exec", to)
    BY <1>13 DEF FinishExec, SendReply
  <2> QED  BY <1>13, <2>1, PlainStep DEF FinishExec
<1>14. CASE RemoveSession(c)  BY <1>14, DelistStep
<1>15. CASE AuditLogout(c)    BY <1>15, SignOutStep
<1>16. CASE CloseConn(c)      BY <1>16, PlainStep DEF CloseConn
<1> QED  BY <1>1, <1>2, <1>3, <1>4, <1>5, <1>6, <1>7, <1>8, <1>9, <1>10, <1>11, <1>12, <1>13,
            <1>14, <1>15, <1>16 DEF Goroutine

(* No step of the handshake before registry.add touches the registry. *)
LEMMA HandshakeStep ==
  ASSUME SessionInv, TypeOK', NEW c \in Conn, Handshake(c)
  PROVE  SessionInv'
<1> USE DEF Goto, Before, Over, PC
<1>1. CASE Accept(c)          BY <1>1, PlainStep DEF Accept
<1>2. CASE HandshakeFails(c)  BY <1>2, PlainStep DEF HandshakeFails
<1>3. CASE ReadPrelogin(c)
  <2>1. \E to \in {"close", "tls", "login7"} : Goto(c, "prelogin", to)
    BY <1>3 DEF ReadPrelogin
  <2> QED  BY <1>3, <2>1, PlainStep DEF ReadPrelogin
<1>4. CASE TLSHandshake(c)    BY <1>4, PlainStep DEF TLSHandshake
<1>5. CASE ReadLogin7(c)      BY <1>5, PlainStep DEF ReadLogin7
<1> QED  BY <1>1, <1>2, <1>3, <1>4, <1>5 DEF Handshake

(* SessionInv is inductive. *)
LEMMA NextSession ==
  ASSUME "audit_login" \notin Panics, SessionInv, [Next]_vars
  PROVE  SessionInv'
<1>1. TypeOK'  BY NextTypeOK DEF SessionInv
<1>2. CASE Next
  <2>1. ASSUME NEW c \in Conn, Handshake(c) PROVE SessionInv'
    BY <1>1, <2>1, HandshakeStep
  <2>2. ASSUME NEW c \in Conn, Goroutine(c) PROVE SessionInv'
    BY <1>1, <2>2, GoroutineStep
  <2>3. ASSUME NEW c \in Conn, ClientSends(c) \/ ClientGoes(c) PROVE SessionInv'
    BY <1>1, <2>3, IdleStep DEF ClientSends, ClientGoes
  <2>4. ASSUME NEW k \in Closer, CloseSessions(k) PROVE SessionInv'
    BY <1>1, <2>4, IdleStep DEF CloseSessions, BeginClose, CloseNext, EndClose, connVars
  <2> QED  BY <1>2, <2>1, <2>2, <2>3, <2>4 DEF Next
<1>3. CASE UNCHANGED vars
  BY <1>1, <1>3, IdleStep DEF vars, connVars
<1> QED  BY <1>2, <1>3

(* SessionInv holds of every reachable state. *)
LEMMA SessionCorrect ==
  ASSUME "audit_login" \notin Panics
  PROVE  Spec => []SessionInv
BY InitSession, NextSession, PTL DEF Spec

-----------------------------------------------------------------------------
(* The DMVs enumerate exactly the connections between LOGIN7 and the end   *)
(* of their goroutine, under numbers of their own, and CloseSessions never *)
(* reaches one but through the entry of the live session it belongs to     *)
(* (registry.add, attach and the deferred remove), however the goroutines  *)
(* interleave.                                                             *)
THEOREM RegistryCorrect ==
  ASSUME "audit_login" \notin Panics
  PROVE  Spec => []RegistryIsLive
<1>1. SessionInv => SessionsAreLive
  <2> SUFFICES ASSUME SessionInv PROVE SessionsAreLive
    OBVIOUS
  <2> USE DEF SessionInv, Holders, Registered, Listed, Joining, Serving
  <2>1. \A c \in Holders : Info(c) \in sessions  BY DEF ListInv
  <2>2. \A s \in sessions : \E c \in Holders : s = Info(c)  BY DEF ListInv
  <2>3. \A c, d \in Holders : c # d => spid[c] # spid[d]  BY Types DEF SpidInv
  <2> QED  BY <2>1, <2>2, <2>3 DEF SessionsAreLive
<1>2. SessionInv => ConnsReachOwner
  <2> SUFFICES ASSUME SessionInv, NEW l \in conns
               PROVE  /\ l.info \in sessions
                      /\ l.info = Info(l.conn) /\ l.princ = login[l.conn]
                      /\ pc[l.conn] \in Registered
    BY DEF ConnsReachOwner
  <2>1. l.conn \in Conn  BY Types DEF SessionInv
  <2>2. /\ l.info = Info(l.conn) /\ l.princ = login[l.conn]
        /\ pc[l.conn] = "audit_login" \/ pc[l.conn] \in Serving
    BY DEF SessionInv, EntryInv
  <2>3. pc[l.conn] \in Listed /\ pc[l.conn] \in Registered
    BY <2>2 DEF Listed, Joining, Serving, Registered
  <2> QED  BY <2>1, <2>2, <2>3 DEF SessionInv, ListInv
<1>3. SessionInv => RegistryIsLive
  BY <1>1, <1>2 DEF RegistryIsLive
<1> QED  BY <1>3, SessionCorrect, PTL

(* A connection that is over and was signed in has its logout audited too  *)
(* (handle's deferred audit call).                                         *)
THEOREM AuditCorrect ==
  ASSUME "audit_login" \notin Panics
  PROVE  Spec => []AuditBalanced
<1>1. SessionInv => AuditBalanced
  <2> SUFFICES ASSUME SessionInv, NEW c \in Conn, pc[c] = "done"
               PROVE  Len(audit[c]) # 1 \/ ~audit[c][1].ok
    BY DEF AuditBalanced
  <2>1. audit[c] \in {<<>>, <<LoginBad>>, <<LoginOK, Logout>>}
    BY DEF SessionInv, TrailInv, Over
  <2> QED  BY <2>1 DEF LoginBad, Ledger!LoginBad
<1> QED  BY <1>1, SessionCorrect, PTL

-----------------------------------------------------------------------------
(* What a step may do to the registry, the numbers and the audit trail.    *)
LEMMA StepKinds ==
  ASSUME "audit_login" \notin Panics, [Next]_vars
  PROVE  \/ UNCHANGED <<registryVars, spid, login, audit>>
         \/ \E c \in Conn : \/ AuthReject(c) \/ Register(c) \/ AttachConn(c)
                            \/ AuditLogin(c) \/ RemoveSession(c) \/ AuditLogout(c)
<1>1. ASSUME NEW c \in Conn, Handshake(c) PROVE UNCHANGED <<registryVars, spid, login, audit>>
  BY <1>1 DEF Handshake, Accept, HandshakeFails, ReadPrelogin, TLSHandshake, ReadLogin7
<1>2. ASSUME NEW c \in Conn, Goroutine(c)
      PROVE  \/ UNCHANGED <<registryVars, spid, login, audit>>
             \/ AuthReject(c) \/ Register(c) \/ AttachConn(c)
             \/ AuditLogin(c) \/ RemoveSession(c) \/ AuditLogout(c)
  BY <1>2 DEF Goroutine, AuthAccept, SendLoginAck, HookPanics, StartServe, ReadMessage, ReadFails,
              HandleSimple, TakeSnapshot, FinishExec, CloseConn
<1>3. ASSUME NEW c \in Conn, ClientSends(c) \/ ClientGoes(c)
      PROVE  UNCHANGED <<registryVars, spid, login, audit>>
  BY <1>3 DEF ClientSends, ClientGoes
<1>4. ASSUME NEW k \in Closer, CloseSessions(k)
      PROVE  UNCHANGED <<registryVars, spid, login, audit>>
  BY <1>4 DEF CloseSessions, BeginClose, CloseNext, EndClose, connVars
<1>5. UNCHANGED vars => UNCHANGED <<registryVars, spid, login, audit>>
  BY DEF vars, connVars
<1> QED  BY <1>1, <1>2, <1>3, <1>4, <1>5 DEF Next

(* Every step is a step of the ledger or leaves it alone. *)
LEMMA LedgerStep ==
  ASSUME "audit_login" \notin Panics, SessionInv, SessionInv', [Next]_vars
  PROVE  [Ledger!Next]_(Ledger!ledgerVars)
<1> USE Types DEF SessionInv
<1> DEFINE listed == {c \in Conn : Info(c) \in sessions}
           reachable == {l.conn : l \in conns}
<1>1. CASE UNCHANGED <<registryVars, spid, login, audit>>
  BY <1>1 DEF registryVars, Ledger!ledgerVars, Info
<1>2. ASSUME NEW c \in Conn, AuthReject(c) PROVE Ledger!Refuse(c)
  <2>1. /\ UNCHANGED <<nextSPID, sessions, conns, spid, login>>
        /\ pc[c] = "authenticate"
        /\ audit' = [audit EXCEPT ![c] = Append(audit[c], LoginBad)]
    BY <1>2 DEF AuthReject, Goto, Audited, registryVars, LoginBad, Ledger!LoginBad
  <2>2. spid[c] = 0 /\ audit[c] = <<>>  BY <2>1 DEF SpidInv, TrailInv, Before
  <2>3. Append(audit[c], LoginBad) = <<LoginBad>>  BY <2>2
  <2>4. listed' = listed  BY <2>1 DEF Info
  <2> QED  BY <2>1, <2>2, <2>3, <2>4 DEF Ledger!Refuse, LoginBad
<1>3. ASSUME NEW c \in Conn, Register(c) PROVE Ledger!Enlist(c)
  <2>1. /\ UNCHANGED <<conns, login, audit>>
        /\ pc[c] = "register"
        /\ spid' = [spid EXCEPT ![c] = nextSPID]
        /\ sessions' = sessions \cup {[spid |-> nextSPID, login |-> login[c]]}
    BY <1>3 DEF Register, Goto, Add, NewInfo
  <2>2. spid[c] = 0 /\ audit[c] = <<>>  BY <2>1 DEF SpidInv, TrailInv, Before
  <2>3. \A d \in Conn : spid[d] < nextSPID  BY DEF SpidInv
  <2>4. Info(c)' \in sessions'  BY <2>1 DEF Info
  <2>5. \A d \in Conn : d # c => (Info(d)' \in sessions' <=> Info(d) \in sessions)
    BY <2>1, <2>3 DEF Info
  <2>6. listed' = listed \cup {c}  BY <2>4, <2>5
  <2>7. spid'[c] = nextSPID /\ spid' = [spid EXCEPT ![c] = spid'[c]]  BY <2>1
  <2> QED  BY <2>1, <2>2, <2>3, <2>6, <2>7 DEF Ledger!Enlist
<1>4. ASSUME NEW c \in Conn, AttachConn(c) PROVE Ledger!BecomeReachable(c)
  <2>1. UNCHANGED <<nextSPID, sessions, spid, login, audit>> /\ pc[c] = "attach"
    BY <1>4 DEF AttachConn, Goto, Attach
  <2>2. Info(c) \in sessions /\ audit[c] = <<>>
    BY <2>1 DEF ListInv, TrailInv, Listed, Joining
  <2>3. \A l \in conns : l.info.spid # spid[c]
    <3> SUFFICES ASSUME NEW l \in conns PROVE l.info.spid # spid[c]
      OBVIOUS
    <3>1. l.conn # c /\ l.conn \in Conn  BY <2>1 DEF EntryInv, Serving
    <3>2. l.info.spid = spid[l.conn]  BY EntrySpid
    <3>3. spid[c] > 0  BY <2>1 DEF SpidInv, Listed, Joining
    <3> QED  BY <3>1, <3>2, <3>3 DEF SpidInv
  <2> DEFINE new == [info |-> Info(c), conn |-> c, princ |-> login[c]]
  <2>4. conns' = conns \cup {new}
    BY <1>4, <2>2, <2>3 DEF AttachConn, Attach, Info
  <2>5. reachable' = reachable \cup {c}
    <3>1. new.conn = c  OBVIOUS
    <3> HIDE DEF new
    <3>2. {l.conn : l \in conns \cup {new}} = {l.conn : l \in conns} \cup {new.conn}
      OBVIOUS
    <3> QED  BY <2>4, <3>1, <3>2
  <2>6. listed' = listed  BY <2>1 DEF Info
  <2> QED  BY <2>1, <2>2, <2>5, <2>6 DEF Ledger!BecomeReachable
<1>5. ASSUME NEW c \in Conn, AuditLogin(c) PROVE Ledger!SignIn(c)
  <2>1. /\ UNCHANGED <<nextSPID, sessions, conns, spid, login>>
        /\ pc[c] = "audit_login"
        /\ audit' = [audit EXCEPT ![c] = Append(audit[c], LoginOK)]
    BY <1>5 DEF AuditLogin, Goto, Audited, registryVars, LoginOK, Ledger!LoginOK
  <2>2. audit[c] = <<>> /\ c \in reachable  BY <2>1 DEF TrailInv, Joining, ReachInv
  <2>3. Append(audit[c], LoginOK) = <<LoginOK>>  BY <2>2
  <2>4. listed' = listed  BY <2>1 DEF Info
  <2> QED  BY <2>1, <2>2, <2>3, <2>4 DEF Ledger!SignIn, LoginOK
<1>6. ASSUME NEW c \in Conn, RemoveSession(c) PROVE Ledger!Delist(c)
  <2>1. /\ UNCHANGED <<nextSPID, spid, login, audit>>
        /\ pc[c] = "remove"
        /\ sessions' = {s \in sessions : s.spid # spid[c]}
        /\ conns' = {l \in conns : l.info.spid # spid[c]}
    BY <1>6 DEF RemoveSession, Goto, Remove
  <2>2. Info(c) \in sessions /\ audit[c] = <<LoginOK>> /\ spid[c] > 0
    BY <2>1 DEF ListInv, TrailInv, SpidInv, Listed, Serving
  <2>3. \A d \in Conn : d # c => spid[d] # spid[c]  BY <2>2 DEF SpidInv
  <2>4. listed' = listed \ {c}  BY <2>1, <2>3 DEF Info
  <2>5. \A l \in conns : l.info.spid = spid[l.conn] /\ l.conn \in Conn  BY EntrySpid
  <2>6. reachable' = reachable \ {c}  BY <2>1, <2>3, <2>5
  <2> QED  BY <2>1, <2>2, <2>4, <2>6 DEF Ledger!Delist, LoginOK
<1>7. ASSUME NEW c \in Conn, AuditLogout(c) PROVE Ledger!SignOut(c)
  <2>1. /\ UNCHANGED <<nextSPID, sessions, conns, spid, login>>
        /\ pc[c] = "audit_logout"
        /\ audit' = [audit EXCEPT ![c] = Append(audit[c], Logout)]
    BY <1>7 DEF AuditLogout, Goto, Audited, registryVars, Logout, Ledger!Logout
  <2>2. audit[c] = <<LoginOK>>  BY <2>1 DEF TrailInv
  <2>3. Append(audit[c], Logout) = <<LoginOK, Logout>>  BY <2>2, PairOf
  <2>4. Info(c) \notin sessions
    <3> SUFFICES ASSUME Info(c) \in sessions PROVE FALSE
      OBVIOUS
    <3>1. PICK d \in Conn : pc[d] \in Listed /\ Info(c) = Info(d)  BY DEF ListInv
    <3>2. spid[c] = spid[d]  BY <3>1 DEF Info
    <3>3. d # c  BY <2>1, <3>1 DEF Listed, Joining, Serving
    <3> QED  BY <3>1, <3>2, <3>3 DEF SpidInv
  <2>5. listed' = listed  BY <2>1 DEF Info
  <2> QED  BY <2>1, <2>2, <2>3, <2>4, <2>5 DEF Ledger!SignOut, LoginOK, Logout
<1> QED  BY <1>1, <1>2, <1>3, <1>4, <1>5, <1>6, <1>7, StepKinds DEF Ledger!Next

(* The server implements the ledger: listed under a fresh number, attached,*)
(* audited as signed in, out of both tables at once, audited as signed out *)
(* last, for every connection and every interleaving.                      *)
THEOREM LedgerCorrect ==
  ASSUME "audit_login" \notin Panics
  PROVE  Spec => LedgerKept
<1>1. Init => Ledger!Init
  BY DEF Init, RegistryInit, Ledger!Init
<1> QED  BY <1>1, LedgerStep, SessionCorrect, PTL DEF Spec, LedgerKept, Ledger!Spec

-----------------------------------------------------------------------------
(***************************************************************************)
(* What CloseSessions ends, and whom a statement may see.                  *)
(*                                                                         *)
(* CloseSessions works on a copy of the registry.  The proof rests on what *)
(* stays true of a copied entry whatever its connection does meanwhile: it *)
(* names the connection, and that connection's login and number are final. *)
(***************************************************************************)

(* Where a goroutine is once its login and its number are final. *)
Final == {"audit_login", "audit_logout"} \cup Serving \cup Over

(* The entries a call still has to look at are those of connections, under *)
(* their final number; a matching connection it owes an end is closed and  *)
(* counted, or still to come; and only those are counted.                  *)
TodoInv(k) ==
  \A l \in closer[k].todo :
    /\ l.conn \in Conn /\ pc[l.conn] \in Final
    /\ l.princ = login[l.conn] /\ l.info.spid = spid[l.conn]
    /\ l.princ = Target[k] => l.conn \in owed[k].attached

OwedInv(k) ==
  \A c \in owed[k].attached :
    /\ c \in Conn /\ pc[c] \in Final
    /\ \/ sock[c] = "closed" /\ \E i \in closer[k].ended : i.spid = spid[c]
       \/ \E l \in closer[k].todo : l.conn = c /\ l.princ = Target[k]

EndedInv(k) ==
  \A i \in closer[k].ended : \E c \in owed[k].attached : i.spid = spid[c]

CloseInv ==
  \A k \in Closer :
    /\ TodoInv(k) /\ OwedInv(k) /\ EndedInv(k)
    /\ closer[k].at = "returned" => closer[k].todo = {}

(* A final login and number stay, and a closed connection stays closed.    *)
LEMMA FinalStays ==
  ASSUME TypeOK, [Next]_vars
  PROVE  \A c \in Conn :
           /\ pc[c] \in Final => pc'[c] \in Final /\ spid'[c] = spid[c]
           /\ login'[c] = login[c]
           /\ sock[c] = "closed" => sock'[c] = "closed"
<1> USE DEF Goto
<1>1. pc \in [Conn -> PC] /\ spid \in [Conn -> Nat] /\ sock \in [Conn -> {"open", "closed"}]
  BY DEF TypeOK
<1>2. ASSUME NEW c \in Conn, Handshake(c) \/ Goroutine(c)
      PROVE  /\ login' = login
             /\ \E to \in PC : pc' = [pc EXCEPT ![c] = to] /\ (pc[c] \in Final => to \in Final)
             /\ \/ spid' = spid
                \/ pc[c] = "register" /\ spid' = [spid EXCEPT ![c] = nextSPID]
             /\ sock' = sock \/ sock' = [sock EXCEPT ![c] = "closed"]
  BY <1>2 DEF Handshake, Accept, HandshakeFails, ReadPrelogin, TLSHandshake, ReadLogin7,
              Goroutine, AuthAccept, AuthReject, SendLoginAck, Register, AttachConn, AuditLogin,
              HookPanics, StartServe, ReadMessage, ReadFails, HandleSimple, TakeSnapshot,
              FinishExec, RemoveSession, AuditLogout, CloseConn, SendReply, Final, Serving, Over, PC
<1>3. ASSUME NEW c \in Conn, ClientSends(c) \/ ClientGoes(c)
      PROVE  UNCHANGED <<pc, spid, login, sock>>
  BY <1>3 DEF ClientSends, ClientGoes
<1>4. ASSUME NEW k \in Closer, CloseSessions(k)
      PROVE  UNCHANGED <<pc, spid, login>>
             /\ (sock' = sock \/ \E d : sock' = [sock EXCEPT ![d] = "closed"])
  BY <1>4 DEF CloseSessions, BeginClose, CloseNext, EndClose, connVars
<1>5. UNCHANGED vars => UNCHANGED <<pc, spid, login, sock>>
  BY DEF vars, connVars
<1>6. ASSUME NEW c \in Conn, Handshake(c) \/ Goroutine(c), NEW d \in Conn
      PROVE  /\ pc[d] \in Final => pc'[d] \in Final /\ spid'[d] = spid[d]
             /\ login'[d] = login[d]
             /\ sock[d] = "closed" => sock'[d] = "closed"
  BY <1>1, <1>2, <1>6 DEF Final, Serving, Over
<1> QED  BY <1>1, <1>3, <1>4, <1>5, <1>6 DEF Next

(* No call of CloseSessions has begun. *)
LEMMA InitClose == Init => CloseInv
BY DEF Init, CloseInv, TodoInv, OwedInv, EndedInv

(* What others do between two steps of a call leaves its account right. *)
LEMMA OthersKeepClose ==
  ASSUME SessionInv, CloseInv, [Next]_vars, NEW k \in Closer,
         closer'[k] = closer[k], owed'[k] = owed[k]
  PROVE  /\ TodoInv(k)' /\ OwedInv(k)' /\ EndedInv(k)'
         /\ closer'[k].at = "returned" => closer'[k].todo = {}
<1>1. \A c \in Conn :
        /\ pc[c] \in Final => pc'[c] \in Final /\ spid'[c] = spid[c]
        /\ login'[c] = login[c]
        /\ sock[c] = "closed" => sock'[c] = "closed"
  BY FinalStays DEF SessionInv
<1>2. TodoInv(k) /\ OwedInv(k) /\ EndedInv(k)
  BY DEF CloseInv
<1>3. TodoInv(k)'   BY <1>1, <1>2 DEF TodoInv
<1>4. OwedInv(k)'   BY <1>1, <1>2 DEF OwedInv
<1>5. EndedInv(k)'  BY <1>1, <1>2 DEF EndedInv, OwedInv
<1>6. closer'[k].at = "returned" => closer'[k].todo = {}
  BY DEF CloseInv
<1> QED  BY <1>3, <1>4, <1>5, <1>6

(* The copy of conns a call starts from covers what it owes. *)
LEMMA BeginKeepsClose ==
  ASSUME SessionInv, CloseInv, NEW k \in Closer, BeginClose(k)
  PROVE  /\ TodoInv(k)' /\ OwedInv(k)' /\ EndedInv(k)'
         /\ closer'[k].at = "returned" => closer'[k].todo = {}
<1> DEFINE due == {c \in Conn : \E l \in conns : l.conn = c /\ l.princ = Target[k]}
<1>1. UNCHANGED <<pc, spid, login, sock>>
  BY DEF BeginClose, connVars
<1>2. closer'[k] = [at |-> "closing", todo |-> conns, ended |-> {}] /\ owed'[k].attached = due
  BY DEF BeginClose, Live, SessionInv, TypeOK
<1>3. \A l \in conns : /\ l.conn \in Conn /\ pc[l.conn] \in Final
                       /\ l.princ = login[l.conn] /\ l.info.spid = spid[l.conn]
  BY Types, EntrySpid DEF SessionInv, EntryInv, Final
<1>4. TodoInv(k)'   BY <1>1, <1>2, <1>3 DEF TodoInv
<1>5. OwedInv(k)'
  <2>1. \A c \in due : c \in Conn /\ pc[c] \in Final /\ \E l \in conns : l.conn = c /\ l.princ = Target[k]
    BY <1>3
  <2> HIDE DEF due
  <2> QED  BY <1>1, <1>2, <2>1 DEF OwedInv
<1>6. EndedInv(k)'  BY <1>2 DEF EndedInv
<1> QED  BY <1>2, <1>4, <1>5, <1>6

(* One step of the walk moves an entry from todo to ended. *)
LEMMA NextKeepsClose ==
  ASSUME SessionInv, CloseInv, NEW k \in Closer, CloseNext(k)
  PROVE  /\ TodoInv(k)' /\ OwedInv(k)' /\ EndedInv(k)'
         /\ closer'[k].at = "returned" => closer'[k].todo = {}
<1> DEFINE ck(l) == [at |-> "closing", todo |-> closer[k].todo \ {l},
                     ended |-> closer[k].ended
                                 \cup (IF l.princ = Target[k] THEN {l.info} ELSE {})]
<1>1. PICK l \in closer[k].todo :
        /\ closer' = [closer EXCEPT ![k] = ck(l)]
        /\ sock' = IF l.princ = Target[k] THEN [sock EXCEPT ![l.conn] = "closed"] ELSE sock
  BY DEF CloseNext
<1>2. UNCHANGED <<pc, spid, login, owed>>
  BY DEF CloseNext
<1>3. /\ closer'[k].at = "closing" /\ closer'[k].todo = closer[k].todo \ {l}
      /\ l.princ = Target[k] => closer'[k].ended = closer[k].ended \cup {l.info}
      /\ l.princ # Target[k] => closer'[k].ended = closer[k].ended
  <2>1. closer'[k] = ck(l)  BY <1>1 DEF SessionInv, TypeOK
  <2> QED  BY <2>1
<1>4. TodoInv(k) /\ OwedInv(k) /\ EndedInv(k)
  BY DEF CloseInv
<1>5. /\ l.conn \in Conn /\ l.princ = login[l.conn] /\ l.info.spid = spid[l.conn]
      /\ l.princ = Target[k] => l.conn \in owed[k].attached
  BY <1>4 DEF TodoInv
<1>6. \A c \in Conn : /\ sock[c] = "closed" => sock'[c] = "closed"
                      /\ c = l.conn /\ l.princ = Target[k] => sock'[c] = "closed"
  BY <1>1 DEF SessionInv, TypeOK
<1>7. TodoInv(k)'   BY <1>2, <1>3, <1>4 DEF TodoInv
<1>8. OwedInv(k)'
  <2> SUFFICES ASSUME NEW c \in owed[k].attached
               PROVE  /\ c \in Conn /\ pc[c] \in Final
                      /\ \/ sock'[c] = "closed" /\ \E i \in closer'[k].ended : i.spid = spid[c]
                         \/ \E m \in closer'[k].todo : m.conn = c /\ m.princ = Target[k]
    BY <1>2 DEF OwedInv
  <2>1. c \in Conn /\ pc[c] \in Final  BY <1>4 DEF OwedInv
  <2>2. CASE sock[c] = "closed" /\ \E i \in closer[k].ended : i.spid = spid[c]
    BY <1>3, <1>6, <2>1, <2>2
  <2>3. CASE \E m \in closer[k].todo : m.conn = c /\ m.princ = Target[k]
    <3>1. PICK m \in closer[k].todo : m.conn = c /\ m.princ = Target[k]  BY <2>3
    <3>2. CASE m = l  BY <1>3, <1>5, <1>6, <2>1, <3>1, <3>2
    <3>3. CASE m # l  BY <1>3, <2>1, <3>1, <3>3
    <3> QED  BY <3>2, <3>3
  <2> QED  BY <1>4, <2>2, <2>3 DEF OwedInv
<1>9. EndedInv(k)'  BY <1>2, <1>3, <1>4, <1>5 DEF EndedInv
<1> QED  BY <1>3, <1>7, <1>8, <1>9

(* Returning changes no account. *)
LEMMA EndKeepsClose ==
  ASSUME SessionInv, CloseInv, NEW k \in Closer, EndClose(k)
  PROVE  /\ TodoInv(k)' /\ OwedInv(k)' /\ EndedInv(k)'
         /\ closer'[k].at = "returned" => closer'[k].todo = {}
<1>1. UNCHANGED <<pc, spid, login, sock, owed>>
  BY DEF EndClose, connVars
<1>2. /\ closer'[k].todo = closer[k].todo /\ closer'[k].ended = closer[k].ended
      /\ closer[k].todo = {}
  BY DEF EndClose, SessionInv, TypeOK
<1>3. TodoInv(k) /\ OwedInv(k) /\ EndedInv(k)
  BY DEF CloseInv
<1> QED  BY <1>1, <1>2, <1>3 DEF TodoInv, OwedInv, EndedInv

(* CloseInv is inductive, given the invariant of the sessions. *)
LEMMA NextClose ==
  ASSUME SessionInv, CloseInv, [Next]_vars
  PROVE  CloseInv'
<1> SUFFICES ASSUME NEW k \in Closer
             PROVE  /\ TodoInv(k)' /\ OwedInv(k)' /\ EndedInv(k)'
                    /\ closer'[k].at = "returned" => closer'[k].todo = {}
  BY DEF CloseInv
<1>1. CASE closer'[k] = closer[k] /\ owed'[k] = owed[k]
  BY <1>1, OthersKeepClose
<1>2. CASE CloseSessions(k)
  BY <1>2, BeginKeepsClose, NextKeepsClose, EndKeepsClose DEF CloseSessions
<1>3. ASSUME NEW m \in Closer, CloseSessions(m), m # k
      PROVE  closer'[k] = closer[k] /\ owed'[k] = owed[k]
  BY <1>3 DEF CloseSessions, BeginClose, CloseNext, EndClose, SessionInv, TypeOK
<1>4. ASSUME NEW c \in Conn, Handshake(c) \/ Goroutine(c) \/ ClientSends(c) \/ ClientGoes(c)
      PROVE  UNCHANGED closerVars
  BY <1>4 DEF Handshake, Accept, HandshakeFails, ReadPrelogin, TLSHandshake, ReadLogin7,
              Goroutine, AuthAccept, AuthReject, SendLoginAck, Register, AttachConn, AuditLogin,
              HookPanics, StartServe, ReadMessage, ReadFails, HandleSimple, TakeSnapshot,
              FinishExec, RemoveSession, AuditLogout, CloseConn, ClientSends, ClientGoes
<1> QED  BY <1>1, <1>2, <1>3, <1>4 DEF Next, vars, closerVars

(* Both invariants hold of every reachable state. *)
LEMMA CloseAccount ==
  ASSUME "audit_login" \notin Panics
  PROVE  Spec => [](SessionInv /\ CloseInv)
BY SessionCorrect, InitClose, NextClose, PTL DEF Spec

(* When CloseSessions returns, the connection of every matching session    *)
(* that was attached when it read the registry is closed, and the sessions *)
(* it reports are exactly those.                                           *)
THEOREM CloseCorrect ==
  ASSUME "audit_login" \notin Panics
  PROVE  Spec => []CloseEndsAttached
<1>1. CloseInv => CloseEndsAttached
  <2> SUFFICES ASSUME CloseInv, NEW k \in Closer, closer[k].at = "returned"
               PROVE  /\ \A c \in owed[k].attached : sock[c] = "closed"
                      /\ {i.spid : i \in closer[k].ended} = {spid[c] : c \in owed[k].attached}
    BY DEF CloseEndsAttached
  <2>1. closer[k].todo = {} /\ OwedInv(k) /\ EndedInv(k)  BY DEF CloseInv
  <2>2. \A c \in owed[k].attached : sock[c] = "closed" /\ \E i \in closer[k].ended : i.spid = spid[c]
    BY <2>1 DEF OwedInv
  <2> QED  BY <2>1, <2>2 DEF EndedInv
<1> QED  BY <1>1, CloseAccount, PTL

(* The server closes a connection that is still in use only when a caller  *)
(* of CloseSessions selects its login.                                     *)
THEOREM OnlyMatchingCorrect ==
  ASSUME "audit_login" \notin Panics
  PROVE  Spec => OnlyMatchingClosed
<1>1. ASSUME SessionInv, CloseInv, [Next]_vars,
             NEW c \in Conn, sock[c] = "open", sock'[c] = "closed"
      PROVE  pc[c] = "close" \/ \E k \in Closer : Target[k] = login[c]
  <2>1. ASSUME NEW d \in Conn, Handshake(d) \/ Goroutine(d) \/ ClientSends(d) \/ ClientGoes(d)
        PROVE  pc[c] = "close"
    <3>1. sock' = sock \/ (pc[d] = "close" /\ sock' = [sock EXCEPT ![d] = "closed"])
      BY <2>1 DEF Handshake, Accept, HandshakeFails, ReadPrelogin, TLSHandshake, ReadLogin7,
                  Goroutine, AuthAccept, AuthReject, SendLoginAck, Register, AttachConn, AuditLogin,
                  HookPanics, StartServe, ReadMessage, ReadFails, HandleSimple, TakeSnapshot,
                  FinishExec, RemoveSession, AuditLogout, CloseConn, ClientSends, ClientGoes, Goto
    <3> QED  BY <1>1, <3>1 DEF SessionInv, TypeOK
  <2>2. ASSUME NEW k \in Closer, CloseSessions(k) PROVE Target[k] = login[c]
    <3>1. CloseNext(k)
      BY <1>1, <2>2 DEF CloseSessions, BeginClose, EndClose, connVars
    <3>2. PICK l \in closer[k].todo :
            sock' = IF l.princ = Target[k] THEN [sock EXCEPT ![l.conn] = "closed"] ELSE sock
      BY <3>1 DEF CloseNext
    <3>3. l.princ = login[l.conn] /\ l.conn \in Conn  BY <1>1 DEF CloseInv, TodoInv
    <3> QED  BY <1>1, <3>2, <3>3 DEF SessionInv, TypeOK
  <2> QED  BY <1>1, <2>1, <2>2 DEF Next, vars, connVars
<1>2. SessionInv /\ CloseInv /\ [Next]_vars =>
        [\A c \in Conn : sock[c] = "open" /\ sock'[c] = "closed" =>
           pc[c] = "close" \/ \E k \in Closer : Target[k] = login[c]]_vars
  BY <1>1
<1> QED  BY <1>2, CloseAccount, PTL DEF Spec, OnlyMatchingClosed

-----------------------------------------------------------------------------
(* A running statement sees its own session and, unless SessionVisibility  *)
(* said so, nobody else's (snapshot and ownSession against concurrent      *)
(* logins and logouts).                                                    *)
Sees(c) == Info(c) \in visible[c] /\ (visible[c] # {Info(c)} => seeAll[c])

(* snapshot, or ownSession of it, has the caller's own session. *)
LEMMA SnapshotStep ==
  ASSUME SessionInv, NEW c \in Conn, TakeSnapshot(c)
  PROVE  Sees(c)'
<1>1. pc[c] = "handle" /\ UNCHANGED <<spid, login, seeAll>>
  BY DEF TakeSnapshot, Goto
<1>2. Info(c) \in sessions
  BY <1>1 DEF SessionInv, ListInv, Listed, Serving
<1>3. visible'[c] = IF seeAll[c] THEN sessions ELSE OwnSession(Info(c), sessions)
  BY DEF TakeSnapshot, Snapshot, SessionInv, TypeOK
<1>4. OwnSession(Info(c), sessions) = {Info(c)}
  <2> SUFFICES ASSUME NEW s \in sessions, s.spid = Info(c).spid PROVE s = Info(c)
    BY <1>2 DEF OwnSession
  <2>1. PICK d \in Conn : pc[d] \in Listed /\ s = Info(d)  BY DEF SessionInv, ListInv
  <2>2. spid[d] = spid[c] /\ spid[d] > 0  BY <2>1 DEF Info, SessionInv, SpidInv
  <2>3. d = c  BY <2>2 DEF SessionInv, SpidInv
  <2> QED  BY <2>1, <2>3
<1>5. Info(c)' = Info(c) /\ seeAll'[c] = seeAll[c]
  BY <1>1 DEF Info
<1>6. CASE seeAll[c]   BY <1>2, <1>3, <1>5, <1>6 DEF Sees
<1>7. CASE ~seeAll[c]  BY <1>3, <1>4, <1>5, <1>7 DEF Sees
<1> QED  BY <1>6, <1>7

(* Between two snapshots what a statement sees and who it is do not change. *)
LEMMA SeesStays ==
  ASSUME SessionInv, [Next]_vars, NEW c \in Conn, ~TakeSnapshot(c), pc'[c] = "exec"
  PROVE  /\ pc[c] = "exec"
         /\ spid'[c] = spid[c] /\ login'[c] = login[c]
         /\ visible'[c] = visible[c] /\ seeAll'[c] = seeAll[c]
<1> USE DEF Goto
<1>1. /\ pc \in [Conn -> PC] /\ spid \in [Conn -> Nat] /\ login \in [Conn -> User]
      /\ visible \in [Conn -> SUBSET SessionInfo] /\ seeAll \in [Conn -> BOOLEAN]
  BY DEF SessionInv, TypeOK
<1>2. ASSUME NEW d \in Conn, Handshake(d) \/ (Goroutine(d) /\ ~TakeSnapshot(d))
      PROVE  \E to \in PC \ {"exec"} : pc' = [pc EXCEPT ![d] = to]
  BY <1>2 DEF Handshake, Accept, HandshakeFails, ReadPrelogin, TLSHandshake, ReadLogin7,
              Goroutine, AuthAccept, AuthReject, SendLoginAck, Register, AttachConn, AuditLogin,
              HookPanics, StartServe, ReadMessage, ReadFails, HandleSimple,
              FinishExec, RemoveSession, AuditLogout, CloseConn, SendReply, PC
<1>3. ASSUME NEW d \in Conn, Handshake(d) \/ Goroutine(d), d # c
      PROVE  /\ pc'[c] = pc[c] /\ spid'[c] = spid[c] /\ login'[c] = login[c]
             /\ visible'[c] = visible[c] /\ seeAll'[c] = seeAll[c]
  BY <1>1, <1>3
     DEF Handshake, Accept, HandshakeFails, ReadPrelogin, TLSHandshake, ReadLogin7,
         Goroutine, AuthAccept, AuthReject, SendLoginAck, Register, AttachConn, AuditLogin,
         HookPanics, StartServe, ReadMessage, ReadFails, HandleSimple, TakeSnapshot,
         FinishExec, RemoveSession, AuditLogout, CloseConn, SendReply
<1>4. ASSUME NEW d \in Conn, ClientSends(d) \/ ClientGoes(d)
      PROVE  UNCHANGED <<pc, spid, login, visible, seeAll>>
  BY <1>4 DEF ClientSends, ClientGoes
<1>5. ASSUME NEW k \in Closer, CloseSessions(k)
      PROVE  UNCHANGED <<pc, spid, login, visible, seeAll>>
  BY <1>5 DEF CloseSessions, BeginClose, CloseNext, EndClose, connVars
<1>6. UNCHANGED vars => UNCHANGED <<pc, spid, login, visible, seeAll>>
  BY DEF vars, connVars
<1>7. ~(Handshake(c) \/ Goroutine(c))
  BY <1>1, <1>2
<1> QED  BY <1>3, <1>4, <1>5, <1>6, <1>7 DEF Next

(* A running statement sees its own session and, without the privilege,    *)
(* nobody else's, whoever logs in or out meanwhile.                        *)
THEOREM VisibilityCorrect ==
  ASSUME "audit_login" \notin Panics
  PROVE  Spec => []VisibilityRespected
<1>1. Init => VisibilityRespected
  BY DEF Init, VisibilityRespected
<1>2. SessionInv /\ VisibilityRespected /\ [Next]_vars => VisibilityRespected'
  <2> SUFFICES ASSUME SessionInv, VisibilityRespected, [Next]_vars,
                      NEW c \in Conn, pc'[c] = "exec"
               PROVE  Sees(c)'
    BY DEF VisibilityRespected, Sees
  <2>1. CASE TakeSnapshot(c)   BY <2>1, SnapshotStep
  <2>2. CASE ~TakeSnapshot(c)
    <3>1. /\ pc[c] = "exec"
          /\ spid'[c] = spid[c] /\ login'[c] = login[c]
          /\ visible'[c] = visible[c] /\ seeAll'[c] = seeAll[c]
      BY <2>2, SeesStays
    <3>2. Sees(c)  BY <3>1 DEF VisibilityRespected, Sees
    <3> QED  BY <3>1, <3>2 DEF Sees, Info
  <2> QED  BY <2>1, <2>2
<1> QED  BY <1>1, <1>2, SessionCorrect, PTL DEF Spec
=============================================================================
