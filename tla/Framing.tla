------------------------------- MODULE Framing -------------------------------
(***************************************************************************)
(* internal/wire/framing.go: one direction of a connection.  WriteMessage  *)
(* cuts a message into packets of PacketSize (header and body, written     *)
(* with one Write each), the byte stream carries them, and ReadMessage     *)
(* puts them together again, one io.ReadFull at a time.                    *)
(*                                                                         *)
(* The stream is a sequence of headers and payload bytes.  A connection    *)
(* that dies may lose any part of what was not read yet, from some byte    *)
(* on, also in the middle of a packet.                                     *)
(***************************************************************************)
EXTENDS Integers, Sequences

CONSTANTS
  Type,         \* packet types
  Payload,      \* payloads of the messages sent
  Byte,         \* what payloads are made of
  HeaderSize,   \* headerSize (8)
  PacketSize,   \* WriteMessage's packetSize
  DefaultSize,  \* DefaultPacketSize (4096), for a packetSize with no room for a body
  Width,        \* lengths are uint16: 2^16
  PidWidth,     \* packet ids are bytes: 2^8
  MaxSent       \* bound: messages sent

ASSUME FramingAssumption ==
  /\ Type # {} /\ Payload \subseteq Seq(Byte)
  /\ HeaderSize \in Nat \ {0} /\ DefaultSize \in Nat /\ DefaultSize > HeaderSize
  /\ PacketSize \in Nat /\ PidWidth \in Nat \ {0, 1}
  /\ Width \in Nat /\ Width > PacketSize /\ Width > DefaultSize
  /\ MaxSent \in Nat

MaxBody == (IF PacketSize <= HeaderSize THEN DefaultSize ELSE PacketSize) - HeaderSize

Message == [type : Type, payload : Payload]
Header  == [type : Type, eom : BOOLEAN, length : 0..(Width - 1), pid : 0..(PidWidth - 1)]

(* A header and a payload byte are different items of the stream: which it *)
(* is follows from its place, and here also from its shape.                *)
ASSUME ItemAssumption == \A b \in Byte : b \notin Header

VARIABLES
  writer,   \* WriteMessage: what it does next, the message's type, the rest of its payload, pid
  stream,   \* headers and bytes written and not yet read
  up,       \* the connection is alive
  reader,   \* ReadMessage: what it reads next and what it has assembled
  sent,     \* history: the messages WriteMessage was called with
  got       \* the messages ReadMessage returned

vars == <<writer, stream, up, reader, sent, got>>

NoHeader == [eom |-> FALSE, length |-> HeaderSize]
ReaderStart == [at |-> "header", first |-> TRUE, type |-> CHOOSE t \in Type : TRUE,
                payload |-> <<>>, hdr |-> NoHeader]

Init ==
  /\ writer = [at |-> "idle", type |-> CHOOSE t \in Type : TRUE, rest |-> <<>>, pid |-> 1]
  /\ stream = <<>>
  /\ up = TRUE
  /\ reader = ReaderStart
  /\ sent = <<>> /\ got = <<>>

-----------------------------------------------------------------------------
(* WriteMessage *)

Chunk == SubSeq(writer.rest, 1, IF Len(writer.rest) > MaxBody THEN MaxBody ELSE Len(writer.rest))
IsLast == Len(writer.rest) <= MaxBody

BeginWrite ==
  /\ writer.at = "idle" /\ Len(sent) < MaxSent
  /\ \E m \in Message :
       /\ sent' = Append(sent, m)
       /\ writer' = [at |-> "header", type |-> m.type, rest |-> m.payload, pid |-> 1]
  /\ UNCHANGED <<stream, up, reader, got>>

(* A bug: a length one too large. *)
BugHeaderLength ==
  /\ writer.at = "header" /\ up
  /\ stream' = Append(stream, [type |-> writer.type, eom |-> IsLast,
                               length |-> (HeaderSize + Len(Chunk) + 1) % Width, pid |-> writer.pid])
  /\ writer' = [writer EXCEPT !.at = "body"]
  /\ UNCHANGED <<up, reader, sent, got>>

WriteHeader ==
  /\ writer.at = "header" /\ up
  /\ stream' = Append(stream, [type |-> writer.type, eom |-> IsLast,
                               length |-> (HeaderSize + Len(Chunk)) % Width, pid |-> writer.pid])
  /\ writer' = [writer EXCEPT !.at = "body"]
  /\ UNCHANGED <<up, reader, sent, got>>

WriteBody ==
  /\ writer.at = "body" /\ up
  /\ stream' = stream \o Chunk
  /\ writer' = IF IsLast THEN [writer EXCEPT !.at = "idle", !.rest = <<>>]
               ELSE [writer EXCEPT !.at = "header", !.pid = (@ + 1) % PidWidth,
                                   !.rest = SubSeq(@, MaxBody + 1, Len(@))]
  /\ UNCHANGED <<up, reader, sent, got>>

WriteFails ==
  /\ writer.at \in {"header", "body"} /\ ~up
  /\ writer' = [writer EXCEPT !.at = "failed"]
  /\ UNCHANGED <<stream, up, reader, sent, got>>

-----------------------------------------------------------------------------
(* ReadMessage *)

IsHeader(x) == x \in Header

ReadHeader ==
  /\ reader.at = "header" /\ stream # <<>> /\ IsHeader(Head(stream))
  /\ LET h == Head(stream)
     IN  reader' = IF h.length < HeaderSize THEN [reader EXCEPT !.at = "failed"]
                   ELSE [reader EXCEPT !.at = "body", !.hdr = [eom |-> h.eom, length |-> h.length],
                                       !.type = IF reader.first THEN h.type ELSE @, !.first = FALSE]
  /\ stream' = Tail(stream)
  /\ UNCHANGED <<writer, up, sent, got>>

Need == reader.hdr.length - HeaderSize

(* Bugs: only the last packet's body is kept; the read waits for one byte  *)
(* more than the packet has.                                               *)
BugReadBodyKeepsLast ==
  /\ reader.at = "body" /\ Len(stream) >= Need
  /\ IF reader.hdr.eom
     THEN /\ got' = Append(got, [type |-> reader.type, payload |-> SubSeq(stream, 1, Need)])
          /\ reader' = ReaderStart
     ELSE /\ reader' = [reader EXCEPT !.at = "header"]
          /\ got' = got
  /\ stream' = SubSeq(stream, Need + 1, Len(stream))
  /\ UNCHANGED <<writer, up, sent>>

BugReadBodyWaits ==
  /\ reader.at = "body" /\ Len(stream) > Need
  /\ LET payload == reader.payload \o SubSeq(stream, 1, Need)
     IN  IF reader.hdr.eom
         THEN /\ got' = Append(got, [type |-> reader.type, payload |-> payload])
              /\ reader' = ReaderStart
         ELSE /\ reader' = [reader EXCEPT !.at = "header", !.payload = payload]
              /\ got' = got
  /\ stream' = SubSeq(stream, Need + 1, Len(stream))
  /\ UNCHANGED <<writer, up, sent>>

ReadBody ==
  /\ reader.at = "body" /\ Len(stream) >= Need
  /\ LET payload == reader.payload \o SubSeq(stream, 1, Need)
     IN  IF reader.hdr.eom
         THEN /\ got' = Append(got, [type |-> reader.type, payload |-> payload])
              /\ reader' = ReaderStart
         ELSE /\ reader' = [reader EXCEPT !.at = "header", !.payload = payload]
              /\ got' = got
  /\ stream' = SubSeq(stream, Need + 1, Len(stream))
  /\ UNCHANGED <<writer, up, sent>>

(* io.ReadFull finds the connection dead before it has all it wants. *)
ReadFails ==
  /\ ~up
  /\ \/ reader.at = "header" /\ stream = <<>>
     \/ reader.at = "body" /\ Len(stream) < Need
  /\ reader' = [reader EXCEPT !.at = "failed"]
  /\ UNCHANGED <<writer, stream, up, sent, got>>

-----------------------------------------------------------------------------
Die ==
  /\ up
  /\ up' = FALSE
  /\ \E n \in 0..Len(stream) : stream' = SubSeq(stream, 1, n)
  /\ UNCHANGED <<writer, reader, sent, got>>

Write == WriteHeader \/ WriteBody \/ WriteFails
Read  == ReadHeader \/ ReadBody \/ ReadFails
Next  == BeginWrite \/ Write \/ Read \/ Die

Spec == Init /\ [][Next]_vars

(* Both ends keep running; neither is made to start a message or to die. *)
FairSpec == Spec /\ WF_vars(Write) /\ WF_vars(Read)

-----------------------------------------------------------------------------
(* Properties *)

(* ReadMessage returns exactly the messages WriteMessage was given, whole  *)
(* and in order, whatever packet boundaries fall on them and wherever the  *)
(* connection dies.                                                        *)
Channel == INSTANCE MessageChannel
WholeMessages == Channel!Spec

(* The two ends never lose each other's place in the stream: where         *)
(* ReadMessage looks for a header there is one, and where it looks for a   *)
(* body none of the bytes it takes is a header.  And when the stream is    *)
(* drained and the writer has finished, no message waits for a packet that *)
(* was never sent (a payload that fills its last packet, or is empty).     *)
InStep ==
  /\ reader.at = "header" /\ stream # <<>> => IsHeader(Head(stream))
  /\ reader.at = "body" => \A i \in 1..Len(stream) : i <= Need => ~IsHeader(stream[i])
  /\ up /\ writer.at = "idle" /\ stream = <<>> =>
       \/ reader = ReaderStart /\ got = sent
       \/ reader.at = "body" /\ Need = 0 /\ reader.hdr.eom

(* Every message arrives unless the connection dies, and a reader whose    *)
(* peer died stops waiting (ReadMessage returns, with the message or with  *)
(* an error).                                                              *)
Delivered ==
  /\ \A n \in 1..MaxSent : Len(sent) >= n ~> Len(got) >= n \/ ~up
  /\ ~up ~> reader.at = "failed"
=============================================================================
