----------------------------- MODULE FramingProofs -----------------------------
(***************************************************************************)
(* Theorems about Framing, for any packet size, payloads and messages: the *)
(* two ends of a connection stay in step, and what ReadMessage returns is  *)
(* what WriteMessage was given.                                            *)
(*                                                                         *)
(* The argument is a reading of the stream: for every place in it, which   *)
(* message a reader there is in, how many bytes of it lie before, and how  *)
(* many bytes the current packet still has.  The reading starts where      *)
(* ReadMessage is and, while the connection lives, ends where WriteMessage *)
(* is; whatever is written, read or lost, a reading exists.                *)
(***************************************************************************)
EXTENDS Framing, SequenceTheorems, TLAPS

Item   == Byte \cup Header
Cursor == [m : Nat, o : Nat, n : Nat]   \* a message, bytes of it before, bytes left in its packet

At(m, o, n) == [m |-> m, o |-> o, n |-> n]

(* How many bytes of message m of ms WriteMessage puts in one packet from o on *)
Share(ms, m, o) ==
  IF Len(ms[m].payload) - o > MaxBody THEN MaxBody ELSE Len(ms[m].payload) - o

(* A cursor that stands at the end of a packet moves to the next packet, or *)
(* to the next message.                                                     *)
Past(ms, m, o, n) ==
  IF n > 0 THEN At(m, o, n) ELSE IF o = Len(ms[m].payload) THEN At(m + 1, 0, 0) ELSE At(m, o, 0)

(* At cursor c no byte is left of a packet: x is the header of the next *)
HeaderRead(ms, c, x, next) ==
  /\ c.m \in 1..Len(ms) /\ c.o <= Len(ms[c.m].payload)
  /\ x \in Header /\ x.type = ms[c.m].type
  /\ x.length = HeaderSize + Share(ms, c.m, c.o)
  /\ x.eom <=> c.o + Share(ms, c.m, c.o) = Len(ms[c.m].payload)
  /\ next = Past(ms, c.m, c.o, Share(ms, c.m, c.o))

(* x is the d-th of the bytes that are left of a packet at cursor c *)
ByteRead(ms, c, d, x, next) ==
  /\ x = ms[c.m].payload[c.o + d]
  /\ next = Past(ms, c.m, c.o + d, c.n - d)

InMessage(ms, c) == c.m \in 1..Len(ms) /\ c.o + c.n <= Len(ms[c.m].payload)

HeadersRead(s, ms, f) ==
  \A j \in 0..(Len(s) - 1) : f[j].n = 0 => HeaderRead(ms, f[j], s[j + 1], f[j + 1])

BytesRead(s, ms, f) ==
  \A j \in 0..Len(s) : f[j].n > 0 =>
    /\ InMessage(ms, f[j])
    /\ \A d \in 1..f[j].n : j + d <= Len(s) => ByteRead(ms, f[j], d, s[j + d], f[j + d])

Reading(s, ms, f) ==
  f \in [0..Len(s) -> Cursor] /\ HeadersRead(s, ms, f) /\ BytesRead(s, ms, f)

(* t is s with more written to it, and g is a reading f of s with more to it *)
Extended(t, g, s, f) ==
  /\ t \in Seq(Item) /\ \A i \in 1..Len(s) : t[i] = s[i]
  /\ g \in [0..Len(t) -> Cursor] /\ \A j \in 0..Len(s) : g[j] = f[j]

(* t is s without its first k items, or only those *)
Shifted(t, g, s, f, k)   == t = SubSeq(s, k + 1, Len(s)) /\ g = [j \in 0..(Len(s) - k) |-> f[j + k]]
Shortened(t, g, s, f, k) == t = SubSeq(s, 1, k) /\ g = [j \in 0..k |-> f[j]]

(* From L on t has n bytes of message m, those from o on *)
Filled(ms, t, g, L, m, o, n) ==
  \A i \in 1..n : t[L + i] = ms[m].payload[o + i] /\ g[L + i] = Past(ms, m, o + i, n - i)

-----------------------------------------------------------------------------
(* Sizes: a packet has room for a body, and its length fits a uint16. *)
LEMMA Sizes ==
  /\ MaxBody \in Nat \ {0} /\ HeaderSize \in Nat \ {0}
  /\ Width \in Nat \ {0} /\ PidWidth \in Nat \ {0, 1}
  /\ HeaderSize + MaxBody < Width
BY FramingAssumption DEF MaxBody

(* The payload of a message *)
LEMMA PayloadType ==
  ASSUME NEW ms \in Seq(Message), NEW m \in 1..Len(ms)
  PROVE  /\ ms[m] \in Message /\ ms[m].type \in Type
         /\ ms[m].payload \in Seq(Byte) /\ Len(ms[m].payload) \in Nat
<1>1. ms[m] \in Message
  OBVIOUS
<1>2. ms[m].payload \in Seq(Byte)
  BY <1>1, FramingAssumption DEF Message
<1> QED BY <1>1, <1>2 DEF Message

(* One packet takes all that is left, or MaxBody bytes of it. *)
LEMMA ShareSize ==
  ASSUME NEW ms \in Seq(Message), NEW m \in 1..Len(ms), NEW o \in 0..Len(ms[m].payload)
  PROVE  /\ Share(ms, m, o) \in 0..MaxBody /\ o + Share(ms, m, o) <= Len(ms[m].payload)
         /\ Share(ms, m, o) = 0 => o = Len(ms[m].payload)
<1>1. Len(ms[m].payload) \in Nat /\ MaxBody \in Nat \ {0}
  BY PayloadType, Sizes
<1> QED BY <1>1 DEF Share

LEMMA PastType ==
  ASSUME NEW ms, NEW m \in Nat, NEW o \in Nat, NEW n \in Nat
  PROVE  Past(ms, m, o, n) \in Cursor
BY DEF Past, At, Cursor

(* Where a cursor is is three numbers. *)
LEMMA AtCursor ==
  ASSUME NEW m \in Nat, NEW o \in Nat, NEW n \in Nat
  PROVE  At(m, o, n) \in Cursor /\ At(m, o, n).m = m /\ At(m, o, n).o = o /\ At(m, o, n).n = n
BY DEF At, Cursor

(* A reading from some place on *)
LEMMA ReadingShift ==
  ASSUME NEW ms, NEW s \in Seq(Item), NEW f, Reading(s, ms, f), NEW k \in 0..Len(s),
         NEW t, NEW g, Shifted(t, g, s, f, k)
  PROVE  t \in Seq(Item) /\ Len(t) = Len(s) - k /\ Reading(t, ms, g) /\ g[0] = f[k] /\ g[Len(t)] = f[Len(s)]
<1>0. t = SubSeq(s, k + 1, Len(s)) /\ g = [j \in 0..(Len(s) - k) |-> f[j + k]]
  BY DEF Shifted
<1> USE <1>0
<1>1. /\ t \in Seq(Item) /\ Len(t) = Len(s) - k /\ Len(s) \in Nat
      /\ \A i \in 1..Len(t) : t[i] = s[i + k]
  OBVIOUS
<1>2. \A j \in 0..Len(t) : g[j] = f[j + k] /\ j + k \in 0..Len(s)
  BY <1>1
<1>6. g[0] = f[k] /\ g[Len(t)] = f[Len(s)]
  BY <1>1, <1>2
<1>3. g \in [0..Len(t) -> Cursor]
  BY <1>1, <1>2 DEF Reading
<1>4. HeadersRead(t, ms, g)
  <2> SUFFICES ASSUME NEW j \in 0..(Len(t) - 1), g[j].n = 0
               PROVE  HeaderRead(ms, g[j], t[j + 1], g[j + 1])
    BY DEF HeadersRead
  <2>1. /\ t[j + 1] = s[(j + k) + 1] /\ g[j + 1] = f[(j + k) + 1] /\ g[j] = f[j + k]
        /\ j + k \in 0..(Len(s) - 1)
    <3>1. /\ j \in 0..Len(t) /\ j + 1 \in 0..Len(t) /\ j + 1 \in 1..Len(t)
          /\ (j + 1) + k = (j + k) + 1 /\ j + k \in 0..(Len(s) - 1)
      BY ONLY <1>1, j \in 0..(Len(t) - 1), k \in 0..Len(s)
    <3> QED BY <3>1, <1>1, <1>2
  <2> QED BY <2>1 DEF Reading, HeadersRead
<1>5. BytesRead(t, ms, g)
  <2> SUFFICES ASSUME NEW j \in 0..Len(t), g[j].n > 0
               PROVE  /\ InMessage(ms, g[j])
                      /\ \A d \in 1..g[j].n : j + d <= Len(t) => ByteRead(ms, g[j], d, t[j + d], g[j + d])
    BY DEF BytesRead
  <2>1. j + k \in 0..Len(s) /\ g[j] = f[j + k] /\ g[j].n \in Nat
    BY <1>1, <1>2, <1>3 DEF Cursor
  <2>2. ASSUME NEW d \in 1..g[j].n, j + d <= Len(t)
        PROVE  t[j + d] = s[(j + k) + d] /\ g[j + d] = f[(j + k) + d] /\ (j + k) + d <= Len(s)
    BY <1>1, <1>2, <2>1, <2>2
  <2> QED BY <2>1, <2>2 DEF Reading, BytesRead
<1> QED BY <1>1, <1>3, <1>4, <1>5, <1>6 DEF Reading

(* A reading up to some place, where the connection was lost *)
LEMMA ReadingCut ==
  ASSUME NEW ms, NEW s \in Seq(Item), NEW f, Reading(s, ms, f), NEW k \in 0..Len(s),
         NEW t, NEW g, Shortened(t, g, s, f, k)
  PROVE  t \in Seq(Item) /\ Len(t) = k /\ Reading(t, ms, g) /\ g[0] = f[0]
<1>0. t = SubSeq(s, 1, k) /\ g = [j \in 0..k |-> f[j]]
  BY DEF Shortened
<1> USE <1>0
<1>1. /\ t \in Seq(Item) /\ Len(t) = k /\ Len(s) \in Nat /\ k \in Nat /\ k <= Len(s)
      /\ \A i \in 1..k : t[i] = s[i]
  OBVIOUS
<1>2. \A j \in 0..k : g[j] = f[j] /\ j \in 0..Len(s)
  BY <1>1
<1>3. g \in [0..Len(t) -> Cursor]
  BY <1>1, <1>2 DEF Reading
<1>4. HeadersRead(t, ms, g)
  <2> SUFFICES ASSUME NEW j \in 0..(k - 1), g[j].n = 0
               PROVE  HeaderRead(ms, g[j], t[j + 1], g[j + 1])
    BY <1>1 DEF HeadersRead
  <2>1. t[j + 1] = s[j + 1] /\ g[j + 1] = f[j + 1] /\ g[j] = f[j] /\ j \in 0..(Len(s) - 1)
    BY <1>1, <1>2
  <2> QED BY <2>1 DEF Reading, HeadersRead
<1>5. BytesRead(t, ms, g)
  <2> SUFFICES ASSUME NEW j \in 0..k, g[j].n > 0
               PROVE  /\ InMessage(ms, g[j])
                      /\ \A d \in 1..g[j].n : j + d <= k => ByteRead(ms, g[j], d, t[j + d], g[j + d])
    BY <1>1 DEF BytesRead
  <2>1. j \in 0..Len(s) /\ g[j] = f[j] /\ g[j].n \in Nat
    BY <1>1, <1>2, <1>3 DEF Cursor
  <2>2. ASSUME NEW d \in 1..g[j].n, j + d <= k
        PROVE  t[j + d] = s[j + d] /\ g[j + d] = f[j + d] /\ j + d <= Len(s)
    BY <1>1, <1>2, <2>1, <2>2
  <2> QED BY <2>1, <2>2 DEF Reading, BytesRead
<1> QED BY <1>1, <1>3, <1>4, <1>5 DEF Reading

(* A message more does not change what is read. *)
LEMMA ReadingMore ==
  ASSUME NEW ms \in Seq(Message), NEW s \in Seq(Item), NEW f, Reading(s, ms, f), NEW msg \in Message
  PROVE  Reading(s, Append(ms, msg), f)
<1> DEFINE ns == Append(ms, msg)
<1>1. Len(ns) = Len(ms) + 1 /\ Len(ms) \in Nat /\ Len(s) \in Nat /\ \A m \in 1..Len(ms) : ns[m] = ms[m]
  OBVIOUS
<1> HIDE DEF ns
<1>2. \A m \in 1..Len(ms) : \A o, n : Share(ns, m, o) = Share(ms, m, o) /\ Past(ns, m, o, n) = Past(ms, m, o, n)
  BY <1>1 DEF Share, Past
<1>3. HeadersRead(s, ns, f)
  <2> SUFFICES ASSUME NEW j \in 0..(Len(s) - 1), f[j].n = 0
               PROVE  HeaderRead(ns, f[j], s[j + 1], f[j + 1])
    BY DEF HeadersRead
  <2>1. HeaderRead(ms, f[j], s[j + 1], f[j + 1])
    BY DEF Reading, HeadersRead
  <2> QED BY <1>1, <1>2, <2>1 DEF HeaderRead
<1>4. BytesRead(s, ns, f)
  <2> SUFFICES ASSUME NEW j \in 0..Len(s), f[j].n > 0
               PROVE  /\ InMessage(ns, f[j])
                      /\ \A d \in 1..f[j].n : j + d <= Len(s) => ByteRead(ns, f[j], d, s[j + d], f[j + d])
    BY DEF BytesRead
  <2>1. /\ InMessage(ms, f[j])
        /\ \A d \in 1..f[j].n : j + d <= Len(s) => ByteRead(ms, f[j], d, s[j + d], f[j + d])
    BY DEF Reading, BytesRead
  <2> QED BY <1>1, <1>2, <2>1 DEF InMessage, ByteRead
<1> QED BY <1>3, <1>4 DEF Reading, ns

(* What follows the end of a packet that is not all there is the rest of it. *)
LEMMA ReadingEnd ==
  ASSUME NEW ms \in Seq(Message), NEW s \in Seq(Item), NEW f, Reading(s, ms, f),
         NEW j \in 0..Len(s), f[j].n > 0, j + f[j].n > Len(s)
  PROVE  f[Len(s)] = At(f[j].m, f[j].o + (Len(s) - j), f[j].n - (Len(s) - j)) /\ f[Len(s)].n > 0
<1>1. f[j] \in Cursor /\ Len(s) \in Nat
  BY DEF Reading
<1>2. f[j].m \in Nat /\ f[j].o \in Nat /\ f[j].n \in Nat
  BY <1>1 DEF Cursor
<1>3. CASE j = Len(s)
  BY <1>1, <1>2, <1>3 DEF At, Cursor
<1>4. CASE j < Len(s)
  <2>1. Len(s) - j \in 1..f[j].n /\ j + (Len(s) - j) = Len(s) /\ f[j].n - (Len(s) - j) > 0
    BY <1>1, <1>2, <1>4
  <2>2. ByteRead(ms, f[j], Len(s) - j, s[Len(s)], f[Len(s)])
    <3>1. \A d \in 1..f[j].n : j + d <= Len(s) => ByteRead(ms, f[j], d, s[j + d], f[j + d])
      BY DEF Reading, BytesRead
    <3>2. j + (Len(s) - j) <= Len(s) => ByteRead(ms, f[j], Len(s) - j, s[j + (Len(s) - j)], f[j + (Len(s) - j)])
      BY <2>1, <3>1
    <3> QED BY <2>1, <3>2, <1>1
  <2>3. f[Len(s)] = At(f[j].m, f[j].o + (Len(s) - j), f[j].n - (Len(s) - j))
    BY <2>1, <2>2 DEF ByteRead, Past
  <2> QED BY <2>1, <2>3 DEF At
<1> QED BY <1>1, <1>3, <1>4

(* Where a header is read, a whole packet of a message is to come. *)
LEMMA HeaderThenBody ==
  ASSUME NEW ms \in Seq(Message), NEW c \in Cursor, NEW x, NEW next \in Cursor, HeaderRead(ms, c, x, next), next.n > 0
  PROVE  InMessage(ms, next)
<1>1. c.m \in 1..Len(ms) /\ c.o \in Nat /\ c.o <= Len(ms[c.m].payload)
  BY DEF HeaderRead, Cursor
<1>2. Len(ms[c.m].payload) \in Nat
  BY <1>1, PayloadType
<1>3. Share(ms, c.m, c.o) \in Nat /\ c.o + Share(ms, c.m, c.o) <= Len(ms[c.m].payload)
  BY <1>1, <1>2, ShareSize, Sizes
<1>4. next = At(c.m, c.o, Share(ms, c.m, c.o))
  BY <1>3 DEF HeaderRead, Past, At
<1> QED BY <1>1, <1>3, <1>4 DEF InMessage, At

(* A header written where the reading ends: t is s and h *)
LEMMA ReadingHeader ==
  ASSUME NEW ms \in Seq(Message), NEW s \in Seq(Item), NEW L \in Nat, L = Len(s),
         NEW f, Reading(s, ms, f), f[L].n = 0,
         NEW t, NEW g, Extended(t, g, s, f), Len(t) = L + 1,
         HeaderRead(ms, f[L], t[L + 1], g[L + 1])
  PROVE  Reading(t, ms, g)
<1>0. /\ t \in Seq(Item) /\ \A i \in 1..L : t[i] = s[i]
      /\ g \in [0..(L + 1) -> Cursor] /\ \A j \in 0..L : g[j] = f[j]
  BY DEF Extended
<1> USE <1>0
<1>1. f \in [0..L -> Cursor] /\ HeadersRead(s, ms, f) /\ BytesRead(s, ms, f)
  BY DEF Reading
<1>2. ASSUME NEW j \in 0..L, g[j].n = 0 PROVE HeaderRead(ms, g[j], t[j + 1], g[j + 1])
  <2>1. CASE j = L
    BY <2>1, <1>2
  <2>2. CASE j < L
    <3>1. j + 1 \in 1..L /\ j \in 0..(L - 1) /\ f[j].n = 0
      BY <2>2, <1>2
    <3>2. HeaderRead(ms, f[j], s[j + 1], f[j + 1])
      BY <3>1, <1>1 DEF HeadersRead
    <3> QED BY <3>1, <3>2
  <2> QED BY <2>1, <2>2
<1>3. ASSUME NEW j \in 0..(L + 1), g[j].n > 0
      PROVE  /\ InMessage(ms, g[j])
             /\ \A d \in 1..g[j].n : j + d <= L + 1 => ByteRead(ms, g[j], d, t[j + d], g[j + d])
  <2>0. g[j].n \in Nat
    BY DEF Cursor
  <2>1. CASE j \in 0..L
    <3>1. g[j] = f[j] /\ j + f[j].n <= L
      BY <2>0, <2>1, <1>3, ReadingEnd
    <3>2. /\ InMessage(ms, f[j])
          /\ \A d \in 1..f[j].n : j + d <= L => ByteRead(ms, f[j], d, s[j + d], f[j + d])
      BY <2>1, <3>1, <1>1, <1>3 DEF BytesRead
    <3>3. \A d \in 1..f[j].n : j + d \in 1..L /\ t[j + d] = s[j + d] /\ g[j + d] = f[j + d]
      BY <2>0, <2>1, <3>1
    <3> QED BY <3>1, <3>2, <3>3
  <2>2. CASE j = L + 1
    <3>1. InMessage(ms, g[j])
      BY <2>2, <1>1, <1>3, HeaderThenBody
    <3> QED BY <2>2, <3>1
  <2> QED BY <2>1, <2>2
<1>4. HeadersRead(t, ms, g)
  BY <1>2 DEF HeadersRead
<1>5. BytesRead(t, ms, g)
  BY <1>3 DEF BytesRead
<1> QED BY <1>4, <1>5 DEF Reading

(* The rest of the packet written where the reading ends: t is s and the n *)
(* bytes that message m has from o on                                      *)
LEMMA ReadingBytes ==
  ASSUME NEW ms \in Seq(Message), NEW s \in Seq(Item), NEW L \in Nat, L = Len(s),
         NEW f, Reading(s, ms, f),
         NEW m \in 1..Len(ms), NEW o \in Nat, NEW n \in Nat, n > 0, f[L] = At(m, o, n),
         NEW t, NEW g, Extended(t, g, s, f), Len(t) = L + n,
         Filled(ms, t, g, L, m, o, n)
  PROVE  Reading(t, ms, g)
<1>0. /\ t \in Seq(Item) /\ \A i \in 1..L : t[i] = s[i]
      /\ g \in [0..(L + n) -> Cursor] /\ \A j \in 0..L : g[j] = f[j]
      /\ \A i \in 1..n : t[L + i] = ms[m].payload[o + i] /\ g[L + i] = Past(ms, m, o + i, n - i)
  BY DEF Extended, Filled
<1> USE <1>0
<1>1. f \in [0..L -> Cursor] /\ HeadersRead(s, ms, f) /\ BytesRead(s, ms, f)
  BY DEF Reading
<1>2. f[L].m = m /\ f[L].o = o /\ f[L].n = n
  BY DEF At
<1>3. o + n <= Len(ms[m].payload)
  <2>1. L \in 0..Len(s)
    OBVIOUS
  <2>2. InMessage(ms, f[L])
    BY <2>1, <1>1, <1>2 DEF BytesRead
  <2> QED BY <2>2, <1>2 DEF InMessage
<1>4. \A i \in 1..n : i < n => g[L + i] = At(m, o + i, n - i)
  <2> SUFFICES ASSUME NEW i \in 1..n, i < n PROVE g[L + i] = At(m, o + i, n - i)
    OBVIOUS
  <2>1. n - i > 0
    OBVIOUS
  <2> QED BY <2>1 DEF Past
<1>5. g[L + n].n = 0
  <2>1. n \in 1..n
    OBVIOUS
  <2>2. g[L + n] = Past(ms, m, o + n, n - n)
    BY <2>1
  <2>3. n - n = 0
    OBVIOUS
  <2> QED BY <2>2, <2>3 DEF Past, At
<1>6. ASSUME NEW j \in 0..(L + n - 1), g[j].n = 0 PROVE HeaderRead(ms, g[j], t[j + 1], g[j + 1])
  <2>1. CASE j < L
    <3>1. j + 1 \in 1..L /\ j \in 0..(L - 1) /\ j \in 0..L /\ j + 1 \in 0..L
      BY <2>1
    <3>2. HeaderRead(ms, f[j], s[j + 1], f[j + 1])
      BY <3>1, <1>1, <1>6 DEF HeadersRead
    <3> QED BY <3>1, <3>2
  <2>2. CASE j = L
    <3>1. L \in 0..L /\ \A j0 \in 0..L : g[j0] = f[j0]
      BY ONLY <1>0, L \in Nat
    <3>2. g[L] = f[L]
      BY ONLY <3>1
    <3> QED BY <3>2, <2>2, <1>2, <1>6
  <2>3. CASE j > L
    <3>1. j - L \in 1..n /\ j - L < n /\ j = L + (j - L)
      BY <2>3
    <3>2. g[j] = At(m, o + (j - L), n - (j - L))
      BY <3>1, <1>4
    <3> QED BY <3>1, <3>2, <1>6 DEF At
  <2> QED BY <2>1, <2>2, <2>3
<1>7. ASSUME NEW j \in 0..L, g[j].n > 0
      PROVE  /\ InMessage(ms, g[j])
             /\ \A d \in 1..g[j].n : j + d <= L + n => ByteRead(ms, g[j], d, t[j + d], g[j + d])
  <2>1. g[j] = f[j] /\ f[j].m \in Nat /\ f[j].o \in Nat /\ f[j].n \in Nat
    BY <1>1 DEF Cursor
  <2>2. /\ InMessage(ms, f[j])
        /\ \A d \in 1..f[j].n : j + d <= L => ByteRead(ms, f[j], d, s[j + d], f[j + d])
    BY <2>1, <1>1, <1>7 DEF BytesRead
  <2>3. \A d \in 1..f[j].n : j + d <= L => ByteRead(ms, f[j], d, t[j + d], g[j + d])
    <3>1. \A d \in 1..f[j].n : j + d <= L => j + d \in 1..L /\ j + d \in 0..L
      BY <2>1
    <3> QED BY <2>2, <3>1
  <2>4. ASSUME NEW d \in 1..f[j].n, j + d > L, j + d <= L + n PROVE ByteRead(ms, f[j], d, t[j + d], g[j + d])
    <3>0. j + f[j].n > L /\ f[j].n > 0
      BY <2>1, <2>4, <1>7
    <3>1. At(m, o, n) = At(f[j].m, f[j].o + (L - j), f[j].n - (L - j))
      BY <3>0, ReadingEnd
    <3>2. f[j].m = m /\ f[j].o + (L - j) = o /\ f[j].n - (L - j) = n
      BY <3>1 DEF At
    <3>3. j + d - L \in 1..n /\ L + (j + d - L) = j + d /\ o + (j + d - L) = f[j].o + d
          /\ n - (j + d - L) = f[j].n - d
      <4> DEFINE a == f[j].o
                 b == f[j].n
      <4>1. a \in Nat /\ b \in Nat /\ a + (L - j) = o /\ b - (L - j) = n /\ d \in Nat /\ d <= b
        BY <2>1, <2>4, <3>2
      <4> HIDE DEF a, b
      <4>2. j + d - L \in 1..n /\ L + (j + d - L) = j + d
        BY <4>1, <2>4
      <4>3. o + (j + d - L) = a + d
        <5>1. j \in Nat /\ L \in Nat /\ d \in Nat /\ a \in Nat /\ o = a + (L - j)
          BY <4>1
        <5> QED BY ONLY <5>1
      <4>4. n - (j + d - L) = b - d
        BY <4>1
      <4> QED BY <4>2, <4>3, <4>4 DEF a, b
    <3>4. t[L + (j + d - L)] = ms[m].payload[o + (j + d - L)]
          /\ g[L + (j + d - L)] = Past(ms, m, o + (j + d - L), n - (j + d - L))
      BY <3>3
    <3> QED BY <3>2, <3>3, <3>4 DEF ByteRead
  <2>5. \A d \in 1..f[j].n : j + d <= L \/ j + d > L
    BY <2>1
  <2> QED BY <2>1, <2>2, <2>3, <2>4, <2>5
<1>8. ASSUME NEW i \in 1..n, g[L + i].n > 0
      PROVE  /\ InMessage(ms, g[L + i])
             /\ \A d \in 1..g[L + i].n : (L + i) + d <= L + n => ByteRead(ms, g[L + i], d, t[(L + i) + d], g[(L + i) + d])
  <2>1. i < n
    <3>1. CASE i = n
      BY <3>1, <1>5, <1>8
    <3> QED BY <3>1
  <2>2. g[L + i] = At(m, o + i, n - i)
    BY <2>1, <1>4
  <2>3. InMessage(ms, g[L + i])
    BY <2>1, <2>2, <1>3 DEF InMessage, At
  <2>4. ASSUME NEW d \in 1..(n - i) PROVE ByteRead(ms, g[L + i], d, t[(L + i) + d], g[(L + i) + d])
    <3>1. i + d \in 1..n /\ (L + i) + d = L + (i + d) /\ o + (i + d) = (o + i) + d /\ n - (i + d) = (n - i) - d
      <4>1. i \in Nat /\ n \in Nat /\ L \in Nat /\ o \in Nat /\ d \in 1..(n - i) /\ i \in 1..n
        OBVIOUS
      <4> QED BY ONLY <4>1
    <3>2. t[L + (i + d)] = ms[m].payload[o + (i + d)] /\ g[L + (i + d)] = Past(ms, m, o + (i + d), n - (i + d))
      BY <3>1
    <3>3. (o + i) + d = o + (i + d) /\ g[L + i].m = m /\ g[L + i].o = o + i /\ g[L + i].n = n - i
      BY <2>2, <3>1 DEF At
    <3> QED BY <3>1, <3>2, <3>3 DEF ByteRead
  <2>5. g[L + i].n = n - i
    BY <2>2 DEF At
  <2> QED BY <2>3, <2>4, <2>5
<1>9. HeadersRead(t, ms, g)
  <2>1. Len(t) - 1 = L + n - 1
    OBVIOUS
  <2> QED BY <2>1, <1>6 DEF HeadersRead
<1>10. BytesRead(t, ms, g)
  <2> SUFFICES ASSUME NEW j \in 0..(L + n), g[j].n > 0
               PROVE  /\ InMessage(ms, g[j])
                      /\ \A d \in 1..g[j].n : j + d <= L + n => ByteRead(ms, g[j], d, t[j + d], g[j + d])
    BY DEF BytesRead
  <2>1. CASE j \in 0..L
    BY <2>1, <1>7
  <2>2. CASE j > L
    <3>1. j - L \in 1..n /\ L + (j - L) = j
      BY <2>2
    <3> QED BY <3>1, <1>8
  <2> QED BY <2>1, <2>2
<1> QED BY <1>9, <1>10 DEF Reading

-----------------------------------------------------------------------------
(* The inductive invariant *)

TypeOK ==
  /\ writer \in [at : {"idle", "header", "body", "failed"}, type : Type, rest : Seq(Byte), pid : 0..(PidWidth - 1)]
  /\ stream \in Seq(Item) /\ up \in BOOLEAN
  /\ reader \in [at : {"header", "body", "failed"}, first : BOOLEAN, type : Type, payload : Seq(Byte),
                 hdr : [eom : BOOLEAN, length : 0..(Width - 1)]]
  /\ sent \in Seq(Message) /\ got \in Seq(Message)

(* The message ReadMessage is in *)
Current == Len(got) + 1

(* What it has assembled is the front of that message, and a packet's body  *)
(* is what WriteMessage makes of the message from there on.                 *)
ReaderInv ==
  /\ Len(got) <= Len(sent) /\ \A i \in 1..Len(got) : got[i] = sent[i]
  /\ reader.at = "failed" => ~up
  /\ reader.at = "header" /\ reader.payload = <<>> => reader = ReaderStart
  /\ reader.at = "body" \/ (reader.at = "header" /\ reader.payload # <<>>) =>
       /\ Current <= Len(sent)
       /\ ~reader.first /\ reader.type = sent[Current].type
       /\ Len(reader.payload) <= Len(sent[Current].payload)
       /\ reader.payload = SubSeq(sent[Current].payload, 1, Len(reader.payload))
  /\ reader.at = "body" =>
       /\ Need = Share(sent, Current, Len(reader.payload))
       /\ reader.hdr.eom <=> Len(reader.payload) + Need = Len(sent[Current].payload)

ReaderPlace ==
  IF reader.at = "header" THEN At(Current, Len(reader.payload), 0)
  ELSE Past(sent, Current, Len(reader.payload), Need)

(* How much of the last message WriteMessage has written *)
Written == Len(sent[Len(sent)].payload) - Len(writer.rest)

WriterInv ==
  /\ writer.at # "failed"
  /\ writer.at \in {"header", "body"} =>
       /\ Len(sent) > 0 /\ writer.type = sent[Len(sent)].type
       /\ Len(writer.rest) <= Len(sent[Len(sent)].payload)
       /\ \A i \in 1..Len(writer.rest) : writer.rest[i] = sent[Len(sent)].payload[Written + i]

WriterPlace ==
  IF writer.at = "idle" THEN At(Len(sent) + 1, 0, 0)
  ELSE IF writer.at = "header" THEN At(Len(sent), Written, 0)
  ELSE Past(sent, Len(sent), Written, Len(Chunk))

(* The stream reads from where the reader is to where the writer is. *)
StreamInv ==
  \E f : /\ Reading(stream, sent, f)
         /\ reader.at # "failed" => f[0] = ReaderPlace
         /\ up => f[Len(stream)] = WriterPlace

IInv == TypeOK /\ ReaderInv /\ (up => WriterInv) /\ StreamInv

LEMMA InitIInv == Init => IInv
<1> SUFFICES ASSUME Init PROVE IInv
  OBVIOUS
<1>1. TypeOK
  <2>1. (CHOOSE t \in Type : TRUE) \in Type
    BY FramingAssumption
  <2>2. 1 \in 0..(PidWidth - 1) /\ HeaderSize \in 0..(Width - 1)
    BY Sizes
  <2> QED BY <2>1, <2>2 DEF Init, TypeOK, ReaderStart, NoHeader, Item
<1>2. ReaderInv
  BY DEF Init, ReaderInv, ReaderStart
<1>3. WriterInv
  BY DEF Init, WriterInv
<1>4. StreamInv
  <2> DEFINE f == [j \in 0..0 |-> At(1, 0, 0)]
  <2>1. f \in [0..0 -> Cursor] /\ f[0] = At(1, 0, 0) /\ Len(stream) = 0
    BY DEF Init, At, Cursor
  <2>2. HeadersRead(stream, sent, f) /\ BytesRead(stream, sent, f)
    BY <2>1 DEF HeadersRead, BytesRead, At
  <2>3. ReaderPlace = At(1, 0, 0) /\ WriterPlace = At(1, 0, 0)
    BY DEF Init, ReaderPlace, WriterPlace, ReaderStart, Current
  <2> HIDE DEF f
  <2> QED BY <2>1, <2>2, <2>3 DEF StreamInv, Reading
<1> QED BY <1>1, <1>2, <1>3, <1>4 DEF IInv

-----------------------------------------------------------------------------
(* WriteMessage *)

(* What it writes next is its packet's share of the last message. *)
LEMMA ChunkShare ==
  ASSUME IInv, up, writer.at \in {"header", "body"}
  PROVE  LET m == Len(sent)
             p == sent[Len(sent)].payload
         IN  /\ m \in 1..Len(sent) /\ Written \in 0..Len(p) /\ Len(writer.rest) = Len(p) - Written
             /\ Len(Chunk) = Share(sent, m, Written)
             /\ IsLast <=> Written + Share(sent, m, Written) = Len(p)
             /\ Chunk \in Seq(Byte) /\ \A i \in 1..Len(Chunk) : Chunk[i] = p[Written + i]
<1> DEFINE m == Len(sent)
           p == sent[Len(sent)].payload
           r == writer.rest
<1>1. /\ sent \in Seq(Message) /\ r \in Seq(Byte)
      /\ m \in Nat /\ m > 0 /\ Len(r) <= Len(p) /\ \A i \in 1..Len(r) : r[i] = p[Written + i]
  BY DEF IInv, TypeOK, WriterInv
<1>2. m \in 1..Len(sent) /\ Len(p) \in Nat /\ Len(r) \in Nat
  BY <1>1, PayloadType
<1>3. Written = Len(p) - Len(r)
  BY DEF Written
<1>4. MaxBody \in Nat \ {0}
  BY Sizes
<1> HIDE DEF r, p, m
<1>5. Written \in 0..Len(p) /\ Len(r) = Len(p) - Written
  BY <1>1, <1>2, <1>3
<1>6. Share(sent, m, Written) = IF Len(r) > MaxBody THEN MaxBody ELSE Len(r)
  BY <1>5 DEF Share, m, p
<1>7. /\ Chunk \in Seq(Byte) /\ Len(Chunk) = Share(sent, m, Written)
      /\ \A i \in 1..Len(Chunk) : i \in 1..Len(r) /\ Chunk[i] = r[i]
  <2>1. Share(sent, m, Written) \in 0..Len(r)
    BY <1>2, <1>4, <1>6
  <2>2. Chunk = SubSeq(r, 1, Share(sent, m, Written))
    BY <1>6 DEF Chunk, r
  <2> QED BY <1>1, <2>1, <2>2
<1>8. IsLast <=> Written + Share(sent, m, Written) = Len(p)
  <2>1. IsLast <=> Len(r) <= MaxBody
    BY DEF IsLast, r
  <2> QED BY <1>2, <1>5, <1>4, <1>6, <2>1
<1> QED BY <1>1, <1>2, <1>5, <1>7, <1>8 DEF m, p, r

LEMMA BeginWriteStep == IInv /\ BeginWrite => IInv' /\ Channel!Send
<1> SUFFICES ASSUME IInv, BeginWrite PROVE IInv' /\ Channel!Send
  OBVIOUS
<1>1. /\ writer.at = "idle" /\ UNCHANGED <<stream, up, reader, got>>
      /\ sent \in Seq(Message) /\ Len(sent) \in Nat /\ Len(got) \in Nat
  BY DEF BeginWrite, IInv, TypeOK
<1>2. PICK msg \in Message : /\ sent' = Append(sent, msg)
                             /\ writer' = [at |-> "header", type |-> msg.type, rest |-> msg.payload, pid |-> 1]
  BY DEF BeginWrite
<1>3. /\ sent' \in Seq(Message) /\ Len(sent') = Len(sent) + 1
      /\ sent'[Len(sent) + 1] = msg /\ \A i \in 1..Len(sent) : sent'[i] = sent[i]
  BY <1>1, <1>2
<1>4. msg.type \in Type /\ msg.payload \in Seq(Byte) /\ Len(msg.payload) \in Nat
  BY FramingAssumption DEF Message
<1>5. TypeOK'
  BY <1>1, <1>2, <1>3, <1>4, Sizes DEF IInv, TypeOK
<1>6. reader.at = "body" => Current \in 1..Len(sent)
  BY <1>1 DEF IInv, ReaderInv, Current
<1>7. ReaderInv'
  <2>1. Len(got) <= Len(sent') /\ \A i \in 1..Len(got) : got[i] = sent'[i]
    BY <1>1, <1>3 DEF IInv, ReaderInv
  <2>2. Current' = Current /\ Need' = Need /\ (Current <= Len(sent) => sent'[Current] = sent[Current] /\ Current <= Len(sent'))
    BY <1>1, <1>3 DEF Current, Need
  <2>3. reader.at = "body" => Share(sent', Current, Len(reader.payload)) = Share(sent, Current, Len(reader.payload))
    <3>1. reader.at = "body" => sent'[Current] = sent[Current]
      BY <1>3, <1>6
    <3> QED BY <3>1 DEF Share
  <2> QED BY <1>1, <1>6, <2>1, <2>2, <2>3 DEF IInv, ReaderInv
<1>8. WriterInv'
  <2>1. Written' = 0
    BY <1>2, <1>3, <1>4 DEF Written
  <2> QED BY <1>2, <1>3, <1>4, <2>1 DEF WriterInv
<1>9. StreamInv'
  <2>1. PICK f : /\ Reading(stream, sent, f) /\ (reader.at # "failed" => f[0] = ReaderPlace)
                 /\ (up => f[Len(stream)] = WriterPlace)
    BY DEF IInv, StreamInv
  <2>2. Reading(stream, sent', f)
    BY <1>1, <1>2, <2>1, ReadingMore DEF IInv, TypeOK
  <2>3. reader.at # "failed" => ReaderPlace' = ReaderPlace
    <3>1. Current' = Current /\ Need' = Need
      BY <1>1 DEF Current, Need
    <3>2. reader.at = "body" => sent'[Current] = sent[Current]
      BY <1>3, <1>6
    <3>3. reader.at # "failed" => reader.at \in {"header", "body"}
      BY DEF IInv, TypeOK
    <3> QED BY <1>1, <3>1, <3>2, <3>3 DEF ReaderPlace, Past
  <2>4. WriterPlace' = WriterPlace
    <3>1. Written' = 0
      BY <1>2, <1>3, <1>4 DEF Written
    <3> QED BY <1>1, <1>2, <1>3, <3>1 DEF WriterPlace
  <2> QED BY <1>1, <2>1, <2>2, <2>3, <2>4 DEF StreamInv
<1>10. Channel!Send
  BY <1>1, <1>2 DEF Channel!Send
<1> QED BY <1>1, <1>5, <1>7, <1>8, <1>9, <1>10 DEF IInv

(* The reader's part of the invariant needs neither the writer nor the stream. *)
LEMMA ReaderKept ==
  ASSUME ReaderInv, UNCHANGED <<reader, sent, got>>, up' => up
  PROVE  ReaderInv' /\ ReaderPlace' = ReaderPlace
BY DEF ReaderInv, ReaderPlace, Current, Need

LEMMA WriteHeaderStep == IInv /\ WriteHeader => IInv' /\ UNCHANGED <<sent, got>>
<1> SUFFICES ASSUME IInv, WriteHeader PROVE IInv' /\ UNCHANGED <<sent, got>>
  OBVIOUS
<1> DEFINE m == Len(sent)
           p == sent[Len(sent)].payload
           L == Len(stream)
           h == [type |-> writer.type, eom |-> IsLast, length |-> (HeaderSize + Len(Chunk)) % Width, pid |-> writer.pid]
<1>1. /\ writer.at = "header" /\ up /\ UNCHANGED <<up, reader, sent, got>>
      /\ stream' = Append(stream, h) /\ writer' = [writer EXCEPT !.at = "body"]
  BY DEF WriteHeader
<1>2. TypeOK /\ WriterInv
  BY <1>1 DEF IInv
<1>3. /\ m \in 1..Len(sent) /\ Written \in 0..Len(p) /\ Len(writer.rest) = Len(p) - Written
      /\ Len(Chunk) = Share(sent, m, Written) /\ (IsLast <=> Written + Share(sent, m, Written) = Len(p))
  BY <1>1, ChunkShare
<1>4. Share(sent, m, Written) \in 0..MaxBody
  BY <1>2, <1>3, ShareSize DEF TypeOK
<1>5. h.length = HeaderSize + Share(sent, m, Written) /\ h.length \in 0..(Width - 1)
  <2>1. \A x, w \in Nat : x < w => x % w = x
    OBVIOUS
  <2>2. /\ HeaderSize + Share(sent, m, Written) \in Nat /\ Width \in Nat
        /\ HeaderSize + Share(sent, m, Written) < Width
    BY <1>4, Sizes
  <2>3. h.length = HeaderSize + Share(sent, m, Written)
    BY <1>3, <2>1, <2>2
  <2> QED BY <2>2, <2>3
<1>6. h \in Header /\ h.type = sent[m].type /\ (h.eom <=> Written + Share(sent, m, Written) = Len(p))
  <2>1. writer.type \in Type /\ writer.pid \in 0..(PidWidth - 1) /\ IsLast \in BOOLEAN
    BY <1>2 DEF TypeOK, IsLast
  <2> QED BY <1>1, <1>2, <1>3, <1>5, <2>1 DEF Header, WriterInv
<1> HIDE DEF h
<1>7. stream \in Seq(Item) /\ L \in Nat /\ stream' \in Seq(Item) /\ Len(stream') = L + 1
      /\ (\A i \in 1..L : stream'[i] = stream[i]) /\ stream'[L + 1] = h
  BY <1>1, <1>2, <1>6 DEF TypeOK, Item
<1>8. TypeOK'
  BY <1>1, <1>2, <1>7 DEF TypeOK
<1>9. ReaderInv' /\ ReaderPlace' = ReaderPlace
  BY <1>1, ReaderKept DEF IInv
<1>10. Written' = Written /\ Chunk' = Chunk
  BY <1>1, <1>2 DEF Written, Chunk, TypeOK
<1>11. WriterInv'
  BY <1>1, <1>2, <1>10 DEF WriterInv, TypeOK
<1>12. StreamInv'
  <2>1. PICK f : /\ Reading(stream, sent, f) /\ (reader.at # "failed" => f[0] = ReaderPlace)
                 /\ f[L] = WriterPlace
    BY <1>1 DEF IInv, StreamInv
  <2>2. f[L] = At(m, Written, 0) /\ f \in [0..L -> Cursor]
    BY <1>1, <2>1 DEF WriterPlace, Reading
  <2>3. /\ f[L].m = m /\ f[L].o = Written /\ f[L].n = 0
    BY <2>2 DEF At
  <2> DEFINE g == [j \in 0..(L + 1) |-> IF j = L + 1 THEN Past(sent, m, Written, Share(sent, m, Written)) ELSE f[j]]
  <2>4. Past(sent, m, Written, Share(sent, m, Written)) \in Cursor
    BY <1>3, <1>4, PastType, Sizes
  <2>5. /\ g \in [0..(L + 1) -> Cursor] /\ \A j \in 0..L : g[j] = f[j]
        /\ g[L + 1] = Past(sent, m, Written, Share(sent, m, Written))
    BY <1>7, <2>2, <2>4
  <2> HIDE DEF g
  <2>9. Extended(stream', g, stream, f)
    BY <1>7, <2>5 DEF Extended
  <2>6. HeaderRead(sent, f[L], stream'[L + 1], g[L + 1])
    BY <1>3, <1>5, <1>6, <1>7, <2>3, <2>5 DEF HeaderRead
  <2>7. Reading(stream', sent, g)
    <3>1. sent \in Seq(Message) /\ stream \in Seq(Item) /\ L = Len(stream)
      BY <1>2 DEF TypeOK
    <3> HIDE DEF L, m
    <3> QED BY <3>1, <1>7, <2>1, <2>3, <2>9, <2>6, ReadingHeader
  <2>8. g[0] = f[0] /\ g[Len(stream')] = WriterPlace'
    <3>1. WriterPlace' = Past(sent, m, Written, Share(sent, m, Written))
      BY <1>1, <1>2, <1>3, <1>10 DEF WriterPlace, TypeOK
    <3> QED BY <1>7, <2>5, <3>1
  <2> QED BY <1>1, <1>9, <2>1, <2>7, <2>8 DEF StreamInv
<1> QED BY <1>1, <1>8, <1>9, <1>11, <1>12 DEF IInv

LEMMA WriteBodyStep == IInv /\ WriteBody => IInv' /\ UNCHANGED <<sent, got>>
<1> SUFFICES ASSUME IInv, WriteBody PROVE IInv' /\ UNCHANGED <<sent, got>>
  OBVIOUS
<1> DEFINE m == Len(sent)
           p == sent[Len(sent)].payload
           L == Len(stream)
           n == Len(Chunk)
<1>1. /\ writer.at = "body" /\ up /\ UNCHANGED <<up, reader, sent, got>>
      /\ stream' = stream \o Chunk
      /\ writer' = IF IsLast THEN [writer EXCEPT !.at = "idle", !.rest = <<>>]
                   ELSE [writer EXCEPT !.at = "header", !.pid = (@ + 1) % PidWidth,
                                       !.rest = SubSeq(@, MaxBody + 1, Len(@))]
  BY DEF WriteBody
<1>2. TypeOK /\ WriterInv
  BY <1>1 DEF IInv
<1>3. /\ m \in 1..Len(sent) /\ Written \in 0..Len(p) /\ Len(writer.rest) = Len(p) - Written
      /\ n = Share(sent, m, Written) /\ (IsLast <=> Written + Share(sent, m, Written) = Len(p))
      /\ Chunk \in Seq(Byte) /\ \A i \in 1..n : Chunk[i] = p[Written + i]
  BY <1>1, ChunkShare
<1>4. n \in 0..MaxBody /\ MaxBody \in Nat \ {0} /\ Written + n <= Len(p) /\ Len(p) \in Nat /\ Written \in Nat
  BY <1>2, <1>3, ShareSize, PayloadType, Sizes DEF TypeOK
<1>5. stream \in Seq(Item) /\ L \in Nat /\ stream' \in Seq(Item) /\ Len(stream') = L + n
      /\ (\A i \in 1..L : stream'[i] = stream[i]) /\ (\A i \in 1..n : stream'[L + i] = Chunk[i])
  <2>1. Chunk \in Seq(Item) /\ stream \in Seq(Item)
    BY <1>2, <1>3 DEF TypeOK, Item
  <2> HIDE DEF n
  <2> QED BY <2>1, <1>1 DEF n
<1>6. /\ ~IsLast => n = MaxBody /\ Len(writer.rest) > MaxBody
      /\ IsLast => Written + n = Len(p)
  BY <1>2, <1>3, <1>4 DEF IsLast, Chunk, TypeOK
<1>7. ~IsLast => /\ writer'.rest \in Seq(Byte) /\ Len(writer'.rest) = Len(writer.rest) - MaxBody
                 /\ \A i \in 1..Len(writer'.rest) : writer'.rest[i] = writer.rest[MaxBody + i]
  <2> SUFFICES ASSUME ~IsLast
               PROVE  /\ writer'.rest \in Seq(Byte) /\ Len(writer'.rest) = Len(writer.rest) - MaxBody
                      /\ \A i \in 1..Len(writer'.rest) : writer'.rest[i] = writer.rest[MaxBody + i]
    OBVIOUS
  <2>1. writer.rest \in Seq(Byte) /\ writer'.rest = SubSeq(writer.rest, MaxBody + 1, Len(writer.rest))
    BY <1>1, <1>2 DEF TypeOK
  <2>2. MaxBody \in 1..Len(writer.rest)
    BY <1>2, <1>4, <1>6 DEF TypeOK
  <2> QED BY <2>1, <2>2
<1>8. TypeOK'
  <2>1. \A x \in Nat : (x + 1) % PidWidth \in 0..(PidWidth - 1)
    BY Sizes
  <2>2. writer' \in [at : {"idle", "header", "body", "failed"}, type : Type, rest : Seq(Byte), pid : 0..(PidWidth - 1)]
    <3>1. CASE IsLast
      <4>1. writer' = [writer EXCEPT !.at = "idle", !.rest = <<>>] /\ <<>> \in Seq(Byte)
        BY <3>1, <1>1
      <4> QED BY <4>1, <1>2 DEF TypeOK
    <3>2. CASE ~IsLast
      <4>1. writer'.rest \in Seq(Byte) /\ (writer.pid + 1) % PidWidth \in 0..(PidWidth - 1)
        BY <3>2, <1>2, <1>7, <2>1 DEF TypeOK
      <4> QED BY <3>2, <4>1, <1>1, <1>2 DEF TypeOK
    <3> QED BY <3>1, <3>2
  <2> QED BY <2>2, <1>1, <1>2, <1>5 DEF TypeOK
<1>9. ReaderInv' /\ ReaderPlace' = ReaderPlace
  BY <1>1, ReaderKept DEF IInv
<1>10. /\ IsLast => writer'.at = "idle"
       /\ ~IsLast => writer'.at = "header" /\ writer'.type = writer.type /\ Written' = Written + n
  <2>1. ~IsLast => Len(writer'.rest) = Len(writer.rest) - n /\ Len(writer.rest) \in Nat
    BY <1>2, <1>6, <1>7 DEF TypeOK
  <2>2. Written' = Len(p) - Len(writer'.rest) /\ Written = Len(p) - Len(writer.rest)
    BY <1>1 DEF Written
  <2>3. ~IsLast => Written' = Written + n
    <3>1. Len(p) \in Nat /\ n \in Nat
      BY <1>4
    <3>2. \A a, b, c \in Nat : a - (b - c) = (a - b) + c
      OBVIOUS
    <3>3. ~IsLast => Written' = Len(p) - (Len(writer.rest) - n) /\ Len(writer.rest) \in Nat
      BY <2>1, <2>2
    <3> QED BY <2>2, <3>1, <3>2, <3>3
  <2> QED BY <2>3, <1>1, <1>2 DEF TypeOK
<1>11. WriterInv'
  <2>1. CASE IsLast
    BY <2>1, <1>10 DEF WriterInv
  <2>2. CASE ~IsLast
    <3>1. /\ writer'.at = "header" /\ Len(sent') > 0 /\ sent' = sent /\ writer'.type = sent[m].type
          /\ Len(writer'.rest) <= Len(p)
      BY <2>2, <1>1, <1>2, <1>3, <1>4, <1>6, <1>7, <1>10 DEF WriterInv
    <3>2. \A i \in 1..Len(writer'.rest) : writer'.rest[i] = p[(Written + n) + i]
      <4> SUFFICES ASSUME NEW i \in 1..Len(writer'.rest) PROVE writer'.rest[i] = p[(Written + n) + i]
        OBVIOUS
      <4>1. writer'.rest[i] = writer.rest[n + i] /\ n + i \in 1..Len(writer.rest)
        <5>1. Len(writer.rest) \in Nat /\ Len(writer'.rest) = Len(writer.rest) - n /\ n \in Nat
          <6>1. Len(writer.rest) \in Nat /\ n \in Nat
            BY <1>2, <1>4 DEF TypeOK
          <6>2. Len(writer'.rest) = Len(writer.rest) - MaxBody /\ n = MaxBody
            BY <2>2, <1>6, <1>7
          <6> QED BY <6>1, <6>2
        <5>2. writer'.rest[i] = writer.rest[n + i]
          BY <2>2, <1>6, <1>7
        <5> QED BY <5>1, <5>2
      <4>2. writer.rest[n + i] = p[Written + (n + i)]
        BY <4>1, <1>1, <1>2 DEF WriterInv
      <4>3. Written + (n + i) = (Written + n) + i
        BY <1>4
      <4> QED BY <4>1, <4>2, <4>3
    <3> QED BY <3>1, <3>2, <2>2, <1>10 DEF WriterInv
  <2> QED BY <2>1, <2>2
<1>12. WriterPlace' = Past(sent, m, Written + n, 0)
  <2>1. CASE IsLast
    BY <2>1, <1>1, <1>6, <1>10 DEF WriterPlace, Past
  <2>2. CASE ~IsLast
    <3>1. Written + n # Len(p)
      BY <2>2, <1>3
    <3>2. WriterPlace' = At(m, Written + n, 0)
      BY <2>2, <1>1, <1>10 DEF WriterPlace
    <3> QED BY <3>1, <3>2 DEF Past
  <2> QED BY <2>1, <2>2
<1>13. StreamInv'
  <2>1. PICK f : /\ Reading(stream, sent, f) /\ (reader.at # "failed" => f[0] = ReaderPlace)
                 /\ f[L] = WriterPlace
    BY <1>1 DEF IInv, StreamInv
  <2>2. f[L] = Past(sent, m, Written, n) /\ f \in [0..L -> Cursor]
    BY <1>1, <2>1 DEF WriterPlace, Reading
  <2>3. CASE n = 0
    <3>1. stream' = stream
      <4>1. Chunk = <<>>
        BY <1>3, <2>3
      <4>2. \A s \in Seq(Item) : s \o <<>> = s
        OBVIOUS
      <4> QED BY <4>1, <4>2, <1>1, <1>5
    <3>2. WriterPlace' = f[L]
      BY <1>4, <1>12, <2>2, <2>3
    <3> QED BY <3>1, <3>2, <2>1, <1>1, <1>9 DEF StreamInv
  <2>4. CASE n > 0
    <3> DEFINE g == [j \in 0..(L + n) |-> IF j > L THEN Past(sent, m, Written + (j - L), n - (j - L)) ELSE f[j]]
    <3>1. f[L] = At(m, Written, n) /\ Written \in Nat /\ n \in Nat
      BY <2>2, <2>4, <1>4 DEF Past
    <3>2. g \in [0..(L + n) -> Cursor]
      <4>1. ASSUME NEW j \in 0..(L + n), j > L PROVE Past(sent, m, Written + (j - L), n - (j - L)) \in Cursor
        <5>1. m \in Nat /\ Written + (j - L) \in Nat /\ n - (j - L) \in Nat
          BY <4>1, <3>1, <1>3, <1>5
        <5> QED BY <5>1, PastType
      <4>2. ASSUME NEW j \in 0..(L + n), ~(j > L) PROVE f[j] \in Cursor
        <5>1. j \in 0..L
          BY <4>2, <1>5
        <5> QED BY <5>1, <2>2
      <4> QED BY <4>1, <4>2
    <3>3. \A j \in 0..L : g[j] = f[j]
      BY <1>5, <3>1
    <3>4. \A i \in 1..n : g[L + i] = Past(sent, m, Written + i, n - i)
      <4> SUFFICES ASSUME NEW i \in 1..n PROVE g[L + i] = Past(sent, m, Written + i, n - i)
        OBVIOUS
      <4>1. L + i \in 0..(L + n) /\ L + i > L /\ (L + i) - L = i
        BY <1>5, <3>1
      <4> QED BY <4>1
    <3>5. \A i \in 1..n : stream'[L + i] = sent[m].payload[Written + i]
      BY <1>3, <1>5
    <3> HIDE DEF g
    <3>6. Extended(stream', g, stream, f)
      BY <1>5, <3>2, <3>3 DEF Extended
    <3>7. Reading(stream', sent, g)
      <4>1. sent \in Seq(Message) /\ stream \in Seq(Item) /\ L = Len(stream) /\ L \in Nat /\ Len(stream') = L + n
        BY <1>2, <1>5 DEF TypeOK
      <4>2. Filled(sent, stream', g, L, m, Written, n)
        BY <3>4, <3>5 DEF Filled
      <4>3. m \in 1..Len(sent)
        BY <1>3
      <4> HIDE DEF L, m, n
      <4> QED BY <4>1, <4>2, <4>3, <2>1, <2>4, <3>1, <3>6, ReadingBytes
    <3>8. g[0] = f[0] /\ g[Len(stream')] = WriterPlace'
      <4>1. n \in 1..n /\ n - n = 0
        BY <2>4, <3>1
      <4> QED BY <1>5, <1>12, <3>3, <3>4, <4>1
    <3> QED BY <1>1, <1>9, <2>1, <3>7, <3>8 DEF StreamInv
  <2> QED BY <2>3, <2>4, <1>4
<1> QED BY <1>1, <1>8, <1>9, <1>11, <1>13 DEF IInv

LEMMA WriteFailsStep == IInv /\ WriteFails => IInv' /\ UNCHANGED <<sent, got>>
<1> SUFFICES ASSUME IInv, WriteFails PROVE IInv' /\ UNCHANGED <<sent, got>>
  OBVIOUS
<1>1. ~up /\ UNCHANGED <<stream, up, reader, sent, got>> /\ writer' = [writer EXCEPT !.at = "failed"]
  BY DEF WriteFails
<1>2. TypeOK'
  BY <1>1 DEF IInv, TypeOK
<1>3. ReaderInv' /\ ReaderPlace' = ReaderPlace
  BY <1>1, ReaderKept DEF IInv
<1>4. StreamInv'
  BY <1>1, <1>3 DEF IInv, StreamInv
<1> QED BY <1>1, <1>2, <1>3, <1>4 DEF IInv

-----------------------------------------------------------------------------
(* ReadMessage, and the end of a connection *)

(* The writer's part needs neither the reader nor the stream. *)
LEMMA WriterKept ==
  ASSUME WriterInv, UNCHANGED <<writer, sent>>
  PROVE  WriterInv' /\ WriterPlace' = WriterPlace
BY DEF WriterInv, WriterPlace, Written, Chunk

(* Where the reader takes the n bytes of a packet, it takes the message's   *)
(* bytes from o on.                                                         *)
LEMMA BytesTaken ==
  ASSUME NEW ms \in Seq(Message), NEW s \in Seq(Item), NEW f, Reading(s, ms, f),
         NEW m \in 1..Len(ms), NEW o \in Nat, NEW n \in Nat, f[0] = Past(ms, m, o, n)
  PROVE  /\ \A i \in 1..n : i <= Len(s) => s[i] = ms[m].payload[o + i]
         /\ n <= Len(s) => f[n] = Past(ms, m, o + n, 0)
<1>1. CASE n = 0
  BY <1>1
<1>2. CASE n > 0
  <2>1. f[0] = At(m, o, n) /\ 0 \in 0..Len(s) /\ Len(s) \in Nat
    BY <1>2 DEF Past
  <2>2. f[0].m = m /\ f[0].o = o /\ f[0].n = n
    BY <2>1 DEF At
  <2>3. \A d \in 1..f[0].n : 0 + d <= Len(s) => ByteRead(ms, f[0], d, s[0 + d], f[0 + d])
    BY <1>2, <2>1, <2>2 DEF Reading, BytesRead
  <2>4. \A d \in 1..n : d <= Len(s) => ByteRead(ms, f[0], d, s[d], f[d])
    <3> SUFFICES ASSUME NEW d \in 1..n, d <= Len(s) PROVE ByteRead(ms, f[0], d, s[d], f[d])
      OBVIOUS
    <3>1. 0 + d = d
      OBVIOUS
    <3> QED BY <2>2, <2>3, <3>1
  <2>5. \A i \in 1..n : i <= Len(s) => s[i] = ms[m].payload[o + i]
    BY <2>2, <2>4 DEF ByteRead
  <2>6. ASSUME n <= Len(s) PROVE f[n] = Past(ms, m, o + n, 0)
    <3>1. n \in 1..n /\ n - n = 0
      BY <1>2
    <3>2. f[n] = Past(ms, m, o + n, n - n)
      BY <2>2, <2>4, <2>6, <3>1 DEF ByteRead
    <3> QED BY <3>1, <3>2
  <2> QED BY <2>5, <2>6
<1> QED BY <1>1, <1>2

LEMMA ReadHeaderStep == IInv /\ ReadHeader => IInv' /\ UNCHANGED <<sent, got>>
<1> SUFFICES ASSUME IInv, ReadHeader PROVE IInv' /\ UNCHANGED <<sent, got>>
  OBVIOUS
<1> DEFINE h == Head(stream)
           m == Current
           o == Len(reader.payload)
<1>1. /\ reader.at = "header" /\ stream # <<>> /\ UNCHANGED <<writer, up, sent, got>> /\ stream' = Tail(stream)
      /\ reader' = IF h.length < HeaderSize THEN [reader EXCEPT !.at = "failed"]
                   ELSE [reader EXCEPT !.at = "body", !.hdr = [eom |-> h.eom, length |-> h.length],
                                       !.type = IF reader.first THEN h.type ELSE @, !.first = FALSE]
  BY DEF ReadHeader
<1>2. TypeOK /\ ReaderInv
  BY DEF IInv
<1>3. /\ stream \in Seq(Item) /\ Len(stream) \in Nat \ {0} /\ h = stream[1]
      /\ Tail(stream) = SubSeq(stream, 2, Len(stream)) /\ m \in Nat /\ o \in Nat
  BY <1>1, <1>2 DEF TypeOK, Current
<1>4. PICK f : /\ Reading(stream, sent, f) /\ f[0] = ReaderPlace
               /\ (up => f[Len(stream)] = WriterPlace)
  BY <1>1 DEF IInv, StreamInv
<1>5. f[0] = At(m, o, 0)
  BY <1>1, <1>4 DEF ReaderPlace
<1>6. f[0].m = m /\ f[0].o = o /\ f[0].n = 0
  BY <1>5 DEF At
<1>7. HeaderRead(sent, f[0], h, f[1])
  <2>1. 0 \in 0..(Len(stream) - 1) /\ 0 + 1 = 1
    BY <1>3
  <2>2. HeaderRead(sent, f[0], stream[0 + 1], f[0 + 1])
    BY <2>1, <1>4, <1>6 DEF Reading, HeadersRead
  <2> QED BY <2>1, <2>2, <1>3
<1>8. /\ m \in 1..Len(sent) /\ o <= Len(sent[m].payload) /\ h \in Header /\ h.type = sent[m].type
      /\ h.length = HeaderSize + Share(sent, m, o) /\ (h.eom <=> o + Share(sent, m, o) = Len(sent[m].payload))
      /\ f[1] = Past(sent, m, o, Share(sent, m, o))
  BY <1>6, <1>7 DEF HeaderRead
<1>9. sent[m].payload \in Seq(Byte) /\ Len(sent[m].payload) \in Nat /\ Share(sent, m, o) \in Nat /\ HeaderSize \in Nat
  <2>1. sent[m].payload \in Seq(Byte) /\ Len(sent[m].payload) \in Nat
    BY <1>2, <1>8, PayloadType DEF TypeOK
  <2>2. o \in 0..Len(sent[m].payload)
    BY <1>3, <1>8, <2>1
  <2> QED BY <1>2, <1>8, <2>1, <2>2, ShareSize, Sizes DEF TypeOK
<1>10. /\ reader' = [reader EXCEPT !.at = "body", !.hdr = [eom |-> h.eom, length |-> h.length],
                                   !.type = IF reader.first THEN h.type ELSE @, !.first = FALSE]
       /\ Need' = Share(sent, m, o)
  <2>1. ~(h.length < HeaderSize) /\ h.length - HeaderSize = Share(sent, m, o)
    BY <1>8, <1>9
  <2>2. reader' = [reader EXCEPT !.at = "body", !.hdr = [eom |-> h.eom, length |-> h.length],
                                 !.type = IF reader.first THEN h.type ELSE @, !.first = FALSE]
    BY <1>1, <2>1
  <2>3. reader'.hdr.length = h.length
    BY <1>2, <2>2 DEF TypeOK
  <2> QED BY <2>1, <2>2, <2>3 DEF Need
<1>11. /\ reader'.at = "body" /\ ~reader'.first /\ reader'.payload = reader.payload /\ reader'.hdr.eom = h.eom
       /\ reader'.type = IF reader.first THEN h.type ELSE reader.type
  BY <1>2, <1>10 DEF TypeOK
<1>12. TypeOK'
  <2>1. h.eom \in BOOLEAN /\ h.length \in 0..(Width - 1) /\ h.type \in Type
    BY <1>8 DEF Header
  <2>2. stream' \in Seq(Item)
    BY <1>1, <1>3
  <2>3. reader' \in [at : {"header", "body", "failed"}, first : BOOLEAN, type : Type, payload : Seq(Byte),
                     hdr : [eom : BOOLEAN, length : 0..(Width - 1)]]
    <3> DEFINE e == h.eom
               l == h.length
               y == IF reader.first THEN h.type ELSE reader.type
    <3>1. e \in BOOLEAN /\ l \in 0..(Width - 1) /\ y \in Type
      BY <2>1, <1>2 DEF TypeOK
    <3>2. reader' = [reader EXCEPT !.at = "body", !.hdr = [eom |-> e, length |-> l], !.type = y, !.first = FALSE]
      BY <1>10
    <3>3. [eom |-> e, length |-> l] \in [eom : BOOLEAN, length : 0..(Width - 1)]
      BY <3>1
    <3> HIDE DEF e, l, y
    <3> QED BY <1>2, <3>1, <3>2, <3>3 DEF TypeOK
  <2> QED BY <1>1, <1>2, <2>2, <2>3 DEF TypeOK
<1>13. reader'.type = sent[m].type /\ reader.payload = SubSeq(sent[m].payload, 1, o)
  <2>1. CASE reader.payload = <<>>
    <3>1. reader = ReaderStart
      BY <1>1, <1>2, <2>1 DEF ReaderInv
    <3>2. reader.first /\ o = 0
      BY <3>1, <2>1 DEF ReaderStart
    <3>3. SubSeq(sent[m].payload, 1, 0) = <<>>
      BY <1>9
    <3> QED BY <1>8, <1>11, <2>1, <3>2, <3>3
  <2>2. CASE reader.payload # <<>>
    BY <1>1, <1>2, <1>11, <2>2 DEF ReaderInv
  <2> QED BY <2>1, <2>2
<1>14. ReaderInv'
  <2>1. Current' = m /\ Len(reader'.payload) = o /\ m <= Len(sent)
    BY <1>1, <1>8, <1>11 DEF Current
  <2>2. Len(got') <= Len(sent') /\ \A i \in 1..Len(got') : got'[i] = sent'[i]
    BY <1>1, <1>2 DEF ReaderInv
  <2>3. /\ ~reader'.first /\ reader'.type = sent'[Current'].type
        /\ Current' <= Len(sent') /\ Len(reader'.payload) <= Len(sent'[Current'].payload)
        /\ reader'.payload = SubSeq(sent'[Current'].payload, 1, Len(reader'.payload))
    BY <1>1, <1>8, <1>11, <1>13, <2>1
  <2>4. /\ Need' = Share(sent', Current', Len(reader'.payload))
        /\ reader'.hdr.eom <=> Len(reader'.payload) + Need' = Len(sent'[Current'].payload)
    BY <1>1, <1>8, <1>10, <1>11, <2>1
  <2>5. reader'.at = "body"
    BY <1>11
  <2> HIDE DEF h, m, o
  <2> QED BY <2>2, <2>3, <2>4, <2>5 DEF ReaderInv
<1>15. StreamInv'
  <2> DEFINE g == [j \in 0..(Len(stream) - 1) |-> f[j + 1]]
  <2>1. Shifted(stream', g, stream, f, 1) /\ 1 \in 0..Len(stream)
    BY <1>1, <1>3 DEF Shifted
  <2> HIDE DEF g
  <2>2. Reading(stream', sent, g) /\ g[0] = f[1] /\ g[Len(stream')] = f[Len(stream)]
    BY <1>3, <1>4, <2>1, ReadingShift
  <2>3. ReaderPlace' = Past(sent, m, o, Share(sent, m, o))
    BY <1>1, <1>10, <1>11 DEF ReaderPlace, Current, Past
  <2>4. up => WriterPlace' = WriterPlace
    BY <1>1, WriterKept DEF IInv
  <2> QED BY <1>1, <1>4, <1>8, <2>2, <2>3, <2>4 DEF StreamInv
<1>16. up' => WriterInv'
  BY <1>1, WriterKept DEF IInv
<1> QED BY <1>1, <1>12, <1>14, <1>15, <1>16 DEF IInv

(* ReadBody hands over a message whole, and then it is the next one sent. *)
LEMMA ReadBodyStep == IInv /\ ReadBody => IInv' /\ (Channel!Receive \/ UNCHANGED <<sent, got>>)
<1> SUFFICES ASSUME IInv, ReadBody PROVE IInv' /\ (Channel!Receive \/ UNCHANGED <<sent, got>>)
  OBVIOUS
<1> DEFINE m == Current
           o == Len(reader.payload)
           n == Need
           p == sent[Current].payload
           payload == reader.payload \o SubSeq(stream, 1, Need)
<1>1. /\ reader.at = "body" /\ n <= Len(stream) /\ UNCHANGED <<writer, up, sent>>
      /\ stream' = SubSeq(stream, n + 1, Len(stream))
      /\ IF reader.hdr.eom
         THEN got' = Append(got, [type |-> reader.type, payload |-> payload]) /\ reader' = ReaderStart
         ELSE reader' = [reader EXCEPT !.at = "header", !.payload = payload] /\ got' = got
  BY DEF ReadBody, IInv, TypeOK
<1>2. TypeOK /\ ReaderInv
  BY DEF IInv
<1>3. /\ stream \in Seq(Item) /\ Len(stream) \in Nat /\ reader.payload \in Seq(Byte) /\ o \in Nat
      /\ got \in Seq(Message) /\ Len(got) \in Nat /\ m = Len(got) + 1 /\ m \in 1..Len(sent) /\ sent \in Seq(Message)
      /\ p \in Seq(Byte) /\ Len(p) \in Nat /\ sent[m] \in Message
  <2>1. Len(got) \in Nat /\ m = Len(got) + 1 /\ m \in 1..Len(sent) /\ sent \in Seq(Message)
    BY <1>1, <1>2 DEF TypeOK, ReaderInv, Current
  <2>2. p \in Seq(Byte) /\ Len(p) \in Nat /\ sent[m] \in Message
    BY <2>1, PayloadType
  <2> QED BY <1>2, <2>1, <2>2 DEF TypeOK
<1>4. /\ ~reader.first /\ reader.type = sent[m].type /\ o <= Len(p) /\ reader.payload = SubSeq(p, 1, o)
      /\ n = Share(sent, m, o) /\ (reader.hdr.eom <=> o + n = Len(p))
  BY <1>1, <1>2 DEF ReaderInv
<1>5. n \in Nat /\ o + n <= Len(p) /\ (o + n # Len(p) => n > 0)
  <2>1. o \in 0..Len(p)
    BY <1>3, <1>4
  <2>2. n \in 0..MaxBody /\ o + n <= Len(p) /\ (n = 0 => o = Len(p))
    BY <1>3, <1>4, <2>1, ShareSize
  <2> HIDE DEF n, o, p
  <2> QED BY <1>3, <2>2, Sizes
<1>6. PICK f : /\ Reading(stream, sent, f) /\ f[0] = Past(sent, m, o, n)
               /\ (up => f[Len(stream)] = WriterPlace)
  BY <1>1 DEF IInv, StreamInv, ReaderPlace
<1>7. (\A i \in 1..n : stream[i] = p[o + i]) /\ f[n] = Past(sent, m, o + n, 0)
  <2>1. /\ \A i \in 1..n : i <= Len(stream) => stream[i] = sent[m].payload[o + i]
        /\ n <= Len(stream) => f[n] = Past(sent, m, o + n, 0)
    BY <1>3, <1>5, <1>6, BytesTaken
  <2> QED BY <1>1, <1>3, <1>5, <2>1
<1>8. payload = SubSeq(p, 1, o + n)
  <2> DEFINE b == SubSeq(stream, 1, n)
             q == SubSeq(p, 1, o)
  <2>1. b \in Seq(Item) /\ Len(b) = n /\ \A i \in 1..n : b[i] = p[o + i]
    <3>1. \A s \in Seq(Item) : \A k \in 0..Len(s) :
            /\ SubSeq(s, 1, k) \in Seq(Item) /\ Len(SubSeq(s, 1, k)) = k
            /\ \A i \in 1..k : SubSeq(s, 1, k)[i] = s[i]
      OBVIOUS
    <3>2. n \in 0..Len(stream) /\ stream \in Seq(Item)
      BY <1>1, <1>3, <1>5
    <3> HIDE DEF n, o, p
    <3>3. b \in Seq(Item) /\ Len(b) = n /\ \A i \in 1..n : b[i] = stream[i]
      BY <3>1, <3>2
    <3> QED BY <3>3, <1>7
  <2>2. b = SubSeq(p, o + 1, o + n)
    <3>1. /\ SubSeq(p, o + 1, o + n) \in Seq(Byte) /\ Len(SubSeq(p, o + 1, o + n)) = n
          /\ \A i \in 1..n : SubSeq(p, o + 1, o + n)[i] = p[o + i]
      <4>1. \A s \in Seq(Byte) : \A k, l \in Nat : k + l <= Len(s) =>
              /\ SubSeq(s, k + 1, k + l) \in Seq(Byte) /\ Len(SubSeq(s, k + 1, k + l)) = l
              /\ \A i \in 1..l : SubSeq(s, k + 1, k + l)[i] = s[k + i]
        OBVIOUS
      <4> HIDE DEF p, o, n
      <4> QED BY <1>3, <1>5, <4>1
    <3> HIDE DEF b, p, o, n
    <3> QED BY <2>1, <3>1, SeqEqual
  <2>3. \A s \in Seq(Byte) : \A i, j \in Nat : i <= j /\ j <= Len(s) =>
          SubSeq(s, 1, i) \o SubSeq(s, i + 1, j) = SubSeq(s, 1, j)
    OBVIOUS
  <2>4. o <= o + n /\ o + n \in Nat
    BY <1>3, <1>5
  <2>5. payload = q \o b
    BY <1>4
  <2> HIDE DEF p, o, n, payload, b
  <2> QED BY <1>3, <1>5, <2>2, <2>3, <2>4, <2>5
<1>9. \E g : Reading(stream', sent, g) /\ g[0] = f[n] /\ g[Len(stream')] = f[Len(stream)]
  <2> DEFINE g == [j \in 0..(Len(stream) - n) |-> f[j + n]]
  <2>1. Shifted(stream', g, stream, f, n) /\ n \in 0..Len(stream)
    BY <1>1, <1>3, <1>5 DEF Shifted
  <2> HIDE DEF g, n
  <2>2. Reading(stream', sent, g) /\ g[0] = f[n] /\ g[Len(stream')] = f[Len(stream)]
    BY <1>3, <1>6, <2>1, ReadingShift
  <2> QED BY <2>2
<1>10. stream' \in Seq(Item)
  <2>1. n + 1 \in 1..(Len(stream) + 1)
    BY <1>1, <1>3, <1>5
  <2> HIDE DEF n
  <2> QED BY <1>1, <1>3, <2>1
<1>11. (up' => WriterInv') /\ (up => WriterPlace' = WriterPlace)
  BY <1>1, WriterKept DEF IInv
<1>12. CASE reader.hdr.eom
  <2>1. got' = Append(got, [type |-> reader.type, payload |-> payload]) /\ reader' = ReaderStart
    BY <1>1, <1>12
  <2>2. [type |-> reader.type, payload |-> payload] = sent[m]
    <3>1. payload = p
      <4>1. \A s \in Seq(Byte) : SubSeq(s, 1, Len(s)) = s
        OBVIOUS
      <4> QED BY <1>3, <1>4, <1>8, <1>12, <4>1
    <3> QED BY <1>3, <1>4, <3>1 DEF Message
  <2>3. /\ got' = Append(got, sent[m]) /\ got' \in Seq(Message) /\ Len(got') = m
        /\ got'[m] = sent[m] /\ \A i \in 1..Len(got) : got'[i] = got[i]
    BY <1>3, <2>1, <2>2
  <2>4. Channel!Receive
    BY <1>1, <1>3, <2>3 DEF Channel!Receive
  <2>5. reader' \in [at : {"header", "body", "failed"}, first : BOOLEAN, type : Type, payload : Seq(Byte),
                     hdr : [eom : BOOLEAN, length : 0..(Width - 1)]]
    <3>1. (CHOOSE t \in Type : TRUE) \in Type /\ HeaderSize \in 0..(Width - 1)
      BY FramingAssumption, Sizes
    <3> QED BY <2>1, <3>1 DEF ReaderStart, NoHeader
  <2>6. TypeOK'
    BY <1>1, <1>2, <1>10, <2>3, <2>5 DEF TypeOK
  <2>7. ReaderInv'
    <3>1. Len(got') <= Len(sent') /\ \A i \in 1..Len(got') : got'[i] = sent'[i]
      <4> HIDE DEF m
      <4> QED BY <1>1, <1>2, <1>3, <2>3 DEF ReaderInv
    <3>2. reader'.at = "header" /\ reader'.payload = <<>>
      BY <2>1 DEF ReaderStart
    <3> QED BY <2>1, <3>1, <3>2 DEF ReaderInv
  <2>8. ReaderPlace' = f[n]
    <3>1. Current' = m + 1 /\ ReaderPlace' = At(Current', 0, 0)
      BY <2>1, <2>3 DEF ReaderPlace, Current, ReaderStart
    <3>2. f[n] = At(m + 1, 0, 0)
      BY <1>4, <1>7, <1>12 DEF Past
    <3> QED BY <3>1, <3>2
  <2>9. StreamInv'
    BY <1>1, <1>6, <1>9, <1>11, <2>8 DEF StreamInv
  <2> QED BY <1>11, <2>4, <2>6, <2>7, <2>9 DEF IInv
<1>13. CASE ~reader.hdr.eom
  <2>1. reader' = [reader EXCEPT !.at = "header", !.payload = payload] /\ got' = got
    BY <1>1, <1>13
  <2>2. payload \in Seq(Byte) /\ Len(payload) = o + n /\ payload # <<>>
    <3>1. o + n \in 1..Len(p)
      <4>1. o \in Nat /\ n \in Nat /\ n > 0 /\ o + n <= Len(p) /\ Len(p) \in Nat
        BY <1>3, <1>4, <1>5, <1>13
      <4> HIDE DEF p, o, n
      <4> QED BY <4>1
    <3>2. \A s \in Seq(Byte) : \A i \in 1..Len(s) : SubSeq(s, 1, i) \in Seq(Byte) /\ Len(SubSeq(s, 1, i)) = i
      OBVIOUS
    <3>3. SubSeq(p, 1, o + n) \in Seq(Byte) /\ Len(SubSeq(p, 1, o + n)) = o + n
      BY <1>3, <3>1, <3>2
    <3> HIDE DEF payload, p, o, n
    <3>4. Len(payload) = o + n /\ payload \in Seq(Byte) /\ o + n # 0
      BY <1>3, <1>8, <3>1, <3>3
    <3> QED BY <3>4
  <2>3. /\ reader'.at = "header" /\ reader'.payload = payload /\ reader'.first = reader.first
        /\ reader'.type = reader.type /\ reader'.hdr = reader.hdr
    BY <1>2, <2>1 DEF TypeOK
  <2>4. TypeOK'
    BY <1>1, <1>2, <1>10, <2>1, <2>2 DEF TypeOK
  <2>5. ReaderInv'
    <3>1. Current' = m /\ m <= Len(sent) /\ sent' = sent
      BY <1>1, <1>3, <2>1 DEF Current
    <3>2. Len(got') <= Len(sent') /\ \A i \in 1..Len(got') : got'[i] = sent'[i]
      BY <1>1, <1>2, <2>1 DEF ReaderInv
    <3>3. /\ ~reader'.first /\ reader'.type = sent'[Current'].type /\ Current' <= Len(sent')
          /\ Len(reader'.payload) <= Len(sent'[Current'].payload)
          /\ reader'.payload = SubSeq(sent'[Current'].payload, 1, Len(reader'.payload))
      BY <1>4, <1>5, <1>8, <2>2, <2>3, <3>1
    <3>4. reader'.at # "failed" /\ reader'.at # "body" /\ reader'.payload # <<>>
      BY <2>2, <2>3
    <3> HIDE DEF m, o, n, p, payload
    <3> QED BY <3>2, <3>3, <3>4 DEF ReaderInv
  <2>6. ReaderPlace' = f[n]
    <3>1. Current' = m /\ ReaderPlace' = At(m, o + n, 0)
      BY <2>1, <2>2, <2>3 DEF ReaderPlace, Current
    <3>2. f[n] = At(m, o + n, 0)
      BY <1>4, <1>7, <1>13 DEF Past
    <3> QED BY <3>1, <3>2
  <2>7. StreamInv'
    BY <1>1, <1>6, <1>9, <1>11, <2>6 DEF StreamInv
  <2> QED BY <1>1, <1>11, <2>1, <2>4, <2>5, <2>7 DEF IInv
<1> QED BY <1>12, <1>13

LEMMA ReadFailsStep == IInv /\ ReadFails => IInv' /\ UNCHANGED <<sent, got>>
<1> SUFFICES ASSUME IInv, ReadFails PROVE IInv' /\ UNCHANGED <<sent, got>>
  OBVIOUS
<1>1. ~up /\ UNCHANGED <<writer, stream, up, sent, got>> /\ reader' = [reader EXCEPT !.at = "failed"]
  BY DEF ReadFails
<1>2. reader'.at = "failed"
  BY <1>1 DEF IInv, TypeOK
<1>3. TypeOK'
  BY <1>1 DEF IInv, TypeOK
<1>4. ReaderInv'
  BY <1>1, <1>2 DEF IInv, ReaderInv
<1>5. StreamInv'
  BY <1>1, <1>2 DEF IInv, StreamInv
<1> QED BY <1>1, <1>3, <1>4, <1>5 DEF IInv

(* What is left of the stream is read as before. *)
LEMMA DieStep == IInv /\ Die => IInv' /\ UNCHANGED <<sent, got>>
<1> SUFFICES ASSUME IInv, Die PROVE IInv' /\ UNCHANGED <<sent, got>>
  OBVIOUS
<1>1. up' = FALSE /\ UNCHANGED <<writer, reader, sent, got>>
  BY DEF Die
<1>2. PICK k \in 0..Len(stream) : stream' = SubSeq(stream, 1, k)
  BY DEF Die
<1>3. stream \in Seq(Item) /\ TypeOK
  BY DEF IInv, TypeOK
<1>4. ReaderInv' /\ ReaderPlace' = ReaderPlace
  BY <1>1, ReaderKept DEF IInv
<1>5. PICK f : Reading(stream, sent, f) /\ (reader.at # "failed" => f[0] = ReaderPlace)
  BY DEF IInv, StreamInv
<1> DEFINE g == [j \in 0..k |-> f[j]]
<1>6. Shortened(stream', g, stream, f, k)
  BY <1>2 DEF Shortened
<1> HIDE DEF g
<1>7. stream' \in Seq(Item) /\ Reading(stream', sent, g) /\ g[0] = f[0]
  BY <1>3, <1>5, <1>6, ReadingCut
<1>8. StreamInv'
  BY <1>1, <1>4, <1>5, <1>7 DEF StreamInv
<1>9. TypeOK'
  BY <1>1, <1>3, <1>7 DEF TypeOK
<1> QED BY <1>1, <1>4, <1>8, <1>9 DEF IInv

-----------------------------------------------------------------------------
(* The theorems *)

LEMMA NextStep == IInv /\ [Next]_vars => IInv' /\ (Channel!Send \/ Channel!Receive \/ UNCHANGED <<sent, got>>)
<1> SUFFICES ASSUME IInv, [Next]_vars
             PROVE  IInv' /\ (Channel!Send \/ Channel!Receive \/ UNCHANGED <<sent, got>>)
  OBVIOUS
<1>1. CASE BeginWrite  BY <1>1, BeginWriteStep
<1>2. CASE WriteHeader BY <1>2, WriteHeaderStep
<1>3. CASE WriteBody   BY <1>3, WriteBodyStep
<1>4. CASE WriteFails  BY <1>4, WriteFailsStep
<1>5. CASE ReadHeader  BY <1>5, ReadHeaderStep
<1>6. CASE ReadBody    BY <1>6, ReadBodyStep
<1>7. CASE ReadFails   BY <1>7, ReadFailsStep
<1>8. CASE Die         BY <1>8, DieStep
<1>9. CASE UNCHANGED vars
  <2>1. UNCHANGED <<writer, stream, up, reader, sent, got>>
    BY <1>9 DEF vars
  <2>2. TypeOK' /\ (up' => WriterInv' /\ WriterPlace' = WriterPlace) /\ ReaderInv' /\ ReaderPlace' = ReaderPlace
    BY <2>1, WriterKept, ReaderKept DEF IInv, TypeOK
  <2>3. StreamInv'
    BY <2>1, <2>2 DEF IInv, StreamInv
  <2> QED BY <2>1, <2>2, <2>3 DEF IInv
<1> QED BY <1>1, <1>2, <1>3, <1>4, <1>5, <1>6, <1>7, <1>8, <1>9 DEF Next, Write, Read

LEMMA InvariantHolds == Spec => []IInv
<1>1. Init => IInv
  BY InitIInv
<1>2. IInv /\ [Next]_vars => IInv'
  BY NextStep
<1> QED BY <1>1, <1>2, PTL DEF Spec

(* A reader that looks for a header stands where a header is, or at the end *)
(* of the stream, and one that waits for a body takes only that body's      *)
(* bytes.  At the end of the stream its place is the writer's.              *)
LEMMA ReadingInStep == IInv => InStep
<1> SUFFICES ASSUME IInv PROVE InStep
  OBVIOUS
<1>1. TypeOK /\ ReaderInv
  BY DEF IInv
<1>2. PICK f : /\ Reading(stream, sent, f) /\ (reader.at # "failed" => f[0] = ReaderPlace)
               /\ (up => f[Len(stream)] = WriterPlace)
  BY DEF IInv, StreamInv
<1>3. /\ stream \in Seq(Item) /\ Len(stream) \in Nat /\ sent \in Seq(Message) /\ Len(sent) \in Nat
      /\ Len(got) \in Nat /\ Len(reader.payload) \in Nat /\ Current = Len(got) + 1
  BY <1>1 DEF TypeOK, Current
<1>4. reader.at = "header" /\ stream # <<>> => IsHeader(Head(stream))
  <2> SUFFICES ASSUME reader.at = "header", stream # <<>> PROVE Head(stream) \in Header
    BY DEF IsHeader
  <2>1. 0 \in 0..(Len(stream) - 1) /\ 0 + 1 = 1 /\ Head(stream) = stream[1]
    BY <1>3
  <2>2. f[0].n = 0
    BY <1>2 DEF ReaderPlace, At
  <2>3. HeaderRead(sent, f[0], stream[0 + 1], f[0 + 1])
    BY <1>2, <2>1, <2>2 DEF Reading, HeadersRead
  <2> QED BY <2>1, <2>3 DEF HeaderRead
<1>5. ASSUME reader.at = "body"
      PROVE  /\ Current \in 1..Len(sent) /\ Need \in Nat /\ f[0] = Past(sent, Current, Len(reader.payload), Need)
             /\ Len(reader.payload) + Need <= Len(sent[Current].payload) /\ Len(sent[Current].payload) \in Nat
             /\ (reader.hdr.eom <=> Len(reader.payload) + Need = Len(sent[Current].payload))
             /\ sent[Current].payload \in Seq(Byte)
  <2>1. /\ Current \in 1..Len(sent) /\ Need = Share(sent, Current, Len(reader.payload))
        /\ Len(reader.payload) <= Len(sent[Current].payload)
        /\ (reader.hdr.eom <=> Len(reader.payload) + Need = Len(sent[Current].payload))
    BY <1>1, <1>3, <1>5 DEF ReaderInv
  <2>2. sent[Current].payload \in Seq(Byte) /\ Len(sent[Current].payload) \in Nat
    BY <1>3, <2>1, PayloadType
  <2>3. Len(reader.payload) \in 0..Len(sent[Current].payload)
    BY <1>3, <2>1, <2>2
  <2>4. Need \in Nat /\ Len(reader.payload) + Need <= Len(sent[Current].payload)
    BY <1>3, <2>1, <2>3, ShareSize, Sizes
  <2>5. f[0] = Past(sent, Current, Len(reader.payload), Need)
    BY <1>2, <1>5 DEF ReaderPlace
  <2> QED BY <2>1, <2>2, <2>4, <2>5
<1>6. reader.at = "body" => \A i \in 1..Len(stream) : i <= Need => ~IsHeader(stream[i])
  <2> SUFFICES ASSUME reader.at = "body", NEW i \in 1..Len(stream), i <= Need PROVE stream[i] \in Byte
    BY ItemAssumption DEF IsHeader
  <2>1. \A d \in 1..Need : d <= Len(stream) => stream[d] = sent[Current].payload[Len(reader.payload) + d]
    BY <1>2, <1>3, <1>5, BytesTaken
  <2>2. i \in 1..Need /\ i <= Len(stream)
    BY <1>3, <1>5
  <2>3. Len(reader.payload) + i \in 1..Len(sent[Current].payload)
    <3> DEFINE a == Len(reader.payload)
               b == Len(sent[Current].payload)
               c == Need
    <3>1. a \in Nat /\ b \in Nat /\ c \in Nat /\ a + c <= b /\ i \in 1..c
      BY <1>3, <1>5, <2>2
    <3> HIDE DEF a, b, c
    <3>2. a + i \in 1..b
      BY <3>1
    <3> QED BY <3>2 DEF a, b
  <2> QED BY <1>5, <2>1, <2>2, <2>3
<1>7. ASSUME up, writer.at = "idle", stream = <<>>
      PROVE  \/ reader = ReaderStart /\ got = sent
             \/ reader.at = "body" /\ Need = 0 /\ reader.hdr.eom
  <2>1. f[0] = At(Len(sent) + 1, 0, 0)
    BY <1>2, <1>7 DEF WriterPlace
  <2>2. reader.at # "failed" /\ f[0] = ReaderPlace
    BY <1>1, <1>2, <1>7 DEF ReaderInv
  <2>3. CASE reader.at = "header"
    <3>1. Current = Len(sent) + 1 /\ Len(reader.payload) = 0
      BY <2>1, <2>2, <2>3 DEF ReaderPlace, At
    <3>2. reader.payload = <<>> /\ Len(got) = Len(sent)
      BY <1>1, <1>3, <3>1 DEF TypeOK
    <3>3. got = sent
      BY <1>1, <3>2, SeqEqual DEF TypeOK, ReaderInv
    <3>4. reader = ReaderStart
      BY <1>1, <2>3, <3>2 DEF ReaderInv
    <3> QED BY <3>3, <3>4
  <2>4. CASE reader.at = "body"
    <3>1. Past(sent, Current, Len(reader.payload), Need) = At(Len(sent) + 1, 0, 0) /\ Current # Len(sent) + 1
      BY <1>3, <1>5, <2>1, <2>4
    <3>2. ~(Need > 0) /\ Len(reader.payload) = Len(sent[Current].payload)
      BY <3>1 DEF Past, At
    <3>3. Need = 0
      BY <1>5, <2>4, <3>2
    <3>4. reader.hdr.eom
      BY <1>3, <1>5, <2>4, <3>2, <3>3
    <3> QED BY <2>4, <3>3, <3>4
  <2> QED BY <1>1, <2>2, <2>3, <2>4 DEF TypeOK
<1> QED BY <1>4, <1>6, <1>7 DEF InStep

(* The two ends of a connection never lose each other's place, for any      *)
(* packet size, payloads and number of messages (framing.go: WriteMessage,  *)
(* ReadMessage).                                                            *)
THEOREM FramingInStep == Spec => []InStep
BY InvariantHolds, ReadingInStep, PTL

(* The refinement: starting a message is Send, taking the body of a last    *)
(* packet is Receive, and every other step of either end leaves the channel *)
(* as it is.                                                                *)
THEOREM FramingImplementsChannel == Spec => WholeMessages
<1>1. Init => Channel!Init
  BY DEF Init, Channel!Init
<1>2. IInv /\ [Next]_vars => [Channel!Send \/ Channel!Receive]_<<sent, got>>
  BY NextStep
<1> QED BY <1>1, <1>2, InvariantHolds, PTL DEF Spec, WholeMessages, Channel!Spec
=============================================================================
