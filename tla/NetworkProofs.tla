--------------------------- MODULE NetworkProofs ----------------------------
(***************************************************************************)
(* The stream of candidates, for any number of connections and candidates  *)
(* and any lengths of records, handshake, buffer and socket: IInv is an    *)
(* invariant of Network.  The argument follows the position of every byte  *)
(* in all that a client ever writes; the division of what has arrived into *)
(* records is the arithmetic of Numbers.                                   *)
(***************************************************************************)
EXTENDS Network, Numbers, TLAPS

(***************************************************************************)
(* Positions of bytes in records                                           *)
(***************************************************************************)

\* The assumptions on the lengths, as the provers use them.
LEMMA Lengths ==
    /\ RecordLen \in Nat /\ RecordLen > 0
    /\ HandshakeLen \in Nat /\ HandshakeLen > 0 /\ SizeByte \in 1 .. HandshakeLen
    /\ BufLen \in Nat /\ RecordLen <= BufLen
    /\ MaxRecords \in Nat
BY LengthsAssumption

\* Whole records take a number of bytes.
LEMMA Product == ASSUME NEW n \in Nat PROVE n * RecordLen \in Nat
BY Lengths

\* The place of the k-th byte of the (m + 1)-th candidate in the stream.
LEMMA RecordAt ==
    ASSUME NEW c, NEW m \in Nat, NEW k \in 1 .. RecordLen
    PROVE  StreamByte(c, HandshakeLen + m * RecordLen + k) = Record(c, m + 1)[k]
<1>1. m * RecordLen \in Nat  BY Lengths
<1>2. k - 1 \in 0 .. RecordLen - 1  BY Lengths
<1>. DEFINE i == HandshakeLen + m * RecordLen + k
<1>3. ~(i <= HandshakeLen) /\ i - HandshakeLen - 1 = m * RecordLen + (k - 1)  BY <1>1, Lengths
<1>4. (m * RecordLen + (k - 1)) \div RecordLen = m /\ (m * RecordLen + (k - 1)) % RecordLen = k - 1
  BY <1>2, Lengths, DivModUnique
<1>. HIDE DEF i
<1>5. StreamByte(c, i) = Record(c, 1 + m)[(k - 1) + 1]  BY <1>3, <1>4 DEF StreamByte
<1>6. 1 + m = m + 1 /\ (k - 1) + 1 = k  OBVIOUS
<1>. QED  BY <1>5, <1>6 DEF i

\* What the client drains is the part of the stream that belongs to the
\* candidates from + 1 .. to.
LEMMA BytesAt ==
    ASSUME NEW c \in Conns, NEW from \in Nat, NEW to \in Nat, from <= to, to <= MaxRecords
    PROVE  /\ Bytes(c, from, to) \in Seq(ByteType)
           /\ Len(Bytes(c, from, to)) = (to - from) * RecordLen
           /\ After(c, HandshakeLen + from * RecordLen, Bytes(c, from, to))
<1>. DEFINE n == to - from
            b == Bytes(c, from, to)
<1>1. n \in Nat /\ n * RecordLen \in Nat /\ from * RecordLen \in Nat  BY Lengths
<1>2. ASSUME NEW j \in 1 .. n * RecordLen
      PROVE  /\ b[j] \in ByteType
             /\ b[j] = StreamByte(c, HandshakeLen + from * RecordLen + j)
  <2>. DEFINE q == (j - 1) \div RecordLen
              r == (j - 1) % RecordLen
  <2>1. j - 1 \in Nat  BY <1>1
  <2>2. q \in Nat /\ r \in 0 .. RecordLen - 1 /\ j - 1 = q * RecordLen + r
    BY <2>1, Lengths, DivMod
  <2>3. b[j] = Record(c, from + 1 + q)[r + 1]  BY <1>2 DEF Bytes
  <2>. HIDE DEF q, r, b
  <2>4. q < n
    <3>1. SUFFICES ASSUME q >= n PROVE FALSE  BY <1>1, <2>2
    <3>2. q * RecordLen >= n * RecordLen
      <4>1. CASE q = n  BY <1>1, <4>1
      <4>2. CASE q > n
        <5>1. q * RecordLen >= n * RecordLen + RecordLen
          BY <1>1, <2>2, <4>2, Lengths, SmallMultiple
        <5>2. q * RecordLen \in Nat  BY <2>2, Lengths
        <5>. QED  BY <1>1, <5>1, <5>2, Lengths
      <4>. QED  BY <1>1, <2>2, <3>1, <4>1, <4>2
    <3>3. PICK x \in Nat, y \in Nat : x = q * RecordLen /\ y = n * RecordLen
      BY <1>1, <2>2, Lengths
    <3>4. x >= y /\ j - 1 = x + r /\ j <= y  BY <1>2, <2>2, <3>2, <3>3
    <3>. QED  BY <2>2, <3>4, Lengths
  <2>5. r + 1 \in 1 .. RecordLen /\ from + 1 + q \in 0 .. MaxRecords
    BY <1>1, <2>2, <2>4, Lengths
  <2>6. b[j] = [conn |-> c, rec |-> from + 1 + q, byte |-> r + 1]  BY <2>3, <2>5 DEF Record
  <2>7. r + 1 \in 1 .. RecordLen + HandshakeLen  BY <2>5, Lengths
  <2>8. b[j] \in ByteType  BY <2>5, <2>6, <2>7 DEF ByteType
  <2>9. HandshakeLen + from * RecordLen + j = HandshakeLen + (from + q) * RecordLen + (r + 1)
    <3>1. (from + q) * RecordLen = from * RecordLen + q * RecordLen  BY <2>2, Lengths
    <3>2. PICK x \in Nat, y \in Nat : x = q * RecordLen /\ y = from * RecordLen
      BY <1>1, <2>2, Lengths
    <3>3. (from + q) * RecordLen = y + x /\ j = x + r + 1  BY <2>2, <3>1, <3>2
    <3>. QED  BY <2>2, <3>2, <3>3, Lengths
  <2>10. StreamByte(c, HandshakeLen + (from + q) * RecordLen + (r + 1)) = Record(c, from + q + 1)[r + 1]
    BY <2>2, <2>5, RecordAt
  <2>11. from + q + 1 = from + 1 + q  BY <2>2
  <2>. QED  BY <2>3, <2>8, <2>9, <2>10, <2>11
<1>3. b = [j \in 1 .. n * RecordLen |-> b[j]]  BY DEF Bytes
<1>. HIDE DEF b
<1>4. b \in Seq(ByteType) /\ Len(b) = n * RecordLen  BY <1>1, <1>2, <1>3
<1>5. After(c, HandshakeLen + from * RecordLen, b)  BY <1>2, <1>4 DEF After
<1>. QED  BY <1>4, <1>5 DEF b

\* The handshake is the beginning of the stream.
LEMMA HandshakeAt ==
    ASSUME NEW c \in Conns
    PROVE  /\ HandshakeOf(c \in Matching) \in Seq(ByteType)
           /\ Len(HandshakeOf(c \in Matching)) = HandshakeLen
           /\ After(c, 0, HandshakeOf(c \in Matching))
<1>. DEFINE h == HandshakeOf(c \in Matching)
<1>1. \A k \in 1 .. HandshakeLen : h[k] \in ByteType
  BY Lengths DEF HandshakeOf, ByteType
<1>2. h = [k \in 1 .. HandshakeLen |-> h[k]]  BY DEF HandshakeOf
<1>. HIDE DEF h
<1>3. h \in Seq(ByteType) /\ Len(h) = HandshakeLen  BY <1>1, <1>2, Lengths
<1>4. \A k \in 1 .. HandshakeLen : h[k] = StreamByte(c, 0 + k)  BY Lengths DEF StreamByte, h
<1>5. After(c, 0, h)  BY <1>3, <1>4 DEF After
<1>. QED  BY <1>3, <1>5 DEF h

(***************************************************************************)
(* Parts of the stream                                                     *)
(***************************************************************************)

\* Two parts that follow each other are a part.
LEMMA AfterConcat ==
    ASSUME NEW c, NEW n \in Nat, NEW s \in Seq(ByteType), NEW t \in Seq(ByteType),
           After(c, n, s), After(c, n + Len(s), t)
    PROVE  /\ s \o t \in Seq(ByteType) /\ Len(s \o t) = Len(s) + Len(t)
           /\ After(c, n, s \o t)
<1>1. s \o t \in Seq(ByteType) /\ Len(s \o t) = Len(s) + Len(t) /\ Len(s) \in Nat /\ Len(t) \in Nat
  OBVIOUS
<1>2. ASSUME NEW j \in 1 .. Len(s) + Len(t) PROVE (s \o t)[j] = StreamByte(c, n + j)
  <2>1. CASE j <= Len(s)
    <3>1. j \in 1 .. Len(s) /\ (s \o t)[j] = s[j]  BY <1>1, <2>1
    <3>. QED  BY <3>1 DEF After
  <2>2. CASE j > Len(s)
    <3>1. j - Len(s) \in 1 .. Len(t) /\ (s \o t)[j] = t[j - Len(s)]  BY <1>1, <2>2
    <3>2. n + Len(s) + (j - Len(s)) = n + j  BY <1>1
    <3>. QED  BY <3>1, <3>2 DEF After
  <2>. QED  BY <1>1, <2>1, <2>2
<1>. QED  BY <1>1, <1>2 DEF After

\* A part can be cut in two.
LEMMA AfterCut ==
    ASSUME NEW c, NEW n \in Nat, NEW s \in Seq(ByteType), NEW k \in 0 .. Len(s), After(c, n, s)
    PROVE  /\ SubSeq(s, 1, k) \in Seq(ByteType) /\ Len(SubSeq(s, 1, k)) = k
           /\ After(c, n, SubSeq(s, 1, k))
           /\ SubSeq(s, k + 1, Len(s)) \in Seq(ByteType)
           /\ Len(SubSeq(s, k + 1, Len(s))) = Len(s) - k
           /\ After(c, n + k, SubSeq(s, k + 1, Len(s)))
<1>1. /\ SubSeq(s, 1, k) \in Seq(ByteType) /\ Len(SubSeq(s, 1, k)) = k
      /\ \A j \in 1 .. k : SubSeq(s, 1, k)[j] = s[j]
  OBVIOUS
<1>2. /\ SubSeq(s, k + 1, Len(s)) \in Seq(ByteType) /\ Len(SubSeq(s, k + 1, Len(s))) = Len(s) - k
      /\ \A j \in 1 .. Len(s) - k : SubSeq(s, k + 1, Len(s))[j] = s[k + j]
  OBVIOUS
<1>3. \A j \in 1 .. Len(s) - k : s[k + j] = StreamByte(c, n + (k + j)) /\ n + (k + j) = n + k + j
  BY DEF After
<1>4. After(c, n, SubSeq(s, 1, k))  BY <1>1 DEF After
<1>5. After(c, n + k, SubSeq(s, k + 1, Len(s)))  BY <1>2, <1>3 DEF After
<1>. QED  BY <1>1, <1>2, <1>4, <1>5

\* The n-th record handle_read copies out of what has arrived, and all of them.
Copied(data, n) == SubSeq(data, (n - 1) * RecordLen + 1, n * RecordLen)
AllCopied(data, count) == [n \in 1 .. count |-> Copied(data, n)]

\* How many there are: the rest is less than one.
LEMMA CountAndRest ==
    ASSUME NEW len \in Nat
    PROVE  \E count \in Nat, whole \in 0 .. len :
               /\ count = len \div RecordLen /\ whole = count * RecordLen
               /\ len - whole < RecordLen
<1>. DEFINE count == len \div RecordLen
            r == len % RecordLen
<1>1. count \in Nat /\ r \in 0 .. RecordLen - 1 /\ len = count * RecordLen + r
  BY Lengths, DivMod
<1>. HIDE DEF count, r
<1>2. PICK whole \in Nat : whole = count * RecordLen  BY <1>1, Lengths
<1>3. len = whole + r  BY <1>1, <1>2
<1>4. whole \in 0 .. len /\ len - whole < RecordLen  BY <1>1, <1>3, Lengths
<1>. QED  BY <1>1, <1>2, <1>4 DEF count

\* If data goes on after m candidates, a record copied out of it is the next
\* candidate in turn.
LEMMA CopiedIsNext ==
    ASSUME NEW c, NEW m \in Nat, NEW data \in Seq(ByteType),
           After(c, HandshakeLen + m * RecordLen, data),
           NEW count \in Nat, count * RecordLen <= Len(data), NEW n \in 1 .. count
    PROVE  Copied(data, n) \in Seq(ByteType) /\ Copied(data, n) = Record(c, m + n)
<1>1. PICK d \in Nat : d = (n - 1) * RecordLen
  <2>1. n - 1 \in Nat  OBVIOUS
  <2>. QED  BY <2>1, Lengths
<1>2. n * RecordLen = d + RecordLen
  <2>1. (n - 1) * RecordLen = n * RecordLen - RecordLen  BY Lengths
  <2>2. n * RecordLen \in Int  BY Lengths
  <2>. QED  BY <1>1, <2>1, <2>2, Lengths
<1>3. d + RecordLen <= Len(data)
  <2>1. PICK w \in Nat : w = count * RecordLen  BY Lengths
  <2>2. CASE n = count  BY <1>2, <2>2
  <2>3. CASE count > n
    <3>1. count * RecordLen >= n * RecordLen + RecordLen  BY <2>3, Lengths, SmallMultiple
    <3>2. w >= d + RecordLen + RecordLen  BY <1>2, <2>1, <3>1
    <3>3. w <= Len(data) /\ Len(data) \in Nat  BY <2>1
    <3>. QED  BY <2>1, <3>2, <3>3, Lengths
  <2>. QED  BY <2>2, <2>3
<1>4. Copied(data, n) = SubSeq(data, d + 1, d + RecordLen)  BY <1>1, <1>2 DEF Copied
<1>5. /\ Copied(data, n) \in Seq(ByteType) /\ Len(Copied(data, n)) = RecordLen
      /\ \A k \in 1 .. RecordLen : Copied(data, n)[k] = data[d + k] /\ d + k \in 1 .. Len(data)
  BY <1>3, <1>4, Lengths
<1>6. ASSUME NEW k \in 1 .. RecordLen PROVE Copied(data, n)[k] = Record(c, m + n)[k]
  <2>1. data[d + k] = StreamByte(c, HandshakeLen + m * RecordLen + (d + k))
    BY <1>5 DEF After
  <2>2. HandshakeLen + m * RecordLen + (d + k) = HandshakeLen + (m + (n - 1)) * RecordLen + k
    <3>1. (m + (n - 1)) * RecordLen = m * RecordLen + (n - 1) * RecordLen  BY Lengths
    <3>2. PICK x \in Nat : x = m * RecordLen  BY Lengths
    <3>3. (m + (n - 1)) * RecordLen = x + d  BY <1>1, <3>1, <3>2
    <3>. QED  BY <3>2, <3>3, Lengths
  <2>3. m + (n - 1) \in Nat /\ m + (n - 1) + 1 = m + n  OBVIOUS
  <2>4. StreamByte(c, HandshakeLen + (m + (n - 1)) * RecordLen + k) = Record(c, m + n)[k]
    BY ZenonT(40), <2>3, RecordAt
  <2>. QED  BY <1>5, <2>1, <2>2, <2>4
<1>7. Record(c, m + n) = [k \in 1 .. RecordLen |-> Record(c, m + n)[k]]  BY DEF Record
<1>8. Copied(data, n) = [k \in 1 .. RecordLen |-> Copied(data, n)[k]]  BY <1>5
<1>. QED  BY <1>5, <1>6, <1>7, <1>8

(***************************************************************************)
(* Steps                                                                   *)
(***************************************************************************)

\* A step changes one connection: what holds of the others stays.
LEMMA OthersKept ==
    ASSUME IInv, NEW c \in Conns,
           \A d \in Conns \ {c} :
               /\ made'[d] = made[d] /\ drained'[d] = drained[d] /\ cli'[d] = cli[d]
               /\ out'[d] = out[d] /\ wire'[d] = wire[d] /\ broken'[d] = broken[d]
               /\ srv'[d] = srv[d] /\ hs'[d] = hs[d] /\ buf'[d] = buf[d]
               /\ received'[d] = received[d],
           TypeOK', ClientOK(c)', WireOK(c)', ServerOK(c)'
    PROVE  IInv'
<1>1. ASSUME NEW d \in Conns \ {c} PROVE ClientOK(d)' /\ WireOK(d)' /\ ServerOK(d)'
  <2>1. ClientOK(d)'  BY <1>1 DEF IInv, ClientOK
  <2>2. Taken(d)' = Taken(d) /\ Begun(d)' = Begun(d)  BY <1>1 DEF Taken, Begun
  <2>3. WireOK(d)'  BY <1>1, <2>2 DEF IInv, WireOK, After
  <2>4. ServerOK(d)'  BY <1>1 DEF IInv, ServerOK, After, AtEnd
  <2>. QED  BY <2>1, <2>3, <2>4
<1>. QED  BY <1>1 DEF IInv

\* The number of bytes read is a number.
LEMMA TakenNat == ASSUME TypeOK, NEW c \in Conns PROVE Taken(c) \in Nat
<1>1. hs[c] \in Seq(ByteType) /\ buf[c] \in Seq(ByteType) /\ received[c] \in Seq(Seq(ByteType))
  BY DEF TypeOK
<1>2. Len(received[c]) * RecordLen \in Nat  BY <1>1, Lengths
<1>. QED  BY <1>1, <1>2 DEF Taken

\* A candidate pushed on the client's queue touches nothing of the stream.
LEMMA PushKeeps == ASSUME IInv, NEW c \in Conns, Push(c) PROVE IInv'
<1>. USE DEF Push, srvVars
<1>1. made \in [Conns -> 0 .. MaxRecords] /\ drained[c] \in 0 .. MaxRecords
  BY DEF IInv, TypeOK
<1>2. TypeOK'
  <2>1. made' \in [Conns -> 0 .. MaxRecords]  BY <1>1, Lengths
  <2>. QED  BY <2>1 DEF IInv, TypeOK
<1>3. ClientOK(c)'  BY <1>1, Lengths DEF IInv, ClientOK
<1>4. WireOK(c)' /\ ServerOK(c)'
  BY DEF IInv, WireOK, ServerOK, After, AtEnd, Taken, Begun
<1>. QED  BY <1>1, <1>2, <1>3, <1>4, OthersKept

\* The handshake a client begins to write is the beginning of its stream.
LEMMA ConnectKeeps == ASSUME IInv, NEW c \in Conns, Connect(c) PROVE IInv'
<1>. USE DEF Connect, srvVars
<1>. DEFINE h == HandshakeOf(c \in Matching)
<1>1. cli \in [Conns -> {"connect", "write", "sleep", "gone"}] /\ out \in [Conns -> Seq(ByteType)]
  BY DEF IInv, TypeOK
<1>2. h \in Seq(ByteType) /\ Len(h) = HandshakeLen /\ After(c, 0, h)  BY HandshakeAt
<1>. HIDE DEF h
<1>3. out' = [out EXCEPT ![c] = h] /\ cli' = [cli EXCEPT ![c] = "write"]  BY DEF h
<1>4. /\ out'[c] = h /\ cli'[c] = "write" /\ cli[c] = "connect"
      /\ drained[c] = 0 /\ wire[c] = <<>> /\ ~broken[c] /\ srv[c] = "none"
  BY <1>1, <1>3 DEF IInv, ClientOK
<1>5. TypeOK'
  <2>1. out' \in [Conns -> Seq(ByteType)]
        /\ cli' \in [Conns -> {"connect", "write", "sleep", "gone"}]
    BY <1>1, <1>2, <1>3
  <2>. QED  BY <2>1 DEF IInv, TypeOK
<1>6. Taken(c)' = 0 /\ Begun(c)' = HandshakeLen
  <2>1. Len(hs[c]) = 0 /\ Len(received[c]) = 0 /\ Len(buf[c]) = 0
    BY <1>4 DEF IInv, ServerOK
  <2>. QED  BY <1>4, <2>1, Lengths DEF Taken, Begun
<1>7. ClientOK(c)'  BY <1>4 DEF IInv, ClientOK
<1>8. WireOK(c)'
  <2>1. Len(wire'[c]) = 0 /\ After(c, 0, wire'[c])  BY <1>4 DEF After
  <2>2. After(c, 0 + Len(wire'[c]), out'[c])  BY <1>2, <1>4, <2>1
  <2>3. 0 + Len(wire'[c]) + Len(out'[c]) = HandshakeLen  BY <1>2, <1>4, <2>1, Lengths
  <2>. QED  BY <1>4, <1>6, <2>1, <2>2, <2>3, Lengths DEF WireOK, After
<1>9. ServerOK(c)'  BY <1>4 DEF IInv, ServerOK, After, AtEnd
<1>. QED  BY <1>1, <1>5, <1>7, <1>8, <1>9, OthersKept

\* What asio::write hands to TCP leaves the head of out and goes to the end of
\* wire: both go on where they did in the stream.
LEMMA WriteSomeKeeps == ASSUME IInv, NEW c \in Conns, WriteSome(c) PROVE IInv'
<1>1. PICK k \in 1 .. Smaller(Len(out[c]), WireCap - Len(wire[c])) :
          /\ wire' = [wire EXCEPT ![c] = @ \o SubSeq(out[c], 1, k)]
          /\ out' = [out EXCEPT ![c] = SubSeq(@, k + 1, Len(@))]
          /\ cli' = [cli EXCEPT ![c] = IF k = Len(out[c]) THEN "sleep" ELSE "write"]
  BY DEF WriteSome
<1>2. /\ cli[c] = "write" /\ ~broken[c]
      /\ UNCHANGED <<made, drained, broken, srv, hs, buf, queue, received>>
  BY DEF WriteSome, srvVars
<1>3. /\ wire \in [Conns -> Seq(ByteType)] /\ out \in [Conns -> Seq(ByteType)]
      /\ cli \in [Conns -> {"connect", "write", "sleep", "gone"}]
      /\ hs[c] \in Seq(ByteType) /\ buf[c] \in Seq(ByteType)
      /\ received[c] \in Seq(Seq(ByteType)) /\ drained[c] \in Nat
  BY Lengths DEF IInv, TypeOK
<1>4. k \in 0 .. Len(out[c]) /\ k > 0
  BY <1>1, <1>3, LengthsAssumption DEF Smaller
<1>5. Taken(c) \in Nat /\ Taken(c)' = Taken(c) /\ Begun(c)' = Begun(c)
  <2>1. Taken(c) \in Nat  BY TakenNat DEF IInv
  <2>2. Taken(c)' = Taken(c)  BY <1>2 DEF Taken
  <2>3. cli[c] # "connect" /\ cli'[c] # "connect"  BY <1>1, <1>2, <1>3
  <2>4. Begun(c)' = Begun(c)  BY <1>2, <2>3 DEF Begun
  <2>. QED  BY <2>1, <2>2, <2>4
<1>6. /\ After(c, Taken(c), wire[c])
      /\ After(c, Taken(c) + Len(wire[c]), out[c])
      /\ Taken(c) + Len(wire[c]) + Len(out[c]) = Begun(c)
      /\ Taken(c) <= Begun(c)
  BY <1>2 DEF IInv, WireOK
<1>. DEFINE w == wire[c] \o SubSeq(out[c], 1, k)
            o == SubSeq(out[c], k + 1, Len(out[c]))
<1>7. /\ SubSeq(out[c], 1, k) \in Seq(ByteType) /\ Len(SubSeq(out[c], 1, k)) = k
      /\ After(c, Taken(c) + Len(wire[c]), SubSeq(out[c], 1, k))
      /\ o \in Seq(ByteType) /\ Len(o) = Len(out[c]) - k
      /\ After(c, Taken(c) + Len(wire[c]) + k, o)
  BY <1>3, <1>4, <1>5, <1>6, AfterCut
<1>8. w \in Seq(ByteType) /\ Len(w) = Len(wire[c]) + k /\ After(c, Taken(c), w)
  <2>. DEFINE t == SubSeq(out[c], 1, k)
  <2>1. t \in Seq(ByteType) /\ Len(t) = k /\ After(c, Taken(c) + Len(wire[c]), t)  BY <1>7
  <2>. HIDE DEF t
  <2>2. wire[c] \o t \in Seq(ByteType) /\ Len(wire[c] \o t) = Len(wire[c]) + k
        /\ After(c, Taken(c), wire[c] \o t)
    <3>1. wire[c] \in Seq(ByteType) /\ Taken(c) \in Nat /\ After(c, Taken(c), wire[c])
      BY <1>3, <1>5, <1>6
    <3>. QED  BY <2>1, <3>1, AfterConcat
  <2>. QED  BY <2>2 DEF t
<1>9. wire'[c] = w /\ out'[c] = o /\ cli'[c] = IF k = Len(out[c]) THEN "sleep" ELSE "write"
  BY <1>1, <1>3
<1>10. TypeOK'
  <2>1. /\ wire' \in [Conns -> Seq(ByteType)] /\ out' \in [Conns -> Seq(ByteType)]
        /\ cli' \in [Conns -> {"connect", "write", "sleep", "gone"}]
    BY <1>1, <1>3, <1>7, <1>8
  <2>. QED  BY <1>2, <2>1 DEF IInv, TypeOK
<1>. HIDE DEF w, o
<1>11. ClientOK(c)'
  <2>1. cli'[c] = "sleep" => out'[c] = <<>>  BY <1>3, <1>7, <1>9
  <2>. QED  BY <1>2, <1>9, <2>1 DEF IInv, ClientOK
<1>12. WireOK(c)'
  <2>1. Taken(c) + Len(w) = Taken(c) + Len(wire[c]) + k  BY <1>3, <1>4, <1>5, <1>8
  <2>2. Taken(c) + Len(w) + Len(o) = Begun(c)  BY <1>3, <1>4, <1>5, <1>6, <1>7, <2>1
  <2>. QED  BY <1>2, <1>5, <1>6, <1>7, <1>8, <1>9, <2>1, <2>2 DEF WireOK, After
<1>13. ServerOK(c)'
  <2>1. ~AtEnd(c) \/ srv[c] # "read" \/ (Len(hs[c]) = HandshakeLen /\ c \in Matching)
    BY <1>2 DEF AtEnd
  <2>. QED  BY <1>2, <2>1 DEF IInv, ServerOK, After
<1>. QED  BY <1>1, <1>2, <1>3, <1>10, <1>11, <1>12, <1>13, OthersKept

\* What the client thread drains goes on after all that it has written before.
LEMMA DrainKeeps == ASSUME IInv, NEW c \in Conns, Drain(c) PROVE IInv'
<1>1. /\ cli[c] = "sleep" /\ drained[c] < made[c]
      /\ out' = [out EXCEPT ![c] = Bytes(c, drained[c], made[c])]
      /\ drained' = [drained EXCEPT ![c] = made[c]]
      /\ cli' = [cli EXCEPT ![c] = "write"]
      /\ UNCHANGED <<made, wire, broken, srv, hs, buf, queue, received>>
  BY DEF Drain, srvVars
<1>2. /\ made \in [Conns -> 0 .. MaxRecords] /\ drained \in [Conns -> 0 .. MaxRecords]
      /\ out \in [Conns -> Seq(ByteType)] /\ wire[c] \in Seq(ByteType)
      /\ cli \in [Conns -> {"connect", "write", "sleep", "gone"}]
  BY DEF IInv, TypeOK
<1>3. PICK a \in Nat, b \in Nat : a = drained[c] /\ b = made[c] /\ a < b /\ b <= MaxRecords
  BY <1>1, <1>2, Lengths
<1>. DEFINE o == Bytes(c, a, b)
<1>4. /\ o \in Seq(ByteType) /\ Len(o) = (b - a) * RecordLen
      /\ After(c, HandshakeLen + a * RecordLen, o)
  BY <1>3, BytesAt
<1>. HIDE DEF o
<1>5. out'[c] = o /\ drained'[c] = b /\ cli'[c] = "write"  BY <1>1, <1>2, <1>3 DEF o
<1>6. TypeOK'
  <2>1. /\ out' \in [Conns -> Seq(ByteType)] /\ drained' \in [Conns -> 0 .. MaxRecords]
        /\ cli' \in [Conns -> {"connect", "write", "sleep", "gone"}]
    BY <1>1, <1>2, <1>3, <1>4 DEF o
  <2>. QED  BY <1>1, <2>1 DEF IInv, TypeOK
<1>7. Taken(c) \in Nat /\ Taken(c)' = Taken(c)
  <2>1. Taken(c) \in Nat  BY TakenNat DEF IInv
  <2>2. Taken(c)' = Taken(c)  BY <1>1 DEF Taken
  <2>. QED  BY <2>1, <2>2
<1>8. PICK x \in Nat, y \in Nat : /\ x = HandshakeLen + a * RecordLen /\ y = (b - a) * RecordLen
                                  /\ Begun(c) = x /\ Begun(c)' = x + y
  <2>1. PICK u \in Nat, y \in Nat : u = a * RecordLen /\ y = (b - a) * RecordLen
    <3>1. b - a \in Nat  BY <1>3
    <3>. QED  BY <1>3, <3>1, Lengths
  <2>2. b * RecordLen = u + y
    <3>1. b * RecordLen = a * RecordLen + (b - a) * RecordLen  BY <1>3, Lengths
    <3>. QED  BY <2>1, <3>1
  <2>3. Begun(c) = HandshakeLen + u  BY <1>1, <1>3, <2>1 DEF Begun
  <2>4. Begun(c)' = HandshakeLen + (u + y)  BY <1>5, <2>2 DEF Begun
  <2>5. HandshakeLen + u \in Nat /\ HandshakeLen + (u + y) = HandshakeLen + u + y
    BY <2>1, Lengths
  <2>. QED  BY <2>1, <2>3, <2>4, <2>5
<1>9. ClientOK(c)'  BY <1>1, <1>3, <1>5 DEF ClientOK
<1>10. WireOK(c)'
  <2>1. Taken(c) <= x  BY <1>8 DEF IInv, WireOK
  <2>2. Taken(c)' <= Begun(c)'  BY <1>7, <1>8, <2>1
  <2>3. broken'[c] => wire'[c] = <<>>  BY <1>1 DEF IInv, WireOK
  <2>4. ASSUME ~broken'[c]
        PROVE  /\ After(c, Taken(c), wire[c])
               /\ After(c, Taken(c) + Len(wire[c]), o)
               /\ Taken(c) + Len(wire[c]) + Len(o) = x + y
    <3>1. out[c] = <<>>  BY <1>1 DEF IInv, ClientOK
    <3>2. After(c, Taken(c), wire[c]) /\ Taken(c) + Len(wire[c]) + Len(out[c]) = x
      BY <1>1, <1>8, <2>4 DEF IInv, WireOK
    <3>3. Taken(c) + Len(wire[c]) = x  BY <1>2, <1>7, <3>1, <3>2
    <3>4. Len(o) = y  BY <1>4, <1>8
    <3>5. After(c, x, o)  BY <1>4, <1>8
    <3>. QED  BY <3>2, <3>3, <3>4, <3>5
  <2>5. ~broken'[c] => /\ After(c, Taken(c)', wire'[c])
                       /\ After(c, Taken(c)' + Len(wire'[c]), out'[c])
                       /\ Taken(c)' + Len(wire'[c]) + Len(out'[c]) = Begun(c)'
    BY <1>1, <1>5, <1>7, <1>8, <2>4
  <2>. QED  BY <2>2, <2>3, <2>5 DEF WireOK, After
<1>11. ServerOK(c)'
  <2>1. AtEnd(c) => AtEnd(c)'  BY <1>1, <1>5 DEF AtEnd
  <2>. QED  BY <1>1, <2>1 DEF IInv, ServerOK, After
<1>. QED  BY <1>1, <1>2, <1>6, <1>9, <1>10, <1>11, OthersKept

\* A client that ends leaves what is under way to the server.
LEMMA GoneKeeps == ASSUME IInv, NEW c \in Conns, Abort(c) \/ KillClient(c) PROVE IInv'
<1>1. /\ cli[c] \in {"write", "sleep"}
      /\ cli' = [cli EXCEPT ![c] = "gone"]
      /\ UNCHANGED <<made, drained, out, wire, broken, srv, hs, buf, queue, received>>
  BY DEF Abort, KillClient, srvVars
<1>2. cli \in [Conns -> {"connect", "write", "sleep", "gone"}]  BY DEF IInv, TypeOK
<1>3. TypeOK'
  <2>1. cli' \in [Conns -> {"connect", "write", "sleep", "gone"}]  BY <1>1, <1>2
  <2>. QED  BY <1>1, <2>1 DEF IInv, TypeOK
<1>4. cli'[c] = "gone"  BY <1>1, <1>2
<1>5. ClientOK(c)'  BY <1>1, <1>4 DEF IInv, ClientOK
<1>6. WireOK(c)'
  <2>1. Taken(c)' = Taken(c) /\ Begun(c)' = Begun(c)  BY <1>1, <1>4 DEF Taken, Begun
  <2>. QED  BY <1>1, <2>1 DEF IInv, WireOK, After
<1>7. ServerOK(c)'
  <2>1. AtEnd(c) => AtEnd(c)'  BY <1>1, <1>4 DEF AtEnd
  <2>. QED  BY <1>1, <2>1 DEF IInv, ServerOK, After
<1>. QED  BY <1>1, <1>2, <1>3, <1>5, <1>6, <1>7, OthersKept

\* A reset takes what is under way, and the server has read no more than before.
LEMMA ResetKeeps == ASSUME IInv, NEW c \in Conns, Reset(c) PROVE IInv'
<1>1. /\ cli[c] \in {"write", "sleep"}
      /\ broken' = [broken EXCEPT ![c] = TRUE]
      /\ wire' = [wire EXCEPT ![c] = <<>>]
      /\ UNCHANGED <<made, drained, cli, out, srv, hs, buf, queue, received>>
  BY DEF Reset, cliVars, srvVars
<1>2. broken \in [Conns -> BOOLEAN] /\ wire \in [Conns -> Seq(ByteType)]  BY DEF IInv, TypeOK
<1>3. TypeOK'
  <2>1. broken' \in [Conns -> BOOLEAN]  BY <1>1, <1>2
  <2>2. wire' \in [Conns -> Seq(ByteType)]  BY <1>1, <1>2
  <2>. QED  BY <1>1, <2>1, <2>2 DEF IInv, TypeOK
<1>4. broken'[c] /\ wire'[c] = <<>>  BY <1>1, <1>2
<1>5. ClientOK(c)'  BY <1>1 DEF IInv, ClientOK
<1>6. WireOK(c)'
  <2>1. Taken(c)' = Taken(c) /\ Begun(c)' = Begun(c)  BY <1>1 DEF Taken, Begun
  <2>. QED  BY <1>4, <2>1 DEF IInv, WireOK
<1>7. ServerOK(c)'
  <2>1. AtEnd(c)'  BY <1>4 DEF AtEnd
  <2>. QED  BY <1>1, <2>1 DEF IInv, ServerOK, After
<1>. QED  BY <1>1, <1>2, <1>3, <1>5, <1>6, <1>7, OthersKept

\* A step of the server that only changes srv.
LEMMA ServerGoes ==
    ASSUME IInv, NEW c \in Conns, NEW next \in {"handshake", "read", "closed"},
           srv' = [srv EXCEPT ![c] = next],
           cli[c] # "connect",
           next = "handshake" => srv[c] = "none",
           next = "read" => AtEnd(c),
           UNCHANGED <<cliVars, wire, broken, hs, buf, queue, received>>
    PROVE  IInv'
<1>1. UNCHANGED <<made, drained, cli, out>>  BY DEF cliVars
<1>2. srv \in [Conns -> {"none", "handshake", "read", "closed"}]  BY DEF IInv, TypeOK
<1>3. TypeOK'
  <2>1. srv' \in [Conns -> {"none", "handshake", "read", "closed"}]  BY <1>2
  <2>. QED  BY <1>1, <2>1 DEF IInv, TypeOK
<1>4. srv'[c] = next  BY <1>2
<1>5. ClientOK(c)'  BY <1>1 DEF IInv, ClientOK
<1>6. WireOK(c)'
  <2>1. Taken(c)' = Taken(c) /\ Begun(c)' = Begun(c)  BY <1>1 DEF Taken, Begun
  <2>. QED  BY <1>1, <2>1 DEF IInv, WireOK, After
<1>7. ServerOK(c)'
  <2>1. AtEnd(c)' <=> AtEnd(c)  BY <1>1 DEF AtEnd
  <2>2. next = "handshake" => /\ received[c] = <<>> /\ buf[c] = <<>>
                              /\ Len(hs[c]) < HandshakeLen
    BY Lengths DEF IInv, ServerOK
  <2>. QED  BY <1>4, <2>1, <2>2 DEF IInv, ServerOK, After
<1>. QED  BY <1>1, <1>2, <1>3, <1>5, <1>6, <1>7, OthersKept

\* The server begins with an empty handshake and an empty buffer.
LEMMA AcceptKeeps == ASSUME IInv, NEW c \in Conns, Accept(c) PROVE IInv'
BY ServerGoes DEF Accept

\* A handshake that ended with an error may be accepted, and then there is
\* nothing left to read.
LEMMA HandshakeErrorKeeps == ASSUME IInv, NEW c \in Conns, HandshakeError(c) PROVE IInv'
<1>1. srv[c] = "handshake" /\ AtEnd(c)  BY DEF HandshakeError
<1>2. cli[c] # "connect"  BY <1>1 DEF IInv, ClientOK
<1>. QED  BY <1>1, <1>2, ServerGoes DEF HandshakeError

\* handle_read with an error touches nothing of what was read.
LEMMA ReadErrorKeeps == ASSUME IInv, NEW c \in Conns, ReadError(c) PROVE IInv'
<1>1. srv[c] = "read"  BY DEF ReadError
<1>2. cli[c] # "connect"  BY <1>1 DEF IInv, ClientOK
<1>. QED  BY <1>2, ServerGoes DEF ReadError

\* What is taken from the queue was counted when it was put there.
LEMMA PopKeeps == ASSUME IInv, Pop PROVE IInv'
<1>1. /\ queue # <<>> /\ queue' = Tail(queue)
      /\ UNCHANGED <<made, drained, cli, out, wire, broken, srv, hs, buf, received>>
  BY DEF Pop, cliVars
<1>2. queue' \in Seq(Seq(ByteType))  BY <1>1 DEF IInv, TypeOK
<1>3. TypeOK'  BY <1>1, <1>2 DEF IInv, TypeOK
<1>4. ASSUME NEW c \in Conns PROVE ClientOK(c)' /\ WireOK(c)' /\ ServerOK(c)'
  BY <1>1 DEF IInv, ClientOK, WireOK, ServerOK, After, AtEnd, Taken, Begun
<1>. QED  BY <1>3, <1>4 DEF IInv

\* The bytes of the handshake are the first of the stream, so that a complete
\* one that compares equal comes from a matching client.
LEMMA ReadHandshakeKeeps == ASSUME IInv, NEW c \in Conns, ReadHandshake(c) PROVE IInv'
<1>0. hs[c] \in Seq(ByteType) /\ wire[c] \in Seq(ByteType)  BY DEF IInv, TypeOK
<1>1. PICK k \in Nat :
          /\ k > 0 /\ k <= Len(wire[c]) /\ Len(hs[c]) + k <= HandshakeLen
          /\ hs' = [hs EXCEPT ![c] = @ \o SubSeq(wire[c], 1, k)]
          /\ wire' = [wire EXCEPT ![c] = SubSeq(@, k + 1, Len(@))]
  <2>1. PICK k \in 1 .. Smaller(Len(wire[c]), HandshakeLen - Len(hs[c])) :
            /\ hs' = [hs EXCEPT ![c] = @ \o SubSeq(wire[c], 1, k)]
            /\ wire' = [wire EXCEPT ![c] = SubSeq(@, k + 1, Len(@))]
    BY DEF ReadHandshake
  <2>2. Len(wire[c]) \in Nat /\ Len(hs[c]) \in Nat  BY <1>0
  <2>3. k \in Nat /\ k > 0 /\ k <= Len(wire[c]) /\ Len(hs[c]) + k <= HandshakeLen
    BY <2>2, Lengths DEF Smaller
  <2>. QED  BY <2>1, <2>3
<1>2. /\ srv[c] = "handshake"
      /\ srv' = [srv EXCEPT ![c] =
                    IF Len(hs'[c]) < HandshakeLen THEN "handshake"
                    ELSE IF hs'[c] = HandshakeOf(TRUE) THEN "read" ELSE "closed"]
      /\ UNCHANGED <<made, drained, cli, out, broken, buf, queue, received>>
  BY DEF ReadHandshake, cliVars
<1>3. /\ hs \in [Conns -> Seq(ByteType)] /\ wire \in [Conns -> Seq(ByteType)]
      /\ srv \in [Conns -> {"none", "handshake", "read", "closed"}]
      /\ out[c] \in Seq(ByteType)
  BY DEF IInv, TypeOK
<1>4. hs[c] \in Seq(ByteType) /\ wire[c] \in Seq(ByteType)  BY <1>3
<1>5. k \in 0 .. Len(wire[c]) /\ k > 0 /\ Len(hs[c]) + k <= HandshakeLen
  BY <1>1, <1>4
<1>6. /\ After(c, 0, hs[c]) /\ received[c] = <<>> /\ buf[c] = <<>>
      /\ ~broken[c] /\ cli[c] # "connect"
  <2>1. wire[c] # <<>>  BY <1>5
  <2>. QED  BY <1>2, <2>1 DEF IInv, ServerOK, WireOK, ClientOK
<1>7. Taken(c) = Len(hs[c])
  <2>1. Len(received[c]) = 0 /\ Len(buf[c]) = 0  BY <1>6
  <2>2. Len(received[c]) * RecordLen = 0  BY <2>1, Lengths
  <2>3. Len(hs[c]) \in Nat  BY <1>4
  <2>. QED  BY <2>1, <2>2, <2>3 DEF Taken
<1>8. /\ After(c, Len(hs[c]), wire[c])
      /\ After(c, Len(hs[c]) + Len(wire[c]), out[c])
      /\ Len(hs[c]) + Len(wire[c]) + Len(out[c]) = Begun(c)
  BY <1>6, <1>7 DEF IInv, WireOK
<1>. DEFINE t == SubSeq(wire[c], 1, k)
            w == SubSeq(wire[c], k + 1, Len(wire[c]))
            h == hs[c] \o t
<1>9. /\ t \in Seq(ByteType) /\ Len(t) = k /\ After(c, Len(hs[c]), t)
      /\ w \in Seq(ByteType) /\ Len(w) = Len(wire[c]) - k /\ After(c, Len(hs[c]) + k, w)
  <2>1. PICK n \in Nat, s \in Seq(ByteType) : n = Len(hs[c]) /\ s = wire[c]  BY <1>4
  <2>2. k \in 0 .. Len(s) /\ After(c, n, s)  BY <1>5, <1>8, <2>1
  <2>3. /\ SubSeq(s, 1, k) \in Seq(ByteType) /\ Len(SubSeq(s, 1, k)) = k
        /\ After(c, n, SubSeq(s, 1, k))
        /\ SubSeq(s, k + 1, Len(s)) \in Seq(ByteType)
        /\ Len(SubSeq(s, k + 1, Len(s))) = Len(s) - k
        /\ After(c, n + k, SubSeq(s, k + 1, Len(s)))
    BY <2>2, AfterCut
  <2>. QED  BY <2>1, <2>3
<1>10. hs'[c] = h /\ wire'[c] = w  BY <1>1, <1>3
<1>. HIDE DEF t, w
<1>11. h \in Seq(ByteType) /\ Len(h) = Len(hs[c]) + k /\ After(c, 0, h)
  <2>1. 0 + Len(hs[c]) = Len(hs[c])  BY <1>4
  <2>2. /\ hs[c] \in Seq(ByteType) /\ t \in Seq(ByteType) /\ Len(t) = k
        /\ After(c, 0, hs[c]) /\ After(c, 0 + Len(hs[c]), t)
    BY <1>4, <1>6, <1>9, <2>1
  <2>3. /\ hs[c] \o t \in Seq(ByteType) /\ Len(hs[c] \o t) = Len(hs[c]) + k
        /\ After(c, 0, hs[c] \o t)
    BY <2>2, AfterConcat
  <2>. QED  BY <2>3
<1>. HIDE DEF h
<1>12. TypeOK'
  <2>1. hs' = [hs EXCEPT ![c] = h] /\ wire' = [wire EXCEPT ![c] = w]  BY <1>1, <1>3 DEF h, t, w
  <2>2. hs' \in [Conns -> Seq(ByteType)] /\ wire' \in [Conns -> Seq(ByteType)]
    BY <1>3, <1>9, <1>11, <2>1
  <2>3. srv' \in [Conns -> {"none", "handshake", "read", "closed"}]  BY <1>2, <1>3
  <2>. QED  BY <1>2, <2>2, <2>3 DEF IInv, TypeOK
<1>13. ClientOK(c)'  BY <1>2, <1>6 DEF IInv, ClientOK
<1>14. WireOK(c)'
  <2>1. Taken(c)' = Len(hs[c]) + k
    <3>1. Len(received'[c]) = 0 /\ Len(buf'[c]) = 0  BY <1>2, <1>6
    <3>2. Len(received'[c]) * RecordLen = 0  BY <3>1, Lengths
    <3>3. Len(hs'[c]) = Len(hs[c]) + k /\ Len(hs[c]) \in Nat  BY <1>4, <1>10, <1>11
    <3>. QED  BY <3>1, <3>2, <3>3 DEF Taken
  <2>2. Begun(c)' = Begun(c)  BY <1>2 DEF Begun
  <2>3. /\ Len(hs[c]) + k + Len(w) = Len(hs[c]) + Len(wire[c])
        /\ Len(hs[c]) + k <= Begun(c)
    <3>1. PICK x \in Nat, y \in Nat, z \in Nat :
              x = Len(hs[c]) /\ y = Len(wire[c]) /\ z = Len(out[c])
      BY <1>3, <1>4
    <3>2. Len(w) = y - k /\ k <= y  BY <1>5, <1>9, <3>1
    <3>3. x + y + z = Begun(c)  BY <1>8, <3>1
    <3>4. x + k + (y - k) = x + y /\ x + k <= x + y + z  BY <3>2
    <3>. QED  BY <3>1, <3>2, <3>3, <3>4
  <2>. QED  BY <1>2, <1>6, <1>8, <1>9, <1>10, <2>1, <2>2, <2>3 DEF WireOK, After
<1>15. ServerOK(c)'
  <2>1. srv'[c] = IF Len(h) < HandshakeLen THEN "handshake"
                  ELSE IF h = HandshakeOf(TRUE) THEN "read" ELSE "closed"
    BY <1>2, <1>3, <1>10
  <2>2. srv'[c] = "read" => Len(h) = HandshakeLen /\ c \in Matching
    <3>a. PICK x \in Nat : x = Len(h) /\ x <= HandshakeLen  BY <1>5, <1>11
    <3>b. ~(x < HandshakeLen) => x = HandshakeLen  BY <3>a, Lengths
    <3>1. SUFFICES ASSUME srv'[c] = "read", c \notin Matching PROVE FALSE
      BY <2>1, <3>a, <3>b
    <3>2. Len(h) = HandshakeLen /\ h = HandshakeOf(TRUE)  BY <2>1, <3>1, <3>a, <3>b
    <3>3. h[SizeByte] = HandshakeOf(FALSE)[SizeByte]
      <4>1. h[SizeByte] = StreamByte(c, 0 + SizeByte)  BY <1>11, <3>2, Lengths DEF After
      <4>2. 0 + SizeByte = SizeByte /\ SizeByte <= HandshakeLen  BY Lengths
      <4>3. StreamByte(c, SizeByte) = HandshakeOf(c \in Matching)[SizeByte]
        BY <4>2 DEF StreamByte
      <4>4. (c \in Matching) = FALSE  BY <3>1
      <4>. QED  BY <4>1, <4>2, <4>3, <4>4
    <3>4. HandshakeOf(TRUE)[SizeByte].conn = "any"  BY Lengths DEF HandshakeOf
    <3>5. HandshakeOf(FALSE)[SizeByte].conn = "other"  BY Lengths DEF HandshakeOf
    <3>. QED  BY <3>2, <3>3, <3>4, <3>5
  <2>3. srv'[c] = "handshake" => Len(h) < HandshakeLen  BY <2>1
  <2>4. Len(h) <= HandshakeLen /\ srv'[c] # "none"  BY <1>5, <1>11, <2>1
  <2>5. /\ received'[c] = <<>> /\ buf'[c] = <<>>
        /\ Len(buf'[c]) = 0 /\ DOMAIN received'[c] = {}
    BY <1>2, <1>6
  <2>. QED  BY <1>10, <1>11, <2>2, <2>3, <2>4, <2>5, Lengths DEF ServerOK, After
<1>. QED  BY <1>1, <1>2, <1>3, <1>12, <1>13, <1>14, <1>15, OthersKept

\* handle_read: the records it cuts are the next candidates in turn, and the
\* rest it moves to the front goes on after them.
LEMMA ReadSomeKeeps == ASSUME IInv, NEW c \in Conns, ReadSome(c) PROVE IInv'
<1>0. buf[c] \in Seq(ByteType) /\ wire[c] \in Seq(ByteType)  BY DEF IInv, TypeOK
<1>1. PICK k \in Nat :
          LET data == buf[c] \o SubSeq(wire[c], 1, k)
              count == Len(data) \div RecordLen
              records == AllCopied(data, count)
          IN  /\ k > 0 /\ k <= Len(wire[c])
              /\ wire' = [wire EXCEPT ![c] = SubSeq(@, k + 1, Len(@))]
              /\ queue' = queue \o records
              /\ received' = [received EXCEPT ![c] = @ \o records]
              /\ buf' = [buf EXCEPT ![c] = SubSeq(data, count * RecordLen + 1, Len(data))]
  <2>1. PICK k \in 1 .. Smaller(Len(wire[c]), BufLen - Len(buf[c])) :
            LET data == buf[c] \o SubSeq(wire[c], 1, k)
                count == Len(data) \div RecordLen
                records == AllCopied(data, count)
            IN  /\ wire' = [wire EXCEPT ![c] = SubSeq(@, k + 1, Len(@))]
                /\ queue' = queue \o records
                /\ received' = [received EXCEPT ![c] = @ \o records]
                /\ buf' = [buf EXCEPT ![c] = SubSeq(data, count * RecordLen + 1, Len(data))]
    BY DEF ReadSome, AllCopied, Copied
  <2>2. k \in Nat /\ k > 0 /\ k <= Len(wire[c])  BY <1>0, Lengths DEF Smaller
  <2>. QED  BY <2>1, <2>2
<1>2. srv[c] = "read" /\ UNCHANGED <<made, drained, cli, out, broken, srv, hs>>
  BY DEF ReadSome, cliVars
<1>3. /\ wire \in [Conns -> Seq(ByteType)] /\ buf \in [Conns -> Seq(ByteType)]
      /\ received \in [Conns -> Seq(Seq(ByteType))] /\ queue \in Seq(Seq(ByteType))
      /\ out[c] \in Seq(ByteType) /\ hs[c] \in Seq(ByteType)
  BY DEF IInv, TypeOK
<1>4. wire[c] \in Seq(ByteType) /\ buf[c] \in Seq(ByteType) /\ received[c] \in Seq(Seq(ByteType))
  BY <1>3
<1>5. k \in 0 .. Len(wire[c]) /\ k > 0  BY <1>1, <1>4
<1>6. ~broken[c] /\ Len(hs[c]) = HandshakeLen /\ c \in Matching /\ cli[c] # "connect"
  <2>1. wire[c] # <<>>  BY <1>5
  <2>2. ~broken[c]  BY <2>1 DEF IInv, WireOK
  <2>. QED  BY <1>2, <2>1, <2>2 DEF IInv, ServerOK, ClientOK, AtEnd
<1>7. PICK m \in Nat, base \in Nat : /\ m = Len(received[c])
                                     /\ base = HandshakeLen + m * RecordLen
                                     /\ Taken(c) = base + Len(buf[c])
  <2>1. PICK m \in Nat : m = Len(received[c])  BY <1>4
  <2>2. m * RecordLen \in Nat  BY <2>1, Lengths
  <2>3. Taken(c) = HandshakeLen + m * RecordLen + Len(buf[c])  BY <1>6, <2>1 DEF Taken
  <2>4. HandshakeLen + m * RecordLen \in Nat  BY <2>2, Lengths
  <2>. QED  BY <2>1, <2>3, <2>4
<1>8. /\ After(c, base + Len(buf[c]), wire[c])
      /\ After(c, base + Len(buf[c]) + Len(wire[c]), out[c])
      /\ base + Len(buf[c]) + Len(wire[c]) + Len(out[c]) = Begun(c)
      /\ After(c, base, buf[c])
      /\ \A n \in DOMAIN received[c] : received[c][n] = Record(c, n)
  BY <1>6, <1>7 DEF IInv, WireOK, ServerOK
<1>. DEFINE t == SubSeq(wire[c], 1, k)
            w == SubSeq(wire[c], k + 1, Len(wire[c]))
            data == buf[c] \o t
<1>9. /\ t \in Seq(ByteType) /\ Len(t) = k /\ After(c, base + Len(buf[c]), t)
      /\ w \in Seq(ByteType) /\ Len(w) = Len(wire[c]) - k
      /\ After(c, base + Len(buf[c]) + k, w)
  <2>1. PICK n \in Nat, s \in Seq(ByteType) : n = base + Len(buf[c]) /\ s = wire[c]  BY <1>0
  <2>2. k \in 0 .. Len(s) /\ After(c, n, s)  BY <1>5, <1>8, <2>1
  <2>3. /\ SubSeq(s, 1, k) \in Seq(ByteType) /\ Len(SubSeq(s, 1, k)) = k
        /\ After(c, n, SubSeq(s, 1, k))
        /\ SubSeq(s, k + 1, Len(s)) \in Seq(ByteType)
        /\ Len(SubSeq(s, k + 1, Len(s))) = Len(s) - k
        /\ After(c, n + k, SubSeq(s, k + 1, Len(s)))
    BY <2>2, AfterCut
  <2>. QED  BY <2>1, <2>3
<1>. HIDE DEF t
<1>10. data \in Seq(ByteType) /\ Len(data) = Len(buf[c]) + k /\ After(c, base, data)
  <2>1. /\ buf[c] \in Seq(ByteType) /\ t \in Seq(ByteType) /\ Len(t) = k
        /\ After(c, base, buf[c]) /\ After(c, base + Len(buf[c]), t)
    BY <1>0, <1>8, <1>9
  <2>2. /\ buf[c] \o t \in Seq(ByteType) /\ Len(buf[c] \o t) = Len(buf[c]) + k
        /\ After(c, base, buf[c] \o t)
    BY <2>1, AfterConcat
  <2>. QED  BY <2>2
<1>. HIDE DEF data
<1>11. PICK count \in Nat, whole \in 0 .. Len(data) :
          /\ count = Len(data) \div RecordLen /\ whole = count * RecordLen
          /\ Len(data) - whole < RecordLen
  <2>1. Len(data) \in Nat  BY <1>10
  <2>. QED  BY <2>1, CountAndRest
<1>. DEFINE records == AllCopied(data, count)
            rest == SubSeq(data, whole + 1, Len(data))
<1>12. /\ wire' = [wire EXCEPT ![c] = w] /\ queue' = queue \o records
       /\ received' = [received EXCEPT ![c] = received[c] \o records]
       /\ buf' = [buf EXCEPT ![c] = rest]
  BY <1>1, <1>3, <1>11 DEF data, t
<1>13. /\ rest \in Seq(ByteType) /\ Len(rest) = Len(data) - whole
       /\ After(c, base + whole, rest)
  <2>1. data \in Seq(ByteType) /\ After(c, base, data)  BY <1>10
  <2>. QED  BY ZenonT(40), <2>1, AfterCut
<1>14. \A n \in 1 .. count : Copied(data, n) \in Seq(ByteType) /\ Copied(data, n) = Record(c, m + n)
  <2>1. After(c, HandshakeLen + m * RecordLen, data) /\ count * RecordLen <= Len(data)
    BY <1>7, <1>10, <1>11
  <2>2. data \in Seq(ByteType)  BY <1>10
  <2>. QED  BY <2>1, <2>2, CopiedIsNext
<1>15. /\ records \in Seq(Seq(ByteType)) /\ Len(records) = count
       /\ \A n \in 1 .. count : records[n] = Record(c, m + n)
  <2>1. \A n \in 1 .. count : Copied(data, n) \in Seq(ByteType)  BY <1>14
  <2>2. records = [n \in 1 .. count |-> Copied(data, n)]  BY DEF AllCopied
  <2>3. records \in Seq(Seq(ByteType)) /\ Len(records) = count  BY <2>1, <2>2
  <2>4. \A n \in 1 .. count : records[n] = Copied(data, n)  BY <2>2
  <2>. QED  BY <1>14, <2>3, <2>4
<1>. HIDE DEF records, rest, w
<1>16. wire'[c] = w /\ received'[c] = received[c] \o records /\ buf'[c] = rest
  BY <1>3, <1>12
<1>17. TypeOK'
  <2>1. wire' \in [Conns -> Seq(ByteType)] /\ buf' \in [Conns -> Seq(ByteType)]
    BY <1>3, <1>9, <1>12, <1>13
  <2>2. received[c] \o records \in Seq(Seq(ByteType)) /\ queue' \in Seq(Seq(ByteType))
    BY <1>3, <1>4, <1>12, <1>15
  <2>3. received' \in [Conns -> Seq(Seq(ByteType))]  BY <1>3, <1>12, <2>2
  <2>. QED  BY <1>2, <2>1, <2>2, <2>3 DEF IInv, TypeOK
<1>18. /\ Len(received'[c]) = m + count
       /\ HandshakeLen + (m + count) * RecordLen = base + whole
  <2>1. Len(received'[c]) = m + count
    <3>1. received[c] \in Seq(Seq(ByteType)) /\ records \in Seq(Seq(ByteType))  BY <1>4, <1>15
    <3>2. Len(received[c] \o records) = Len(received[c]) + Len(records)  BY <3>1
    <3>. QED  BY <1>7, <1>15, <1>16, <3>2
  <2>2. (m + count) * RecordLen = m * RecordLen + count * RecordLen  BY Lengths
  <2>3. PICK u \in Nat : u = m * RecordLen  BY Product
  <2>4. (m + count) * RecordLen = u + whole  BY <1>11, <2>2, <2>3
  <2>5. base = HandshakeLen + u  BY <1>7, <2>3
  <2>6. HandshakeLen + (u + whole) = HandshakeLen + u + whole  BY Lengths
  <2>. QED  BY <2>1, <2>4, <2>5, <2>6
<1>19. Taken(c)' = base + Len(buf[c]) + k
  <2>1. Taken(c)' = HandshakeLen + (m + count) * RecordLen + Len(rest)
    BY <1>2, <1>6, <1>16, <1>18 DEF Taken
  <2>2. PICK x \in Nat, z \in Nat : x = Len(buf[c]) /\ z = Len(rest) /\ z = x + k - whole
    BY <1>0, <1>10, <1>13
  <2>a. \A u, v \in Int : z = x + k - v => u + v + z = u + x + k  OBVIOUS
  <2>b. whole \in Int /\ base \in Int  BY <1>10
  <2>3. base + whole + Len(rest) = base + Len(buf[c]) + k  BY <2>2, <2>a, <2>b
  <2>. QED  BY <1>18, <2>1, <2>3
<1>20. ClientOK(c)'  BY <1>2, <1>6 DEF IInv, ClientOK
<1>21. WireOK(c)'
  <2>1. Begun(c)' = Begun(c)  BY <1>2 DEF Begun
  <2>2. /\ base + Len(buf[c]) + k + Len(w) = base + Len(buf[c]) + Len(wire[c])
        /\ base + Len(buf[c]) + k <= Begun(c)
    <3>1. PICK x \in Nat, y \in Nat, z \in Nat :
              x = Len(buf[c]) /\ y = Len(wire[c]) /\ z = Len(out[c])
      BY <1>0, <1>3
    <3>2. Len(w) = y - k /\ k <= y  BY <1>5, <1>9, <3>1
    <3>3. base + x + y + z = Begun(c)  BY <1>8, <3>1
    <3>4. base + x + k + (y - k) = base + x + y /\ base + x + k <= base + x + y + z  BY <3>2
    <3>. QED  BY <3>1, <3>2, <3>3, <3>4
  <2>. QED  BY <1>2, <1>6, <1>8, <1>9, <1>16, <1>19, <2>1, <2>2 DEF WireOK, After
<1>22. ServerOK(c)'
  <2>1. \A n \in DOMAIN received'[c] : received'[c][n] = Record(c, n)
    <3>1. TAKE n \in DOMAIN received'[c]
    <3>a. received[c] \in Seq(Seq(ByteType)) /\ records \in Seq(Seq(ByteType))  BY <1>4, <1>15
    <3>b. /\ DOMAIN (received[c] \o records) = 1 .. Len(received[c]) + Len(records)
          /\ DOMAIN received[c] = 1 .. Len(received[c])
          /\ \A i \in 1 .. Len(received[c]) : (received[c] \o records)[i] = received[c][i]
          /\ \A i \in 1 .. Len(records) :
                (received[c] \o records)[Len(received[c]) + i] = records[i]
      BY <3>a
    <3>2. n \in 1 .. m + count  BY <1>7, <1>15, <1>16, <3>b
    <3>3. CASE n <= m
      <4>1. n \in DOMAIN received[c] /\ received'[c][n] = received[c][n]
        BY <1>7, <1>16, <3>2, <3>3, <3>b
      <4>. QED  BY <1>8, <4>1
    <3>4. CASE n > m
      <4>1. n - m \in 1 .. count /\ received'[c][n] = records[n - m] /\ m + (n - m) = n
        <5>1. n - m \in 1 .. count /\ m + (n - m) = n  BY <3>2, <3>4
        <5>. QED  BY <1>7, <1>15, <1>16, <3>b, <5>1
      <4>. QED  BY <1>15, <4>1
    <3>. QED  BY <1>7, <1>11, <3>2, <3>3, <3>4
  <2>2. After(c, HandshakeLen + Len(received'[c]) * RecordLen, rest)
    BY <1>13, <1>18
  <2>3. After(c, 0, hs[c])  BY DEF IInv, ServerOK
  <2>4. Len(rest) < RecordLen  BY <1>11, <1>13
  <2>. QED  BY <1>2, <1>6, <1>16, <2>1, <2>2, <2>3, <2>4, Lengths DEF ServerOK, After
<1>. QED  BY <1>2, <1>3, <1>12, <1>17, <1>20, <1>21, <1>22, OthersKept

(***************************************************************************)
(* The invariant and what follows from it                                  *)
(***************************************************************************)

\* Before anybody connects nothing has been written or read.
LEMMA InitIInv == Init => IInv
<1>. SUFFICES ASSUME Init PROVE IInv  OBVIOUS
<1>1. TypeOK  BY Lengths DEF Init, TypeOK
<1>2. ASSUME NEW c \in Conns PROVE ClientOK(c) /\ WireOK(c) /\ ServerOK(c)
  <2>1. /\ made[c] = 0 /\ drained[c] = 0 /\ cli[c] = "connect" /\ srv[c] = "none"
        /\ out[c] = <<>> /\ wire[c] = <<>> /\ hs[c] = <<>> /\ buf[c] = <<>>
        /\ received[c] = <<>> /\ ~broken[c]
    BY DEF Init
  <2>2. Taken(c) = 0 /\ Begun(c) = 0  BY <2>1, Lengths DEF Taken, Begun
  <2>. QED  BY <2>1, <2>2, Lengths DEF ClientOK, WireOK, ServerOK, After
<1>. QED  BY <1>1, <1>2 DEF IInv

\* Every step of the clients, the server and TCP preserves the invariant.
LEMMA NextIInv == IInv /\ [Next]_vars => IInv'
<1>. SUFFICES ASSUME IInv, [Next]_vars PROVE IInv'  OBVIOUS
<1>1. CASE UNCHANGED vars
  <2>1. UNCHANGED <<made, drained, cli, out, wire, broken, srv, hs, buf, queue, received>>
    BY <1>1 DEF vars, cliVars, srvVars
  <2>2. TypeOK'  BY <2>1 DEF IInv, TypeOK
  <2>3. ASSUME NEW c \in Conns PROVE ClientOK(c)' /\ WireOK(c)' /\ ServerOK(c)'
    BY <2>1 DEF IInv, ClientOK, WireOK, ServerOK, After, AtEnd, Taken, Begun
  <2>. QED  BY <2>2, <2>3 DEF IInv
<1>2. ASSUME NEW c \in Conns, Client(c) PROVE IInv'
  BY <1>2, PushKeeps, ConnectKeeps, WriteSomeKeeps, DrainKeeps, GoneKeeps DEF Client
<1>3. ASSUME NEW c \in Conns, Server(c) PROVE IInv'
  BY <1>3, AcceptKeeps, ReadHandshakeKeeps, HandshakeErrorKeeps, ReadSomeKeeps, ReadErrorKeeps
     DEF Server
<1>4. ASSUME NEW c \in Conns, KillClient(c) \/ Reset(c) PROVE IInv'
  BY <1>4, GoneKeeps, ResetKeeps
<1>5. CASE Pop  BY <1>5, PopKeeps
<1>. QED  BY <1>1, <1>2, <1>3, <1>4, <1>5 DEF Next

\* The position of every byte is right in every reachable state.
THEOREM Invariance == Spec => []IInv
BY InitIInv, NextIInv, PTL DEF Spec

\* The clients, the wire and the server keep the types of their state.
THEOREM TypeCorrect == Spec => []TypeOK
<1>1. IInv => TypeOK  BY DEF IInv
<1>. QED  BY <1>1, Invariance, PTL

\* The buffer is never full, so that async_read_some has always room.
THEOREM RoomCorrect == Spec => []RoomToRead
<1>1. IInv => RoomToRead
  <2>1. ASSUME IInv, NEW c \in Conns PROVE Len(buf[c]) < BufLen
    <3>1. Len(buf[c]) \in Nat  BY <2>1 DEF IInv, TypeOK
    <3>. QED  BY <2>1, <3>1, Lengths DEF IInv, ServerOK
  <2>. QED  BY <2>1 DEF RoomToRead
<1>. QED  BY <1>1, Invariance, PTL

\* No record of a client built for the other biome size is ever queued.
THEOREM MatchingCorrect == Spec => []OnlyMatchingClients
<1>1. IInv => OnlyMatchingClients  BY DEF IInv, ServerOK, OnlyMatchingClients
<1>. QED  BY <1>1, Invariance, PTL

\* The server has no more candidates of a client than its thread has drained.
LEMMA ReceivedDrained ==
    ASSUME IInv, NEW c \in Conns PROVE Len(received[c]) <= drained[c]
<1>1. /\ hs[c] \in Seq(ByteType) /\ buf[c] \in Seq(ByteType)
      /\ received[c] \in Seq(Seq(ByteType)) /\ drained[c] \in Nat
  BY Lengths DEF IInv, TypeOK
<1>a. Len(buf[c]) \in Nat /\ drained[c] \in Nat  BY <1>1
<1>2. PICK m \in Nat : m = Len(received[c])  BY <1>1
<1>3. CASE received[c] = <<>>  BY <1>1, <1>3
<1>4. CASE received[c] # <<>>
  <2>1. Len(hs[c]) = HandshakeLen  BY <1>4 DEF IInv, ServerOK
  <2>2. cli[c] # "connect"  BY <1>4 DEF IInv, ServerOK, ClientOK
  <2>3. Len(hs[c]) + m * RecordLen + Len(buf[c]) <= HandshakeLen + drained[c] * RecordLen
    BY <1>2, <2>2 DEF IInv, WireOK, Taken, Begun
  <2>4. PICK x \in Nat, y \in Nat : x = m * RecordLen /\ y = drained[c] * RecordLen
    BY <1>a, Product
  <2>5. x <= y
    <3>1. PICK z \in Nat : z = Len(buf[c])  BY <1>a
    <3>2. HandshakeLen + x + z <= HandshakeLen + y  BY <2>1, <2>3, <2>4, <3>1
    <3>. QED  BY <3>2, Lengths
  <2>6. ~(m > drained[c])
    <3>1. SUFFICES ASSUME m > drained[c] PROVE FALSE  OBVIOUS
    <3>2. m * RecordLen >= drained[c] * RecordLen + RecordLen
      BY <1>a, <3>1, Lengths, SmallMultiple
    <3>. QED  BY <2>4, <2>5, <3>2, Lengths
  <2>. QED  BY <1>a, <1>2, <2>6
<1>. QED  BY <1>3, <1>4

\* The server queues the candidates of a client unharmed and in order.
THEOREM RecordsCorrect == Spec => []RecordsIntact
<1>1. IInv => RecordsIntact
  <2>1. ASSUME IInv, NEW c \in Conns PROVE Len(received[c]) <= drained[c]
    BY <2>1, ReceivedDrained
  <2>2. ASSUME IInv, NEW c \in Conns
        PROVE  \A n \in DOMAIN received[c] : received[c][n] = Record(c, n)
    BY <2>2 DEF IInv, ServerOK
  <2>. QED  BY <2>1, <2>2 DEF RecordsIntact
<1>. QED  BY <1>1, Invariance, PTL
\* Parts of the same length at the same place are equal.
LEMMA SamePart ==
    ASSUME NEW c, NEW n \in Nat, NEW s \in Seq(ByteType), NEW t \in Seq(ByteType),
           After(c, n, s), After(c, n, t), Len(s) = Len(t)
    PROVE  s = t
<1>1. \A j \in 1 .. Len(s) : s[j] = t[j]  BY DEF After
<1>. QED  BY <1>1

\* What the server has read, one part after the other, is the beginning of the
\* stream.
LEMMA ReadPart ==
    ASSUME IInv, NEW c \in Conns, Len(received[c]) <= drained[c]
    PROVE  LET all == hs[c] \o Bytes(c, 0, Len(received[c])) \o buf[c]
           IN  all \in Seq(ByteType) /\ Len(all) = Taken(c) /\ After(c, 0, all)
<1>1. PICK m \in Nat : m = Len(received[c]) /\ m <= MaxRecords
  <2>1. received[c] \in Seq(Seq(ByteType))  BY DEF IInv, TypeOK
  <2>2. Len(received[c]) \in Nat  BY <2>1
  <2>3. drained[c] \in Nat /\ drained[c] <= MaxRecords  BY Lengths DEF IInv, TypeOK
  <2>. QED  BY <2>2, <2>3, Lengths
<1>2. PICK x \in Nat : x = m * RecordLen  BY Product
<1>. DEFINE b == Bytes(c, 0, m)
<1>3. b \in Seq(ByteType) /\ Len(b) = x /\ After(c, HandshakeLen, b)
  <2>1. /\ b \in Seq(ByteType) /\ Len(b) = (m - 0) * RecordLen
        /\ After(c, HandshakeLen + 0 * RecordLen, b)
    BY <1>1, BytesAt
  <2>2. m - 0 = m /\ HandshakeLen + 0 * RecordLen = HandshakeLen  BY Lengths
  <2>. QED  BY <1>2, <2>1, <2>2
<1>. HIDE DEF b
<1>4. /\ hs[c] \in Seq(ByteType) /\ buf[c] \in Seq(ByteType) /\ After(c, 0, hs[c])
      /\ After(c, HandshakeLen + x, buf[c])
  BY <1>1, <1>2 DEF IInv, TypeOK, ServerOK
<1>5. PICK h \in Nat : h = Len(hs[c])  BY <1>4
<1>6. After(c, h, b) /\ After(c, h + x, buf[c])
  <2>1. CASE h = HandshakeLen  BY <1>3, <1>4, <2>1
  <2>2. CASE h # HandshakeLen
    <3>1. received[c] = <<>> /\ buf[c] = <<>>  BY <1>5, <2>2 DEF IInv, ServerOK
    <3>2. m = 0 /\ Len(buf[c]) = 0  BY <1>1, <3>1
    <3>3. x = 0  BY <1>2, <3>2, Lengths
    <3>. QED  BY <1>3, <3>2, <3>3 DEF After
  <2>. QED  BY <2>1, <2>2
<1>7. hs[c] \o b \in Seq(ByteType) /\ Len(hs[c] \o b) = h + x /\ After(c, 0, hs[c] \o b)
  <2>1. 0 + Len(hs[c]) = h  BY <1>5
  <2>2. After(c, 0 + Len(hs[c]), b)  BY <1>6, <2>1
  <2>3. /\ hs[c] \o b \in Seq(ByteType) /\ Len(hs[c] \o b) = Len(hs[c]) + Len(b)
        /\ After(c, 0, hs[c] \o b)
    <3>1. b \in Seq(ByteType)  BY <1>3
    <3>2. hs[c] \in Seq(ByteType) /\ After(c, 0, hs[c])  BY <1>4
    <3>. QED  BY ONLY <2>2, <3>1, <3>2, AfterConcat, 0 \in Nat
  <2>. QED  BY <1>3, <1>5, <2>3
<1>8. /\ (hs[c] \o b) \o buf[c] \in Seq(ByteType)
      /\ Len((hs[c] \o b) \o buf[c]) = h + x + Len(buf[c])
      /\ After(c, 0, (hs[c] \o b) \o buf[c])
  <2>. DEFINE a == hs[c] \o b
  <2>1. a \in Seq(ByteType) /\ Len(a) = h + x /\ After(c, 0, a)  BY <1>7
  <2>. HIDE DEF a
  <2>2. 0 + Len(a) = h + x  BY <2>1
  <2>3. After(c, 0 + Len(a), buf[c])  BY <1>6, <2>2
  <2>4. /\ a \o buf[c] \in Seq(ByteType) /\ Len(a \o buf[c]) = Len(a) + Len(buf[c])
        /\ After(c, 0, a \o buf[c])
    BY <1>4, <2>1, <2>3, AfterConcat
  <2>. QED  BY <2>1, <2>4 DEF a
<1>9. Taken(c) = h + x + Len(buf[c])  BY <1>1, <1>2, <1>5 DEF Taken
<1>. QED  BY <1>1, <1>8, <1>9 DEF b

\* As long as a connection holds, what was read, what is under way and what is
\* still to be written are together exactly what the client has begun to write.
THEOREM StreamCorrect == Spec => []StreamConserved
<1>1. ASSUME IInv, NEW c \in Matching, ~broken[c], cli[c] # "connect"
      PROVE  hs[c] \o Bytes(c, 0, Len(received[c])) \o buf[c] \o wire[c] \o out[c]
                 = HandshakeOf(TRUE) \o Bytes(c, 0, drained[c])
  <2>1. c \in Conns  BY ConnsAssumption
  <2>. DEFINE r == hs[c] \o Bytes(c, 0, Len(received[c])) \o buf[c]
              h == HandshakeOf(TRUE)
              b == Bytes(c, 0, drained[c])
  <2>2. r \in Seq(ByteType) /\ Len(r) = Taken(c) /\ After(c, 0, r)
    BY <1>1, <2>1, ReceivedDrained, ReadPart
  <2>3. /\ wire[c] \in Seq(ByteType) /\ out[c] \in Seq(ByteType)
        /\ After(c, Taken(c), wire[c]) /\ After(c, Taken(c) + Len(wire[c]), out[c])
        /\ Taken(c) + Len(wire[c]) + Len(out[c]) = HandshakeLen + drained[c] * RecordLen
    BY <1>1, <2>1 DEF IInv, TypeOK, WireOK, Begun
  <2>4. Taken(c) \in Nat  BY <1>1, <2>1, TakenNat DEF IInv
  <2>5. h \in Seq(ByteType) /\ Len(h) = HandshakeLen /\ After(c, 0, h)
    <3>1. (c \in Matching) = TRUE  BY <1>1
    <3>. QED  BY <2>1, <3>1, HandshakeAt
  <2>6. /\ b \in Seq(ByteType) /\ Len(b) = drained[c] * RecordLen
        /\ After(c, HandshakeLen, b)
    <3>1. PICK d \in Nat : d = drained[c] /\ d <= MaxRecords
      BY <1>1, <2>1, Lengths DEF IInv, TypeOK
    <3>2. /\ b \in Seq(ByteType) /\ Len(b) = (d - 0) * RecordLen
          /\ After(c, HandshakeLen + 0 * RecordLen, b)
      BY <2>1, <3>1, BytesAt
    <3>3. d - 0 = d /\ HandshakeLen + 0 * RecordLen = HandshakeLen  BY Lengths
    <3>. QED  BY <3>1, <3>2, <3>3
  <2>. HIDE DEF r, h, b
  <2>7. /\ r \o wire[c] \in Seq(ByteType) /\ Len(r \o wire[c]) = Taken(c) + Len(wire[c])
        /\ After(c, 0, r \o wire[c])
    <3>1. /\ r \in Seq(ByteType) /\ wire[c] \in Seq(ByteType)
          /\ After(c, 0, r) /\ After(c, 0 + Len(r), wire[c])
      BY <2>2, <2>3, <2>4
    <3>2. /\ r \o wire[c] \in Seq(ByteType) /\ Len(r \o wire[c]) = Len(r) + Len(wire[c])
          /\ After(c, 0, r \o wire[c])
      BY <3>1, AfterConcat
    <3>. QED  BY <2>2, <3>2
  <2>8. /\ (r \o wire[c]) \o out[c] \in Seq(ByteType)
        /\ Len((r \o wire[c]) \o out[c]) = Taken(c) + Len(wire[c]) + Len(out[c])
        /\ After(c, 0, (r \o wire[c]) \o out[c])
    <3>. DEFINE a == r \o wire[c]
    <3>1. a \in Seq(ByteType) /\ Len(a) = Taken(c) + Len(wire[c]) /\ After(c, 0, a)  BY <2>7
    <3>. HIDE DEF a
    <3>2. 0 + Len(a) = Taken(c) + Len(wire[c])  BY <3>1
    <3>3. After(c, 0 + Len(a), out[c])  BY <2>3, <3>2
    <3>4. /\ a \o out[c] \in Seq(ByteType) /\ Len(a \o out[c]) = Len(a) + Len(out[c])
          /\ After(c, 0, a \o out[c])
      BY <2>3, <3>1, <3>3, AfterConcat
    <3>. QED  BY <3>1, <3>4 DEF a
  <2>9. /\ h \o b \in Seq(ByteType) /\ Len(h \o b) = HandshakeLen + drained[c] * RecordLen
        /\ After(c, 0, h \o b)
    <3>1. After(c, 0 + Len(h), b)  BY <2>5, <2>6, Lengths
    <3>. QED  BY <2>5, <2>6, <3>1, AfterConcat
  <2>10. (r \o wire[c]) \o out[c] = h \o b
    <3>. DEFINE u == (r \o wire[c]) \o out[c]
                v == h \o b
    <3>1. /\ u \in Seq(ByteType) /\ v \in Seq(ByteType) /\ Len(u) = Len(v)
          /\ After(c, 0, u) /\ After(c, 0, v)
      BY <2>3, <2>8, <2>9
    <3>. HIDE DEF u, v
    <3>2. u = v  BY <3>1, SamePart
    <3>. QED  BY <3>2 DEF u, v
  <2>. QED  BY <2>10 DEF r, h, b
<1>2. IInv => StreamConserved  BY <1>1 DEF StreamConserved
<1>. QED  BY <1>2, Invariance, PTL
=============================================================================
