------------------------------ MODULE Network ------------------------------
(***************************************************************************)
(* Candidates on their way from searching processes (ClientThread) to the  *)
(* process that measures them (ServerThread).  A connection carries a      *)
(* handshake and then GpuOutput records without any framing: the client    *)
(* writes whole vectors of records, TCP hands them over in pieces of any   *)
(* length, and the server cuts them into records again in a buffer of      *)
(* fixed size, whose incomplete rest it moves to the front.                *)
(*                                                                         *)
(* A connection belongs to one session of a client: a client whose write   *)
(* fails aborts, and what it had in its queue is gone.  The handlers of    *)
(* the server run on one thread, so each of them is a step.                *)
(***************************************************************************)
EXTENDS Integers, Sequences, FiniteSets

CONSTANTS
    Conns,         \* client sessions, each with its connection
    Matching,      \* those built with the server's large_biomes setting
    RecordLen,     \* sizeof(GpuOutput)
    HandshakeLen,  \* sizeof(net_handshake)
    SizeByte,      \* the place of the letter of the biome size in it
    BufLen,        \* size of pending_data_
    WireCap,       \* bytes TCP takes before the reader must read
    MaxRecords     \* bound: candidates a client finds

ASSUME ConnsAssumption == Matching \subseteq Conns
ASSUME LengthsAssumption ==
    /\ RecordLen \in Nat \ {0}
    /\ HandshakeLen \in Nat \ {0} /\ SizeByte \in 1 .. HandshakeLen
    /\ BufLen \in Nat /\ RecordLen <= BufLen
    /\ WireCap \in Nat \ {0}
    /\ MaxRecords \in Nat

\* The n-th candidate of client c, and its k-th byte.  One byte of the
\* handshake tells the biome size apart.
Record(c, n) == [k \in 1 .. RecordLen |-> [conn |-> c, rec |-> n, byte |-> k]]
HandshakeOf(matching) ==
    [k \in 1 .. HandshakeLen |->
        [conn |-> IF k = SizeByte /\ ~matching THEN "other" ELSE "any", rec |-> 0, byte |-> k]]

\* The bytes of a sequence of candidates of c, given by their numbers.
Bytes(c, from, to) ==
    [j \in 1 .. (to - from) * RecordLen |->
        Record(c, from + 1 + ((j - 1) \div RecordLen))[((j - 1) % RecordLen) + 1]]

VARIABLES
    made,      \* made[c]: candidates the client's GPU threads have pushed
    drained,   \* drained[c]: how many of them the client thread has taken
    cli,       \* "connect", "write", "sleep" or "gone"
    out,       \* what asio::write has still to write
    wire,      \* bytes under way
    broken,    \* the connection was reset
    srv,       \* "none", "handshake", "read" or "closed"
    hs,        \* what async_read has put into handshake_
    buf,       \* the first pending_data_len_ bytes of pending_data_
    queue,     \* gpu_outputs.queue of the server
    received   \* received[c]: the records pushed on it from c (history)

cliVars == <<made, drained, cli, out>>
srvVars == <<srv, hs, buf, queue, received>>
vars == <<cliVars, wire, broken, srvVars>>

Init ==
    /\ made = [c \in Conns |-> 0]
    /\ drained = [c \in Conns |-> 0]
    /\ cli = [c \in Conns |-> "connect"]
    /\ out = [c \in Conns |-> <<>>]
    /\ wire = [c \in Conns |-> <<>>]
    /\ broken = [c \in Conns |-> FALSE]
    /\ srv = [c \in Conns |-> "none"]
    /\ hs = [c \in Conns |-> <<>>]
    /\ buf = [c \in Conns |-> <<>>]
    /\ queue = <<>>
    /\ received = [c \in Conns |-> <<>>]

Smaller(a, b) == IF a < b THEN a ELSE b

-----------------------------------------------------------------------------
(* The client *)

\* A GPU thread pushes a candidate on the client's gpu_outputs.
Push(c) ==
    /\ cli[c] # "gone"
    /\ made[c] < MaxRecords
    /\ made' = [made EXCEPT ![c] = @ + 1]
    /\ UNCHANGED <<drained, cli, out, wire, broken, srvVars>>

\* asio::connect, and the write of the handshake begins.
Connect(c) ==
    /\ cli[c] = "connect"
    /\ out' = [out EXCEPT ![c] = HandshakeOf(c \in Matching)]
    /\ cli' = [cli EXCEPT ![c] = "write"]
    /\ UNCHANGED <<made, drained, wire, broken, srvVars>>

\* Mutant: the rest of a partial write is forgotten.
WriteOnce(c) ==
    /\ cli[c] = "write"
    /\ ~broken[c]
    /\ \E k \in 1 .. Smaller(Len(out[c]), WireCap - Len(wire[c])) :
          /\ wire' = [wire EXCEPT ![c] = @ \o SubSeq(out[c], 1, k)]
          /\ out' = [out EXCEPT ![c] = <<>>]
          /\ cli' = [cli EXCEPT ![c] = "sleep"]
    /\ UNCHANGED <<made, drained, broken, srvVars>>

\* asio::write goes on until everything is written; then the vector is cleared.
WriteSome(c) ==
    /\ cli[c] = "write"
    /\ ~broken[c]
    /\ \E k \in 1 .. Smaller(Len(out[c]), WireCap - Len(wire[c])) :
          /\ wire' = [wire EXCEPT ![c] = @ \o SubSeq(out[c], 1, k)]
          /\ out' = [out EXCEPT ![c] = SubSeq(@, k + 1, Len(@))]
          /\ cli' = [cli EXCEPT ![c] = IF k = Len(out[c]) THEN "sleep" ELSE "write"]
    /\ UNCHANGED <<made, drained, broken, srvVars>>

\* After a second of sleep the queue is emptied into pending_data.  If there
\* was nothing in it the thread sleeps again.
Drain(c) ==
    /\ cli[c] = "sleep"
    /\ drained[c] < made[c]
    /\ out' = [out EXCEPT ![c] = Bytes(c, drained[c], made[c])]
    /\ drained' = [drained EXCEPT ![c] = made[c]]
    /\ cli' = [cli EXCEPT ![c] = "write"]
    /\ UNCHANGED <<made, wire, broken, srvVars>>

\* A failed write throws, and the client aborts.
Abort(c) ==
    /\ cli[c] = "write"
    /\ broken[c]
    /\ cli' = [cli EXCEPT ![c] = "gone"]
    /\ UNCHANGED <<made, drained, out, wire, broken, srvVars>>

\* The client is killed while it is connected; what TCP has taken is still delivered.
KillClient(c) ==
    /\ cli[c] \in {"write", "sleep"}
    /\ cli' = [cli EXCEPT ![c] = "gone"]
    /\ UNCHANGED <<made, drained, out, wire, broken, srvVars>>

\* The connection is reset, and what is under way is lost.
Reset(c) ==
    /\ cli[c] \in {"write", "sleep"}
    /\ ~broken[c]
    /\ broken' = [broken EXCEPT ![c] = TRUE]
    /\ wire' = [wire EXCEPT ![c] = <<>>]
    /\ UNCHANGED <<cliVars, srvVars>>

-----------------------------------------------------------------------------
(* The server *)

\* handle_accept and tcp_connection::start.
Accept(c) ==
    /\ srv[c] = "none"
    /\ cli[c] # "connect"
    /\ srv' = [srv EXCEPT ![c] = "handshake"]
    /\ UNCHANGED <<cliVars, wire, broken, hs, buf, queue, received>>

\* Mutant: the handshake is read and not compared.
ReadAnyHandshake(c) ==
    /\ srv[c] = "handshake"
    /\ \E k \in 1 .. Smaller(Len(wire[c]), HandshakeLen - Len(hs[c])) :
          /\ hs' = [hs EXCEPT ![c] = @ \o SubSeq(wire[c], 1, k)]
          /\ wire' = [wire EXCEPT ![c] = SubSeq(@, k + 1, Len(@))]
    /\ srv' = [srv EXCEPT ![c] = IF Len(hs'[c]) < HandshakeLen THEN "handshake"
                                 ELSE "read"]
    /\ UNCHANGED <<cliVars, broken, buf, queue, received>>

\* async_read collects the handshake; when it is complete handle_handshake
\* compares it and drops the connection or starts to read.
ReadHandshake(c) ==
    /\ srv[c] = "handshake"
    /\ \E k \in 1 .. Smaller(Len(wire[c]), HandshakeLen - Len(hs[c])) :
          /\ hs' = [hs EXCEPT ![c] = @ \o SubSeq(wire[c], 1, k)]
          /\ wire' = [wire EXCEPT ![c] = SubSeq(@, k + 1, Len(@))]
    /\ srv' = [srv EXCEPT ![c] = IF Len(hs'[c]) < HandshakeLen THEN "handshake"
                                 ELSE IF hs'[c] = HandshakeOf(TRUE) THEN "read" ELSE "closed"]
    /\ UNCHANGED <<cliVars, broken, buf, queue, received>>

\* Nothing more will come on this connection.
AtEnd(c) == broken[c] \/ (cli[c] = "gone" /\ wire[c] = <<>>)

\* The handshake ends with an error.  handle_handshake does not look at it: it
\* compares handshake_, whose rest is uninitialized and may be what an earlier
\* connection left there.
HandshakeError(c) ==
    /\ srv[c] = "handshake"
    /\ AtEnd(c)
    /\ \E next \in {"read", "closed"} :
          /\ next = "read" => hs[c] = SubSeq(HandshakeOf(TRUE), 1, Len(hs[c]))
          /\ srv' = [srv EXCEPT ![c] = next]
    /\ UNCHANGED <<cliVars, wire, broken, hs, buf, queue, received>>

\* Mutant: the rest is not moved to the front.
ReadWithoutMove(c) ==
    /\ srv[c] = "read"
    /\ \E k \in 1 .. Smaller(Len(wire[c]), BufLen - Len(buf[c])) :
          LET data == buf[c] \o SubSeq(wire[c], 1, k)
              count == Len(data) \div RecordLen
              records == [n \in 1 .. count |-> SubSeq(data, (n - 1) * RecordLen + 1, n * RecordLen)]
          IN  /\ wire' = [wire EXCEPT ![c] = SubSeq(@, k + 1, Len(@))]
              /\ queue' = queue \o records
              /\ received' = [received EXCEPT ![c] = @ \o records]
              /\ buf' = [buf EXCEPT ![c] = SubSeq(data, 1, Len(data) - count * RecordLen)]
    /\ UNCHANGED <<cliVars, broken, srv, hs>>

\* Mutant: only a read of a whole record is looked at.
ReadWholeRecords(c) ==
    /\ srv[c] = "read"
    /\ \E k \in 1 .. Smaller(Len(wire[c]), BufLen - Len(buf[c])) :
          LET data == buf[c] \o SubSeq(wire[c], 1, k)
              count == IF k >= RecordLen THEN Len(data) \div RecordLen ELSE 0
              records == [n \in 1 .. count |-> SubSeq(data, (n - 1) * RecordLen + 1, n * RecordLen)]
          IN  /\ wire' = [wire EXCEPT ![c] = SubSeq(@, k + 1, Len(@))]
              /\ queue' = queue \o records
              /\ received' = [received EXCEPT ![c] = @ \o records]
              /\ buf' = [buf EXCEPT ![c] = SubSeq(data, count * RecordLen + 1, Len(data))]
    /\ UNCHANGED <<cliVars, broken, srv, hs>>

\* handle_read cuts what has arrived into records, pushes them under the mutex
\* of the queue and moves the rest to the front.
ReadSome(c) ==
    /\ srv[c] = "read"
    /\ \E k \in 1 .. Smaller(Len(wire[c]), BufLen - Len(buf[c])) :
          LET data == buf[c] \o SubSeq(wire[c], 1, k)
              count == Len(data) \div RecordLen
              records == [n \in 1 .. count |-> SubSeq(data, (n - 1) * RecordLen + 1, n * RecordLen)]
          IN  /\ wire' = [wire EXCEPT ![c] = SubSeq(@, k + 1, Len(@))]
              /\ queue' = queue \o records
              /\ received' = [received EXCEPT ![c] = @ \o records]
              /\ buf' = [buf EXCEPT ![c] = SubSeq(data, count * RecordLen + 1, Len(data))]
    /\ UNCHANGED <<cliVars, broken, srv, hs>>

\* handle_read with an error: the last reference to the connection goes.
ReadError(c) ==
    /\ srv[c] = "read"
    /\ AtEnd(c)
    /\ srv' = [srv EXCEPT ![c] = "closed"]
    /\ UNCHANGED <<cliVars, wire, broken, hs, buf, queue, received>>

\* A CPU thread of the server takes a candidate.
Pop ==
    /\ queue # <<>>
    /\ queue' = Tail(queue)
    /\ UNCHANGED <<cliVars, wire, broken, srv, hs, buf, received>>

Client(c) == Push(c) \/ Connect(c) \/ WriteSome(c) \/ Drain(c) \/ Abort(c)
Server(c) == Accept(c) \/ ReadHandshake(c) \/ HandshakeError(c) \/ ReadSome(c) \/ ReadError(c)

Next ==
    \/ \E c \in Conns : Client(c) \/ Server(c) \/ KillClient(c) \/ Reset(c)
    \/ Pop

Spec == Init /\ [][Next]_vars

\* The client thread and the io_context of the server go on whenever they can,
\* and TCP hands over what it has taken.
Fairness ==
    /\ \A c \in Conns : /\ WF_vars(Connect(c)) /\ WF_vars(WriteSome(c)) /\ WF_vars(Drain(c))
                        /\ WF_vars(Server(c))
    /\ WF_vars(Pop)

FairSpec == Spec /\ Fairness

-----------------------------------------------------------------------------
(* Properties *)

ByteType == [conn : Conns \cup {"any", "other"}, rec : 0 .. MaxRecords,
             byte : 1 .. RecordLen + HandshakeLen]

TypeOK ==
    /\ made \in [Conns -> 0 .. MaxRecords]
    /\ drained \in [Conns -> 0 .. MaxRecords]
    /\ cli \in [Conns -> {"connect", "write", "sleep", "gone"}]
    /\ out \in [Conns -> Seq(ByteType)]
    /\ wire \in [Conns -> Seq(ByteType)]
    /\ broken \in [Conns -> BOOLEAN]
    /\ srv \in [Conns -> {"none", "handshake", "read", "closed"}]
    /\ hs \in [Conns -> Seq(ByteType)]
    /\ buf \in [Conns -> Seq(ByteType)]
    /\ queue \in Seq(Seq(ByteType))
    /\ received \in [Conns -> Seq(Seq(ByteType))]

\* However TCP cuts the stream and wherever it breaks, the server queues the
\* candidates of a client unharmed: in order, none twice, none left out and
\* none put together from two of them.
RecordsIntact ==
    \A c \in Conns :
        /\ Len(received[c]) <= drained[c]
        /\ \A n \in DOMAIN received[c] : received[c][n] = Record(c, n)

\* Seeds of a client built for the other biome size never enter the server's
\* queue, not even after a handshake that ended with an error.
OnlyMatchingClients == \A c \in Conns \ Matching : received[c] = <<>>

\* As long as the connection holds and the client lives, every byte written is
\* at exactly one place, in the order of the stream.
StreamConserved ==
    \A c \in Matching :
        ~broken[c] /\ cli[c] # "connect" =>
            hs[c] \o Bytes(c, 0, Len(received[c])) \o buf[c] \o wire[c] \o out[c]
                = HandshakeOf(TRUE) \o Bytes(c, 0, drained[c])

\* There is always room to read into: pending_data_ is never full, so that
\* async_read_some is never asked to read nothing.
RoomToRead == \A c \in Conns : srv[c] = "read" => Len(buf[c]) < BufLen

\* A candidate a client has found gets to the server, unless its connection
\* breaks or the client ends.
Delivered ==
    \A c \in Matching : \A n \in 1 .. MaxRecords :
        (made[c] >= n) ~> (Len(received[c]) >= n \/ broken[c] \/ cli[c] = "gone")

-----------------------------------------------------------------------------
(* The inductive invariant *)

\* The i-th byte of all that client c ever writes, and a sequence that is a part
\* of it, after the first n bytes.
StreamByte(c, i) ==
    IF i <= HandshakeLen
      THEN HandshakeOf(c \in Matching)[i]
      ELSE Record(c, 1 + ((i - HandshakeLen - 1) \div RecordLen))
                 [((i - HandshakeLen - 1) % RecordLen) + 1]
After(c, n, s) == \A j \in 1 .. Len(s) : s[j] = StreamByte(c, n + j)

\* How much the client has begun to write, and how much the server has read.
Begun(c) == IF cli[c] = "connect" THEN 0 ELSE HandshakeLen + drained[c] * RecordLen
Taken(c) == Len(hs[c]) + Len(received[c]) * RecordLen + Len(buf[c])

\* What the client's state says of what it has to write.
ClientOK(c) ==
    /\ drained[c] <= made[c]
    /\ cli[c] = "connect" => /\ drained[c] = 0 /\ out[c] = <<>> /\ wire[c] = <<>>
                             /\ ~broken[c] /\ srv[c] = "none"
    /\ cli[c] = "sleep" => out[c] = <<>>

\* While the connection holds, what is under way and what is still to be written
\* goes on where the server is in the stream; once it is broken nothing comes.
WireOK(c) ==
    /\ Taken(c) <= Begun(c)
    /\ broken[c] => wire[c] = <<>>
    /\ ~broken[c] => /\ After(c, Taken(c), wire[c])
                     /\ After(c, Taken(c) + Len(wire[c]), out[c])
                     /\ Taken(c) + Len(wire[c]) + Len(out[c]) = Begun(c)

\* Records are read after a whole handshake of a matching client.  A connection
\* that came to reading by an error has nothing to read.
ServerOK(c) ==
    /\ After(c, 0, hs[c]) /\ Len(hs[c]) <= HandshakeLen
    /\ srv[c] = "none" => hs[c] = <<>>
    /\ srv[c] \in {"none", "handshake"} => received[c] = <<>> /\ buf[c] = <<>>
    /\ srv[c] = "handshake" => Len(hs[c]) < HandshakeLen
    /\ srv[c] = "read" => (Len(hs[c]) = HandshakeLen /\ c \in Matching) \/ AtEnd(c)
    /\ received[c] # <<>> \/ buf[c] # <<>> => Len(hs[c]) = HandshakeLen /\ c \in Matching
    /\ \A n \in DOMAIN received[c] : received[c][n] = Record(c, n)
    /\ After(c, HandshakeLen + Len(received[c]) * RecordLen, buf[c])
    /\ Len(buf[c]) < RecordLen

IInv == TypeOK /\ \A c \in Conns : ClientOK(c) /\ WireOK(c) /\ ServerOK(c)
=============================================================================
