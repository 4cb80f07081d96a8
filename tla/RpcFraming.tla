----------------------------- MODULE RpcFraming -----------------------------
(***************************************************************************)
(* One message from RpcSend to RpcRecv over a connection, or from RpcSendTo *)
(* to RpcRecvFrom in datagrams. Bytes are numbers, 0 ends a C string. The   *)
(* four bytes of h_code are one unit of the stream, so that a MetaData is   *)
(* BODY_SIZE + 1 units.                                                     *)
(***************************************************************************)
EXTENDS Integers, Sequences, SequencesExt, FiniteSetsExt

CONSTANTS
    BODY_SIZE,   \* bytes of the body, the last of them 0
    Ids,         \* transfer ids
    MaxShort     \* bound on the reads that return less than MetaSize

ASSUME FramingAssumption == BODY_SIZE \in Nat /\ BODY_SIZE > 1 /\ Ids \subseteq Int /\ MaxShort \in Nat

VARIABLES
    data,        \* send_info_str
    id,          \* transfer_id
    udp,         \* RpcSendTo and RpcRecvFrom
    need_closed, \* of the sender
    block,       \* frames sent
    spc,         \* the sender: "sending", "sent", "closed", "failed" or "refused"
    wire,        \* units in flight; frames, if udp
    rpc,         \* the receiver: "recv" or "done"
    recv_info,   \* recv_info_str
    ret,         \* what RpcRecv returns
    short        \* reads that were short

frame_vars == <<data, id, udp, need_closed, block, spc, wire, rpc, recv_info, ret, short>>

ERROR_RECV == -200
MetaSize == BODY_SIZE + 1
Chunk == BODY_SIZE - 1

InitFraming(payload) ==
    /\ data = payload
    /\ id \in Ids /\ udp \in BOOLEAN /\ need_closed \in BOOLEAN
    /\ block = 0 /\ spc = "sending" /\ wire = <<>>
    /\ rpc = "recv" /\ recv_info = <<>> /\ ret = 0 /\ short = 0
-----------------------------------------------------------------------------
(* The sender *)

\* 0 means nothing, and is sent as 1; a datagram has no id.
TransferId == IF udp \/ id = 0 THEN 1 ELSE id
RestLen == Len(data) % Chunk

MutFrames == Len(data) \div Chunk + 1
\* There is a last frame only if something is left.
Frames == Len(data) \div Chunk + (IF RestLen = 0 THEN 0 ELSE 1)

MutMetaData(i) == <<IF i = Len(data) \div Chunk THEN -TransferId ELSE i>> \o [j \in 1 .. BODY_SIZE |->
    IF j < Chunk /\ i * Chunk + j <= Len(data) THEN data[i * Chunk + j] ELSE 0]
MutMetaDataOpen(i) == <<i>> \o [j \in 1 .. BODY_SIZE |->
    IF j <= Chunk /\ i * Chunk + j <= Len(data) THEN data[i * Chunk + j] ELSE 0]
\* The i-th MetaData, from 0: the last one has a negative code.
MetaData(i) ==
    <<IF i = Len(data) \div Chunk THEN -TransferId ELSE i>> \o [j \in 1 .. BODY_SIZE |->
        IF j <= Chunk /\ i * Chunk + j <= Len(data) THEN data[i * Chunk + j] ELSE 0]

AfterSend == IF need_closed THEN "closed" ELSE "sent"

\* RpcSend returns -1 for a negative id; RpcSendTo has none.
SendRefused ==
    /\ spc = "sending" /\ ~udp /\ id < 0
    /\ spc' = "refused"
    /\ UNCHANGED <<data, id, udp, need_closed, block, wire, rpc, recv_info, ret, short>>

SendFrame ==
    /\ spc = "sending" /\ (udp \/ id >= 0) /\ block < Frames
    /\ wire' = IF udp THEN Append(wire, MetaData(block)) ELSE wire \o MetaData(block)
    /\ block' = block + 1
    /\ UNCHANGED <<data, id, udp, need_closed, spc, rpc, recv_info, ret, short>>

SendReturns ==
    /\ spc = "sending" /\ (udp \/ id >= 0) /\ block = Frames
    /\ spc' = AfterSend
    /\ UNCHANGED <<data, id, udp, need_closed, block, wire, rpc, recv_info, ret, short>>

\* send returns -1: the socket is closed.
SendFails ==
    /\ spc = "sending" /\ (udp \/ id >= 0) /\ block < Frames
    /\ spc' = "failed"
    /\ UNCHANGED <<data, id, udp, need_closed, block, wire, rpc, recv_info, ret, short>>
-----------------------------------------------------------------------------
(* The receiver *)

\* Bytes in front of the first 0.
Strlen(body) ==
    LET zeros == {i \in DOMAIN body : body[i] = 0}
    IN IF zeros = {} THEN Len(body) ELSE Min(zeros) - 1

\* One turn of the loop in RpcRecv and RpcRecvFrom with what was read; the
\* rest of recv_buf is 0.
Received(chunk) ==
    LET body == Tail(chunk)
        text == SubSeq(body, 1, Strlen(body))
    IN /\ recv_info' = recv_info \o text
       /\ IF Head(chunk) < 0
          THEN rpc' = "done" /\ ret' = -Head(chunk)
          ELSE UNCHANGED <<rpc, ret>>

\* recv asks for MetaSize bytes and may get fewer.
RpcRecv(n) ==
    /\ rpc = "recv" /\ ~udp
    /\ n <= Len(wire) /\ n <= MetaSize
    /\ n < MetaSize => short < MaxShort
    /\ Received(SubSeq(wire, 1, n))
    /\ wire' = SubSeq(wire, n + 1, Len(wire))
    /\ short' = IF n < MetaSize THEN short + 1 ELSE short
    /\ UNCHANGED <<data, id, udp, need_closed, block, spc>>

\* The peer has closed: nothing to read, RpcRecv returns 0.
RecvClosed ==
    /\ rpc = "recv" /\ ~udp /\ wire = <<>> /\ spc \in {"closed", "failed"}
    /\ rpc' = "done" /\ ret' = 0
    /\ UNCHANGED <<data, id, udp, need_closed, block, spc, wire, recv_info, short>>

RecvError ==
    /\ rpc = "recv"
    /\ rpc' = "done" /\ ret' = ERROR_RECV
    /\ UNCHANGED <<data, id, udp, need_closed, block, spc, wire, recv_info, short>>

\* Datagrams arrive whole, in any order, or not at all.
RpcRecvFrom(i) ==
    /\ rpc = "recv" /\ udp /\ i \in DOMAIN wire
    /\ Received(wire[i])
    /\ wire' = RemoveAt(wire, i)
    /\ UNCHANGED <<data, id, udp, need_closed, block, spc, short>>

LoseDatagram(i) ==
    /\ rpc = "recv" /\ udp /\ i \in DOMAIN wire
    /\ wire' = RemoveAt(wire, i)
    /\ UNCHANGED <<data, id, udp, need_closed, block, spc, rpc, recv_info, ret, short>>

RecvWhole == RpcRecv(MetaSize) \/ RecvClosed

FramingNext ==
    \/ SendRefused \/ SendFrame \/ SendReturns \/ SendFails
    \/ \E n \in 1 .. MetaSize : RpcRecv(n)
    \/ RecvClosed \/ RecvError
    \/ \E i \in DOMAIN wire : RpcRecvFrom(i) \/ LoseDatagram(i)

FramingSpec(payload) == InitFraming(payload) /\ [][FramingNext]_frame_vars

-----------------------------------------------------------------------------
(* Properties *)

NulFree == \A i \in DOMAIN data : data[i] # 0
Completed == rpc = "done" /\ ret > 0

\* When every read returned a whole MetaData, RpcRecv ends with the sender's id and, if no
\* byte of the message is 0, with the message; RpcRecvFrom does so for one datagram.
WholeReadsIntact ==
    Completed /\ short = 0 /\ (udp => Frames = 1) =>
        /\ ret = TransferId
        /\ NulFree => recv_info = data

\* A message whose length is a multiple of BODY_SIZE - 1 (RpcSend then sends no last
\* frame, for the empty message none at all) is never completed: RpcRecv waits for ever,
\* or returns 0 when the sender closes.
BoundaryNeverCompletes == RestLen = 0 /\ short = 0 => ~Completed

\* Any other message that was sent is received, if the reads are whole.
OffBoundaryCompletes ==
    (~udp /\ RestLen # 0 /\ spc \in {"sent", "closed"}) ~> (rpc = "done" \/ short > 0)
=============================================================================
