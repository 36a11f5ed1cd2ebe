---------------------------- MODULE TftpTransfer ----------------------------
(***************************************************************************)
(* The read requests of one TFTP client (src/src/pxe/tftp_server.py): the  *)
(* protocol object that starts a transfer for every request, the transfer  *)
(* with its acknowledgements, timeouts and retries, and a client that      *)
(* follows RFC 1350 and may send its request again.                        *)
(*                                                                         *)
(* The network loses, duplicates and reorders: a packet stays in "packets" *)
(* and is received never, once or again.  A retransmission puts the same   *)
(* packet there and so adds nothing.                                       *)
(***************************************************************************)
EXTENDS Integers, Sequences

CONSTANTS
    Transfers,       \* transfers that requests of the client may start
    NoTransfer,      \* no transfer
    MAX_RETRIES,     \* TFTPTransfer.MAX_RETRIES
    MaxBlock,        \* the largest block number of two bytes
    MaxFileBlocks    \* bound on the size of the file, in blocks

ASSUME TftpAssumption ==
    /\ NoTransfer \notin Transfers
    /\ MAX_RETRIES \in Nat \ {0}
    /\ MaxBlock \in Nat
    /\ MaxFileBlocks \in Nat

VARIABLES
    file,      \* the file asked for
    options,   \* the request carries options the server acknowledges
    xfer,      \* the TFTPTransfer objects
    transfers, \* the entry of the client's address in the protocol's dict
    packets,   \* the packets on the network
    client     \* the client

tftpVars == <<file, options, xfer, transfers, packets, client>>

File == [blocks : 0..MaxFileBlocks, full : BOOLEAN]

Empty == 0   \* the chunk of the closing packet of a file of full blocks

Packet ==
    [op : {"DATA"}, t : Transfers, block : 1..MaxBlock, chunk : 0..MaxFileBlocks]
    \union [op : {"ACK"}, t : Transfers, block : 0..MaxBlock]
    \union [op : {"OACK", "ERROR"}, t : Transfers]

Data(t, block, chunk) == [op |-> "DATA", t |-> t, block |-> block, chunk |-> chunk]
Ack(t, block) == [op |-> "ACK", t |-> t, block |-> block]
Oack(t) == [op |-> "OACK", t |-> t]
Error(t) == [op |-> "ERROR", t |-> t]

\* Where send_file stands, and the fields of the transfer.
Transfer ==
    [ phase   : {"none",      \* no such transfer
                 "oack",      \* waits for the ACK of the OACK
                 "read",      \* reads the next chunk
                 "data",      \* waits for the ACK of a DATA packet
                 "final",     \* waits for the ACK of the closing empty packet
                 "ok", "failed"},
      block   : 1..(MaxFileBlocks + 2),      \* block_num
      pos     : 0..MaxFileBlocks,            \* chunks read
      tries   : 0..MAX_RETRIES,              \* retry of send_file
      waits   : 0..MAX_RETRIES,              \* retry of wait_for_ack
      lastAck : -1..MaxBlock,                \* last_ack_block
      event   : BOOLEAN,                     \* ack_event
      done    : BOOLEAN ]

NewTransfer ==
    [ phase |-> "none", block |-> 1, pos |-> 0, tries |-> 0, waits |-> 0,
      lastAck |-> -1, event |-> FALSE, done |-> FALSE ]

Waiting(x) == x.phase \in {"oack", "data", "final"}
Running(x) == x.phase \in {"oack", "read", "data", "final"}

\* The client: the transfer it listens to, the blocks it has.
Client ==
    [ tid    : Transfers \union {NoTransfer},
      got    : Seq(1..MaxFileBlocks),
      status : {"reading", "done", "aborted"} ]

-----------------------------------------------------------------------------
TftpInit ==
    /\ file \in File
    /\ options \in BOOLEAN
    /\ xfer = [t \in Transfers |-> NewTransfer]
    /\ transfers = NoTransfer
    /\ packets = {}
    /\ client = [tid |-> NoTransfer, got |-> <<>>, status |-> "reading"]

\* A read request arrives, the first or one the client repeats because it has
\* no answer yet; each starts a transfer with its own socket.
ReadRequest(t) ==
    /\ client.tid = NoTransfer /\ client.status = "reading"
    /\ xfer[t].phase = "none"
    /\ transfers' = t
    /\ xfer' = [xfer EXCEPT ![t].phase = IF options THEN "oack" ELSE "read"]
    /\ packets' = IF options THEN packets \union {Oack(t)} ELSE packets
    /\ UNCHANGED <<file, options, client>>

\* send_file returns, and _handle_read_request closes the socket and drops
\* the entry of the client's address, whichever transfer it names.
Ends(t, outcome) ==
    /\ xfer' = [xfer EXCEPT ![t].phase = outcome]
    /\ transfers' = NoTransfer

\* struct.pack refuses a block number of more than two bytes.
Packable(block) == block <= MaxBlock

\* The transfer raises: an ERROR packet, best effort.
TransferRaises(t) ==
    /\ Ends(t, "failed")
    /\ packets' = packets \union {Error(t)}

Sends(t, phase, block, chunk) ==
    /\ xfer' = [xfer EXCEPT ![t].phase = phase, ![t].tries = 0, ![t].waits = 0,
                            ![t].event = FALSE,
                            ![t].pos = IF chunk = Empty THEN @ ELSE chunk]
    /\ packets' = packets \union {Data(t, block, chunk)}
    /\ UNCHANGED transfers

\* Mutation: the reader skips a chunk when a datagram came in while it read.
ReadChunkSkipping(t) ==
    LET x == xfer[t]
        chunk == x.pos + (IF x.event THEN 2 ELSE 1)
    IN
    /\ x.phase = "read"
    /\ IF chunk <= file.blocks
       THEN IF Packable(x.block) THEN Sends(t, "data", x.block, chunk)
                                 ELSE TransferRaises(t)
       ELSE IF file.full /\ file.blocks > 0
       THEN IF Packable(x.block) THEN Sends(t, "final", x.block, Empty)
                                 ELSE TransferRaises(t)
       ELSE Ends(t, "ok") /\ UNCHANGED packets
    /\ UNCHANGED <<file, options, client>>

\* The next chunk of read_file is there: it is sent; or the file has ended,
\* which a last chunk of full size is followed by an empty packet to say.
ReadChunk(t) ==
    LET x == xfer[t]
        chunk == x.pos + 1
    IN
    /\ x.phase = "read"
    /\ IF chunk <= file.blocks
       THEN IF Packable(x.block) THEN Sends(t, "data", x.block, chunk)
                                 ELSE TransferRaises(t)
       ELSE IF file.full /\ file.blocks > 0
       THEN IF Packable(x.block) THEN Sends(t, "final", x.block, Empty)
                                 ELSE TransferRaises(t)
       ELSE Ends(t, "ok") /\ UNCHANGED packets
    /\ UNCHANGED <<file, options, client>>

\* The file is not there, or it is a directory.
FileMissing(t) ==
    /\ xfer[t].phase = "read" /\ xfer[t].pos = 0
    /\ TransferRaises(t)
    /\ UNCHANGED <<file, options, client>>

-----------------------------------------------------------------------------
(* wait_for_ack                                                             *)

\* Mutation: any acknowledgement is good enough.
ExpectedAnyAck(x) == x.lastAck

Expected(x) == IF x.phase = "oack" THEN 0 ELSE x.block

\* wait_for_ack returned True.
Acknowledged(t) ==
    IF xfer[t].phase = "final"
    THEN Ends(t, "ok")
    ELSE /\ xfer' = [xfer EXCEPT
                       ![t].phase = "read", ![t].event = FALSE,
                       ![t].block = IF xfer[t].phase = "data" THEN @ + 1 ELSE @]
         /\ UNCHANGED transfers

\* Mutation: a packet is sent again without counting the attempt.
NotAcknowledgedEndlessly(t) ==
    LET x == xfer[t] IN
    CASE x.phase = "oack" -> Ends(t, "failed")
      [] x.phase = "final" -> Ends(t, "ok")
      [] OTHER ->
           /\ xfer' = [xfer EXCEPT ![t].waits = 0, ![t].event = FALSE]
           /\ UNCHANGED transfers

\* wait_for_ack returned False.  The OACK is not sent again, a DATA packet is
\* as long as attempts remain, and after the closing packet the result is
\* ignored.
NotAcknowledged(t) ==
    LET x == xfer[t] IN
    CASE x.phase = "oack" -> Ends(t, "failed")
      [] x.phase = "final" -> Ends(t, "ok")
      [] x.phase = "data" /\ x.tries + 1 = MAX_RETRIES -> Ends(t, "failed")
      [] OTHER ->
           /\ xfer' = [xfer EXCEPT ![t].tries = @ + 1, ![t].waits = 0,
                                   ![t].event = FALSE]
           /\ UNCHANGED transfers

\* One turn of the loop of wait_for_ack brought nothing.
Retries(t) ==
    IF xfer[t].waits + 1 = MAX_RETRIES
    THEN NotAcknowledged(t)
    ELSE /\ xfer' = [xfer EXCEPT ![t].waits = @ + 1, ![t].event = FALSE]
         /\ UNCHANGED transfers

\* The waiting coroutine runs after the event was set.
Wake(t) ==
    LET x == xfer[t] IN
    /\ Waiting(x) /\ x.event
    /\ CASE x.done -> NotAcknowledged(t)
         [] ~x.done /\ x.lastAck = Expected(x) -> Acknowledged(t)
         [] OTHER -> Retries(t)
    /\ UNCHANGED <<file, options, packets, client>>

\* TIMEOUT seconds pass.
Timeout(t) ==
    /\ Waiting(xfer[t]) /\ ~xfer[t].event
    /\ Retries(t)
    /\ UNCHANGED <<file, options, packets, client>>

-----------------------------------------------------------------------------
(* datagram_received of the transfer                                        *)

\* An ACK arrives, perhaps before the coroutine has seen the previous one.
ReceiveAck(t) ==
    \E m \in packets :
        /\ Running(xfer[t])
        /\ m.op = "ACK" /\ m.t = t
        /\ xfer' = [xfer EXCEPT ![t].lastAck = m.block, ![t].event = TRUE]
        /\ UNCHANGED <<file, options, transfers, packets, client>>

Abandons(t) ==
    /\ xfer' = [xfer EXCEPT ![t].done = TRUE, ![t].event = TRUE]
    /\ UNCHANGED <<file, options, transfers, packets, client>>

\* An ERROR of the client: ignored before its first ACK, for Hyper-V firmware
\* sends one and goes on.
ReceiveError(t) == Running(xfer[t]) /\ xfer[t].lastAck >= 0 /\ Abandons(t)

\* error_received: the socket reports that the client cannot be reached.
SocketError(t) == Running(xfer[t]) /\ Abandons(t)

-----------------------------------------------------------------------------
(* The client                                                               *)

\* An OACK of the transfer the client listens to, or of the first to answer.
ClientOack ==
    \E m \in packets :
        /\ m.op = "OACK"
        /\ client.status = "reading"
        /\ client.tid \in {NoTransfer, m.t}
        /\ client' = [client EXCEPT !.tid = m.t]
        /\ packets' = packets \union {Ack(m.t, 0)}
        /\ UNCHANGED <<file, options, xfer, transfers>>

\* A DATA packet: the next block is kept, an older one acknowledged again.
\* The last block is the first that is not full.
ClientData ==
    \E m \in packets :
        LET next == Len(client.got) + 1
            last == m.chunk = Empty \/ (m.chunk = file.blocks /\ ~file.full)
        IN
        /\ m.op = "DATA"
        /\ client.status # "aborted"
        /\ client.tid \in {NoTransfer, m.t}
        /\ m.block <= next
        /\ client' =
             [ tid    |-> m.t,
               got    |-> IF m.block = next /\ client.status = "reading"
                             /\ m.chunk # Empty
                          THEN Append(client.got, m.chunk) ELSE client.got,
               status |-> IF m.block = next /\ last THEN "done" ELSE client.status ]
        /\ packets' = packets \union {Ack(m.t, m.block)}
        /\ UNCHANGED <<file, options, xfer, transfers>>

\* The client gives up, or the server told it to.
ClientAborts ==
    /\ client.status = "reading"
    /\ client' = [client EXCEPT !.status = "aborted"]
    /\ UNCHANGED <<file, options, xfer, transfers, packets>>

-----------------------------------------------------------------------------
TransferStep(t) ==
    \/ ReadRequest(t)
    \/ ReadChunk(t)    \/ FileMissing(t)
    \/ Wake(t)         \/ Timeout(t)
    \/ ReceiveAck(t)   \/ ReceiveError(t)  \/ SocketError(t)

TftpNext ==
    \/ \E t \in Transfers : TransferStep(t)
    \/ ClientOack \/ ClientData \/ ClientAborts

TftpSpec == TftpInit /\ [][TftpNext]_tftpVars

\* The event loop runs a coroutine that can run, and timers fire.
TftpFairness ==
    \A t \in Transfers :
        WF_tftpVars(ReadChunk(t)) /\ WF_tftpVars(Wake(t)) /\ WF_tftpVars(Timeout(t))

-----------------------------------------------------------------------------
(* Properties                                                               *)

\* Every variable has its type.
TftpTypeOK ==
    /\ file \in File
    /\ options \in BOOLEAN
    /\ xfer \in [Transfers -> Transfer]
    /\ transfers \in Transfers \union {NoTransfer}
    /\ packets \subseteq Packet
    /\ client \in Client

\* Stop and wait: whatever is lost, repeated or late, no packet of a block is
\* on the network before the client has the block before it, and a block
\* number always carries the chunk of that number.
StopAndWait ==
    \A m \in packets :
        m.op = "DATA" =>
            /\ m.chunk = IF m.block <= file.blocks THEN m.block ELSE Empty
            /\ m.block > 1 => /\ client.tid = m.t
                              /\ Len(client.got) >= m.block - 1

\* A transfer the server calls complete has put every block of the file into
\* the client's hands, unless the file is empty, which sends nothing at all.
CompleteIsDelivered ==
    \A t \in Transfers :
        xfer[t].phase = "ok" /\ file.blocks > 0 =>
            client.tid = t /\ Len(client.got) = file.blocks

\* A file with more blocks than two bytes can number never ends as a complete
\* transfer.
TooLongIsRefused ==
    \A t \in Transfers :
        xfer[t].phase = "ok" =>
            file.blocks + (IF file.full /\ file.blocks > 0 THEN 1 ELSE 0) <= MaxBlock

\* The dict of transfers holds no transfer that has ended, although one entry
\* stands for every transfer of the address.
EntryIsRunning ==
    transfers # NoTransfer => Running(xfer[transfers])

\* All of this at once: what the server sends, remembers and calls complete is
\* what the client has, through loss, repetition, delay and repeated requests.
TransferIsSound ==
    TftpTypeOK /\ StopAndWait /\ CompleteIsDelivered /\ TooLongIsRefused /\ EntryIsRunning

\* Every transfer ends: no sequence of duplicate, stale or missing
\* acknowledgements keeps one going for ever.
TransfersEnd ==
    \A t \in Transfers : Running(xfer[t]) ~> ~Running(xfer[t])

\* The transfers deliver the file: FileDelivery under this mapping.
Delivery ==
    INSTANCE FileDelivery WITH
        size <- file.blocks,
        received <- client.got,
        complete <- file.blocks > 0 /\ \E t \in Transfers : xfer[t].phase = "ok"

DeliversFile == Delivery!DeliverySpec
=============================================================================
