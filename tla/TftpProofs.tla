----------------------------- MODULE TftpProofs -----------------------------
(***************************************************************************)
(* Theorems about TftpTransfer, for any set of transfers, any size of the  *)
(* file and any limits.  Why stop and wait holds is in what an             *)
(* acknowledgement stands for: every ACK of a block on the network was     *)
(* sent by a client that has the block (AckSound), a transfer only         *)
(* remembers acknowledgements that are on the network, and it goes to the  *)
(* next block only on the one it expects (TransferSound).                  *)
(*                                                                         *)
(* And about PiBoot: a registered Pi has a whole directory, for the row    *)
(* commits after the last of its files is written.                         *)
(***************************************************************************)
EXTENDS TftpTransfer, PiBoot, TLAPS

Total(f) == f.blocks + (IF f.full /\ f.blocks > 0 THEN 1 ELSE 0)

\* The client holds a prefix of the file, and all of it when it is done.
ClientSound(f, c) ==
    /\ Len(c.got) <= f.blocks
    /\ \A i \in 1..Len(c.got) : c.got[i] = i
    /\ c.status = "done" => Len(c.got) = f.blocks

\* The transfer t has put the blocks before block into the client's hands.
Has(t, block, c) == block > 1 => c.tid = t /\ Len(c.got) >= block - 1

DataSound(m, f, c) ==
    m.op = "DATA" =>
        /\ m.chunk = IF m.block <= f.blocks THEN m.block ELSE Empty
        /\ m.block <= Total(f)
        /\ Has(m.t, m.block, c)

AckSound(m, f, c) ==
    m.op = "ACK" /\ m.block >= 1 =>
        /\ c.tid = m.t
        /\ m.block <= f.blocks => Len(c.got) >= m.block

\* What a transfer in each phase has done.
PhaseSound(x, f) ==
    /\ x.phase \in {"none", "oack"} => x.pos = 0 /\ x.block = 1
    /\ x.phase = "read" => x.pos = x.block - 1 /\ x.pos <= f.blocks /\ x.pos <= MaxBlock
    /\ x.phase = "data" => x.pos = x.block /\ x.block <= f.blocks /\ x.block <= MaxBlock
    /\ x.phase = "final" => x.block = f.blocks + 1 /\ x.block = Total(f) /\ x.block <= MaxBlock
    /\ x.phase = "ok" => Total(f) <= MaxBlock

TransferSound(t, x, f, p, c) ==
    /\ PhaseSound(x, f)
    /\ x.tries < MAX_RETRIES /\ x.waits < MAX_RETRIES
    /\ Running(x) => Has(t, x.block, c)
    /\ x.lastAck # -1 => Ack(t, x.lastAck) \in p
    /\ x.phase = "ok" => Has(t, f.blocks + 1, c)

TftpInv ==
    /\ TftpTypeOK
    /\ ClientSound(file, client)
    /\ \A m \in packets : DataSound(m, file, client) /\ AckSound(m, file, client)
    /\ \A t \in Transfers : TransferSound(t, xfer[t], file, packets, client)
    /\ EntryIsRunning

-----------------------------------------------------------------------------
LEMMA InvImplies ==
    ASSUME TftpInv
    PROVE  TransferIsSound
<1>1. StopAndWait
  BY DEF TftpInv, StopAndWait, DataSound, Has
<1>2. file.blocks \in Nat /\ Len(client.got) \in Nat
  BY DEF TftpInv, TftpTypeOK, File, Client
<1>3. CompleteIsDelivered
  BY <1>2 DEF TftpInv, CompleteIsDelivered, TransferSound, Has, ClientSound
<1>4. TooLongIsRefused
  BY DEF TftpInv, TooLongIsRefused, TransferSound, PhaseSound, Total
<1> QED
  BY <1>1, <1>3, <1>4 DEF TransferIsSound, TftpInv

LEMMA InitInv ==
    ASSUME TftpInit
    PROVE  TftpInv
<1>1. NewTransfer \in Transfer /\ NewTransfer.phase = "none"
  BY TftpAssumption DEF NewTransfer, Transfer
<1>2. TftpTypeOK
  BY <1>1 DEF TftpInit, TftpTypeOK, Client
<1>3. ClientSound(file, client)
  BY DEF TftpInit, ClientSound, File
<1>4. \A t \in Transfers : TransferSound(t, xfer[t], file, packets, client)
  <2> SUFFICES ASSUME NEW t \in Transfers
               PROVE  TransferSound(t, NewTransfer, file, packets, client)
    BY DEF TftpInit
  <2>1. /\ NewTransfer.phase = "none" /\ NewTransfer.pos = 0 /\ NewTransfer.block = 1
        /\ NewTransfer.tries = 0 /\ NewTransfer.waits = 0 /\ NewTransfer.lastAck = -1
    BY DEF NewTransfer
  <2>2. PhaseSound(NewTransfer, file)
    BY <2>1 DEF PhaseSound
  <2> QED
    BY <2>1, <2>2, TftpAssumption DEF TransferSound, Running
<1> QED
  BY <1>2, <1>3, <1>4 DEF TftpInv, TftpInit, EntryIsRunning

LEMMA Typed ==
    ASSUME TftpInv
    PROVE  /\ file.blocks \in Nat /\ file.full \in BOOLEAN /\ file.blocks <= MaxFileBlocks
           /\ Len(client.got) \in Nat /\ client.got \in Seq(1..MaxFileBlocks)
           /\ Total(file) \in Nat
           /\ \A t \in Transfers :
                /\ xfer[t] \in Transfer
                /\ xfer[t].block \in Nat \ {0} /\ xfer[t].pos \in Nat /\ xfer[t].pos <= MaxFileBlocks
                /\ xfer[t].tries \in Nat /\ xfer[t].waits \in Nat
                /\ xfer[t].lastAck \in Int
<1>1. /\ file.blocks \in Nat /\ file.full \in BOOLEAN /\ file.blocks <= MaxFileBlocks
      /\ Len(client.got) \in Nat /\ client.got \in Seq(1..MaxFileBlocks)
  BY TftpAssumption DEF TftpInv, TftpTypeOK, File, Client
<1>2. Total(file) \in Nat
  BY <1>1 DEF Total
<1>3. \A t \in Transfers : xfer[t] \in Transfer
  BY DEF TftpInv, TftpTypeOK
<1> QED
  BY <1>1, <1>2, <1>3, TftpAssumption DEF Transfer

\* A step of transfer t: what it leaves behind is sound if what it makes of t
\* and the packets it sends are.
LEMMA ServerStep ==
    ASSUME TftpInv, NEW t \in Transfers,
           UNCHANGED <<file, options, client>>,
           xfer' \in [Transfers -> Transfer],
           \A u \in Transfers : u # t => xfer'[u] = xfer[u],
           TransferSound(t, xfer'[t], file, packets', client),
           packets \subseteq packets',
           \A m \in packets' : m \notin packets =>
               m \in Packet /\ m.op # "ACK" /\ DataSound(m, file, client),
           transfers' = NoTransfer \/ (transfers' \in {t, transfers} /\ Running(xfer'[t]))
    PROVE  TftpInv'
<1>1. TftpTypeOK'
  BY DEF TftpInv, TftpTypeOK
<1>2. ClientSound(file, client)'
  BY DEF TftpInv, ClientSound
<1>3. (\A m \in packets : DataSound(m, file, client) /\ AckSound(m, file, client))'
  <2> SUFFICES ASSUME NEW m \in packets'
               PROVE  DataSound(m, file, client) /\ AckSound(m, file, client)
    BY DEF DataSound, AckSound, Has, Total
  <2>1. CASE m \in packets
    BY <2>1 DEF TftpInv
  <2>2. CASE m \notin packets
    BY <2>2 DEF AckSound
  <2> QED
    BY <2>1, <2>2
<1>4. \A u \in Transfers : TransferSound(u, xfer'[u], file, packets', client)
  <2> SUFFICES ASSUME NEW u \in Transfers, u # t
               PROVE  TransferSound(u, xfer[u], file, packets', client)
    OBVIOUS
  <2>1. TransferSound(u, xfer[u], file, packets, client)
    BY DEF TftpInv
  <2> QED
    BY <2>1 DEF TransferSound
<1>5. (\A u \in Transfers : TransferSound(u, xfer[u], file, packets, client))'
  BY <1>4 DEF TransferSound, PhaseSound, Has, Total, Running, Ack
<1>6. EntryIsRunning'
  BY DEF TftpInv, EntryIsRunning, TftpTypeOK
<1> QED
  BY <1>1, <1>2, <1>3, <1>5, <1>6 DEF TftpInv

LEMMA EndsStep ==
    ASSUME TftpInv, NEW t \in Transfers, NEW outcome \in {"ok", "failed"},
           Ends(t, outcome), UNCHANGED <<file, options, client>>,
           packets' = packets \/ packets' = packets \union {Error(t)},
           outcome = "ok" => Total(file) <= MaxBlock /\ Has(t, file.blocks + 1, client)
    PROVE  TftpInv'
<1> USE Typed
<1>1. /\ xfer' \in [Transfers -> Transfer]
      /\ \A u \in Transfers : u # t => xfer'[u] = xfer[u]
      /\ xfer'[t].phase = outcome
      /\ xfer'[t].tries = xfer[t].tries /\ xfer'[t].waits = xfer[t].waits
      /\ xfer'[t].lastAck = xfer[t].lastAck
  BY DEF Ends, Transfer, TftpInv, TftpTypeOK
<1>2. TransferSound(t, xfer'[t], file, packets', client)
  BY <1>1 DEF TransferSound, PhaseSound, TftpInv, Running
<1>3. \A m \in packets' : m \notin packets =>
         m \in Packet /\ m.op # "ACK" /\ DataSound(m, file, client)
  BY DEF Packet, Error, DataSound
<1> QED
  BY <1>1, <1>2, <1>3, ServerStep DEF Ends
LEMMA ReadRequestStep ==
    ASSUME TftpInv, NEW t \in Transfers, ReadRequest(t)
    PROVE  TftpInv'
<1> USE Typed
<1>1. /\ xfer' \in [Transfers -> Transfer]
      /\ \A u \in Transfers : u # t => xfer'[u] = xfer[u]
      /\ xfer'[t].phase = IF options THEN "oack" ELSE "read"
      /\ xfer'[t].block = xfer[t].block /\ xfer'[t].pos = xfer[t].pos
      /\ xfer'[t].tries = xfer[t].tries /\ xfer'[t].waits = xfer[t].waits
      /\ xfer'[t].lastAck = xfer[t].lastAck
  BY ZenonT(40) DEF ReadRequest, Transfer, TftpInv, TftpTypeOK
<1>2. PhaseSound(xfer[t], file) /\ xfer[t].phase = "none"
  BY DEF TftpInv, TransferSound, ReadRequest
<1>3. PhaseSound(xfer'[t], file)
  BY <1>1, <1>2, TftpAssumption DEF PhaseSound
<1>4. packets \subseteq packets'
  BY DEF ReadRequest
<1>5. TransferSound(t, xfer[t], file, packets, client)
  BY DEF TftpInv
<1>6. TransferSound(t, xfer'[t], file, packets', client)
  BY <1>1, <1>2, <1>3, <1>4, <1>5 DEF TransferSound, PhaseSound, Has
<1>7. \A m \in packets' : m \notin packets =>
         m \in Packet /\ m.op # "ACK" /\ DataSound(m, file, client)
  BY DEF ReadRequest, Packet, Oack, DataSound
<1>8. transfers' = t /\ Running(xfer'[t]) /\ UNCHANGED <<file, options, client>>
  BY <1>1 DEF ReadRequest, Running
<1> QED
  BY <1>1, <1>4, <1>6, <1>7, <1>8, ServerStep

LEMMA SendingTyped ==
    ASSUME NEW x \in Transfer, NEW phase \in {"data", "final"}, NEW n \in 0..MaxFileBlocks,
           NEW zero \in 0..MAX_RETRIES, NEW no \in BOOLEAN
    PROVE  [x EXCEPT !.phase = phase, !.tries = zero, !.waits = zero, !.event = no, !.pos = n]
               \in Transfer
BY DEF Transfer

LEMMA SendsStep ==
    ASSUME TftpInv, NEW t \in Transfers, NEW phase \in {"data", "final"},
           NEW chunk \in 0..MaxFileBlocks,
           xfer[t].phase = "read", xfer[t].block <= MaxBlock,
           chunk = IF phase = "data" THEN xfer[t].block ELSE Empty,
           IF phase = "data" THEN xfer[t].block <= file.blocks
                             ELSE /\ xfer[t].block = file.blocks + 1
                                  /\ xfer[t].block = Total(file),
           Sends(t, phase, xfer[t].block, chunk), UNCHANGED <<file, options, client>>
    PROVE  TftpInv'
<1> USE Typed
<1> DEFINE d == Data(t, xfer[t].block, chunk)
<1>1. /\ xfer' \in [Transfers -> Transfer]
      /\ \A u \in Transfers : u # t => xfer'[u] = xfer[u]
      /\ xfer'[t].phase = phase
      /\ xfer'[t].block = xfer[t].block
      /\ xfer'[t].pos = IF chunk = Empty THEN xfer[t].pos ELSE chunk
      /\ xfer'[t].tries = 0 /\ xfer'[t].waits = 0
      /\ xfer'[t].lastAck = xfer[t].lastAck
  <2> DEFINE n == IF chunk = Empty THEN xfer[t].pos ELSE chunk
  <2>1. n \in 0..MaxFileBlocks
    BY DEF Empty
  <2>2. xfer \in [Transfers -> Transfer]
    BY DEF TftpInv, TftpTypeOK
  <2>3. xfer' = [xfer EXCEPT ![t].phase = phase, ![t].tries = 0, ![t].waits = 0,
                             ![t].event = FALSE, ![t].pos = n]
    BY DEF Sends
  <2> HIDE DEF n
  <2>4. /\ \A u \in Transfers : u # t => xfer'[u] = xfer[u]
        /\ xfer'[t].phase = phase /\ xfer'[t].pos = n
        /\ xfer'[t].block = xfer[t].block
        /\ xfer'[t].tries = 0 /\ xfer'[t].waits = 0
        /\ xfer'[t].lastAck = xfer[t].lastAck
    BY <2>2, <2>3 DEF Transfer
  <2>5. xfer' \in [Transfers -> Transfer]
    <3> DEFINE x == [xfer[t] EXCEPT !.phase = phase, !.tries = 0, !.waits = 0,
                                    !.event = FALSE, !.pos = n]
    <3>0. 0 \in 0..MAX_RETRIES /\ xfer[t] \in Transfer
      BY TftpAssumption
    <3>1. x \in Transfer
      BY <2>1, <3>0, SendingTyped, Zenon
    <3>2. xfer' = [xfer EXCEPT ![t] = x]
      BY <2>2, <2>3, Zenon
    <3> QED
      BY <2>2, <3>1, <3>2
  <2> QED
    BY <2>4, <2>5 DEF n
<1>2. TransferSound(t, xfer[t], file, packets, client)
  BY DEF TftpInv
<1>3. PhaseSound(xfer'[t], file)
  BY <1>1, <1>2 DEF TransferSound, PhaseSound, Empty
<1>4. packets' = packets \union {d} /\ packets \subseteq packets'
  BY DEF Sends
<1>5. Has(t, xfer[t].block, client)
  BY <1>2 DEF TransferSound, Running
<1>6. TransferSound(t, xfer'[t], file, packets', client)
  BY <1>1, <1>2, <1>3, <1>4, <1>5, TftpAssumption DEF TransferSound
<1>7. d \in Packet /\ d.op # "ACK" /\ DataSound(d, file, client)
  <2>1. d \in Packet /\ d.op # "ACK"
    BY DEF Packet, Data
  <2>2. d.block = xfer[t].block /\ d.chunk = chunk /\ d.t = t
    BY DEF Data
  <2>3. xfer[t].block <= Total(file)
    BY DEF Total
  <2>4. chunk = IF xfer[t].block <= file.blocks THEN xfer[t].block ELSE Empty
    OBVIOUS
  <2> QED
    BY <2>1, <2>2, <2>3, <2>4, <1>5 DEF DataSound
<1>8. \A m \in packets' : m \notin packets =>
         m \in Packet /\ m.op # "ACK" /\ DataSound(m, file, client)
  BY <1>4, <1>7
<1>9. transfers' = transfers /\ Running(xfer'[t])
  BY <1>1 DEF Sends, Running
<1> QED
  BY <1>1, <1>4, <1>6, <1>8, <1>9, ServerStep

LEMMA ReadChunkStep ==
    ASSUME TftpInv, NEW t \in Transfers, ReadChunk(t)
    PROVE  TftpInv'
<1> USE Typed
<1>1. TransferSound(t, xfer[t], file, packets, client)
  BY DEF TftpInv
<1>2. /\ xfer[t].phase = "read" /\ UNCHANGED <<file, options, client>>
      /\ xfer[t].pos = xfer[t].block - 1 /\ xfer[t].pos <= file.blocks /\ xfer[t].pos <= MaxBlock
      /\ Has(t, xfer[t].block, client)
  BY <1>1 DEF ReadChunk, TransferSound, PhaseSound, Running
<1>3. CASE TransferRaises(t)
  BY <1>2, <1>3, EndsStep DEF TransferRaises
<1>4. CASE xfer[t].pos + 1 <= file.blocks /\ ~TransferRaises(t)
  <2>1. Sends(t, "data", xfer[t].block, xfer[t].pos + 1) /\ xfer[t].block <= MaxBlock
    BY <1>4 DEF ReadChunk, Packable
  <2>2. xfer[t].pos + 1 \in 0..MaxFileBlocks /\ xfer[t].pos + 1 = xfer[t].block
    BY <1>2, <1>4, TftpAssumption
  <2> QED
    BY <1>2, <1>4, <2>1, <2>2, SendsStep
<1>5. CASE ~(xfer[t].pos + 1 <= file.blocks) /\ ~TransferRaises(t)
  <2>1. xfer[t].pos = file.blocks /\ xfer[t].block = file.blocks + 1
    BY <1>2, <1>5
  <2>2. CASE file.full /\ file.blocks > 0
    <3>1. Sends(t, "final", xfer[t].block, Empty) /\ xfer[t].block <= MaxBlock
      BY <1>5, <2>2 DEF ReadChunk, Packable
    <3>2. Total(file) = xfer[t].block
      BY <2>1, <2>2 DEF Total
    <3>3. Empty \in 0..MaxFileBlocks
      BY TftpAssumption DEF Empty
    <3> QED
      BY <1>2, <2>1, <3>1, <3>2, <3>3, SendsStep
  <2>3. CASE ~(file.full /\ file.blocks > 0)
    <3>1. Ends(t, "ok") /\ packets' = packets
      BY <1>5, <2>3 DEF ReadChunk
    <3>2. Total(file) <= MaxBlock
      BY <1>2, <2>1, <2>3 DEF Total
    <3> QED
      BY <1>2, <2>1, <3>1, <3>2, EndsStep
  <2> QED
    BY <2>2, <2>3
<1> QED
  BY <1>3, <1>4, <1>5
\* A step that leaves transfer t at the block it is at.
LEMMA StaysStep ==
    ASSUME TftpInv, NEW t \in Transfers, NEW x \in Transfer, Running(xfer[t]),
           xfer' = [xfer EXCEPT ![t] = x],
           x.phase = xfer[t].phase, x.block = xfer[t].block, x.pos = xfer[t].pos,
           x.tries < MAX_RETRIES, x.waits < MAX_RETRIES,
           x.lastAck # -1 => Ack(t, x.lastAck) \in packets,
           UNCHANGED <<file, options, transfers, packets, client>>
    PROVE  TftpInv'
<1>1. TransferSound(t, xfer[t], file, packets, client)
  BY DEF TftpInv
<1>2. xfer \in [Transfers -> Transfer]
  BY DEF TftpInv, TftpTypeOK
<1>3. xfer' \in [Transfers -> Transfer] /\ xfer'[t] = x
  BY <1>2
<1>4. \A u \in Transfers : u # t => xfer'[u] = xfer[u]
  BY <1>2
<1>5. TransferSound(t, x, file, packets, client) /\ Running(x)
  BY <1>1 DEF TransferSound, PhaseSound, Running
<1> QED
  BY <1>3, <1>4, <1>5, ServerStep

LEMMA WaitingTyped ==
    ASSUME NEW x \in Transfer, NEW r \in 0..MAX_RETRIES, NEW w \in 0..MAX_RETRIES,
           NEW no \in BOOLEAN
    PROVE  /\ [x EXCEPT !.tries = r, !.waits = w, !.event = no] \in Transfer
           /\ [x EXCEPT !.waits = w, !.event = no] \in Transfer
BY DEF Transfer

LEMMA HeardTyped ==
    ASSUME NEW x \in Transfer, NEW b \in -1..MaxBlock, NEW yes \in BOOLEAN
    PROVE  /\ [x EXCEPT !.lastAck = b, !.event = yes] \in Transfer
           /\ [x EXCEPT !.done = yes, !.event = yes] \in Transfer
BY DEF Transfer

LEMMA NextTyped ==
    ASSUME NEW x \in Transfer, NEW b \in 1..(MaxFileBlocks + 2), NEW no \in BOOLEAN
    PROVE  [x EXCEPT !.phase = "read", !.event = no, !.block = b] \in Transfer
BY DEF Transfer

LEMMA NotAcknowledgedStep ==
    ASSUME TftpInv, NEW t \in Transfers, Waiting(xfer[t]), NotAcknowledged(t),
           UNCHANGED <<file, options, packets, client>>
    PROVE  TftpInv'
<1> USE Typed
<1>1. TransferSound(t, xfer[t], file, packets, client)
  BY DEF TftpInv
<1>2. CASE Ends(t, "failed")
  BY <1>2, EndsStep
<1>3. CASE xfer[t].phase = "final"
  <2>1. Ends(t, "ok")
    BY <1>3 DEF NotAcknowledged
  <2>2. Total(file) <= MaxBlock /\ Has(t, file.blocks + 1, client)
    BY <1>1, <1>3 DEF TransferSound, PhaseSound, Running
  <2> QED
    BY <2>1, <2>2, EndsStep
<1>4. CASE xfer[t].phase # "final" /\ ~Ends(t, "failed")
  <2> DEFINE x == [xfer[t] EXCEPT !.tries = xfer[t].tries + 1, !.waits = 0, !.event = FALSE]
  <2>1. xfer[t].phase = "data" /\ xfer[t].tries + 1 # MAX_RETRIES
    BY <1>4 DEF NotAcknowledged, Waiting
  <2>2. xfer[t].tries + 1 < MAX_RETRIES /\ xfer[t].tries + 1 \in 0..MAX_RETRIES
        /\ 0 \in 0..MAX_RETRIES
    BY <1>1, <2>1, TftpAssumption, SMTT(30) DEF TransferSound
  <2>3. xfer' = [xfer EXCEPT ![t].tries = @ + 1, ![t].waits = 0, ![t].event = FALSE]
        /\ transfers' = transfers
    BY <1>4, <2>1 DEF NotAcknowledged
  <2>4. xfer \in [Transfers -> Transfer]
    BY DEF TftpInv, TftpTypeOK
  <2>5. xfer' = [xfer EXCEPT ![t] = x]
    BY <2>3, <2>4, Zenon
  <2>6. x \in Transfer
    BY <2>2, WaitingTyped, Zenon
  <2>7. /\ x.phase = xfer[t].phase /\ x.block = xfer[t].block /\ x.pos = xfer[t].pos
        /\ x.tries = xfer[t].tries + 1 /\ x.waits = 0 /\ x.lastAck = xfer[t].lastAck
    BY DEF Transfer
  <2> HIDE DEF x
  <2>8. Running(xfer[t]) /\ 0 < MAX_RETRIES
    BY <2>1, TftpAssumption DEF Running
  <2>9. x.lastAck # -1 => Ack(t, x.lastAck) \in packets
    BY <1>1, <2>7 DEF TransferSound
  <2> QED
    BY <2>2, <2>3, <2>5, <2>6, <2>7, <2>8, <2>9, StaysStep
<1> QED
  BY <1>2, <1>3, <1>4

LEMMA RetriesStep ==
    ASSUME TftpInv, NEW t \in Transfers, Waiting(xfer[t]), Retries(t),
           UNCHANGED <<file, options, packets, client>>
    PROVE  TftpInv'
<1> USE Typed
<1>1. CASE xfer[t].waits + 1 = MAX_RETRIES
  BY <1>1, NotAcknowledgedStep DEF Retries
<1>2. CASE xfer[t].waits + 1 # MAX_RETRIES
  <2> DEFINE x == [xfer[t] EXCEPT !.waits = xfer[t].waits + 1, !.event = FALSE]
  <2>1. TransferSound(t, xfer[t], file, packets, client)
    BY DEF TftpInv
  <2>2. xfer[t].waits + 1 < MAX_RETRIES /\ xfer[t].waits + 1 \in 0..MAX_RETRIES
        /\ 0 \in 0..MAX_RETRIES
    BY <1>2, <2>1, TftpAssumption, SMTT(30) DEF TransferSound
  <2>3. xfer' = [xfer EXCEPT ![t].waits = @ + 1, ![t].event = FALSE] /\ transfers' = transfers
    BY <1>2 DEF Retries
  <2>4. xfer \in [Transfers -> Transfer]
    BY DEF TftpInv, TftpTypeOK
  <2>5. xfer' = [xfer EXCEPT ![t] = x]
    BY <2>3, <2>4, Zenon
  <2>6. x \in Transfer
    BY <2>2, WaitingTyped, Zenon
  <2>7. /\ x.phase = xfer[t].phase /\ x.block = xfer[t].block /\ x.pos = xfer[t].pos
        /\ x.tries = xfer[t].tries /\ x.waits = xfer[t].waits + 1 /\ x.lastAck = xfer[t].lastAck
    BY DEF Transfer
  <2>8. Running(xfer[t])
    BY DEF Running, Waiting
  <2> HIDE DEF x
  <2> QED
    BY <2>1, <2>2, <2>3, <2>5, <2>6, <2>7, <2>8, StaysStep DEF TransferSound
<1> QED
  BY <1>1, <1>2

LEMMA AcknowledgedStep ==
    ASSUME TftpInv, NEW t \in Transfers, Waiting(xfer[t]), Acknowledged(t),
           xfer[t].lastAck = Expected(xfer[t]),
           UNCHANGED <<file, options, packets, client>>
    PROVE  TftpInv'
<1> USE Typed
<1>1. TransferSound(t, xfer[t], file, packets, client)
  BY DEF TftpInv
<1>2. CASE xfer[t].phase = "final"
  <2>1. Ends(t, "ok")
    BY <1>2 DEF Acknowledged
  <2>2. Total(file) <= MaxBlock /\ Has(t, file.blocks + 1, client)
    BY <1>1, <1>2 DEF TransferSound, PhaseSound, Running
  <2> QED
    BY <2>1, <2>2, EndsStep
<1>3. CASE xfer[t].phase # "final"
  <2> DEFINE b == IF xfer[t].phase = "data" THEN xfer[t].block + 1 ELSE xfer[t].block
             x == [xfer[t] EXCEPT !.phase = "read", !.event = FALSE, !.block = b]
  <2>1. xfer[t].phase \in {"oack", "data"}
    BY <1>3 DEF Waiting
  <2>2. b \in 1..(MaxFileBlocks + 2) /\ b \in Nat
    BY <1>1, TftpAssumption DEF TransferSound, PhaseSound, Transfer
  <2>3. xfer' = [xfer EXCEPT ![t].phase = "read", ![t].event = FALSE, ![t].block = b]
        /\ transfers' = transfers
    BY <1>3 DEF Acknowledged
  <2>4. xfer \in [Transfers -> Transfer]
    BY DEF TftpInv, TftpTypeOK
  <2>5. Has(t, b, client)
    <3>1. CASE xfer[t].phase = "oack"
      BY <1>1, <3>1 DEF TransferSound, PhaseSound, Has
    <3>2. CASE xfer[t].phase = "data"
      <4> DEFINE m == Ack(t, xfer[t].block)
      <4>1. xfer[t].lastAck = xfer[t].block
        BY <3>2 DEF Expected
      <4>2. m \in packets
        BY <1>1, <4>1 DEF TransferSound
      <4>3. AckSound(m, file, client)
        BY <4>2 DEF TftpInv
      <4>4. m.op = "ACK" /\ m.t = t /\ m.block = xfer[t].block
        BY DEF Ack
      <4> HIDE DEF m
      <4>5. xfer[t].block <= file.blocks
        BY <1>1, <3>2 DEF TransferSound, PhaseSound
      <4>6. client.tid = t /\ Len(client.got) >= xfer[t].block
        BY <4>3, <4>4, <4>5 DEF AckSound
      <4> QED
        BY <3>2, <4>6 DEF Has
    <3> QED
      BY <2>1, <3>1, <3>2
  <2>6. b - 1 = xfer[t].pos /\ xfer[t].pos <= file.blocks /\ xfer[t].pos <= MaxBlock
    BY <1>1, <2>1, TftpAssumption DEF TransferSound, PhaseSound
  <2> HIDE DEF b
  <2>7. xfer' = [xfer EXCEPT ![t] = x]
    BY <2>3, <2>4, Zenon
  <2>8. x \in Transfer
    BY <2>2, NextTyped, Zenon
  <2>9. /\ x.phase = "read" /\ x.block = b /\ x.pos = xfer[t].pos
        /\ x.tries = xfer[t].tries /\ x.waits = xfer[t].waits /\ x.lastAck = xfer[t].lastAck
    BY DEF Transfer
  <2> HIDE DEF x
  <2>10. xfer' \in [Transfers -> Transfer] /\ xfer'[t] = x
    BY <2>4, <2>7, <2>8
  <2>11. \A u \in Transfers : u # t => xfer'[u] = xfer[u]
    BY <2>4, <2>7
  <2>12. TransferSound(t, x, file, packets, client)
    BY <1>1, <2>5, <2>6, <2>9 DEF TransferSound, PhaseSound
  <2>13. Running(x)
    BY <2>9 DEF Running
  <2> QED
    BY <2>3, <2>10, <2>11, <2>12, <2>13, ServerStep
<1> QED
  BY <1>2, <1>3
LEMMA HearsStep ==
    ASSUME TftpInv, NEW t \in Transfers, ReceiveAck(t) \/ ReceiveError(t) \/ SocketError(t)
    PROVE  TftpInv'
<1> USE Typed
<1>1. TransferSound(t, xfer[t], file, packets, client)
  BY DEF TftpInv
<1>2. xfer \in [Transfers -> Transfer] /\ packets \subseteq Packet
  BY DEF TftpInv, TftpTypeOK
<1>3. CASE ReceiveAck(t)
  <2>1. PICK m \in packets :
          /\ Running(xfer[t])
          /\ m.op = "ACK" /\ m.t = t
          /\ xfer' = [xfer EXCEPT ![t].lastAck = m.block, ![t].event = TRUE]
          /\ UNCHANGED <<file, options, transfers, packets, client>>
    BY <1>3 DEF ReceiveAck
  <2>2. m = Ack(t, m.block) /\ m.block \in -1..MaxBlock
    BY <1>2, <2>1, TftpAssumption, SMTT(30) DEF Packet, Ack
  <2> DEFINE x == [xfer[t] EXCEPT !.lastAck = m.block, !.event = TRUE]
  <2>3. xfer' = [xfer EXCEPT ![t] = x]
    BY <1>2, <2>1, Zenon
  <2>4. x \in Transfer
    BY <2>2, HeardTyped, Zenon
  <2>5. /\ x.phase = xfer[t].phase /\ x.block = xfer[t].block /\ x.pos = xfer[t].pos
        /\ x.tries = xfer[t].tries /\ x.waits = xfer[t].waits /\ x.lastAck = m.block
    BY DEF Transfer
  <2> HIDE DEF x
  <2>6. Ack(t, x.lastAck) \in packets
    BY <2>2, <2>5
  <2>7. x.tries < MAX_RETRIES /\ x.waits < MAX_RETRIES
    BY <1>1, <2>5 DEF TransferSound
  <2>8. Running(xfer[t]) /\ UNCHANGED <<file, options, transfers, packets, client>>
    BY <2>1
  <2> QED
    BY <2>3, <2>4, <2>5, <2>6, <2>7, <2>8, StaysStep
<1>4. CASE Running(xfer[t]) /\ Abandons(t)
  <2> DEFINE x == [xfer[t] EXCEPT !.done = TRUE, !.event = TRUE]
  <2>0. /\ xfer' = [xfer EXCEPT ![t].done = TRUE, ![t].event = TRUE]
        /\ UNCHANGED <<file, options, transfers, packets, client>>
    BY <1>4 DEF Abandons
  <2>1. xfer' = [xfer EXCEPT ![t] = x]
    BY <1>2, <2>0, Zenon
  <2>2. 0 \in -1..MaxBlock
    BY TftpAssumption
  <2>3. x \in Transfer
    BY <2>2, HeardTyped, Zenon
  <2>4. /\ x.phase = xfer[t].phase /\ x.block = xfer[t].block /\ x.pos = xfer[t].pos
        /\ x.tries = xfer[t].tries /\ x.waits = xfer[t].waits /\ x.lastAck = xfer[t].lastAck
    BY DEF Transfer
  <2> HIDE DEF x
  <2> QED
    BY <1>1, <1>4, <2>0, <2>1, <2>3, <2>4, StaysStep DEF TransferSound
<1> QED
  BY <1>3, <1>4 DEF ReceiveError, SocketError

LEMMA WaitStep ==
    ASSUME TftpInv, NEW t \in Transfers, Wake(t) \/ Timeout(t)
    PROVE  TftpInv'
<1>1. Waiting(xfer[t]) /\ UNCHANGED <<file, options, packets, client>>
  BY DEF Wake, Timeout
<1>2. \/ NotAcknowledged(t)
      \/ Retries(t)
      \/ xfer[t].lastAck = Expected(xfer[t]) /\ Acknowledged(t)
  BY DEF Wake, Timeout
<1> QED
  BY <1>1, <1>2, NotAcknowledgedStep, RetriesStep, AcknowledgedStep

-----------------------------------------------------------------------------
\* A step of the client: it answers one packet, and has no less than before.
LEMMA ClientStep ==
    ASSUME TftpInv, NEW c \in Client, NEW a \in Packet,
           client' = c, packets' = packets \union {a},
           UNCHANGED <<file, options, xfer, transfers>>,
           client.tid # NoTransfer => c.tid = client.tid,
           Len(c.got) >= Len(client.got),
           ClientSound(file, c),
           a.op = "ACK", AckSound(a, file, c)
    PROVE  TftpInv'
<1> USE Typed
<1>1. TftpTypeOK'
  BY DEF TftpInv, TftpTypeOK
<1>2. ClientSound(file, client)'
  BY DEF ClientSound
<1>3. \A t \in Transfers, block \in Nat : Has(t, block, client) => Has(t, block, c)
  BY TftpAssumption DEF Has, Client
<1>4. \A m \in packets :
        /\ m.op = "DATA" => m.t \in Transfers /\ m.block \in Nat
        /\ m.op = "ACK" => m.t \in Transfers /\ m.block \in Nat
  BY TftpAssumption DEF TftpInv, TftpTypeOK, Packet
<1>5. \A m \in packets : DataSound(m, file, c) /\ AckSound(m, file, c)
  <2> SUFFICES ASSUME NEW m \in packets
               PROVE  DataSound(m, file, c) /\ AckSound(m, file, c)
    OBVIOUS
  <2>1. DataSound(m, file, client) /\ AckSound(m, file, client)
    BY DEF TftpInv
  <2>2. DataSound(m, file, c)
    BY <1>3, <1>4, <2>1 DEF DataSound
  <2>3. AckSound(m, file, c)
    BY <1>4, <2>1, TftpAssumption DEF AckSound, Client
  <2> QED
    BY <2>2, <2>3
<1>6. \A m \in packets' : DataSound(m, file, c) /\ AckSound(m, file, c)
  BY <1>5 DEF DataSound
<1>7. (\A m \in packets : DataSound(m, file, client) /\ AckSound(m, file, client))'
  BY <1>6 DEF DataSound, AckSound, Has, Total
<1>8. \A t \in Transfers : TransferSound(t, xfer[t], file, packets', c)
  <2> SUFFICES ASSUME NEW t \in Transfers
               PROVE  TransferSound(t, xfer[t], file, packets', c)
    OBVIOUS
  <2>1. TransferSound(t, xfer[t], file, packets, client)
    BY DEF TftpInv
  <2>2. Has(t, xfer[t].block, client) => Has(t, xfer[t].block, c)
    BY <1>3
  <2>3. Has(t, file.blocks + 1, client) => Has(t, file.blocks + 1, c)
    BY <1>3
  <2> QED
    BY <2>1, <2>2, <2>3 DEF TransferSound
<1>9. (\A t \in Transfers : TransferSound(t, xfer[t], file, packets, client))'
  BY <1>8 DEF TransferSound, PhaseSound, Has, Total, Running, Ack
<1> QED
  BY <1>1, <1>2, <1>7, <1>9 DEF TftpInv, EntryIsRunning, Running
LEMMA ClientOackStep ==
    ASSUME TftpInv, ClientOack
    PROVE  TftpInv'
<1> USE Typed
<1>1. PICK m \in packets :
        /\ m.op = "OACK"
        /\ client.tid \in {NoTransfer, m.t}
        /\ client' = [client EXCEPT !.tid = m.t]
        /\ packets' = packets \union {Ack(m.t, 0)}
        /\ UNCHANGED <<file, options, xfer, transfers>>
  BY DEF ClientOack
<1>2. m.t \in Transfers
  BY <1>1 DEF TftpInv, TftpTypeOK, Packet
<1> DEFINE c == [client EXCEPT !.tid = m.t]
           a == Ack(m.t, 0)
<1>3. client \in Client
  BY DEF TftpInv, TftpTypeOK
<1>4. c \in Client /\ c.tid = m.t /\ c.got = client.got /\ c.status = client.status
  BY <1>2, <1>3 DEF Client
<1>5. a \in Packet /\ a.op = "ACK" /\ a.block = 0
  BY <1>2, TftpAssumption DEF Packet, Ack
<1>6. client' = c /\ packets' = packets \union {a}
  BY <1>1
<1> HIDE DEF c, a
<1>7. ClientSound(file, c)
  BY <1>4 DEF TftpInv, ClientSound
<1>8. AckSound(a, file, c)
  BY <1>5 DEF AckSound
<1> QED
  BY <1>1, <1>4, <1>5, <1>6, <1>7, <1>8, ClientStep

\* What the client makes of a DATA packet.
LEMMA TakesData ==
    ASSUME TftpInv, ClientData
    PROVE  \E c \in Client, a \in Packet :
             /\ client' = c /\ packets' = packets \union {a}
             /\ UNCHANGED <<file, options, xfer, transfers>>
             /\ client.tid # NoTransfer => c.tid = client.tid
             /\ \/ c.got = client.got
                \/ /\ c.got = Append(client.got, Len(client.got) + 1)
                   /\ Len(client.got) < file.blocks
             /\ ClientSound(file, c)
             /\ a.op = "ACK" /\ AckSound(a, file, c)
<1> USE Typed
<1> DEFINE next == Len(client.got) + 1
           last(m) == m.chunk = Empty \/ (m.chunk = file.blocks /\ ~file.full)
<1>1. PICK m \in packets :
        /\ m.op = "DATA"
        /\ client.status # "aborted"
        /\ client.tid \in {NoTransfer, m.t}
        /\ m.block <= next
        /\ client' =
             [ tid    |-> m.t,
               got    |-> IF m.block = next /\ client.status = "reading" /\ m.chunk # Empty
                          THEN Append(client.got, m.chunk) ELSE client.got,
               status |-> IF m.block = next /\ last(m) THEN "done" ELSE client.status ]
        /\ packets' = packets \union {Ack(m.t, m.block)}
        /\ UNCHANGED <<file, options, xfer, transfers>>
  BY DEF ClientData
<1>2. /\ m.t \in Transfers /\ m.block \in 1..MaxBlock /\ m.block \in Nat \ {0}
      /\ m.chunk \in 0..MaxFileBlocks
  BY <1>1, TftpAssumption DEF TftpInv, TftpTypeOK, Packet
<1>3. /\ m.chunk = IF m.block <= file.blocks THEN m.block ELSE Empty
      /\ m.block <= Total(file)
  BY <1>1 DEF TftpInv, DataSound
<1>4. client \in Client /\ client.status \in {"reading", "done"} /\ client.tid \in Transfers \union {NoTransfer}
  BY <1>1 DEF TftpInv, TftpTypeOK, Client
<1>5. /\ Len(client.got) <= file.blocks
      /\ \A i \in 1..Len(client.got) : client.got[i] = i
      /\ client.status = "done" => Len(client.got) = file.blocks
  BY DEF TftpInv, ClientSound
<1> DEFINE takes == m.block = next /\ client.status = "reading" /\ m.chunk # Empty
           g == IF takes THEN Append(client.got, m.chunk) ELSE client.got
           st == IF m.block = next /\ last(m) THEN "done" ELSE client.status
           c == [tid |-> m.t, got |-> g, status |-> st]
           a == Ack(m.t, m.block)
<1>6. takes => m.chunk = next /\ next <= file.blocks /\ m.chunk \in 1..MaxFileBlocks
  BY <1>2, <1>3 DEF Empty
<1>7. /\ g \in Seq(1..MaxFileBlocks) /\ Len(g) \in Nat
      /\ Len(g) = IF takes THEN next ELSE Len(client.got)
      /\ Len(g) <= file.blocks /\ \A i \in 1..Len(g) : g[i] = i
  <2>1. CASE takes
    <3>1. g = Append(client.got, m.chunk) /\ m.chunk = next /\ m.chunk \in 1..MaxFileBlocks
          /\ next <= file.blocks
      BY <1>6, <2>1
    <3>2. client.got \in Seq(1..MaxFileBlocks) /\ Len(client.got) \in Nat
      OBVIOUS
    <3> HIDE DEF g, takes
    <3>3. g \in Seq(1..MaxFileBlocks) /\ Len(g) = Len(client.got) + 1
      BY <3>1, <3>2
    <3>4. \A i \in 1..Len(g) : g[i] = i
      BY <1>5, <3>1, <3>2, <3>3
    <3> QED
      BY <2>1, <3>1, <3>2, <3>3, <3>4
  <2>2. CASE ~takes
    <3>1. g = client.got
      BY <2>2
    <3> HIDE DEF g, takes
    <3> QED
      BY <1>5, <2>2, <3>1
  <2> QED
    BY <2>1, <2>2
<1>9. st = "done" => Len(g) = file.blocks
  <2>1. CASE m.block = next /\ m.chunk = Empty
    <3>1. m.block > file.blocks
      BY <1>2, <1>3, <2>1 DEF Empty
    <3> QED
      BY <1>5, <1>7, <2>1, <3>1
  <2>2. CASE m.block = next /\ m.chunk # Empty /\ m.chunk = file.blocks /\ ~file.full
    BY <1>2, <1>3, <1>4, <1>5, <1>7, <2>2 DEF Empty
  <2>3. CASE ~(m.block = next /\ last(m))
    <3>1. st = client.status
      BY <2>3
    <3>2. st = "done" => ~takes
      BY <1>4, <3>1
    <3> QED
      BY <1>5, <1>7, <3>1, <3>2
  <2> QED
    BY <2>1, <2>2, <2>3
<1>10. st \in {"reading", "done"}
  BY <1>4
<1>11. m.block <= file.blocks => Len(g) >= m.block
  <2>1. CASE m.block < next
    BY <1>2, <1>7, <2>1
  <2>2. CASE m.block = next
    BY <1>2, <1>3, <1>4, <1>5, <1>7, <2>2 DEF Empty
  <2> QED
    BY <1>1, <1>2, <2>1, <2>2
<1>12. client' = c /\ packets' = packets \union {a}
  BY <1>1
<1>13. a \in Packet /\ a.op = "ACK" /\ a.t = m.t /\ a.block = m.block
  BY <1>2, TftpAssumption DEF Packet, Ack
<1>14. g = client.got \/ (g = Append(client.got, Len(client.got) + 1) /\ Len(client.got) < file.blocks)
  BY <1>6
<1> HIDE DEF g, st, a, next, takes
<1>15. c \in Client /\ c.tid = m.t /\ c.got = g /\ c.status = st
  BY <1>2, <1>7, <1>10 DEF Client
<1> HIDE DEF c
<1>16. ClientSound(file, c)
  BY <1>7, <1>9, <1>15 DEF ClientSound
<1>17. AckSound(a, file, c)
  BY <1>11, <1>13, <1>15 DEF AckSound
<1>18. client.tid # NoTransfer => c.tid = client.tid
  BY <1>1, <1>15
<1> QED
  BY <1>1, <1>12, <1>13, <1>14, <1>15, <1>16, <1>17, <1>18

LEMMA ClientDataStep ==
    ASSUME TftpInv, ClientData
    PROVE  TftpInv'
<1> USE Typed
<1>1. PICK c \in Client, a \in Packet :
             /\ client' = c /\ packets' = packets \union {a}
             /\ UNCHANGED <<file, options, xfer, transfers>>
             /\ client.tid # NoTransfer => c.tid = client.tid
             /\ \/ c.got = client.got
                \/ /\ c.got = Append(client.got, Len(client.got) + 1)
                   /\ Len(client.got) < file.blocks
             /\ ClientSound(file, c)
             /\ a.op = "ACK" /\ AckSound(a, file, c)
  BY TakesData
<1>2. Len(c.got) >= Len(client.got)
  BY <1>1 DEF Client
<1> QED
  BY <1>1, <1>2, ClientStep

LEMMA ClientAbortsStep ==
    ASSUME TftpInv, ClientAborts
    PROVE  TftpInv'
<1>1. client' = [client EXCEPT !.status = "aborted"] /\ UNCHANGED <<file, options, xfer, transfers, packets>>
  BY DEF ClientAborts
<1>2. client \in Client
  BY DEF TftpInv, TftpTypeOK
<1>3. /\ client' \in Client /\ client'.tid = client.tid /\ client'.got = client.got
      /\ client'.status = "aborted"
  BY <1>1, <1>2 DEF Client
<1>4. TftpTypeOK'
  BY <1>1, <1>3 DEF TftpInv, TftpTypeOK
<1>5. ClientSound(file, client)'
  BY <1>1, <1>3 DEF TftpInv, ClientSound
<1>6. (\A m \in packets : DataSound(m, file, client) /\ AckSound(m, file, client))'
  BY <1>1, <1>3 DEF TftpInv, DataSound, AckSound, Has, Total
<1>7. (\A t \in Transfers : TransferSound(t, xfer[t], file, packets, client))'
  BY <1>1, <1>3 DEF TftpInv, TransferSound, PhaseSound, Has, Total, Running
<1> QED
  BY <1>1, <1>4, <1>5, <1>6, <1>7 DEF TftpInv, EntryIsRunning, Running
-----------------------------------------------------------------------------
LEMMA NextInv ==
    ASSUME TftpInv, [TftpNext]_tftpVars
    PROVE  TftpInv'
<1>1. CASE UNCHANGED tftpVars
  BY <1>1 DEF tftpVars, TftpInv, TftpTypeOK, ClientSound, DataSound, AckSound, Has, Total,
              TransferSound, PhaseSound, Running, EntryIsRunning
<1>2. ASSUME NEW t \in Transfers, TransferStep(t)
      PROVE  TftpInv'
  <2>1. CASE FileMissing(t)
    BY <2>1, EndsStep DEF FileMissing, TransferRaises
  <2> QED
    BY <1>2, <2>1, ReadRequestStep, ReadChunkStep, WaitStep, HearsStep DEF TransferStep
<1> QED
  BY <1>1, <1>2, ClientOackStep, ClientDataStep, ClientAbortsStep DEF TftpNext

LEMMA InvHolds == TftpSpec => []TftpInv
<1>1. TftpInit => TftpInv
  BY InitInv
<1>2. TftpInv /\ [TftpNext]_tftpVars => TftpInv'
  BY NextInv
<1> QED
  BY <1>1, <1>2, PTL DEF TftpSpec

\* For every file, every number of repeated requests and every retry limit, and
\* whatever the network does: what the server sends, remembers and calls
\* complete is what the client has.
THEOREM TransfersSound == TftpSpec => []TransferIsSound
<1>1. TftpInv => TransferIsSound
  BY InvImplies
<1> QED
  BY <1>1, InvHolds, PTL

\* A transfer that ended well stays so.
LEMMA OkStays ==
    ASSUME TftpInv, [TftpNext]_tftpVars, NEW u \in Transfers, xfer[u].phase = "ok"
    PROVE  xfer'[u].phase = "ok"
<1>0. xfer \in [Transfers -> Transfer]
  BY DEF TftpInv, TftpTypeOK
<1>1. CASE xfer' = xfer
  BY <1>1
<1>2. ASSUME NEW t \in Transfers, TransferStep(t)
      PROVE  xfer'[u] = xfer[u]
  <2>1. xfer[t].phase \in {"none", "oack", "read", "data", "final"}
    BY <1>2 DEF TransferStep, ReadRequest, ReadChunk, FileMissing, Wake, Timeout,
                ReceiveAck, ReceiveError, SocketError, Running, Waiting
  <2>2. u # t
    BY <2>1
  <2>3. CASE \E o \in {"ok", "failed"} : Ends(t, o)
    BY <1>0, <2>2, <2>3 DEF Ends
  <2>4. CASE ReadRequest(t)
    BY <1>0, <2>2, <2>4 DEF ReadRequest
  <2>5. CASE ReadChunk(t)
    BY <1>0, <2>2, <2>3, <2>5 DEF ReadChunk, Sends, TransferRaises
  <2>6. CASE FileMissing(t)
    BY <2>3, <2>6 DEF FileMissing, TransferRaises
  <2>7. CASE Wake(t) \/ Timeout(t)
    <3>1. CASE NotAcknowledged(t)
      BY <1>0, <2>2, <2>3, <3>1 DEF NotAcknowledged
    <3>2. CASE Retries(t)
      BY <1>0, <2>2, <3>1, <3>2 DEF Retries
    <3>3. CASE Acknowledged(t)
      BY <1>0, <2>2, <2>3, <3>3 DEF Acknowledged
    <3> QED
      BY <2>7, <3>1, <3>2, <3>3 DEF Wake, Timeout
  <2>8. CASE ReceiveAck(t) \/ ReceiveError(t) \/ SocketError(t)
    BY <1>0, <2>2, <2>8 DEF ReceiveAck, ReceiveError, SocketError, Abandons
  <2> QED
    BY <1>2, <2>4, <2>5, <2>6, <2>7, <2>8 DEF TransferStep
<1> QED
  BY <1>1, <1>2 DEF TftpNext, ClientOack, ClientData, ClientAborts, tftpVars

LEMMA DeliveryStep ==
    ASSUME TftpInv, TftpInv', [TftpNext]_tftpVars
    PROVE  [Delivery!Deliver \/ Delivery!Complete]_(Delivery!deliveryVars)
<1> USE Typed
<1> DEFINE done == file.blocks > 0 /\ \E t \in Transfers : xfer[t].phase = "ok"
<1>1. file' = file
  BY DEF TftpNext, TransferStep, ReadRequest, ReadChunk, FileMissing, Wake, Timeout,
         ReceiveAck, ReceiveError, SocketError, Abandons, ClientOack, ClientData, ClientAborts, tftpVars
<1>2. CASE ClientData
  <2>1. xfer' = xfer
    BY <1>2 DEF ClientData
  <2>2. \/ client'.got = client.got
        \/ /\ client'.got = Append(client.got, Len(client.got) + 1)
           /\ Len(client.got) < file.blocks
    BY <1>2, TakesData
  <2> QED
    BY <1>1, <2>1, <2>2 DEF Delivery!Deliver, Delivery!deliveryVars
<1>3. CASE ~ClientData
  <2>1. client'.got = client.got
    <3>1. client \in Client
      BY DEF TftpInv, TftpTypeOK
    <3>2. CASE ClientOack \/ ClientAborts
      BY <3>1, <3>2 DEF ClientOack, ClientAborts, Client
    <3>3. CASE client' = client
      BY <3>3
    <3> QED
      BY <1>3, <3>2, <3>3
      DEF TftpNext, TransferStep, ReadRequest, ReadChunk, FileMissing, Wake, Timeout,
          ReceiveAck, ReceiveError, SocketError, Abandons, tftpVars
  <2>2. done => done'
    BY <1>1, OkStays
  <2>3. done' => Len(client.got) = file.blocks
    <3>1. CompleteIsDelivered'
      BY InvImplies, PTL DEF TransferIsSound
    <3> QED
      BY <1>1, <2>1, <3>1 DEF CompleteIsDelivered
  <2>4. CASE done' = done
    BY <1>1, <2>1, <2>4 DEF Delivery!deliveryVars
  <2>5. CASE done' # done
    <3>1. done' /\ ~done
      BY <2>2, <2>5
    <3>2. Delivery!Complete
      BY <1>1, <2>1, <2>3, <3>1 DEF Delivery!Complete
    <3> QED
      BY <3>2
  <2> QED
    BY <2>4, <2>5
<1> QED
  BY <1>2, <1>3

\* The transfers implement FileDelivery: through every retransmission the
\* client's blocks grow by the next one only, and the server reports the
\* delivery complete at most once nothing is missing.
THEOREM TransfersDeliver == TftpSpec => DeliversFile
<1>1. TftpInit => Delivery!DeliveryInit
  BY DEF TftpInit, Delivery!DeliveryInit, NewTransfer, File
<1>2. TftpInv /\ TftpInv' /\ [TftpNext]_tftpVars
        => [Delivery!Deliver \/ Delivery!Complete]_(Delivery!deliveryVars)
  BY DeliveryStep
<1> QED
  BY <1>1, <1>2, InvHolds, PTL DEF TftpSpec, DeliversFile, Delivery!DeliverySpec

-----------------------------------------------------------------------------
(***************************************************************************)
(* PiBoot: a registered Pi has a whole directory.  The invariant is its    *)
(* own strengthening but for one fact: a registered Pi whose directory is  *)
(* made anew had none, so that it was spoiled before.                      *)
(***************************************************************************)

\* What is not a directory has no config.txt.
Unmade == \A s \in Serials : ~piDir[s].made => piDir[s].config = "none"

PiInv == RegisteredIsWhole /\ Unmade

PiRows == [model : Models \union {"none"}, retired : BOOLEAN]
PiDirs == [made : BOOLEAN, links : SUBSET AllLinks,
           config : Models \union {"none"}, cmdline : BOOLEAN]

\* What is asked of a directory that takes the place of another.
KeepsMade(dir) == dir \in PiDirs /\ (~dir.made => dir.config = "none")

Whole(s, dir) == \E m \in {"pi4", Hardware[s]} : WholeFor(dir, m)

LEMMA ModelsAre == Models = {"pi3", "pi3b+", "cm3", "pi4", "pi5"} /\ "none" \notin Models
  BY DEF Models, FirmwareFiles

LEMMA LinkOrderLen ==
    ASSUME NEW m \in Models
    PROVE  Len(LinkOrder(m)) \in Nat
<1> DEFINE T == {<<"fw", "start4.elf">>, <<"fw", "fixup4.dat">>,
         <<"fw", "bootcode.bin">>, <<"fw", "start.elf">>, <<"fw", "fixup.dat">>,
         Dtb[m], <<"deploy", "kernel8.img">>, <<"deploy", "initramfs.img">>}
<1>1. /\ <<"fw", "start4.elf">> \in T /\ <<"fw", "fixup4.dat">> \in T
      /\ <<"fw", "bootcode.bin">> \in T /\ <<"fw", "start.elf">> \in T /\ <<"fw", "fixup.dat">> \in T
      /\ Dtb[m] \in T /\ <<"deploy", "kernel8.img">> \in T /\ <<"deploy", "initramfs.img">> \in T
  OBVIOUS
<1> HIDE DEF T
<1>2. \/ FirmwareFiles[m] = << <<"fw", "start4.elf">>, <<"fw", "fixup4.dat">> >>
      \/ FirmwareFiles[m] = << <<"fw", "bootcode.bin">>, <<"fw", "start.elf">>, <<"fw", "fixup.dat">> >>
  BY Zenon, ModelsAre DEF FirmwareFiles
<1>3. ASSUME NEW a \in T, NEW b \in T, NEW c \in T
      PROVE  <<a>> \in Seq(T) /\ <<a, b>> \in Seq(T) /\ <<a, b, c>> \in Seq(T)
  OBVIOUS
<1>4. FirmwareFiles[m] \in Seq(T)
  BY <1>1, <1>2, <1>3
<1>5. <<Dtb[m]>> \in Seq(T) /\ DeployFiles \in Seq(T)
  BY <1>1, <1>3 DEF DeployFiles
<1>6. LinkOrder(m) \in Seq(T)
  BY <1>4, <1>5 DEF LinkOrder
<1> QED BY <1>6

LEMMA LinksType ==
    ASSUME NEW m \in Models, NEW k \in 0 .. Len(LinkOrder(m))
    PROVE  Linked(m, k) \subseteq Links(m) /\ Links(m) \subseteq AllLinks
  BY LinkOrderLen DEF Linked, Links, AllLinks

\* The first links of a directory leave one.
LEMMA LinksMadeKeep ==
    ASSUME NEW dir \in PiDirs, NEW m \in Models, NEW k \in 0 .. Len(LinkOrder(m))
    PROVE  KeepsMade(LinksMade(dir, m, k)) /\ LinksMade(dir, m, k).made
<1>1. Linked(m, k) \intersect Installed \subseteq AllLinks
  BY LinksType
<1> QED BY <1>1 DEF LinksMade, KeepsMade, PiDirs

LEMMA HalfUpdatedKeeps ==
    ASSUME NEW dir \in PiDirs, dir.made, NEW m \in Models, NEW half \in HalfUpdated(dir, m)
    PROVE  KeepsMade(half)
  BY DEF HalfUpdated, KeepsMade, PiDirs

LEMMA HalfCreatedKeeps ==
    ASSUME NEW dir \in PiDirs, KeepsMade(dir), NEW m \in Models,
           NEW half \in HalfCreated(dir, m)
    PROVE  KeepsMade(half)
<1>1. Len(LinkOrder(m)) \in 0 .. Len(LinkOrder(m))
  BY LinkOrderLen
<1> DEFINE all == LinksMade(dir, m, Len(LinkOrder(m)))
<1>2. all \in PiDirs /\ all.made
  BY <1>1, LinksMadeKeep DEF KeepsMade
<1>3. CASE half \in HalfUpdated(all, m)
  <2> HIDE DEF all
  <2> QED BY <1>2, <1>3, HalfUpdatedKeeps
<1>4. CASE half \in {LinksMade(dir, m, k) : k \in 0 .. Len(LinkOrder(m))}
  BY <1>4, LinksMadeKeep
<1> QED BY <1>3, <1>4 DEF HalfCreated

LEMMA CreatedKeeps ==
    ASSUME NEW dir \in PiDirs, NEW m \in Models
    PROVE  KeepsMade(CreateNodeDirectory(dir, m)) /\ WholeFor(CreateNodeDirectory(dir, m), m)
<1>1. Len(LinkOrder(m)) \in 0 .. Len(LinkOrder(m))
  BY LinkOrderLen
<1> DEFINE all == LinksMade(dir, m, Len(LinkOrder(m)))
<1>2. all \in PiDirs /\ all.made
  BY <1>1, LinksMadeKeep DEF KeepsMade
<1>3. all.links = dir.links \union (Links(m) \intersect Installed)
  BY DEF LinksMade, Links, PiDirs
<1>4. CreateNodeDirectory(dir, m) = [all EXCEPT !.config = m, !.cmdline = TRUE]
  BY DEF CreateNodeDirectory
<1> HIDE DEF all
<1> QED BY <1>2, <1>3, <1>4, ModelsAre DEF KeepsMade, PiDirs, WholeFor

LEMMA HalfDeletedKeeps ==
    ASSUME NEW dir \in PiDirs, KeepsMade(dir), NEW half \in HalfDeleted(dir)
    PROVE  KeepsMade(half)
  BY DEF HalfDeleted, KeepsMade, PiDirs

\* A request on the directory of one Pi, which stays registered only with a
\* whole directory.
LEMMA WritesKeep ==
    ASSUME PiInv, NEW s \in Serials, NEW committed \in BOOLEAN, NEW row \in PiRows, NEW dir,
           KeepsMade(dir), Writes(s, row, dir, committed),
           startup' \in {"starting", "filling", "ready"},
           NEW sp \in BOOLEAN, spoiled' = [spoiled EXCEPT ![s] = sp],
           ~sp /\ piRow'[s] # NoPi => Whole(s, dir)
    PROVE  PiInv'
<1>1. PiTypeOK
  BY DEF PiInv, RegisteredIsWhole
<1>2. /\ piRow \in [Serials -> PiRows] /\ piDir \in [Serials -> PiDirs]
      /\ spoiled \in [Serials -> BOOLEAN]
  BY <1>1 DEF PiTypeOK, PiRows, PiDirs
<1>3. /\ piDir'[s] = dir /\ spoiled'[s] = sp
      /\ piDir' \in [Serials -> PiDirs] /\ piRow' \in [Serials -> PiRows]
      /\ spoiled' \in [Serials -> BOOLEAN]
      /\ \A u \in Serials \ {s} : piDir'[u] = piDir[u] /\ piRow'[u] = piRow[u]
                                  /\ spoiled'[u] = spoiled[u]
  BY <1>2 DEF Writes, KeepsMade
<1>4. PiTypeOK'
  BY <1>1, <1>3 DEF PiTypeOK, Writes, PiRows, PiDirs
<1>5. Unmade'
  BY <1>3 DEF PiInv, Unmade, KeepsMade
<1>6. \A u \in Serials : piRow'[u] # NoPi /\ ~spoiled'[u] => Whole(u, piDir'[u])
  BY <1>3 DEF PiInv, RegisteredIsWhole, Whole
<1> QED
  BY <1>4, <1>5, <1>6 DEF PiInv, RegisteredIsWhole, Whole

\* A Pi goes on with its boot.
LEMMA PiGoesKeeps ==
    ASSUME PiInv, NEW s \in Serials, NEW step \in {"off", "links", "cmdline", "deploy", "stuck"},
           NEW config \in Models \union {"none", "discovery"},
           NEW mode \in {"none", "normal", "discovery"}, PiGoes(s, step, config, mode)
    PROVE  PiInv'
  BY DEF PiInv, RegisteredIsWhole, PiTypeOK, PiGoes, Unmade

\* A directory is made, unless the Pi is registered and has one.
LEMMA CreatesKeep ==
    ASSUME PiInv, NEW s \in Serials, NEW row \in PiRows, NEW m \in {"pi4", Hardware[s]},
           piRow[s] = NoPi \/ ~piDir[s].made, Creates(s, row, m),
           startup \in {"starting", "filling", "ready"}
    PROVE  PiInv'
<1>1. /\ piDir[s] \in PiDirs /\ KeepsMade(piDir[s]) /\ spoiled[s] \in BOOLEAN
      /\ spoiled \in [Serials -> BOOLEAN] /\ piRow \in [Serials -> PiRows]
  BY DEF PiInv, RegisteredIsWhole, PiTypeOK, PiDirs, KeepsMade, Unmade, PiRows
<1>2. m \in Models
  BY PiAssumption, ModelsAre
<1>3. piRow[s] # NoPi => spoiled[s]
  <2> SUFFICES ASSUME piRow[s] # NoPi, ~spoiled[s] PROVE FALSE
    OBVIOUS
  <2>1. piDir[s].config = "none"
    BY DEF PiInv, Unmade
  <2> QED BY <2>1 DEF PiInv, RegisteredIsWhole, WholeFor
<1>4. CASE Finishes(s, row, CreateNodeDirectory(piDir[s], m), FALSE)
  <2> DEFINE dir == CreateNodeDirectory(piDir[s], m)
  <2>1. KeepsMade(dir) /\ Whole(s, dir)
    BY <1>1, <1>2, CreatedKeeps DEF Whole
  <2>2. PICK committed \in BOOLEAN : Writes(s, row, dir, committed)
    BY <1>4 DEF Finishes
  <2>3. spoiled' = [spoiled EXCEPT ![s] = FALSE] /\ startup' = startup
    BY <1>4 DEF Finishes
  <2> HIDE DEF dir
  <2> QED BY <2>1, <2>2, <2>3, WritesKeep
<1>5. ASSUME NEW dir \in HalfCreated(piDir[s], m), Stops(s, row, dir, FALSE) PROVE PiInv'
  <2>1. KeepsMade(dir)
    BY <1>1, <1>2, HalfCreatedKeeps
  <2>2. /\ Writes(s, row, dir, FALSE) /\ startup' = "starting"
        /\ spoiled' = [spoiled EXCEPT ![s] = spoiled[s]] /\ piRow' = piRow
    BY <1>1, <1>5 DEF Stops, Writes
  <2> QED BY <1>1, <1>3, <2>1, <2>2, WritesKeep
<1>6. ASSUME NEW dir \in HalfCreated(piDir[s], m), Swallows(s, row, dir) PROVE PiInv'
  <2>1. KeepsMade(dir)
    BY <1>1, <1>2, HalfCreatedKeeps
  <2>2. PICK committed \in BOOLEAN : Writes(s, row, dir, committed)
    BY <1>6 DEF Swallows
  <2>3. spoiled' = [spoiled EXCEPT ![s] = TRUE] /\ startup' = startup
    BY <1>6 DEF Swallows
  <2> QED BY <2>1, <2>2, <2>3, WritesKeep
<1> QED BY <1>4, <1>5, <1>6 DEF Creates

\* The directory of a registered Pi names another model.
LEMMA UpdatesKeep ==
    ASSUME PiInv, NEW s \in Serials, NEW row \in PiRows, NEW m \in Models,
           piRow[s] # NoPi, piDir[s].made, Updates(s, row, m),
           startup \in {"starting", "filling", "ready"}
    PROVE  PiInv'
<1>1. /\ piDir[s] \in PiDirs /\ KeepsMade(piDir[s]) /\ spoiled[s] \in BOOLEAN
      /\ spoiled \in [Serials -> BOOLEAN]
  BY DEF PiInv, RegisteredIsWhole, PiTypeOK, PiDirs, KeepsMade, Unmade
<1>2. CASE Finishes(s, row, UpdateConfigTxt(piDir[s], m), spoiled[s])
  <2> DEFINE dir == UpdateConfigTxt(piDir[s], m)
  <2>1. KeepsMade(dir) /\ dir.links = piDir[s].links /\ dir.config # "none" /\ dir.cmdline
    BY <1>1, ModelsAre DEF UpdateConfigTxt, KeepsMade, PiDirs
  <2>2. PICK committed \in BOOLEAN : Writes(s, row, dir, committed)
    BY <1>2 DEF Finishes
  <2>3. spoiled' = [spoiled EXCEPT ![s] = spoiled[s]] /\ startup' = startup
    BY <1>2 DEF Finishes
  <2> HIDE DEF dir
  <2>4. ~spoiled[s] => Whole(s, dir)
    BY <2>1 DEF PiInv, RegisteredIsWhole, Whole, WholeFor
  <2> QED BY <1>1, <2>1, <2>2, <2>3, <2>4, WritesKeep
<1>3. ASSUME NEW dir \in HalfUpdated(piDir[s], m), Stops(s, row, dir, TRUE) PROVE PiInv'
  <2>1. KeepsMade(dir)
    BY <1>1, HalfUpdatedKeeps
  <2>2. /\ Writes(s, row, dir, FALSE) /\ startup' = "starting"
        /\ spoiled' = [spoiled EXCEPT ![s] = TRUE]
    BY <1>1, <1>3 DEF Stops
  <2> QED BY <2>1, <2>2, WritesKeep
<1>4. ASSUME NEW dir \in HalfUpdated(piDir[s], m), Swallows(s, row, dir) PROVE PiInv'
  <2>1. KeepsMade(dir)
    BY <1>1, HalfUpdatedKeeps
  <2>2. PICK committed \in BOOLEAN : Writes(s, row, dir, committed)
    BY <1>4 DEF Swallows
  <2>3. spoiled' = [spoiled EXCEPT ![s] = TRUE] /\ startup' = startup
    BY <1>4 DEF Swallows
  <2> QED BY <2>1, <2>2, <2>3, WritesKeep
<1> QED BY <1>2, <1>3, <1>4 DEF Updates

LEMMA RetireKeeps ==
    ASSUME PiInv, NEW s \in Serials, RetirePi(s)
    PROVE  PiInv'
<1>1. /\ piDir[s] \in PiDirs /\ KeepsMade(piDir[s]) /\ spoiled[s] \in BOOLEAN
      /\ piRow[s] \in PiRows /\ spoiled \in [Serials -> BOOLEAN]
      /\ startup \in {"starting", "filling", "ready"}
  BY DEF PiInv, RegisteredIsWhole, PiTypeOK, PiDirs, PiRows, KeepsMade, Unmade
<1> DEFINE row == [piRow[s] EXCEPT !.retired = TRUE]
<1>2. row \in PiRows
  BY <1>1 DEF PiRows
<1>3. CASE Finishes(s, row, NoDir, TRUE)
  <2>1. KeepsMade(NoDir)
    BY DEF KeepsMade, NoDir, PiDirs
  <2>2. PICK committed \in BOOLEAN : Writes(s, row, NoDir, committed)
    BY <1>3 DEF Finishes
  <2>3. spoiled' = [spoiled EXCEPT ![s] = TRUE] /\ startup' = startup
    BY <1>3 DEF Finishes
  <2> HIDE DEF row
  <2> QED BY <1>1, <1>2, <2>1, <2>2, <2>3, WritesKeep
<1>4. ASSUME NEW dir \in HalfDeleted(piDir[s]), Stops(s, row, dir, TRUE) PROVE PiInv'
  <2>1. KeepsMade(dir)
    BY <1>1, HalfDeletedKeeps
  <2>2. /\ Writes(s, row, dir, FALSE) /\ startup' = "starting"
        /\ spoiled' = [spoiled EXCEPT ![s] = TRUE]
    BY <1>1, <1>4 DEF Stops
  <2> HIDE DEF row
  <2> QED BY <1>2, <2>1, <2>2, WritesKeep
<1>5. ASSUME NEW dir \in HalfDeleted(piDir[s]), Swallows(s, row, dir) PROVE PiInv'
  <2>1. KeepsMade(dir)
    BY <1>1, HalfDeletedKeeps
  <2>2. PICK committed \in BOOLEAN : Writes(s, row, dir, committed)
    BY <1>5 DEF Swallows
  <2>3. spoiled' = [spoiled EXCEPT ![s] = TRUE] /\ startup' = startup
    BY <1>5 DEF Swallows
  <2> HIDE DEF row
  <2> QED BY <1>1, <1>2, <2>1, <2>2, <2>3, WritesKeep
<1> QED BY <1>3, <1>4, <1>5 DEF RetirePi

LEMMA PiInvInit == PiInit => PiInv
  BY DEF PiInit, PiInv, RegisteredIsWhole, PiTypeOK, Unmade, NoPi, NoDir

LEMMA PiInvStep == PiInv /\ [PiNext]_piVars => PiInv'
<1> SUFFICES ASSUME PiInv, [PiNext]_piVars PROVE PiInv'
  OBVIOUS
<1>1. CASE UNCHANGED piVars
  BY <1>1 DEF piVars, PiInv, RegisteredIsWhole, PiTypeOK, Unmade
<1>2. CASE Starts \/ ControllerCrash
  BY <1>2 DEF Starts, EnsureDiscoveryDirectory, FillDiscoveryDirectory, ControllerCrash,
     PiInv, RegisteredIsWhole, PiTypeOK, Unmade
<1>3. ASSUME NEW s \in Serials, PiStep(s) PROVE PiInv'
  <2>1. /\ pi[s].config \in Models \union {"none", "discovery"}
        /\ piDir[s].config \in Models \union {"none", "discovery"}
        /\ piRow[s] \in PiRows /\ Hardware[s] \in Models /\ "pi4" \in Models
        /\ startup \in {"starting", "filling", "ready"}
    BY PiAssumption, ModelsAre DEF PiInv, RegisteredIsWhole, PiTypeOK, PiRows
  <2>2. CASE FetchConfig(s)
    BY <2>1, <2>2, PiGoesKeeps DEF FetchConfig
  <2>3. CASE FetchLinks(s)
    BY <2>1, <2>3, PiGoesKeeps DEF FetchLinks
  <2>4. CASE FetchCmdline(s)
    BY <2>1, <2>4, PiGoesKeeps DEF FetchCmdline
  <2>5. CASE PowerCycle(s)
    BY <2>1, <2>5, PiGoesKeeps DEF PowerCycle
  <2>6. CASE GetPiBootInstructions(s)
    <3> DEFINE row == [model |-> "pi4", retired |-> FALSE]
    <3>1. row \in PiRows
      BY <2>1 DEF PiRows
    <3>2. piRow[s] = NoPi /\ Creates(s, row, "pi4")
      BY <2>6 DEF GetPiBootInstructions
    <3> HIDE DEF row
    <3> QED BY <2>1, <3>1, <3>2, CreatesKeep
  <2>7. CASE RegisterPiNode(s)
    <3> DEFINE row == [piRow[s] EXCEPT !.model = Hardware[s]]
    <3>1. row \in PiRows
      BY <2>1 DEF PiRows
    <3>2. IF piRow[s] # NoPi /\ piDir[s].made THEN Updates(s, row, Hardware[s])
          ELSE Creates(s, row, Hardware[s])
      BY <2>7 DEF RegisterPiNode
    <3> HIDE DEF row
    <3>3. CASE piRow[s] # NoPi /\ piDir[s].made
      BY <2>1, <3>1, <3>2, <3>3, UpdatesKeep
    <3>4. CASE ~(piRow[s] # NoPi /\ piDir[s].made)
      BY <2>1, <3>1, <3>2, <3>4, CreatesKeep
    <3> QED BY <3>3, <3>4
  <2>8. CASE RetirePi(s)
    BY <2>8, RetireKeeps
  <2> QED BY <1>3, <2>2, <2>3, <2>4, <2>5, <2>6, <2>7, <2>8 DEF PiStep, Fetches
<1> QED
  BY <1>1, <1>2, <1>3 DEF PiNext

\* For any Pis and any installed files, with the controller stopping at any
\* file of a registration and any commit failing: a registered Pi has a whole
\* directory until it is retired, the file system fails or an update is cut
\* short, and again once the directory is made anew.
THEOREM PiRegisteredWhole == PiSpec => []RegisteredIsWhole
<1>1. PiInv => RegisteredIsWhole
  BY DEF PiInv
<1> QED
  BY <1>1, PiInvInit, PiInvStep, PTL DEF PiSpec
=============================================================================
