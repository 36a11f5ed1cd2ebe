------------------------------ MODULE Throttle ------------------------------
(***************************************************************************)
(* The bandwidth throttler of the boot files                               *)
(* (src/src/core/bandwidth_throttler.py, serve_boot_file of                *)
(* src/src/api/routes/boot_files.py).  Every stream asks it how much it    *)
(* may send next; the answer is its share of the bandwidth by priority,    *)
(* no less than a floor and no more than what is left of the size the      *)
(* stream was registered with.                                             *)
(*                                                                         *)
(* Sizes are in units; priorities are in hundredths.  The registered size  *)
(* is read before the file is opened: the content may be shorter or        *)
(* longer by then.                                                         *)
(***************************************************************************)
EXTENDS Naturals, FiniteSets, FiniteSetsExt

CONSTANTS
    Streams,
    MaxUnits,       \* bound: the size of a file
    SmallUnits,     \* 10 MB: smaller files get a bonus
    ChunkUnits,     \* chunk_size of throttled_iterator
    ReadUnits,      \* what the storage backend reads at a time
    Bandwidth,      \* total bandwidth in an interval
    FloorUnits      \* MIN_BANDWIDTH_BYTES_PER_SEC in an interval

ASSUME ThrottleAssumption ==
    /\ IsFiniteSet(Streams)
    /\ MaxUnits \in Nat /\ Bandwidth \in Nat
    /\ SmallUnits \in Nat \ {0} /\ ChunkUnits \in Nat \ {0} /\ ReadUnits \in Nat \ {0}
    /\ FloorUnits \in Nat \ {0}

Units == 0 .. MaxUnits

VARIABLES
    stream,     \* the requests for files
    active      \* the streams registered with the throttler

throttleVars == <<stream, active>>

Stream ==
    [ pc       : {"idle", "open", "streaming", "done", "gone"},
      total    : Units,     \* as registered
      content  : Units,     \* left in the file
      buffer   : Units,
      sent     : Units ]    \* bytes_transferred

ThrottleInit ==
    /\ stream = [t \in Streams |-> [pc |-> "idle", total |-> 0, content |-> 0, buffer |-> 0, sent |-> 0]]
    /\ active = {}

Lesser(a, b) == IF a < b THEN a ELSE b
Greater(a, b) == IF a > b THEN a ELSE b

-----------------------------------------------------------------------------
(* Shares.                                                                  *)

\* Small files, and files more than four fifths sent, get up to twice the
\* weight, together up to three times.
CalculatePriority(s) ==
    100
    + (IF s.total < SmallUnits THEN 100 - (100 * s.total) \div SmallUnits ELSE 0)
    + (IF s.total > 0 /\ 5 * s.sent > 4 * s.total
       THEN (100 * (5 * Lesser(s.sent, s.total) - 4 * s.total)) \div s.total ELSE 0)

\* sum(...) over the active streams
SumOver(f, S) == MapThenSumSet(LAMBDA t : f[t], S)

TotalPriority == SumOver([t \in active |-> CalculatePriority(stream[t])], active)

Share(t) == (Bandwidth * CalculatePriority(stream[t])) \div TotalPriority

\* Mutation: there is no floor.
AllowedUnfloored(t) ==
    IF t \notin active THEN 0 ELSE Lesser(Share(t), stream[t].total - stream[t].sent)

\* get_allowed_bytes
Allowed(t) ==
    IF t \notin active THEN 0
    ELSE Lesser(Greater(Share(t), FloorUnits), stream[t].total - stream[t].sent)

-----------------------------------------------------------------------------
(* Streams.                                                                 *)

\* serve_boot_file: the size is read and the stream registered ...
Register(t) ==
    /\ stream[t].pc = "idle"
    /\ \E total, content \in Units :
          stream' = [stream EXCEPT ![t] = [pc |-> "open", total |-> total, content |-> content,
                                           buffer |-> 0, sent |-> 0]]
    /\ active' = active \union {t}

\* ... and the response begins, unless the client is gone: the iterator then
\* never runs, and its registration stays.
BeginStream(t) ==
    /\ stream[t].pc = "open"
    /\ stream' = [stream EXCEPT ![t].pc = "streaming"]
    /\ UNCHANGED active

NeverBegun(t) ==
    /\ stream[t].pc = "open"
    /\ stream' = [stream EXCEPT ![t].pc = "gone"]
    /\ UNCHANGED active

\* The next chunk of the file, once the buffer is shorter than one of its own.
ReadContent(t) ==
    LET n == Lesser(ReadUnits, stream[t].content) IN
    /\ stream[t].pc = "streaming" /\ stream[t].content > 0 /\ stream[t].buffer < ChunkUnits
    /\ stream' = [stream EXCEPT ![t].content = @ - n, ![t].buffer = @ + n]
    /\ UNCHANGED active

SendSize(t) == Lesser(Lesser(stream[t].buffer, Allowed(t)), ChunkUnits)

\* A full chunk, or the rest once the file is read; without an allowance the
\* iterator sleeps and asks again.
SendChunk(t) ==
    /\ stream[t].pc = "streaming" /\ stream[t].buffer > 0
    /\ stream[t].buffer >= ChunkUnits \/ stream[t].content = 0
    /\ Allowed(t) > 0
    /\ stream' = [stream EXCEPT ![t].buffer = @ - SendSize(t), ![t].sent = @ + SendSize(t)]
    /\ UNCHANGED active

\* The finally of the iterator unregisters it.
StreamEnds(t, pc) ==
    /\ stream' = [stream EXCEPT ![t].pc = pc]
    /\ active' = active \ {t}

Exhausted(t) ==
    /\ stream[t].pc = "streaming" /\ stream[t].buffer = 0 /\ stream[t].content = 0
    /\ StreamEnds(t, "done")

ClientGone(t) ==
    /\ stream[t].pc = "streaming"
    /\ StreamEnds(t, "gone")

StreamStep(t) == ReadContent(t) \/ SendChunk(t) \/ Exhausted(t)

ThrottleNext ==
    \E t \in Streams :
        Register(t) \/ BeginStream(t) \/ NeverBegun(t) \/ StreamStep(t) \/ ClientGone(t)

\* The event loop runs every iterator that is not asleep.
ThrottleFairness == \A t \in Streams : WF_throttleVars(StreamStep(t))

ThrottleSpec == ThrottleInit /\ [][ThrottleNext]_throttleVars /\ ThrottleFairness

-----------------------------------------------------------------------------
(* Properties                                                               *)

\* Every variable has its type: no stream sends more than it was registered
\* with, or than its file has.
ThrottleTypeOK ==
    /\ stream \in [Streams -> Stream]
    /\ active \subseteq Streams
    /\ \A t \in Streams : stream[t].sent <= stream[t].total

\* What the throttler grants by priority is no more than the bandwidth, in
\* whatever order streams begin, progress and end.
SharesFit == active # {} => SumOver([t \in active |-> Share(t)], active) <= Bandwidth

\* Of the streams that are over only those that never began are still
\* registered, and take a share.
RegisteredIsLive ==
    \A t \in active : stream[t].pc \in {"open", "streaming"} \/ (stream[t].pc = "gone" /\ stream[t].sent = 0)

\* The throttler's books are right at every step.
StreamsShare == ThrottleTypeOK /\ SharesFit /\ RegisteredIsLive

Fits(t) == stream[t].sent + stream[t].buffer + stream[t].content <= stream[t].total

\* Streams share the bandwidth as above, and one whose file is no longer than it
\* was when it was registered comes to its end and gives its share back,
\* whatever registrations others have left behind.  (One that has grown is never
\* allowed its last bytes and waits for good.)
StreamsEnd ==
    /\ []StreamsShare
    /\ \A t \in Streams :
         stream[t].pc = "streaming" /\ Fits(t)
           ~> stream[t].pc \in {"done", "gone"} /\ t \notin active
=============================================================================
