--------------------------- MODULE RequestThreads ---------------------------
(***************************************************************************)
(* The request threads of a benchmark (launch_request in throughput.py):   *)
(* each takes the next request, sends it and records the result, until     *)
(* there are none left, the time is over or one of them fails.  Prompts    *)
(* are a list made before, or a stream of chunks that preparation actors   *)
(* render ahead (PreparedStream).  The threads share an index or the       *)
(* stream, an event and the list of results.                               *)
(***************************************************************************)
EXTENDS Integers, Sequences

CONSTANTS
    Total,          \* max_num_completed_requests
    Chunk,          \* preparation_chunk_size
    Buffer,         \* preparation_buffer_chunks
    Senders         \* the threads

VARIABLES
    streamed,       \* are the prompts a stream?
    grouped,        \* task_contexts: an error of a request is its result
    nextIndex,      \* next_request_index, or next_index of the stream
    nextChunk,      \* next_chunk
    pending,        \* pending: the chunks being rendered
    prepared,       \* ready: what is left of the chunk being taken, up to its end
    sender,         \* what each thread does, with its request and prompt
    broken,         \* request_thread_errors
    stop,           \* request_threads_stop
    overdue,        \* has test_timeout_s passed?
    collected       \* completed_requests: index and prompt of each result, in its order;
                    \* num_completed_requests is its length

stream == <<nextIndex, nextChunk, pending, prepared>>
config == <<streamed, grouped>>
vars == <<config, stream, sender, broken, stop, overdue, collected>>

At(pc) == [pc |-> pc, index |-> -1, prompt |-> -1]

\* The prompts that _submit has rendered next, up to Total.
ChunkFrom(start) ==
    [start |-> start, count |-> IF Total - start < Chunk THEN Total - start ELSE Chunk]

\* The calls of _submit that find prompts left to render, of the first Buffer.
Prefetched ==
    CHOOSE n \in 0..Buffer :
        /\ n = Buffer \/ n * Chunk >= Total
        /\ \A k \in 0..(n - 1) : k * Chunk < Total

Init ==
    /\ streamed \in BOOLEAN
    /\ grouped \in (IF streamed THEN {FALSE} ELSE BOOLEAN)
    /\ nextIndex = 0
    /\ pending = IF streamed THEN [k \in 1..Prefetched |-> ChunkFrom((k - 1) * Chunk)] ELSE <<>>
    /\ nextChunk = IF ~streamed THEN 0
                   ELSE IF Prefetched * Chunk < Total THEN Prefetched * Chunk ELSE Total
    /\ prepared = [next |-> 0, end |-> 0]
    /\ sender = [t \in Senders |-> At("loop")]
    /\ broken = FALSE
    /\ stop = FALSE
    /\ overdue = FALSE
    /\ collected = <<>>

Timeout ==
    /\ ~overdue
    /\ overdue' = TRUE
    /\ UNCHANGED <<config, stream, sender, broken, stop, collected>>

Go(t, state) == sender' = [sender EXCEPT ![t] = state]

\* The condition of the loop, and the same check after a request was taken.
Look(t) ==
    /\ sender[t].pc \in {"loop", "taken"}
    /\ Go(t, IF stop \/ overdue THEN At("ended")
             ELSE [sender[t] EXCEPT !.pc = IF @ = "loop" THEN "take" ELSE "send"])
    /\ UNCHANGED <<config, stream, broken, stop, overdue, collected>>

\* Nothing is left to take.
Finish(t) ==
    /\ sender[t].pc = "take" /\ nextIndex >= Total
    /\ Go(t, At("ended"))
    /\ UNCHANGED <<config, stream, broken, stop, overdue, collected>>

\* Every prompt of the chunk has been taken.
NoneReady == prepared.next = prepared.end

\* Variant: two threads read next_request_index before either has increased it.
TakeUnlocked(t) ==
    /\ sender[t].pc = "take" /\ nextIndex < Total /\ ~streamed
    /\ \E i \in {nextIndex} \cup {sender[u].index : u \in {v \in Senders : sender[v].pc = "taken"}} :
        /\ Go(t, [pc |-> "taken", index |-> i, prompt |-> i])
        /\ nextIndex' = i + 1
    /\ UNCHANGED <<config, nextChunk, pending, prepared, broken, stop, overdue, collected>>

\* The next request of the list, or take of the stream: a chunk that is not
\* rendered yet is waited for, with the lock of the stream held.
TakeNext(t) ==
    /\ sender[t].pc = "take" /\ nextIndex < Total
    /\ \/ /\ ~streamed
          /\ Go(t, [pc |-> "taken", index |-> nextIndex, prompt |-> nextIndex])
          /\ UNCHANGED <<nextChunk, pending, prepared>>
       \/ /\ streamed /\ ~NoneReady
          /\ Go(t, [pc |-> "taken", index |-> nextIndex, prompt |-> prepared.next])
          /\ prepared' = [prepared EXCEPT !.next = @ + 1]
          /\ UNCHANGED <<nextChunk, pending>>
       \/ /\ streamed /\ NoneReady /\ pending # <<>>
          /\ LET chunk == Head(pending)
                 more == ChunkFrom(nextChunk)
             IN /\ Go(t, [pc |-> "taken", index |-> nextIndex, prompt |-> chunk.start])
                /\ prepared' = [next |-> chunk.start + 1, end |-> chunk.start + chunk.count]
                /\ \/ /\ nextChunk >= Total
                      /\ pending' = Tail(pending)
                      /\ UNCHANGED nextChunk
                   \/ /\ nextChunk < Total
                      /\ pending' = Append(Tail(pending), more)
                      /\ nextChunk' = nextChunk + more.count
    /\ nextIndex' = nextIndex + 1
    /\ UNCHANGED <<config, broken, stop, overdue, collected>>

\* The actor that renders the chunk fails: the chunk is gone.
ChunkLost(t) ==
    /\ sender[t].pc = "take" /\ nextIndex < Total
    /\ streamed /\ NoneReady /\ pending # <<>>
    /\ pending' = Tail(pending)
    /\ Go(t, At("failing"))
    /\ UNCHANGED <<config, nextIndex, nextChunk, prepared, broken, stop, overdue, collected>>

\* The chunks are used up, though not the index: popleft of an empty deque.
NoChunk(t) ==
    /\ sender[t].pc = "take" /\ nextIndex < Total
    /\ streamed /\ NoneReady /\ pending = <<>>
    /\ Go(t, At("failing"))
    /\ UNCHANGED <<config, stream, broken, stop, overdue, collected>>

\* The result of a request is appended, unless there are as many as were asked
\* for; an error of a grouped one is a result as well.
Record(t) ==
    /\ sender[t].pc = "send"
    /\ collected' = IF Len(collected) < Total
                    THEN Append(collected, <<sender[t].index, sender[t].prompt>>) ELSE collected
    /\ Go(t, At("loop"))
    /\ UNCHANGED <<config, stream, broken, stop, overdue>>

\* The launcher raises.
Raise(t) ==
    /\ sender[t].pc = "send" /\ ~grouped
    /\ Go(t, At("failing"))
    /\ UNCHANGED <<config, stream, broken, stop, overdue, collected>>

\* The handler keeps the first error, then sets the event.
KeepError(t) ==
    /\ sender[t].pc = "failing"
    /\ broken' = TRUE
    /\ Go(t, At("stopping"))
    /\ UNCHANGED <<config, stream, stop, overdue, collected>>

SetStop(t) ==
    /\ sender[t].pc = "stopping"
    /\ stop' = TRUE
    /\ Go(t, At("ended"))
    /\ UNCHANGED <<config, stream, broken, overdue, collected>>

Next ==
    \/ Timeout
    \/ \E t \in Senders : Look(t) \/ Finish(t) \/ TakeNext(t) \/ ChunkLost(t) \/ NoChunk(t)
                          \/ Record(t) \/ Raise(t) \/ KeepError(t) \/ SetStop(t)

Spec == Init /\ [][Next]_vars

-----------------------------------------------------------------------------
(* Properties.                                                             *)

AllEnded == \A t \in Senders : sender[t].pc = "ended"
ReportedTimeout == overdue /\ Len(collected) < Total

\* No two results are of one request.
OneOfEach == \A j, k \in DOMAIN collected : collected[j][1] = collected[k][1] => j = k

\* The results that a benchmark reports are those of its own requests: without
\* an error no request is reported twice, which would use up the place of
\* another, each result is that of the prompt of its index, whatever thread took
\* which chunk, and there are as many as requests, unless the benchmark is
\* reported as timed out (launch_request, PreparedStream.take).  A lost chunk
\* shifts the prompts of the others against their indexes: then the benchmark
\* fails, so that nothing of it is reported.
ResultsAreComplete ==
    /\ AllEnded /\ ~broken =>
        /\ OneOfEach
        /\ \A k \in DOMAIN collected : collected[k][1] = collected[k][2]
        /\ ReportedTimeout \/ Len(collected) = Total
    /\ Len(pending) <= Buffer

-----------------------------------------------------------------------------
(* What ResultsAreComplete rests on.                                       *)

Holding(t) == sender[t].pc \in {"taken", "send"}
Same(i) == <<i, i>>
Reported == {collected[k] : k \in DOMAIN collected}

\* Something has failed, though the handler may not have said so yet.
Faulty == broken \/ \E t \in Senders : sender[t].pc = "failing"

ThreadsTyped ==
    /\ nextIndex \in 0..Total /\ nextChunk \in 0..Total
    /\ pending \in Seq([start : Nat, count : Nat]) /\ Len(pending) <= Buffer
    /\ prepared \in [next : Nat, end : Nat]
    /\ sender \in [Senders -> [pc : {"loop", "take", "taken", "send", "failing", "stopping", "ended"},
                               index : Int, prompt : Int]]
    /\ stop \/ (\E t \in Senders : sender[t].pc = "stopping") => broken

ResultsTyped == collected \in Seq(Int \X Int)

\* The chunks follow one another from the next request to the next chunk.
InSequence ==
    /\ prepared.next = nextIndex /\ prepared.next <= prepared.end
    /\ \A k \in DOMAIN pending :
        /\ pending[k].count > 0
        /\ pending[k].start = IF k = 1 THEN prepared.end
                              ELSE pending[k - 1].start + pending[k - 1].count
    /\ nextChunk = IF pending = <<>> THEN prepared.end
                   ELSE pending[Len(pending)].start + pending[Len(pending)].count

\* Every request taken is with one thread or in the results, until time is over.
EachOnce ==
    /\ OneOfEach
    /\ Reported \subseteq {Same(i) : i \in 0..(nextIndex - 1)}
    /\ \A t \in Senders : Holding(t) =>
        /\ sender[t].index = sender[t].prompt
        /\ sender[t].index \in 0..(nextIndex - 1) /\ Same(sender[t].index) \notin Reported
        /\ \A u \in Senders \ {t} : Holding(u) => sender[u].index # sender[t].index
    /\ ~overdue => \A i \in 0..(nextIndex - 1) :
        Same(i) \in Reported \/ \E t \in Senders : Holding(t) /\ sender[t].index = i
    /\ \A t \in Senders : sender[t].pc = "ended" => nextIndex = Total \/ overdue

ThreadsInvariant == ThreadsTyped /\ ResultsTyped /\ (~Faulty => EachOnce /\ (streamed => InSequence))
=============================================================================
