--------------------------- MODULE AudioPlayback ----------------------------
(***************************************************************************)
(* Recovery of the audio output on Windows: AudioHandler with its          *)
(* PlaybackRecovery (client/audio_playback_recovery.rs, _startup.rs) and   *)
(* the formats that replace its stream (client.rs).                        *)
(*                                                                         *)
(* The audio thread owns everything and acts between two messages; the     *)
(* device acts on its own: the first output callback makes a stream ready, *)
(* an error is pushed into the queue of its stream, and a stream may start *)
(* without ever calling back.  Instants are kept as the ticks left until   *)
(* they are due.                                                           *)
(***************************************************************************)
EXTENDS Naturals

CONSTANTS
    Formats,      \* sample rates and channel counts the peer sends
    NoFormat,
    Interval,     \* RECOVERY_INTERVAL, in ticks
    Startup,      \* STARTUP_CONFIRMATION_TIMEOUT, in ticks
    MaxFormats,   \* bound: format messages
    MaxFaults     \* bound: failed starts, silent streams and stream errors

AudioAssumption ==
    /\ NoFormat \notin Formats
    /\ Interval \in Nat \ {0} /\ Startup \in Nat \ {0}
    /\ MaxFormats \in Nat /\ MaxFaults \in Nat

Off == 99  \* an Instant that is None
NoPending == [fmt |-> NoFormat]

VARIABLES
    handler,  \* the AudioHandler that plays
    pending,  \* playback_recovery.pending_output
    since,    \* ticks since recovery last restarted the stream, up to Interval
    formats,  \* format messages so far
    faults    \* faults of the device so far

vars == <<handler, pending, since, formats, faults>>

Handlers == [fmt : Formats \cup {NoFormat},   \* playback_recovery.format
             cfg : Formats \cup {NoFormat},   \* sample_rate.0 and channels
             stream : BOOLEAN,                \* audio_stream.is_some()
             silent : BOOLEAN,                \* ... which will never call back
             ready : BOOLEAN,                 \* playback_status.ready
             err : BOOLEAN,                   \* a terminal error is queued
             waiting : BOOLEAN,               \* awaiting_callback
             deadline : 0 .. Startup \cup {Off},
             retry : 0 .. Interval \cup {Off},
             notBefore : 0 .. Interval \cup {Off}]

Default == [fmt |-> NoFormat, cfg |-> NoFormat, stream |-> FALSE, silent |-> FALSE,
            ready |-> FALSE, err |-> FALSE, waiting |-> FALSE,
            deadline |-> Off, retry |-> Off, notBefore |-> Off]

TypeOK ==
    /\ handler \in Handlers
    /\ pending \in Handlers \cup {NoPending}
    /\ since \in 0 .. Interval
    /\ formats \in 0 .. MaxFormats /\ faults \in 0 .. MaxFaults

Init ==
    /\ handler = Default
    /\ pending = NoPending
    /\ since = Interval
    /\ formats = 0 /\ faults = 0

-----------------------------------------------------------------------------
clear_playback_stream(h) ==
    [Default EXCEPT !.fmt = h.fmt, !.retry = h.retry, !.notBefore = h.notBefore]

prepare_playback(f) == [Default EXCEPT !.fmt = f]

\* start_audio: a new stream, or an error
Started(h, silent) ==
    [h EXCEPT !.stream = TRUE, !.silent = silent, !.cfg = h.fmt,
              !.ready = FALSE, !.err = FALSE]

RetryKept(h, ok) ==
    IF ok
    THEN [h EXCEPT !.notBefore = Interval, !.waiting = TRUE, !.deadline = Startup]
    ELSE [clear_playback_stream(h) EXCEPT !.notBefore = Interval, !.retry = Interval]

finish_playback_start(h, ok) ==
    IF ok
    THEN [h EXCEPT !.notBefore = Interval, !.retry = Off, !.waiting = TRUE,
                   !.deadline = Startup]
    ELSE [clear_playback_stream(h) EXCEPT !.notBefore = Interval, !.retry = Interval]

TimedOut(h) == h.waiting /\ ~h.ready /\ h.deadline = 0
Failed(h) == h.err \/ TimedOut(h)

\* What Failed leaves: the queue is drained, or the deadline is used up.
Drained(h) ==
    IF h.err THEN [h EXCEPT !.err = FALSE]
    ELSE IF TimedOut(h) THEN [h EXCEPT !.waiting = FALSE, !.deadline = Off]
    ELSE h

\* A candidate that failed goes, one that is ready or whose predecessor failed
\* takes over.  Without a candidate nothing is looked at.
resolve_pending_playback(h, p) ==
    IF p = NoPending THEN [h |-> h, p |-> p, failed |-> FALSE]
    ELSE IF Failed(p)
    THEN [h |-> [Drained(h) EXCEPT !.notBefore = p.notBefore], p |-> NoPending,
          failed |-> Failed(h)]
    ELSE IF p.ready \/ Failed(h)
    THEN [h |-> p, p |-> NoPending, failed |-> FALSE]
    ELSE [h |-> h, p |-> p, failed |-> FALSE]

-----------------------------------------------------------------------------
\* The first part of recover_playback_with: what failed is dropped and a retry
\* scheduled; a stream that called back is confirmed.
Settled(h, p) ==
    LET r == resolve_pending_playback(h, p)
        failed == IF p = NoPending THEN Failed(h) ELSE r.failed
        cleared == clear_playback_stream(r.h)
        h1 == IF failed
              THEN [cleared EXCEPT !.retry = IF cleared.notBefore = Off THEN 0
                                             ELSE cleared.notBefore]
              ELSE r.h
        h2 == IF h1.waiting /\ h1.ready
              THEN [h1 EXCEPT !.waiting = FALSE, !.deadline = Off] ELSE h1
    IN [h |-> h2, p |-> r.p]

Due(h) == h.retry = 0 /\ h.fmt # NoFormat

\* What a start of the stream of h can come to: it works, stays silent or fails.
Start(h) ==
    {[h |-> Started(h, FALSE), ok |-> TRUE, faults |-> faults]} \cup
    IF faults = MaxFaults THEN {}
    ELSE {[h |-> Started(h, TRUE), ok |-> TRUE, faults |-> faults + 1],
          [h |-> h, ok |-> FALSE, faults |-> faults + 1]}

\* The rest: recreate the stream when the retry is due.
RecoverFrom(h, p) ==
    LET s == Settled(h, p) IN
    /\ pending' = s.p
    /\ IF Due(s.h)
       THEN /\ \E o \in Start(s.h) :
                 handler' = finish_playback_start(o.h, o.ok) /\ faults' = o.faults
            /\ since' = 0
       ELSE handler' = s.h /\ UNCHANGED <<since, faults>>

\* recover_playback_with, on a frame or after the interval without a message
recover_playback_with ==
    /\ RecoverFrom(handler, pending)
    /\ UNCHANGED formats

\* A format message.  A compatible stream that plays is kept until the new
\* one is ready; a start that fails leaves it alone.  The recovery that ends
\* finish_playback_replacement never has a retry due: what it is given plays.
handle_format(f) ==
    LET c == resolve_pending_playback(handler, pending)  \* cancel_pending_playback
        previous == c.h
        keep == previous.stream /\ previous.cfg = f /\ ~c.failed /\ ~previous.err
        next(o) ==
          IF keep /\ o.ok THEN Settled(previous, finish_playback_start(o.h, o.ok))
          ELSE [h |-> IF keep THEN previous ELSE finish_playback_start(o.h, o.ok),
                p |-> NoPending]
    IN
    /\ formats < MaxFormats
    /\ formats' = formats + 1
    /\ \E o \in Start(prepare_playback(f)) :
         handler' = next(o).h /\ pending' = next(o).p /\ faults' = o.faults
    /\ UNCHANGED since

-----------------------------------------------------------------------------
(* The device and the clock.                                               *)

CallsBack(h) == h.stream /\ ~h.silent /\ ~h.ready /\ ~h.err

Callback ==
    \/ /\ CallsBack(handler)
       /\ handler' = [handler EXCEPT !.ready = TRUE]
       /\ UNCHANGED <<pending, since, formats, faults>>
    \/ /\ pending # NoPending /\ CallsBack(pending)
       /\ pending' = [pending EXCEPT !.ready = TRUE]
       /\ UNCHANGED <<handler, since, formats, faults>>

StreamError ==
    /\ faults < MaxFaults
    /\ faults' = faults + 1
    /\ \/ /\ handler.stream /\ ~handler.err
          /\ handler' = [handler EXCEPT !.err = TRUE]
          /\ UNCHANGED pending
       \/ /\ pending # NoPending /\ ~pending.err
          /\ pending' = [pending EXCEPT !.err = TRUE]
          /\ UNCHANGED handler
    /\ UNCHANGED <<since, formats>>

Less(t) == IF t \in {0, Off} THEN t ELSE t - 1
Passed(h) == [h EXCEPT !.deadline = Less(@), !.retry = Less(@), !.notBefore = Less(@)]

Tick ==
    /\ handler' = Passed(handler)
    /\ pending' = IF pending = NoPending THEN pending ELSE Passed(pending)
    /\ since' = IF since < Interval THEN since + 1 ELSE since
    /\ UNCHANGED <<formats, faults>>

Next ==
    \/ recover_playback_with
    \/ \E f \in Formats : handle_format(f)
    \/ Callback \/ StreamError \/ Tick

Spec == Init /\ [][Next]_vars

-----------------------------------------------------------------------------
Healthy(h) == h.stream /\ h.ready /\ ~h.err

\* A restart is only scheduled when nothing plays and nothing is about to: a
\* restart would otherwise tear down a working stream.
RetryAlone == handler.retry # Off => ~handler.stream /\ pending = NoPending

\* Recovery does not restart the stream more often than once per interval,
\* whatever failed in between: when it would restart, the interval is over.
RestartSpaced == Due(Settled(handler, pending).h) => since = Interval

\* A stream that plays keeps playing until something that plays replaces it or
\* the peer changes to another format.
HealthyKept ==
    Healthy(handler) /\ ~(StreamError /\ handler'.err)
      /\ ~(\E f \in Formats \ {handler.cfg} : handle_format(f))
    => Healthy(handler')

\* Audio plays, if there is a format, and nothing is about to replace it.
Plays == handler.fmt # NoFormat => Healthy(handler) /\ pending = NoPending
=============================================================================
