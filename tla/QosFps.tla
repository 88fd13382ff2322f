------------------------------- MODULE QosFps -------------------------------
(***************************************************************************)
(* The frame rate one viewer is given by the video quality controller:     *)
(* UserDelay, user_network_delay and user_delay_response_elapsed of        *)
(* src/server/video_qos.rs, with the probe of src/server/connection.rs     *)
(* that feeds them.                                                        *)
(*                                                                         *)
(* One probe is out at a time.  Its reply is judged by its excess over the *)
(* baseline of the connection; from two seconds on the timer reports the   *)
(* missing reply once a second.  The bitrate, which all viewers share, is  *)
(* the environment: it may or may not have room to come down, and it comes *)
(* down when some viewer asks for it.  The baseline is any of a few.       *)
(***************************************************************************)
EXTENDS Integers, Sequences

CONSTANTS
    Delays,             \* delays of a reply that is not late, in ms
    Baselines,          \* values of the baseline
    Caps,               \* frame rates the viewer may ask for
    MinFps, NormalFps,  \* for the quality in use
    MaxOut              \* bound: seconds a probe stays out past the first

InitFps == 15
MinAutoFps == 5
Good == 150             \* DELAY_THRESHOLD_150MS
Guard == 5              \* RESTORE_GUARD_SAMPLES
None == -1
Over == 3               \* startup_good_samples = u8::MAX

QosAssumption ==
    /\ Delays \subseteq 10..2000 /\ Baselines \subseteq 10..2000
    /\ Caps \subseteq 1..120 /\ MinFps \in 8..12 /\ NormalFps = 2 * MinFps /\ MaxOut \in Nat

VARIABLES
    u,          \* UserDelay
    base,       \* the baseline, None before the first reply
    cap,        \* fps_cap of the viewer
    out,        \* reports of the outstanding probe
    \* History:
    streak,     \* bad replies since the last good one and the last reduction
    clean,      \* no sign of a queue so far
    peak,       \* the highest frame rate so far
    failed      \* the rate at which the last restore congested, if it did

hist == <<streak, clean, peak, failed>>
vars == <<u, base, cap, out, hist>>

NewUser ==
    [fps |-> None, delays |-> <<>>, quick |-> 0, incr |-> 0, bad |-> 0, fpsBad |-> 0,
     good |-> 0, replies |-> None, before |-> None, since |-> None, ref |-> None,
     ticks |-> 0, startup |-> 0]

TypeOK ==
    /\ u.fps \in 1..120 \cup {None}
    /\ Len(u.delays) <= 2
    /\ u.quick \in 0..2 /\ u.incr \in 0..2
    /\ u.bad \in 0..3 /\ u.fpsBad \in 0..u.bad /\ u.good \in 0..3
    /\ u.replies \in {None, 0, 1, 2}
    /\ u.before \in 1..120 \cup {None} /\ u.ref \in 1..120 \cup {None}
    /\ u.since \in -1..(Guard + 1) /\ u.ticks \in 0..2 /\ u.startup \in {0, 1, Over}
    /\ u.ref # None <=> out > 0

Init ==
    /\ u = NewUser
    /\ base = None
    /\ cap \in Caps
    /\ out = 0
    /\ streak = 0 /\ clean = TRUE /\ peak = InitFps /\ failed = None

Minus(a, b) == IF a > b THEN a - b ELSE 0    \* saturating_sub
UpTo(a, n) == IF a > n THEN n ELSE a
AtLeast(a, n) == IF a < n THEN n ELSE a
Clamp(a, lo, hi) == UpTo(AtLeast(a, lo), hi)
CeilDiv(a, b) == (a + b - 1) \div b

Current(v) == IF v.fps = None THEN UpTo(InitFps, cap) ELSE v.fps

Floor == UpTo(MinAutoFps, cap)

Baseline(b) == IF b = None THEN 0 ELSE b

AddDelay(s, d) == IF Len(s) >= 2 THEN <<s[2], d>> ELSE Append(s, d)

AvgDelay(s, b) ==
    IF s = <<>> THEN Good
    ELSE Minus((IF Len(s) = 1 THEN s[1] ELSE (s[1] + s[2]) \div 2), Baseline(b))

OnReductionKeepsCount(v, cur) ==
    [v EXCEPT !.startup = Over, !.good = 0, !.before = IF @ = None THEN cur ELSE @]

OnReduction(v, cur) ==
    [v EXCEPT !.startup = Over, !.good = 0, !.fpsBad = 0,
              !.before = IF @ = None THEN cur ELSE @]

-----------------------------------------------------------------------------
(* user_network_delay, up to the limits.                                   *)

\* The rate the average delay calls for, before any limit.
Wanted(v, fps, avg, old) ==
    LET divided == CeilDiv(fps * Good, avg)
        step == IF fps < NormalFps THEN 1 ELSE 0
    IN CASE avg < 50 -> AtLeast(fps + (IF v.quick + 1 >= 3 THEN 5 ELSE step), MinFps)
         [] avg \in 50..99 -> AtLeast(fps + (IF avg < old THEN step ELSE 0), MinFps)
         [] avg \in 100..149 -> AtLeast(fps, MinFps)
         [] avg \in 150..199 -> AtLeast(divided, MinFps)
         [] avg \in 200..299 -> UpTo(divided, MinFps)
         [] avg \in 300..599 -> (Good * MinFps) \div avg
         [] OTHER -> UpTo((Good * MinFps) \div avg, divided)

Counted(v, avg) ==
    [v EXCEPT !.quick = IF avg > 50 THEN 0 ELSE IF avg < 50 THEN (@ + 1) % 3 ELSE @,
              !.incr = IF avg < Good THEN (@ + 1) % 3 ELSE 0]

Recent(v) == v.since # None /\ v.since <= Guard

\* recover: a little at first, then back to the level before the congestion.
Recover(v, cur, fps) ==
    LET level == IF v.before > cur THEN v.before ELSE None
    IN CASE v.good >= 2 /\ level # None ->
              [v |-> [v EXCEPT !.before = None, !.since = 0], fps |-> AtLeast(fps, level)]
         [] v.good = 3 /\ level = None ->
              [v |-> [v EXCEPT !.before = None],
               fps |-> AtLeast(fps, cur + AtLeast(cur \div 5, 2))]
         [] OTHER -> [v |-> v, fps |-> cur + AtLeast(cur \div 10, 1)]

GoodReply(v, cur, fps) ==
    Recover([v EXCEPT !.bad = 0, !.fpsBad = 0, !.replies = None, !.good = UpTo(@ + 1, 3)],
            cur, fps)

FailedRestore(v, excess) == excess >= 600 /\ Recent(v)

LoweredTo(cur) == cur - cur \div 4

BadReply(v0, cur, fps, excess, first, braked) ==
    LET v == [v0 EXCEPT !.bad = UpTo(@ + 1, 3), !.fpsBad = UpTo(@ + 1, 3),
                        !.replies = IF @ = None THEN None ELSE UpTo(@ + 1, 2)]
        failing == FailedRestore(v, excess)
        w == IF Recent(v) /\ (failing \/ v.bad >= 3)
               THEN [v EXCEPT !.before = LoweredTo(cur), !.since = None] ELSE v
        patient == /\ ~failing /\ excess < 1000
                   /\ w.fpsBad < 3 \/ (first /\ w.replies < 2)
        divisor == IF excess >= 1000 \/ failing THEN 2 ELSE 5
    IN IF fps >= cur \/ braked \/ patient THEN [v |-> w, fps |-> cur]
       ELSE [v |-> OnReduction(w, cur), fps |-> AtLeast(fps, cur - AtLeast(cur \div divisor, 1))]

\* limit_fps_change.
Limited(v0, cur, fps, excess, first, braked) ==
    LET v == [v0 EXCEPT !.since = IF @ = None THEN None ELSE UpTo(@ + 1, Guard + 1)]
    IN IF excess < Good THEN GoodReply(v, cur, fps)
       ELSE BadReply(v, cur, fps, excess, first, braked)

\* accelerate_startup: two clean replies double the rate.
Accelerated(r, cur, excess, braked) ==
    LET doubled == UpTo(AtLeast(r.fps, 2 * cur), cap)
    IN CASE r.v.startup = Over -> r
         [] r.v.startup # Over /\ (braked \/ excess >= 50 \/ cur >= cap) ->
              [r EXCEPT !.v.startup = Over]
         [] r.v.startup = 0 /\ ~braked /\ excess < 50 /\ cur < cap -> [r EXCEPT !.v.startup = 1]
         [] OTHER -> [v |-> [r.v EXCEPT !.startup = IF doubled >= cap THEN Over ELSE 0],
                      fps |-> doubled]

\* The reply closes the outstanding probe.
ProbeClosed(v, d) == [v EXCEPT !.ticks = 0, !.ref = None, !.delays = AddDelay(@, d)]

\* What a reply makes of the viewer: d is the delay, b the baseline after it.
AfterReply(d, b, first) ==
    LET braked == u.ref # None
        cur == Current(u)
        v0 == ProbeClosed(u, d)
        avg == AtLeast(AvgDelay(v0.delays, b), 10)
        v == Counted(v0, avg)
        tried == Wanted(u, cur, avg, AvgDelay(u.delays, base))
                   + (IF avg < Good /\ u.incr = 2 THEN 1 ELSE 0)
        floor == IF first THEN AtLeast(Floor, MinFps) ELSE Floor
        excess == Minus(d, Baseline(b))
        r == Accelerated(Limited(v, cur, AtLeast(tried, floor), excess, first, braked),
                         cur, excess, braked)
    IN [r.v EXCEPT !.fps = Clamp(r.fps, 1, cap)]

\* RttCalculator: a late reply of a probe that braked does not count.
NextBaselines(d, braked) ==
    IF braked THEN {base}
    ELSE LET low == IF base = None THEN d ELSE UpTo(base, d)
         IN {low} \cup {b \in Baselines : low < b /\ b <= UpTo(d, low + 50) /\ base # None}

Elapsed(n) == 1001 + 1000 * n

JustRestored == u.since # None /\ u.since < Guard

\* History of a reply with this excess that left the viewer as v.
Remember(v, excess) ==
    LET reduced == v.fps < UpTo(Current(u), cap)
    IN /\ streak' = IF excess < Good \/ reduced THEN 0 ELSE UpTo(streak + 1, 3)
       /\ clean' = (clean /\ excess < 50)
       /\ peak' = AtLeast(peak, v.fps)
       /\ failed' = IF excess >= Good /\ JustRestored /\ (excess >= 600 \/ u.bad >= 2)
                      THEN Current(u)
                      ELSE IF v.before = None THEN None ELSE failed

Reply ==
    \E d \in IF out = 0 THEN Delays ELSE {Elapsed(out)}, first \in BOOLEAN :
        \E b \in NextBaselines(d, u.ref # None) :
            /\ base' = b
            /\ u' = AfterReply(d, b, first)
            /\ Remember(u', Minus(d, Baseline(b)))
            /\ out' = 0
            /\ UNCHANGED cap

\* 1 << n, for n up to 5.
Divisor == <<2, 4, 8, 16, 32>>

\* user_delay_response_elapsed, once a second.
Brake(n) ==
    LET ref == IF u.ref # None THEN u.ref ELSE Current(u)
        v == IF u.ref # None THEN u ELSE [OnReduction(u, ref) EXCEPT !.ref = ref]
        cur == IF u.fps = None THEN ref ELSE u.fps
    IN [v EXCEPT !.ticks = UpTo(@ + 1, 2), !.delays = AddDelay(@, Elapsed(n)),
                 !.fps = UpTo(Clamp(ref \div Divisor[UpTo(n, 5)], Floor, cap), cur)]

Timeout ==
    /\ out < MaxOut
    /\ out' = out + 1
    /\ u' = Brake(out')
    /\ clean' = FALSE /\ streak' = 0
    /\ peak' = AtLeast(peak, u'.fps)
    /\ UNCHANGED <<base, cap, failed>>

\* adjust_ratio of the controller reaches a viewer that asked for it.
NeedsBitrateReduction(v) == v.bad >= 2 \/ v.ticks >= 2

BitrateCut ==
    /\ NeedsBitrateReduction(u) /\ u.replies = None
    /\ \E r \in {0, 2} : u' = [u EXCEPT !.replies = r]
    /\ UNCHANGED <<base, cap, out, hist>>

SetCap ==
    /\ cap' \in Caps \ {cap}
    /\ UNCHANGED <<u, base, out, hist>>

Next == Reply \/ Timeout \/ BitrateCut \/ SetCap

Spec == Init /\ [][Next]_vars

-----------------------------------------------------------------------------
(* Properties: what the next reply, one of `next`, or the next second      *)
(* without one, does.                                                      *)

\* The replies that may be next: delay, baseline after it, room in the bitrate.
Replies ==
    LET ds == IF out = 0 THEN Delays ELSE {Elapsed(out)}
    IN UNION {{[fps |-> AfterReply(d, b, first).fps, excess |-> Minus(d, b), first |-> first] :
                  b \in NextBaselines(d, out > 0) \ {None}, first \in BOOLEAN} : d \in ds}

Held == UpTo(Current(u), cap)

\* One slow reply is jitter: less than a second of excess lowers the rate only
\* as the third bad reply in a row, counted anew after each reduction, and by a
\* fifth; only a restore that congests at once is taken back at 600 ms.
ConfirmedFirst(next) ==
    \A r \in next :
        r.fps < Held /\ r.excess < 1000 /\ ~(r.excess >= 600 /\ JustRestored)
            => streak >= 2 /\ r.fps >= UpTo(Current(u) - AtLeast(Current(u) \div 5, 1), cap)

\* A bad reply or a missing one never raises the rate, and the late reply of a
\* probe that braked does not brake again.
BadNeverRaises(next) ==
    /\ \A r \in next : r.excess >= Good => r.fps <= Current(u)
    /\ out < MaxOut => Brake(out + 1).fps <= Current(u)
    /\ out > 0 => \A r \in next : r.fps >= Held

\* No reduction goes below the floor: five frames, or what the viewer asked for,
\* and for a reply the rate of the quality while the bitrate can come down.
FloorKept(next) ==
    /\ \A r \in next : r.fps < Held => r.fps >= UpTo(IF r.first THEN MinFps ELSE MinAutoFps, cap)
    /\ out < MaxOut /\ Brake(out + 1).fps < Held => Brake(out + 1).fps >= UpTo(MinAutoFps, cap)

\* Once there was a sign of a queue, the rate leaps only to a level it has held.
JumpsAreEarned(next) ==
    ~clean => \A r \in next :
        \/ r.fps <= peak
        \/ r.fps <= AtLeast(AtLeast(MinFps + 1, Current(u) + 6), Current(u) + Current(u) \div 5)

\* After a restore that congested within five replies, the level to return to
\* is below the one that failed, through any further reductions; a quarter of
\* fewer than four frames is none.
RestoreAimsLower ==
    failed # None /\ u.before # None => u.before < AtLeast(failed, 4)

=============================================================================
