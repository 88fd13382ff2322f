------------------------------ MODULE TcpPunch ------------------------------
(***************************************************************************)
(* The TCP hole punch of the controlled side: punch_tcp_until_connected,   *)
(* punch_until and the places of PunchPool, src/src/rendezvous_mediator.rs.*)
(*                                                                         *)
(* A request holds a place and races two ways in: an accept on the punched *)
(* port, and punches that are repeated, slower and slower, until one of    *)
(* them meets the SYN of the controller.  Whichever arrives first is the   *)
(* only connection of the request; the place goes back before its session. *)
(*                                                                         *)
(* Time is counted in ticks and stands still while something is due.  The  *)
(* controller, its SYNs and the gateways are the environment.              *)
(***************************************************************************)
EXTENDS Naturals, FiniteSets

CONSTANTS Requests,
          Places,         \* PunchPool::max
          Window,         \* CONNECT_TIMEOUT
          Grace,          \* PUNCH_GRACE
          First, Longest, \* PUNCH_INTERVAL, PUNCH_MAX_INTERVAL; each repeat waits one more
          Handshake,      \* what a crossing takes to complete
          MaxTime         \* bound: ticks of a behaviour

PlacesAssumption == Places \in Nat \ {0}
TimesAssumption ==
    /\ {Window, First, Longest, Handshake, MaxTime} \subseteq Nat \ {0}
    /\ Grace \in Nat /\ Handshake <= Grace /\ First <= Longest

VARIABLES
    now,
    slots,      \* PunchPool.places
    phase,      \* of each request
    until,      \* its deadline
    punch,      \* the punch half: asleep, in flight, crossed by a SYN, over
    due,        \* when the sleep, the punch or the crossing ends
    since,      \* when the punch, or its crossing, began
    interval,   \* how long the next sleep is
    accept,     \* the accept half: open, after an error, over, or no listener
    retry,      \* when the sleep after an accept error ends
    backlog,    \* a connection waits to be accepted
    served      \* the connections that were served

timing == <<now, until>>
half == <<punch, due, since, interval>>
other == <<accept, retry, backlog>>
vars == <<timing, slots, phase, half, other, served>>

Min2(a, b) == IF a < b THEN a ELSE b

TypeOK ==
    /\ now \in 0..MaxTime
    /\ slots \in 0..Places
    /\ phase \in [Requests -> {"idle", "racing", "session", "done"}]
    /\ until \in [Requests -> 0..(MaxTime + Window)]
    /\ punch \in [Requests -> {"asleep", "flight", "crossed", "over"}]
    /\ due \in [Requests -> Nat]
    /\ since \in [Requests -> 0..MaxTime]
    /\ interval \in [Requests -> First..Longest]
    /\ accept \in [Requests -> {"open", "error", "over", "none"}]
    /\ retry \in [Requests -> 0..(MaxTime + 1)]
    /\ backlog \in [Requests -> BOOLEAN]
    /\ served \in [Requests -> SUBSET {"punch", "accept"}]
    /\ slots = Cardinality({r \in Requests : phase[r] = "racing"})

Init ==
    /\ now = 0
    /\ slots = 0
    /\ phase = [r \in Requests |-> "idle"]
    /\ until = [r \in Requests |-> 0]
    /\ punch = [r \in Requests |-> "over"]
    /\ due = [r \in Requests |-> 0]
    /\ since = [r \in Requests |-> 0]
    /\ interval = [r \in Requests |-> First]
    /\ accept = [r \in Requests |-> "over"]
    /\ retry = [r \in Requests |-> 0]
    /\ backlog = [r \in Requests |-> FALSE]
    /\ served = [r \in Requests |-> {}]

Left(r) == IF until[r] > now THEN until[r] - now ELSE 0

Racing(r) == phase[r] = "racing"

-----------------------------------------------------------------------------
(* The request takes a place, or is declined.                              *)

Take(r) ==
    /\ phase[r] = "idle"
    /\ slots < Places
    /\ slots' = slots + 1
    /\ phase' = [phase EXCEPT ![r] = "racing"]
    /\ until' = [until EXCEPT ![r] = now + Window]
    /\ punch' = [punch EXCEPT ![r] = "asleep"]
    /\ due' = [due EXCEPT ![r] = now + Min2(First, Window)]
    /\ \E l \in {"open", "none"} : accept' = [accept EXCEPT ![r] = l]
    /\ UNCHANGED <<now, since, interval, retry, backlog, served>>

Declined(r) ==
    /\ phase[r] = "idle"
    /\ slots >= Places
    /\ phase' = [phase EXCEPT ![r] = "done"]
    /\ UNCHANGED <<timing, slots, half, other, served>>

-----------------------------------------------------------------------------
(* punch_until.                                                            *)

\* connect_tcp_local with a timeout that ends Grace after the deadline.
PunchTimeout(r) == Left(r) + Grace

PunchStarts(r) ==
    /\ Racing(r) /\ punch[r] = "asleep" /\ now = due[r]
    /\ punch' = [punch EXCEPT ![r] = "flight"]
    /\ since' = [since EXCEPT ![r] = now]
    /\ due' = [due EXCEPT ![r] = now + PunchTimeout(r)]
    /\ interval' = [interval EXCEPT ![r] = Min2(@ + 1, Longest)]
    /\ UNCHANGED <<timing, slots, phase, other, served>>

Nap(r) == Min2(interval[r], Left(r))

\* The punch has failed: again after a sleep that the deadline cuts, or never.
Again(r) ==
    IF Left(r) = 0
      THEN punch' = [punch EXCEPT ![r] = "over"] /\ UNCHANGED due
      ELSE /\ punch' = [punch EXCEPT ![r] = "asleep"]
           /\ due' = [due EXCEPT ![r] = now + Nap(r)]

\* The gateway answers with RST.
PunchReset(r) ==
    /\ Racing(r) /\ punch[r] = "flight" /\ now < due[r]
    /\ Again(r)
    /\ UNCHANGED <<timing, slots, phase, since, interval, other, served>>

PunchTimesOut(r) ==
    /\ Racing(r) /\ punch[r] = "flight" /\ now = due[r]
    /\ Again(r)
    /\ UNCHANGED <<timing, slots, phase, since, interval, other, served>>

\* The SYN of the controller crosses the punch: half way through a handshake
\* the timeout of the punch still runs.
Crossing(r) ==
    /\ Racing(r) /\ punch[r] = "flight"
    /\ now < due[r]
    /\ punch' = [punch EXCEPT ![r] = "crossed"]
    /\ since' = [since EXCEPT ![r] = now]
    /\ UNCHANGED <<timing, slots, phase, due, interval, other, served>>

Connected(r) == punch[r] = "crossed" /\ now >= since[r] + Handshake

CrossingCut(r) ==
    /\ Racing(r) /\ punch[r] = "crossed" /\ ~Connected(r) /\ now = due[r]
    /\ Again(r)
    /\ UNCHANGED <<timing, slots, phase, since, interval, other, served>>

-----------------------------------------------------------------------------
(* The race.                                                               *)

ServeAndRaceOn(r, how) ==
    /\ served' = [served EXCEPT ![r] = @ \cup {how}]
    /\ UNCHANGED <<slots, phase>>

\* The place goes back, the other half is dropped, the session runs.
Serve(r, how) ==
    /\ served' = [served EXCEPT ![r] = @ \cup {how}]
    /\ slots' = slots - 1
    /\ phase' = [phase EXCEPT ![r] = "session"]

PunchWins(r) ==
    /\ Racing(r) /\ Connected(r)
    /\ Serve(r, "punch")
    /\ punch' = [punch EXCEPT ![r] = "over"]
    /\ UNCHANGED <<timing, due, since, interval, other>>

PunchReady(r) == Connected(r)
\* biased: both ready at once, the punch is the one kept.
AcceptWins(r) ==
    /\ Racing(r) /\ accept[r] = "open" /\ backlog[r]
    /\ ~PunchReady(r)
    /\ Serve(r, "accept")
    /\ accept' = [accept EXCEPT ![r] = "over"]
    /\ UNCHANGED <<timing, half, retry, backlog>>

AcceptFails(r) ==
    /\ Racing(r) /\ accept[r] = "open" /\ Left(r) > 0
    /\ accept' = [accept EXCEPT ![r] = "error"]
    /\ retry' = [retry EXCEPT ![r] = now + 1]
    /\ UNCHANGED <<timing, slots, phase, half, backlog, served>>

AcceptAgain(r) ==
    /\ Racing(r) /\ accept[r] = "error" /\ now = retry[r]
    /\ accept' = [accept EXCEPT ![r] = IF Left(r) = 0 THEN "over" ELSE "open"]
    /\ UNCHANGED <<timing, slots, phase, half, retry, backlog, served>>

AcceptTimesOut(r) ==
    /\ Racing(r) /\ accept[r] = "open" /\ Left(r) = 0
    /\ accept' = [accept EXCEPT ![r] = "over"]
    /\ UNCHANGED <<timing, slots, phase, half, retry, backlog, served>>

GiveUp(r) ==
    /\ Racing(r) /\ punch[r] = "over" /\ accept[r] \in {"over", "none"}
    /\ phase' = [phase EXCEPT ![r] = "done"]
    /\ slots' = slots - 1
    /\ UNCHANGED <<timing, half, other, served>>

SessionEnds(r) ==
    /\ phase[r] = "session"
    /\ phase' = [phase EXCEPT ![r] = "done"]
    /\ UNCHANGED <<timing, slots, half, other, served>>

\* Someone dials the listener.
Dialled(r) ==
    /\ Racing(r) /\ accept[r] \in {"open", "error"} /\ ~backlog[r]
    /\ backlog' = [backlog EXCEPT ![r] = TRUE]
    /\ UNCHANGED <<timing, slots, phase, half, accept, retry, served>>

\* Something of r is to happen now.
Urgent(r) ==
    /\ Racing(r)
    /\ \/ punch[r] # "over" /\ now >= due[r]
       \/ Connected(r)
       \/ accept[r] = "error" /\ now >= retry[r]
       \/ accept[r] = "open" /\ (backlog[r] \/ Left(r) = 0)
       \/ punch[r] = "over" /\ accept[r] \in {"over", "none"}

Tick ==
    /\ now < MaxTime
    /\ \A r \in Requests : ~Urgent(r)
    /\ now' = now + 1
    /\ UNCHANGED <<until, slots, phase, half, other, served>>

-----------------------------------------------------------------------------
Punch(r) == PunchStarts(r) \/ PunchReset(r) \/ PunchTimesOut(r) \/ Crossing(r) \/ CrossingCut(r)

Race(r) ==
    \/ PunchWins(r) \/ AcceptWins(r) \/ AcceptFails(r) \/ AcceptAgain(r)
    \/ AcceptTimesOut(r) \/ GiveUp(r) \/ SessionEnds(r)

Next ==
    \/ \E r \in Requests : Take(r) \/ Declined(r) \/ Punch(r) \/ Race(r) \/ Dialled(r)
    \/ Tick

Spec == Init /\ [][Next]_vars

-----------------------------------------------------------------------------
(* Properties.                                                             *)

\* One connection at most is served for one request: its permissions were
\* granted for one controller.
OneServed == \A r \in Requests : Cardinality(served[r]) <= 1

\* No timer cuts a punch that the controller's SYN crossed before the
\* deadline: it completes, unless the accept was there first.
CrossingKept ==
    \A r \in Requests :
       /\ punch[r] = "crossed" /\ since[r] <= until[r]
       /\ punch'[r] # "crossed"
       => "punch" \in served'[r]

\* A crossing that is complete is never given up for an accept.
CompleteIsServed ==
    \A r \in Requests : Racing(r) /\ Connected(r) /\ phase'[r] # "racing"
       => "punch" \in served'[r]

\* Places turn over on their own, within the window and the grace.
PlacesTurnOver ==
    \A r \in Requests : Racing(r) => now <= until[r] + Grace

\* No punch starts past the deadline: the window ends on a punch, not on a gap.
WindowEndsOnAPunch ==
    \A r \in Requests : punch[r] = "flight" => since[r] <= until[r]

=============================================================================
