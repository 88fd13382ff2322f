------------------------------- MODULE DrmProbe -------------------------------
(***************************************************************************)
(* The cached verdict on DRM capture (src/server/drm_capturer.rs).         *)
(*                                                                         *)
(* DRM_STATE holds Unknown, Unavailable or Available with the list of      *)
(* displays, the last two with the time they were stamped.  The display    *)
(* service behind it (the producer, another process) comes and goes and    *)
(* its displays are plugged and unplugged; asking it takes seconds and is  *)
(* never done holding the lock.  The state is written by                   *)
(*   - a probe, from availability() or availability_cached() on Unknown;   *)
(*   - a refresh of a stale Available or a stale Unavailable;              *)
(*   - the refresh at a login, the warm-up at start, and the lists that a  *)
(*     capture stream is sent when the displays change.                    *)
(* The first two kinds hold DRM_PROBE_IN_FLIGHT while they ask.            *)
(*                                                                         *)
(* DRM_STATE_GEN is only ever compared with a sampled value: the model     *)
(* keeps, per thread, whether it advanced since the sample ("moved").      *)
(* "seen" dates what a verdict is based on: the number of changes of the   *)
(* producer at the time it was asked; the code has no such field.          *)
(***************************************************************************)
EXTENDS Naturals, Sequences, FiniteSets

CONSTANTS
  Callers,       \* threads that call availability() / availability_cached()
  Warm, Login,   \* the warm-up thread, a login's display refresh
  Lists,         \* the non-empty lists of displays
  NoDisplays,    \* the empty list
  ProbeMax,      \* DRM_PROBE_MAX_FAILURES
  RefreshMax,    \* DRM_REFRESH_MAX_FAILURES
  WarmTries,     \* turns of the warm-up loop (10)
  MaxChanges,    \* bound: changes of the producer
  MaxFaults      \* bound: queries that time out, threads that do not start

Threads == Callers \cup {Warm, Login}

ProbeAssumption ==
  /\ Warm \notin Callers /\ Login \notin Callers /\ Warm # Login
  /\ NoDisplays \notin Lists
  /\ ProbeMax \in Nat \ {0} /\ RefreshMax \in Nat \ {0} /\ WarmTries \in Nat
  /\ MaxChanges \in Nat /\ MaxFaults \in Nat

ASSUME ProbeFits == ProbeAssumption

VARIABLES
  world,      \* the producer: running or not, its displays, changes so far
  faults,     \* faults so far
  hotplug,    \* lists on their way to a capture stream
  st,         \* DRM_STATE
  inFlight,   \* DRM_PROBE_IN_FLIGHT
  probeFails, \* DRM_PROBE_FAILURES
  refreshFails, \* DRM_REFRESH_FAILURES
  thr,        \* what each thread is doing
  tries       \* turns the warm-up has left

env == <<world, faults, hotplug>>
vars == <<world, faults, hotplug, st, inFlight, probeFails, refreshFails, thr, tries>>

None == [ok |-> FALSE, list |-> NoDisplays, seen |-> 0]
Idle == [pc |-> "idle", job |-> "none", moved |-> FALSE, got |-> None]

TypeOK ==
  /\ world \in [up : BOOLEAN, list : Lists \cup {NoDisplays}, ver : 0..MaxChanges]
  /\ faults \in 0..MaxFaults
  /\ \A i \in DOMAIN hotplug : hotplug[i].list \in Lists \cup {NoDisplays}
  /\ st \in [k : {"Unknown", "Unavailable", "Available"}, list : Lists \cup {NoDisplays},
             fresh : BOOLEAN, seen : 0..MaxChanges]
  /\ st.k = "Available" <=> st.list # NoDisplays
  /\ inFlight \in BOOLEAN
  /\ probeFails \in 0..ProbeMax
  /\ refreshFails \in 0..(RefreshMax - 1)
  /\ thr \in [Threads -> [pc : {"idle", "want", "held", "query", "answer"},
                          job : {"none", "probe", "yes", "no", "login", "warm"},
                          moved : BOOLEAN,
                          got : [ok : BOOLEAN, list : Lists \cup {NoDisplays}, seen : 0..MaxChanges]]]
  /\ tries \in 0..WarmTries

Init ==
  /\ world \in [up : BOOLEAN, list : Lists \cup {NoDisplays}, ver : {0}]
  /\ faults = 0
  /\ hotplug = <<>>
  /\ st = [k |-> "Unknown", list |-> NoDisplays, fresh |-> FALSE, seen |-> 0]
  /\ inFlight = FALSE
  /\ probeFails = 0
  /\ refreshFails = 0
  /\ thr = [t \in Threads |-> Idle]
  /\ tries = WarmTries

-----------------------------------------------------------------------------
(* The outside *)

\* The producer starts, stops, or its displays change; a capture stream that
\* is open is sent the new list (recv_thread's DrmDisplaysChanged).
WorldChanges ==
  /\ world.ver < MaxChanges
  /\ \E w \in [up : BOOLEAN, list : Lists \cup {NoDisplays}, ver : {world.ver + 1}] :
       /\ <<w.up, w.list>> # <<world.up, world.list>>
       /\ world' = w
       /\ \/ hotplug' = hotplug
          \/ /\ w.up /\ world.up
             /\ hotplug' = Append(hotplug, [list |-> w.list, seen |-> w.ver])
  /\ UNCHANGED <<faults, st, inFlight, probeFails, refreshFails, thr, tries>>

\* The time to live of a verdict runs out: POSITIVE_TTL or NEGATIVE_TTL.
Expires ==
  /\ st.k # "Unknown" /\ st.fresh
  /\ st' = [st EXCEPT !.fresh = FALSE]
  /\ UNCHANGED <<env, inFlight, probeFails, refreshFails, thr, tries>>

-----------------------------------------------------------------------------
(* Publishing: a verdict with a new stamp, and the generation advances *)

Moved(f) == [t \in Threads |-> [f[t] EXCEPT !.moved = TRUE]]

publish_probe_state(k, list, seen, f) ==
  /\ st' = [k |-> k, list |-> list, fresh |-> k # "Unknown", seen |-> seen]
  /\ thr' = Moved(f)

\* Thread t is done; ProbeInFlightGuard is dropped with it.
Done(t) == [thr EXCEPT ![t] = Idle]

-----------------------------------------------------------------------------
(* availability, availability_cached: one look at the state, lock released *)

availability(t) ==
  /\ thr[t].pc = "idle"
  /\ \/ /\ st.k = "Unknown"
        /\ thr' = [thr EXCEPT ![t] = [Idle EXCEPT !.pc = "want", !.job = "probe"]]
     \/ /\ st.k = "Available" /\ ~st.fresh
        /\ thr' = [thr EXCEPT ![t] = [Idle EXCEPT !.pc = "want", !.job = "yes"]]
     \/ /\ st.k = "Unavailable" /\ ~st.fresh
        /\ thr' = [thr EXCEPT ![t] = [Idle EXCEPT !.pc = "want", !.job = "no"]]
  /\ UNCHANGED <<env, st, inFlight, probeFails, refreshFails, tries>>

\* DRM_PROBE_IN_FLIGHT.swap: whoever finds it set leaves it to the other.
TakeFlag(t) ==
  /\ t \in Callers /\ thr[t].pc = "want"
  /\ inFlight' = TRUE
  /\ thr' = IF inFlight THEN Done(t)
            ELSE [thr EXCEPT ![t].pc = IF thr[t].job = "probe" THEN "query" ELSE "held"]
  /\ UNCHANGED <<env, st, probeFails, refreshFails, tries>>

\* Mutant: leaving early keeps the flag.
SampleLeaks(t) ==
  /\ t \in Callers /\ thr[t].pc = "held"
  /\ UNCHANGED inFlight
  /\ thr' = IF \/ thr[t].job = "yes" /\ st.k = "Available"
               \/ thr[t].job = "no" /\ st.k = "Unavailable" /\ ~st.fresh
            THEN [thr EXCEPT ![t].pc = "query", ![t].moved = FALSE]
            ELSE Done(t)
  /\ UNCHANGED <<env, st, probeFails, refreshFails, tries>>

\* refresh_available_async, refresh_unavailable_async under the lock: the
\* verdict may be another one by now; if not, its generation is sampled.
Sample(t) ==
  /\ t \in Callers /\ thr[t].pc = "held"
  /\ IF \/ thr[t].job = "yes" /\ st.k = "Available"
        \/ thr[t].job = "no" /\ st.k = "Unavailable" /\ ~st.fresh
     THEN /\ thr' = [thr EXCEPT ![t].pc = "query", ![t].moved = FALSE]
          /\ UNCHANGED inFlight
     ELSE /\ thr' = Done(t)
          /\ inFlight' = FALSE
  /\ UNCHANGED <<env, st, probeFails, refreshFails, tries>>

\* Mutant: the flag is left up.
SpawnFailsLeaks(t) ==
  /\ t \in Callers /\ thr[t].pc = "query" /\ faults < MaxFaults
  /\ faults' = faults + 1
  /\ thr' = Done(t)
  /\ UNCHANGED <<world, hotplug, st, inFlight, probeFails, refreshFails, tries>>

\* The thread cannot be started: the guard moved into the closure that is
\* dropped, and the flag is released with it.
SpawnFails(t) ==
  /\ t \in Callers /\ thr[t].pc = "query" /\ faults < MaxFaults
  /\ faults' = faults + 1
  /\ thr' = Done(t)
  /\ inFlight' = FALSE
  /\ UNCHANGED <<world, hotplug, st, probeFails, refreshFails, tries>>

\* query_displays: the producer's list at some moment, or an error: it is
\* down, or slower than the timeouts.
query_displays(t) ==
  /\ thr[t].pc = "query"
  /\ \/ /\ world.up
        /\ thr' = [thr EXCEPT ![t].pc = "answer",
                     ![t].got = [ok |-> TRUE, list |-> world.list, seen |-> world.ver]]
        /\ UNCHANGED faults
     \/ /\ IF world.up THEN faults < MaxFaults /\ faults' = faults + 1
                       ELSE UNCHANGED faults
        /\ thr' = [thr EXCEPT ![t].pc = "answer",
                     ![t].got = [ok |-> FALSE, list |-> NoDisplays, seen |-> world.ver]]
  /\ UNCHANGED <<world, hotplug, st, inFlight, probeFails, refreshFails, tries>>

probe_and_publish(t) ==
  LET got == thr[t].got IN
  /\ thr[t].pc = "answer" /\ thr[t].job = "probe"
  /\ inFlight' = FALSE
  /\ \/ /\ got.ok /\ got.list # NoDisplays
        /\ probeFails' = 0
        /\ publish_probe_state("Available", got.list, got.seen, Done(t))
     \/ /\ got.ok /\ got.list = NoDisplays
        /\ publish_probe_state("Unavailable", NoDisplays, got.seen, Done(t))
        /\ UNCHANGED probeFails
     \/ /\ ~got.ok
        /\ probeFails' = IF probeFails < ProbeMax THEN probeFails + 1 ELSE ProbeMax
        /\ IF probeFails + 1 >= ProbeMax
           THEN publish_probe_state("Unavailable", NoDisplays, got.seen, Done(t))
           ELSE thr' = Done(t) /\ UNCHANGED st
  /\ UNCHANGED <<env, refreshFails, tries>>

refresh_unavailable_async(t) ==
  LET got == thr[t].got IN
  /\ thr[t].pc = "answer" /\ thr[t].job = "no"
  /\ inFlight' = FALSE
  /\ \/ /\ thr[t].moved
        /\ thr' = Done(t)
        /\ UNCHANGED <<st, probeFails>>
     \/ /\ ~thr[t].moved /\ got.ok /\ got.list # NoDisplays
        /\ probeFails' = 0
        /\ publish_probe_state("Available", got.list, got.seen, Done(t))
     \/ /\ ~thr[t].moved /\ ~(got.ok /\ got.list # NoDisplays)
        /\ publish_probe_state("Unavailable", NoDisplays, got.seen, Done(t))
        /\ UNCHANGED probeFails
  /\ UNCHANGED <<env, refreshFails, tries>>

\* refresh_outcome: what an answer does to a verdict of Available; "failures"
\* counts this failure too.
refresh_outcome(got, failures) ==
  CASE got.ok /\ got.list = NoDisplays -> "Unavailable"
    [] got.ok /\ got.list # NoDisplays -> "Publish"
    [] ~got.ok /\ failures >= RefreshMax -> "GiveUp"
    [] OTHER -> "Restamp"

refresh_available_async(t) ==
  LET got == thr[t].got
      failures == IF got.ok THEN 0 ELSE refreshFails + 1
      outcome == refresh_outcome(got, failures)
  IN
  /\ thr[t].pc = "answer" /\ thr[t].job = "yes"
  /\ inFlight' = FALSE
  /\ \/ /\ thr[t].moved
        /\ thr' = Done(t)
        /\ UNCHANGED <<st, refreshFails>>
     \/ /\ ~thr[t].moved
        /\ refreshFails' = IF outcome = "GiveUp" THEN 0 ELSE failures
        /\ \/ /\ outcome = "Publish"
              /\ publish_probe_state("Available", got.list, got.seen, Done(t))
           \/ /\ outcome = "Unavailable"
              /\ publish_probe_state("Unavailable", NoDisplays, got.seen, Done(t))
           \/ /\ outcome = "Restamp"
              /\ st' = [st EXCEPT !.fresh = TRUE]
              /\ thr' = Done(t)
           \/ /\ outcome = "GiveUp"
              /\ publish_probe_state("Unknown", NoDisplays, got.seen, Done(t))
  /\ UNCHANGED <<env, probeFails, tries>>

-----------------------------------------------------------------------------
(* The writers that do not hold the flag *)

\* refresh_displays_for_login up to its query.
LoginStarts ==
  /\ thr[Login].pc = "idle" /\ st.k = "Available"
  /\ thr' = [thr EXCEPT ![Login] = [Idle EXCEPT !.pc = "query", !.job = "login"]]
  /\ UNCHANGED <<env, st, inFlight, probeFails, refreshFails, tries>>

refresh_displays_for_login ==
  LET got == thr[Login].got IN
  /\ thr[Login].pc = "answer"
  /\ IF /\ got.ok /\ got.list # NoDisplays
        /\ ~thr[Login].moved /\ st.k = "Available"
     THEN publish_probe_state("Available", got.list, got.seen, Done(Login))
     ELSE thr' = Done(Login) /\ UNCHANGED st
  /\ UNCHANGED <<env, inFlight, probeFails, refreshFails, tries>>

\* One turn of warm_availability: wasted while the session looks like X11,
\* the last one when the state is Available already, else a query.
WarmTurn ==
  /\ thr[Warm].pc = "idle" /\ tries > 0
  /\ \/ /\ tries' = tries - 1
        /\ UNCHANGED thr
     \/ /\ st.k = "Available"
        /\ tries' = 0
        /\ UNCHANGED thr
     \/ /\ st.k # "Available"
        /\ tries' = tries - 1
        /\ thr' = [thr EXCEPT ![Warm] = [Idle EXCEPT !.pc = "query", !.job = "warm"]]
  /\ UNCHANGED <<env, st, inFlight, probeFails, refreshFails>>

warm_availability ==
  LET got == thr[Warm].got IN
  /\ thr[Warm].pc = "answer"
  /\ IF got.ok /\ got.list # NoDisplays
     THEN /\ publish_probe_state("Available", got.list, got.seen, Done(Warm))
          /\ tries' = 0
     ELSE /\ thr' = Done(Warm)
          /\ UNCHANGED <<st, tries>>
  /\ UNCHANGED <<env, inFlight, probeFails, refreshFails>>

\* A list of a capture stream arrives; it only ever replaces an Available one.
swap_available_displays ==
  /\ hotplug # <<>>
  /\ hotplug' = Tail(hotplug)
  /\ IF st.k # "Available" THEN UNCHANGED <<st, thr>>
     ELSE LET m == Head(hotplug) IN
          publish_probe_state(IF m.list = NoDisplays THEN "Unavailable" ELSE "Available",
                              m.list, m.seen, thr)
  /\ UNCHANGED <<world, faults, inFlight, probeFails, refreshFails, tries>>

-----------------------------------------------------------------------------
\* The steps of a thread that has begun
Proceeds(t) ==
  \/ TakeFlag(t) \/ Sample(t) \/ query_displays(t)
  \/ probe_and_publish(t) \/ refresh_unavailable_async(t) \/ refresh_available_async(t)

Writers == refresh_displays_for_login \/ warm_availability

Next ==
  \/ WorldChanges \/ Expires \/ swap_available_displays
  \/ \E t \in Callers : availability(t) \/ SpawnFails(t)
  \/ \E t \in Threads : Proceeds(t)
  \/ LoginStarts \/ refresh_displays_for_login
  \/ WarmTurn \/ warm_availability

Spec == Init /\ [][Next]_vars

-----------------------------------------------------------------------------
\* drm_capturer.rs:1570 and 1584: the flag is up while exactly one of the
\* threads that go through it asks, and down when none does, however they end
\* (a flag left up would wedge every later probe).
SingleFlight ==
  LET holders == {t \in Callers : thr[t].pc \in {"held", "query", "answer"}}
  IN  Cardinality(holders) = IF inFlight THEN 1 ELSE 0

\* drm_capturer.rs:1573: a refresh that was slow, or the job of a login, does not
\* put an older answer over a newer one, whoever wrote the newer one meanwhile.
\* A probe and the warm-up write what they were told without looking.
NewerStays ==
  (\E t \in Threads : /\ thr[t].pc = "answer" /\ thr'[t].pc = "idle"
                       /\ thr[t].job \in {"yes", "no", "login"})
  => st'.seen >= st.seen

\* DRM_PROBE_IN_FLIGHT is up while exactly one of the threads that go through
\* it asks, however they end, and a slow refresh, or the job of a login, never puts
\* an older answer over a newer one (DRM_STATE_GEN), whoever wrote the newer one;
\* of probes and the warm-up, which do not look, this is not said.
VerdictInOrder == [][TypeOK' /\ SingleFlight' /\ NewerStays]_vars
=============================================================================
