------------------------------- MODULE MCDrm -------------------------------
(***************************************************************************)
(* DRM capture on Linux: the cached verdict (DrmProbe) with two callers    *)
(* that race, or one caller, the warm-up and a fault; and a screen stream  *)
(* (DrmStream) where everything may fail, or where nothing does and the    *)
(* screen, the cursor or the displays change.                              *)
(*                                                                         *)
(* A behaviour is of one scene, chosen at first; the other part rests.     *)
(***************************************************************************)
EXTENDS DrmProbe

CONSTANTS Credit, ChanCap, Stall, MaxStalled, MaxScene, MaxShape, MaxTopo, MaxMoves

VARIABLES
  chosen,
  scene, shape, topo, active, peerOk, worker, chan, gated, task, wire, acks, cons,
  transform, latest, cur, lateSent

stream ==
  <<scene, shape, topo, active, peerOk, worker, chan, gated, task, wire, acks, cons,
    transform, latest, cur, lateSent>>
all == <<chosen, vars, stream>>

Stream == INSTANCE DrmStream WITH mayFail <- (chosen = "failing")

ASSUME StreamFits == Stream!StreamAssumption

Probing == {"race", "asked"}
Streaming == {"failing", "steady"}

PartsInit ==
  /\ chosen \in Probing \cup Streaming
  /\ Init /\ Stream!Init
  /\ chosen \notin Probing => ~world.up /\ world.list = "none"

PartsNext ==
  \/ chosen = "race" /\ Next /\ UNCHANGED <<chosen, stream, faults, tries>>
  \/ chosen = "asked" /\ Next /\ thr'["c2"].pc = "idle" /\ UNCHANGED <<chosen, stream>>
  \/ chosen = "failing" /\ UNCHANGED <<chosen, vars, scene, shape, topo>> /\ Stream!Next
  \/ chosen = "steady" /\ UNCHANGED <<chosen, vars>> /\ Stream!Next

(* Display enumeration goes on asking, verdicts grow old, and a thread that
   has begun goes on: its waits are all bounded by timeouts.               *)
ProbeFairness ==
  LET on == chosen = "asked" IN
  /\ WF_vars(on /\ Expires)
  /\ WF_vars(on /\ swap_available_displays)
  /\ WF_vars(on /\ availability("c1"))
  /\ \A t \in {"c1", "warm", "login"} : WF_vars(on /\ Proceeds(t))
  /\ WF_vars(on /\ Writers)

(* Each thread, the task and the service's loop run; time passes. *)
StreamFairness ==
  LET on == chosen \in Streaming IN
  /\ WF_stream(on /\ Stream!Tick) /\ WF_stream(on /\ Stream!Worker)
  /\ WF_stream(on /\ Stream!Task) /\ WF_stream(on /\ Stream!Receiver)
  /\ WF_stream(on /\ Stream!update_active_user_lookup_cache)
  /\ WF_stream(on /\ Stream!StoreTransform) /\ WF_stream(on /\ Stream!frame)

PartsSpec == PartsInit /\ [][PartsNext]_all /\ ProbeFairness /\ StreamFairness

----------------------------------------------------------------------------
(* The stream is bounded: while both ends live, what the task of
   handle_drm_conn does not have of its credit is a frame on the wire or an
   acknowledgement on its way back ("this bounds the socket to a couple of
   in-flight frames"); and once the service's loop has cached that the active
   session is another one, or that it cannot tell, a frame may pass between the
   check and the send, never two.                                          *)
StreamInMeasure ==
  chosen \in Streaming => Stream!TypeOK /\ Stream!CreditKept /\ Stream!OneFrameLate

(* Once the display service is settled and shows displays, they end up
   advertised, whatever failed before; once it is gone for good, they end up
   not advertised (test a_dead_producer_stops_being_advertised).           *)
VerdictSettles ==
  /\ <>[](chosen = "asked" /\ world.up /\ world.list = "la") => <>[](st.list = "la")
  /\ <>[](chosen = "asked" /\ ~world.up) => <>[](st.k # "Available")

(* What the screen and the cursor show in the end is what the encoder and the
   peer get in the end, unless the stream was given up; and when one party
   ends, the consumer hangs (CREDIT_STALL) or the active session is another
   one for good, the capture thread and the task, who hold the device and the
   connection, end too.                                                    *)
StreamSettles ==
  LET ended == worker.pc = "ended" /\ task.pc = "ended" IN
  /\ <>[](chosen = "steady" /\ Stream!Running
            => cur = scene /\ cons.shown = shape /\ cons.told = topo)
  /\ []<>(\/ chosen # "failing" \/ ended
          \/ /\ active /\ worker.pc = "run" /\ task.pc # "ended"
             /\ cons.pc # "ended" /\ ~cons.hung)
============================================================================
