------------------------------ MODULE DrmStream ------------------------------
(***************************************************************************)
(* One screen stream from the privileged display service to the server:    *)
(* the capture thread and the connection task of src/ipc/drm.rs, the       *)
(* receive thread and the encoder's frame() of src/server/drm_capturer.rs. *)
(*                                                                         *)
(* The capture thread grabs the screen every 33 ms and puts frames and     *)
(* changed cursor shapes into a channel of two messages.  The task takes   *)
(* them, keeps only the latest frame, and sends it if it has credit: two   *)
(* frames may be unacknowledged.  Without credit the latest frame is held  *)
(* and the capture thread is told not to grab.  The receive thread puts    *)
(* each frame into a slot of one and acknowledges it; the encoder takes    *)
(* from the slot.                                                          *)
(*                                                                         *)
(* Before each frame the task authorizes its peer again by the cached uid  *)
(* of the active session, which the service's loop (platform/linux.rs)     *)
(* writes about twice a second: until then the frames go on to a peer      *)
(* whose session is no longer the active one.                              *)
(*                                                                         *)
(* A frame is the number of the picture it shows, a cursor the number of   *)
(* the shape.  Frames with and without a dma-buf take the same path.  The  *)
(* peer is not root, which stays authorized whatever the session is.       *)
(***************************************************************************)
EXTENDS Naturals, Sequences, FiniteSets

CONSTANTS
  Credit,       \* DRM_FRAME_CREDIT
  ChanCap,      \* capacity of the channel (2)
  Stall,        \* CREDIT_STALL, in ticks
  MaxStalled,   \* MAX_STALLED, grabs without a frame
  MaxScene,     \* bound: pictures the screen shows
  MaxShape,     \* bound: cursor shapes
  MaxTopo,      \* bound: changes of the displays
  MaxMoves      \* bound: changes of the three together

StreamAssumption ==
  /\ Credit \in Nat \ {0} /\ ChanCap \in Nat \ {0}
  /\ Stall \in Nat /\ MaxStalled \in Nat /\ MaxTopo \in Nat /\ MaxMoves \in Nat
  /\ MaxScene \in Nat \ {0} /\ MaxShape \in Nat \ {0}

VARIABLES
  mayFail,  \* whether the device may fail, the consumer hang, the session change; no field of the code
  scene, shape, topo,   \* the screen, the cursor, DRM_DISPLAY_GENERATION
  active,               \* the active session of the seat is the peer's
  peerOk,               \* ACTIVE_USER_LOOKUP_CACHE holds the peer's uid
  worker,   \* capture thread: running; messages it has to send; last shape; stalled
  chan,     \* frame_tx/frame_rx
  gated,    \* frames_gated
  task,     \* connection task: pc, credit, age of no credit, latest, held, generation seen
  wire,     \* socket towards the consumer
  acks,     \* acknowledgements in the socket back
  cons,     \* receive thread: pc, pending cursor, shape shown, generation told, hung
  transform,\* new() has stored cursor_transform
  latest,   \* FrameSlot.latest
  cur,      \* what the encoder last got
  lateSent  \* frames sent since the cache holds another uid or none; no field of the code

outside == <<scene, shape, topo, active, peerOk>>
producer == <<worker, chan, gated, task>>
consumer == <<cons, transform, latest, cur>>
vars == <<mayFail, outside, producer, wire, acks, consumer, lateSent>>

None == 0
Frames(s) == Cardinality({i \in 1..Len(s) : s[i].k = "frame"})

TypeOK ==
  /\ scene \in 1..MaxScene /\ shape \in 1..MaxShape /\ topo \in 0..MaxTopo
  /\ mayFail \in BOOLEAN /\ active \in BOOLEAN /\ peerOk \in BOOLEAN
  /\ worker.pc \in {"run", "ended"} /\ worker.shape \in 0..MaxShape
  /\ worker.stalled \in 0..MaxStalled
  /\ Len(worker.out) <= 2 /\ Len(chan) <= ChanCap
  /\ gated \in BOOLEAN
  /\ task.pc \in {"top", "recv", "work", "send", "ended"}
  /\ task.credit \in 0..Credit /\ task.age \in 0..(Stall + 1)
  /\ task.latest \in 0..MaxScene /\ task.held \in 0..MaxScene /\ task.seen \in 0..MaxTopo
  /\ \A i \in DOMAIN wire : wire[i].k \in {"frame", "cursor", "displays"}
  /\ acks \in 0..Credit
  /\ cons.pc \in {"top", "recv", "ended"} /\ cons.hung \in BOOLEAN
  /\ cons.pending \in 0..MaxShape /\ cons.shown \in 0..MaxShape /\ cons.told \in 0..MaxTopo
  /\ transform \in BOOLEAN
  /\ latest \in 0..MaxScene /\ cur \in 0..MaxScene
  /\ lateSent \in Nat

\* After the handshake: the task has told the worker the CRTC, the receive
\* thread has reported the displays to new(), which stores the transform later.
Init ==
  /\ mayFail \in BOOLEAN
  /\ scene = 1 /\ shape = 1 /\ topo = 0 /\ active = TRUE /\ peerOk = TRUE
  /\ worker = [pc |-> "run", out |-> <<>>, shape |-> 0, stalled |-> 0]
  /\ chan = <<>> /\ gated = FALSE
  /\ task = [pc |-> "top", credit |-> Credit, age |-> 0, latest |-> None,
             held |-> None, seen |-> 0]
  /\ wire = <<>> /\ acks = 0
  /\ cons = [pc |-> "top", pending |-> 0, shown |-> 0, told |-> 0, hung |-> FALSE]
  /\ transform = FALSE /\ latest = None /\ cur = None
  /\ lateSent = 0

-----------------------------------------------------------------------------
(* The outside *)

More == (scene - 1) + (shape - 1) + topo < MaxMoves

\* The last one: another session of the seat becomes the active one, or the
\* peer's does again.
ScreenChanges ==
  /\ \/ scene < MaxScene /\ More /\ scene' = scene + 1 /\ UNCHANGED <<shape, topo, active>>
     \/ shape < MaxShape /\ More /\ shape' = shape + 1 /\ UNCHANGED <<scene, topo, active>>
     \/ topo < MaxTopo /\ More /\ topo' = topo + 1 /\ UNCHANGED <<scene, shape, active>>
     \/ mayFail /\ active' = ~active /\ UNCHANGED <<scene, shape, topo>>
  /\ UNCHANGED <<peerOk, producer, wire, acks, consumer, lateSent>>

\* One turn of the service's loop: the uid it reads, or none when it cannot tell.
update_active_user_lookup_cache ==
  /\ \/ peerOk' = active
     \/ mayFail /\ peerOk' = FALSE
  /\ lateSent' = IF peerOk' THEN 0 ELSE lateSent
  /\ UNCHANGED <<scene, shape, topo, active, producer, wire, acks, consumer>>

\* The receive thread stops reading without closing the socket.
Hangs ==
  /\ mayFail /\ cons.pc # "ended" /\ ~cons.hung
  /\ cons' = [cons EXCEPT !.hung = TRUE]
  /\ UNCHANGED <<outside, producer, wire, acks, transform, latest, cur, lateSent>>

\* Time passes for a task without credit.
Tick ==
  /\ task.pc # "ended" /\ task.credit = 0 /\ task.age <= Stall
  /\ task' = [task EXCEPT !.age = @ + 1]
  /\ UNCHANGED <<outside, worker, chan, gated, wire, acks, consumer, lateSent>>

-----------------------------------------------------------------------------
(* drm_capture_worker *)

\* One turn of the loop up to its sends: a frame unless gated, the cursor if
\* its shape changed.  Turns are 33 ms apart, so none ends while the task empties
\* the channel; the sends of the last one may.
Grab ==
  LET cursor == IF shape # worker.shape THEN <<[k |-> "cursor", n |-> shape]>> ELSE <<>>
      frame == IF gated THEN <<>> ELSE <<[k |-> "frame", n |-> scene]>>
  IN
  /\ worker.pc = "run" /\ worker.out = <<>> /\ task.pc \notin {"work", "ended"}
  /\ worker' = [worker EXCEPT !.out = frame \o cursor, !.shape = shape,
                  !.stalled = IF gated THEN @ ELSE 0]
  /\ UNCHANGED <<outside, chan, gated, task, wire, acks, consumer, lateSent>>

\* No frame (WouldBlock), MaxStalled times at most, or an error of the device.
GrabFails ==
  /\ mayFail
  /\ worker.pc = "run" /\ worker.out = <<>> /\ task.pc # "ended" /\ ~gated
  /\ \/ worker' = [worker EXCEPT !.pc = "ended"]
     \/ worker' = IF worker.stalled + 1 > MaxStalled THEN [worker EXCEPT !.pc = "ended"]
                  ELSE [worker EXCEPT !.stalled = @ + 1]
  /\ UNCHANGED <<outside, chan, gated, task, wire, acks, consumer, lateSent>>

\* blocking_send waits for room; it fails when the task has dropped frame_rx,
\* and the loop also ends on "stop", which the task's guard sets.
WorkerSends ==
  /\ worker.pc = "run"
  /\ \/ /\ task.pc # "ended" /\ worker.out # <<>> /\ Len(chan) < ChanCap
        /\ chan' = Append(chan, Head(worker.out))
        /\ worker' = [worker EXCEPT !.out = Tail(@)]
     \/ /\ task.pc = "ended"
        /\ worker' = [worker EXCEPT !.pc = "ended", !.out = <<>>]
        /\ UNCHANGED chan
  /\ UNCHANGED <<outside, gated, task, wire, acks, consumer, lateSent>>

-----------------------------------------------------------------------------
(* handle_drm_conn, the loop *)

\* drain_frame_acks; it fails when the consumer has closed the socket.
drain_frame_acks(c) == IF c + acks < Credit THEN c + acks ELSE Credit

TaskEnds ==
  /\ task' = [task EXCEPT !.pc = "ended", !.latest = None, !.held = None]
  /\ chan' = <<>>
  /\ gated' = gated

\* Top of the loop: acknowledgements, the watch on a silent consumer, the gate.
TaskTop ==
  LET c == drain_frame_acks(task.credit) IN
  /\ task.pc = "top"
  /\ acks' = 0
  /\ IF cons.pc = "ended" \/ (c = 0 /\ task.age > Stall)
     THEN TaskEnds
     ELSE /\ task' = [task EXCEPT !.pc = "recv", !.credit = c,
                        !.age = IF c > 0 THEN 0 ELSE @]
          /\ gated' = (c = 0)
          /\ UNCHANGED chan
  /\ UNCHANGED <<outside, worker, wire, consumer, lateSent>>

\* Mutant: the peer is not authorized again.
ProceedUnchecked ==
  /\ task' = [task EXCEPT !.pc = "work", !.latest = task.held, !.held = None, !.seen = topo]
  /\ wire' = IF topo # task.seen THEN Append(wire, [k |-> "displays", n |-> topo])
             ELSE wire
  /\ UNCHANGED <<chan, gated>>

\* After the wait: the peer is authorized again by the cached uid (none: not), the
\* displays are announced if they changed, and the held frame is taken up.
Proceed ==
  IF ~peerOk THEN TaskEnds /\ UNCHANGED wire
  ELSE /\ task' = [task EXCEPT !.pc = "work", !.latest = task.held, !.held = None,
                     !.seen = topo]
       /\ wire' = IF topo # task.seen THEN Append(wire, [k |-> "displays", n |-> topo])
                  ELSE wire
       /\ UNCHANGED <<chan, gated>>

\* The wait.  A frame in hand and credit: none.  No credit: until a message, an
\* acknowledgement or CREDIT_POLL.  Else until a message; the end of the worker
\* ends the two waits for a message.
TaskRecv ==
  /\ task.pc = "recv"
  /\ \/ /\ task.held # None /\ task.credit > 0
        /\ Proceed
     \/ /\ task.credit = 0
        /\ IF worker.pc = "ended" /\ chan = <<>> /\ acks = 0
           THEN TaskEnds /\ UNCHANGED wire
           ELSE Proceed
     \/ /\ task.credit > 0 /\ task.held = None
        /\ \/ chan # <<>> /\ Proceed
           \/ chan = <<>> /\ worker.pc = "ended" /\ TaskEnds /\ UNCHANGED wire
  /\ UNCHANGED <<outside, worker, acks, consumer, lateSent>>

\* The channel is emptied message by message, what the worker adds meanwhile
\* too: of the frames only the latest stays, a cursor goes out at once.
TaskTakes ==
  /\ task.pc = "work"
  /\ \/ /\ chan = <<>>
        /\ task' = [task EXCEPT !.pc = "send"]
        /\ UNCHANGED <<chan, wire>>
     \/ /\ chan # <<>> /\ Head(chan).k = "frame"
        /\ chan' = Tail(chan)
        /\ task' = [task EXCEPT !.latest = Head(chan).n]
        /\ UNCHANGED wire
     \/ /\ chan # <<>> /\ Head(chan).k = "cursor"
        /\ chan' = Tail(chan)
        /\ wire' = Append(wire, Head(chan))
        /\ UNCHANGED task
  /\ UNCHANGED <<outside, worker, gated, acks, consumer, lateSent>>

\* The latest frame is sent, or held for want of credit.
TaskSends ==
  LET c == drain_frame_acks(task.credit) IN
  /\ task.pc = "send"
  /\ acks' = 0
  /\ IF cons.pc = "ended" THEN TaskEnds /\ UNCHANGED <<wire, lateSent>>
     ELSE /\ UNCHANGED <<chan, gated>>
          /\ \/ /\ c = 0
                /\ task' = [task EXCEPT !.pc = "top", !.credit = c,
                              !.held = task.latest, !.latest = None]
                /\ UNCHANGED <<wire, lateSent>>
             \/ /\ c > 0 /\ task.latest # None
                /\ task' = [task EXCEPT !.pc = "top", !.credit = c - 1, !.latest = None]
                /\ wire' = Append(wire, [k |-> "frame", n |-> task.latest])
                /\ lateSent' = IF peerOk THEN lateSent ELSE lateSent + 1
             \/ /\ c > 0 /\ task.latest = None
                /\ task' = [task EXCEPT !.pc = "top", !.credit = c]
                /\ UNCHANGED <<wire, lateSent>>
  /\ UNCHANGED <<outside, worker, consumer>>

-----------------------------------------------------------------------------
(* recv_thread, new(), frame() *)

\* new() stores the output's transform.
StoreTransform ==
  /\ ~transform
  /\ transform' = TRUE
  /\ UNCHANGED <<outside, producer, wire, acks, cons, latest, cur, lateSent>>

\* Top of the loop: a cursor held back is shown once the transform is known.
RecvTop ==
  /\ cons.pc = "top" /\ ~cons.hung
  /\ cons' = IF cons.pending # 0 /\ transform
             THEN [cons EXCEPT !.pc = "recv", !.shown = cons.pending, !.pending = 0]
             ELSE [cons EXCEPT !.pc = "recv"]
  /\ UNCHANGED <<outside, producer, wire, acks, transform, latest, cur, lateSent>>

\* Mutant: a newer cursor leaves the one held back.
RecvMsgKeeps ==
  LET m == Head(wire) IN
  /\ cons.pc = "recv" /\ ~cons.hung
  /\ \/ /\ wire = <<>> /\ task.pc # "ended"
        /\ cons' = [cons EXCEPT !.pc = "top"]
        /\ UNCHANGED <<wire, acks, latest>>
     \/ /\ wire # <<>> /\ m.k = "frame"
        /\ wire' = Tail(wire)
        /\ latest' = m.n
        /\ acks' = acks + 1
        /\ cons' = [cons EXCEPT !.pc = IF task.pc = "ended" THEN "ended" ELSE "top"]
     \/ /\ wire # <<>> /\ m.k = "cursor"
        /\ wire' = Tail(wire)
        /\ cons' = IF transform THEN [cons EXCEPT !.pc = "top", !.shown = m.n]
                   ELSE [cons EXCEPT !.pc = "top", !.pending = m.n]
        /\ UNCHANGED <<acks, latest>>
     \/ /\ wire # <<>> /\ m.k = "displays"
        /\ wire' = Tail(wire)
        /\ cons' = [cons EXCEPT !.pc = "top", !.told = m.n]
        /\ UNCHANGED <<acks, latest>>
  /\ UNCHANGED <<outside, producer, transform, cur, lateSent>>

\* A message, or 200 ms without one.  A frame is published and acknowledged, a
\* cursor shown or held back, a list of displays handed on.
RecvMsg ==
  LET m == Head(wire) IN
  /\ cons.pc = "recv" /\ ~cons.hung
  /\ \/ /\ wire = <<>> /\ task.pc # "ended"
        /\ cons' = [cons EXCEPT !.pc = "top"]
        /\ UNCHANGED <<wire, acks, latest>>
     \/ /\ wire # <<>> /\ m.k = "frame"
        /\ wire' = Tail(wire)
        /\ latest' = m.n
        /\ acks' = acks + 1
        /\ cons' = [cons EXCEPT !.pc = IF task.pc = "ended" THEN "ended" ELSE "top"]
     \/ /\ wire # <<>> /\ m.k = "cursor"
        /\ wire' = Tail(wire)
        /\ cons' = IF transform THEN [cons EXCEPT !.pc = "top", !.shown = m.n, !.pending = 0]
                   ELSE [cons EXCEPT !.pc = "top", !.pending = m.n]
        /\ UNCHANGED <<acks, latest>>
     \/ /\ wire # <<>> /\ m.k = "displays"
        /\ wire' = Tail(wire)
        /\ cons' = [cons EXCEPT !.pc = "top", !.told = m.n]
        /\ UNCHANGED <<acks, latest>>
  /\ UNCHANGED <<outside, producer, transform, cur, lateSent>>

\* The socket is closed, or a frame cannot be converted.
RecvEnds ==
  /\ cons.pc = "recv" /\ ~cons.hung
  /\ \/ wire = <<>> /\ task.pc = "ended"
     \/ mayFail /\ wire # <<>> /\ Head(wire).k = "frame"
  /\ cons' = [cons EXCEPT !.pc = "ended"]
  /\ UNCHANGED <<outside, producer, wire, acks, transform, latest, cur, lateSent>>

\* frame(): the encoder takes what is in the slot.
frame ==
  /\ latest # None
  /\ cur' = latest /\ latest' = None
  /\ UNCHANGED <<outside, producer, wire, acks, cons, transform, lateSent>>

-----------------------------------------------------------------------------
Worker == Grab \/ GrabFails \/ WorkerSends
Task == TaskTop \/ TaskRecv \/ TaskTakes \/ TaskSends
Receiver == RecvTop \/ RecvMsg \/ RecvEnds

Next ==
  /\ UNCHANGED mayFail
  /\ \/ ScreenChanges \/ update_active_user_lookup_cache \/ Hangs \/ Tick
     \/ Worker \/ Task \/ StoreTransform \/ Receiver \/ frame

Spec == Init /\ [][Next]_vars

Running == task.pc # "ended" /\ cons.pc # "ended"

-----------------------------------------------------------------------------
\* drm_capturer.rs:784, "this bounds the socket to a couple of in-flight frames":
\* while both ends live no credit is lost or made up: what the task does not
\* have is a frame on the wire or an acknowledgement on its way back.
CreditKept == Running => task.credit + Frames(wire) + acks = Credit

\* ipc/drm.rs:1009: once the cache no longer holds the peer's uid, one frame may
\* pass between the check and the send, never two.  How long the cache lags behind
\* the session is not bounded here.
OneFrameLate == lateSent <= 1
==============================================================================
