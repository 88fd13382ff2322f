-------------------------------- MODULE PfMux --------------------------------
(***************************************************************************)
(* One multiplexed port-forward tunnel, both of its sides: the controller  *)
(* "ctl" (src/src/port_forward_mux.rs, TunnelHandle and tunnel_loop) and   *)
(* the controlled side "tgt" (src/src/server/port_forward_mux.rs,          *)
(* PortForwardMux).  Every channel is a task at each side that runs two    *)
(* relays, `up` from its socket to the tunnel and `down` from the tunnel   *)
(* to its socket, under the flow control of PfWindow.  A side's loop is    *)
(* the only one to touch the stream.                                       *)
(*                                                                         *)
(* Bytes are abstracted to frames that carry a length and their number in  *)
(* the direction's stream.  Channel ids are handed out once: the i32       *)
(* counter of the code comes round after 2^32 channels of one tunnel.      *)
(***************************************************************************)
EXTENDS PfWindow, Sequences, SequencesExt, FiniteSets

CONSTANTS
  MAX_CHANNELS,      \* channels a side admits
  DATA_QUEUE_FRAMES, \* capacity of the controller's data queue
  MaxId,             \* bound: channels opened in the tunnel's life
  MaxFrames,         \* bound: data frames an endpoint sends
  Lens,              \* bound: lengths a read can return
  Talkers,           \* bound: sides whose sockets produce data
  Breakers,          \* bound: sides whose loop may end of itself
  Enders             \* bound: sides whose sockets may end or fail

MuxAssumption ==
  /\ MAX_CHANNELS \in Nat \ {0} /\ DATA_QUEUE_FRAMES \in Nat \ {0}
  /\ MaxId \in Nat \ {0} /\ MaxFrames \in Nat
  /\ Lens \subseteq 1..MAX_FRAME /\ Talkers \subseteq {"ctl", "tgt"}
  /\ Breakers \subseteq {"ctl", "tgt"} /\ Enders \subseteq {"ctl", "tgt"}

VARIABLES
  ep,      \* ep[s][c]: channel c's task at side s, with its credit and window
  entries, \* entries[s]: keys of the side's channel map
  dataQ,   \* dataQ[s]: FrameSink's ordered queue
  ctrlQ,   \* the controller's control queue
  wire,    \* wire[s]: frames on the stream from side s to the other
  tunnel   \* tunnel[s]: how far the side's loop has ended

vars == <<ep, entries, dataQ, ctrlQ, wire, tunnel>>

Sides == {"ctl", "tgt"}
Channels == 1..MaxId
Peer(s) == IF s = "ctl" THEN "tgt" ELSE "ctl"

(* A PortForwardChannel frame.  `len` is also the amount of an update. *)
Frame(kind, c, len, seq) == [kind |-> kind, c |-> c, len |-> len, seq |-> seq]

Violation(c) == Frame("violation", c, 0, 0)

(* A channel's task and what it shares with its map entry.  `down` # "ended"
   says that the receiver of `inbound` is alive.  `sent` and `written` number
   the data frames, `overran` remembers a frame found over the window.     *)
NoTask ==
  [phase |-> "none", cancel |-> FALSE,
   up |-> "idle", upEnd |-> "none", allow |-> 0, frame |-> <<>>,
   down |-> "idle", downEnd |-> "none", chunk |-> <<>>, pend |-> <<>>,
   inbound |-> <<>>, credit |-> 0, remaining |-> 0, drained |-> 0,
   granted |-> FALSE, opened |-> FALSE,
   sent |-> 0, written |-> 0, overran |-> FALSE]

NewTask(phase, initial, window) ==
  [NoTask EXCEPT !.phase = phase, !.credit = new_credit(initial),
                 !.remaining = effective_window(window)]

Init ==
  /\ ep = [s \in Sides |-> [c \in Channels |-> NoTask]]
  /\ entries = [s \in Sides |-> {}]
  /\ dataQ = [s \in Sides |-> <<>>]
  /\ ctrlQ = <<>>
  /\ wire = [s \in Sides |-> <<>>]
  /\ tunnel = [s \in Sides |-> "up"]

----------------------------------------------------------------------------
(* FrameSink.  The controlled side's is the connection's unbounded `tx`. *)
Gone(s) == tunnel[s] = "gone"

Room(s) == s = "tgt" \/ Len(dataQ[s]) < DATA_QUEUE_FRAMES

send_ordered(s, m) == dataQ' = [dataQ EXCEPT ![s] = Append(@, m)]

send_control(s, m) ==
  IF s = "ctl" THEN ctrlQ' = Append(ctrlQ, m) /\ UNCHANGED dataQ
               ELSE send_ordered(s, m) /\ UNCHANGED ctrlQ

(* An ordered send that waits for room, or finds the writer gone. *)
SendOrFail(s, m) ==
  IF Gone(s) THEN UNCHANGED dataQ ELSE Room(s) /\ send_ordered(s, m)

RxOpen(s, c) == ep[s][c].down # "ended"

Relaying(t) == [t EXCEPT !.phase = "relay", !.up = "take", !.down = "recv"]

EndUp(t, why) == [t EXCEPT !.up = "ended", !.upEnd = why, !.allow = 0, !.frame = <<>>]

EndDown(t, why) ==
  [t EXCEPT !.down = "ended", !.downEnd = why,
            !.chunk = <<>>, !.pend = <<>>, !.inbound = <<>>]

----------------------------------------------------------------------------
(* relay_socket_to_tunnel *)

UpTake(s, c) ==
  /\ ep[s][c].up = "take" /\ ep[s][c].credit >= MIN_FRAME_CHARGE
  /\ ep' = [ep EXCEPT ![s][c].up = "read",
                      ![s][c].allow = taken(ep[s][c].credit),
                      ![s][c].credit = @ - taken(@)]
  /\ UNCHANGED <<entries, dataQ, ctrlQ, wire, tunnel>>

UpReadNoRefund(s, c, got) ==
  LET t == ep[s][c] IN
  /\ t.up = "read" /\ got <= t.allow
  /\ s \in Talkers /\ t.sent < MaxFrames
  /\ ep' = [ep EXCEPT ![s][c] =
       [t EXCEPT !.up = "send", !.allow = 0, !.sent = t.sent + 1,
                 !.frame = <<Frame("data", c, got, t.sent + 1)>>]]
  /\ UNCHANGED <<entries, dataQ, ctrlQ, wire, tunnel>>

UpRead(s, c, got) ==
  LET t == ep[s][c] IN
  /\ t.up = "read" /\ got <= t.allow
  /\ s \in Talkers /\ t.sent < MaxFrames
  /\ ep' = [ep EXCEPT ![s][c] =
       [t EXCEPT !.up = "send", !.allow = 0, !.sent = t.sent + 1,
                 !.credit = add_credit(t.credit, refund(t.allow, got)),
                 !.frame = <<Frame("data", c, got, t.sent + 1)>>]]
  /\ UNCHANGED <<entries, dataQ, ctrlQ, wire, tunnel>>

UpEof(s, c) ==
  LET t == ep[s][c] IN
  /\ t.up = "read" /\ s \in Enders
  /\ ep' = [ep EXCEPT ![s][c] =
       EndUp([t EXCEPT !.credit = add_credit(@, refund(t.allow, 0))], "LocalEof")]
  /\ UNCHANGED <<entries, dataQ, ctrlQ, wire, tunnel>>

(* The send is outside the select: a cancel does not reach it. *)
UpSend(s, c) ==
  LET t == ep[s][c] IN
  /\ t.up = "send"
  /\ SendOrFail(s, Head(t.frame))
  /\ ep' = [ep EXCEPT ![s][c] = IF Gone(s) THEN EndUp(t, "TunnelGone")
                                ELSE [t EXCEPT !.up = "take", !.frame = <<>>]]
  /\ UNCHANGED <<entries, ctrlQ, wire, tunnel>>

UpCancel(s, c) ==
  LET t == ep[s][c] IN
  /\ t.cancel /\ t.up \in {"take", "read"}
  /\ ep' = [ep EXCEPT ![s][c] =
       EndUp([t EXCEPT !.credit = add_credit(@, t.allow)], "Cancelled")]
  /\ UNCHANGED <<entries, dataQ, ctrlQ, wire, tunnel>>

----------------------------------------------------------------------------
(* relay_tunnel_to_socket *)

Received(t, m) ==
  CASE m.kind = "data"      -> [t EXCEPT !.down = "write", !.chunk = <<m>>]
    [] m.kind = "close"     -> EndDown(t, "PeerClosed")
    [] m.kind = "violation" -> EndDown(t, "Violation")

DownNextQueueFirst(s, c) ==
  LET t == ep[s][c] IN
  /\ t.down = "recv"
  /\ \/ /\ t.inbound # <<>>
        /\ ep' = [ep EXCEPT ![s][c] =
             Received([t EXCEPT !.inbound = Tail(@)], Head(t.inbound))]
     \/ /\ t.inbound = <<>> /\ t.pend # <<>>
        /\ ep' = [ep EXCEPT ![s][c] =
             Received([t EXCEPT !.pend = Tail(@)], Head(t.pend))]
  /\ UNCHANGED <<entries, dataQ, ctrlQ, wire, tunnel>>

(* What was buffered while connecting goes before the queue. *)
DownNext(s, c) ==
  LET t == ep[s][c] IN
  /\ t.down = "recv"
  /\ \/ /\ t.pend # <<>>
        /\ ep' = [ep EXCEPT ![s][c] =
             Received([t EXCEPT !.pend = Tail(@)], Head(t.pend))]
     \/ /\ t.pend = <<>> /\ t.inbound # <<>>
        /\ ep' = [ep EXCEPT ![s][c] =
             Received([t EXCEPT !.inbound = Tail(@)], Head(t.inbound))]
  /\ UNCHANGED <<entries, dataQ, ctrlQ, wire, tunnel>>

(* `recv` gives None: the map entry, with the only sender, is gone. *)
DownGone(s, c) ==
  LET t == ep[s][c] IN
  /\ t.down = "recv" /\ t.pend = <<>> /\ t.inbound = <<>>
  /\ c \notin entries[s]
  /\ ep' = [ep EXCEPT ![s][c] = EndDown(t, "TunnelGone")]
  /\ UNCHANGED <<entries, dataQ, ctrlQ, wire, tunnel>>

(* The chunk is on the socket; enough of them make a window_update. *)
DownWrite(s, c) ==
  LET t   == ep[s][c]
      len == Head(t.chunk).len
      add == drained_update(t.drained, len)
      t2  == [t EXCEPT !.down = "recv", !.chunk = <<>>,
                       !.written = Head(t.chunk).seq,
                       !.drained = drained_left(@, len),
                       !.remaining = saturating_add(@, add)]
  IN
  /\ t.down = "write"
  /\ ep' = [ep EXCEPT ![s][c] =
       IF add > 0 /\ Gone(s) THEN EndDown(t2, "TunnelGone") ELSE t2]
  /\ IF add > 0 /\ ~Gone(s) THEN send_control(s, Frame("update", c, add, 0))
                            ELSE UNCHANGED <<dataQ, ctrlQ>>
  /\ UNCHANGED <<entries, wire, tunnel>>

DownWriteFails(s, c) ==
  /\ ep[s][c].down = "write" /\ s \in Enders
  /\ ep' = [ep EXCEPT ![s][c] = EndDown(@, "LocalEof")]
  /\ UNCHANGED <<entries, dataQ, ctrlQ, wire, tunnel>>

DownCancel(s, c) ==
  LET t == ep[s][c] IN
  /\ t.cancel
  /\ t.down = "write" \/ (t.down = "recv" /\ t.pend = <<>>)
  /\ ep' = [ep EXCEPT ![s][c] = EndDown(t, "Cancelled")]
  /\ UNCHANGED <<entries, dataQ, ctrlQ, wire, tunnel>>

----------------------------------------------------------------------------
(* run_channel *)

(* `teardown` is a level: a channel started after it was raised sees it. *)
Teardown(s) == tunnel[s] \in {"torn", "gone"}

CancelNoTeardown(s, c) ==
  LET t == ep[s][c] IN
  /\ t.phase = "relay" /\ ~t.cancel
  /\ t.up = "ended" \/ t.down = "ended"
  /\ ep' = [ep EXCEPT ![s][c].cancel = TRUE]
  /\ UNCHANGED <<entries, dataQ, ctrlQ, wire, tunnel>>

Cancel(s, c) ==
  LET t == ep[s][c] IN
  /\ t.phase = "relay" /\ ~t.cancel
  /\ t.up = "ended" \/ t.down = "ended" \/ Teardown(s)
  /\ ep' = [ep EXCEPT ![s][c].cancel = TRUE]
  /\ UNCHANGED <<entries, dataQ, ctrlQ, wire, tunnel>>

(* Both halves have been joined: is the peer to be told? *)
Closes(t) ==
  LET ends == {t.upEnd, t.downEnd} IN
  /\ "PeerClosed" \notin ends /\ "TunnelGone" \notin ends
  /\ ends \cap {"LocalEof", "Violation"} # {}

Finish(s, c) ==
  LET t == ep[s][c] IN
  /\ t.phase = "relay" /\ t.cancel /\ t.up = "ended" /\ t.down = "ended"
  /\ ep' = [ep EXCEPT ![s][c].phase = IF Closes(t) THEN "closing" ELSE "leaving"]
  /\ UNCHANGED <<entries, dataQ, ctrlQ, wire, tunnel>>

SendClose(s, c) ==
  /\ ep[s][c].phase = "closing"
  /\ SendOrFail(s, Frame("close", c, 0, 0))
  /\ ep' = [ep EXCEPT ![s][c].phase = "leaving"]
  /\ UNCHANGED <<entries, ctrlQ, wire, tunnel>>

(* The task returns.  At the controller it takes its entry along; at the
   controlled side the entry stays, with a dead receiver.                  *)
Exit(s, c) ==
  /\ ep[s][c].phase = "leaving"
  /\ ep' = [ep EXCEPT ![s][c] =
       [EndDown(@, @.downEnd) EXCEPT !.phase = "done", !.up = "ended"]]
  /\ entries' = IF s = "ctl" THEN [entries EXCEPT ![s] = @ \ {c}] ELSE entries
  /\ UNCHANGED <<dataQ, ctrlQ, wire, tunnel>>

----------------------------------------------------------------------------
(* TunnelHandle::open, and the head of the task it spawns. *)

Open(c) ==
  /\ ~Gone("ctl")
  /\ Cardinality(entries["ctl"]) < MAX_CHANNELS
  /\ ep["ctl"][c] = NoTask
  /\ \A d \in 1..(c - 1) : ep["ctl"][d] # NoTask
  /\ ep' = [ep EXCEPT !["ctl"][c] = NewTask("opening", INITIAL_WINDOW, CHANNEL_WINDOW)]
  /\ entries' = [entries EXCEPT !["ctl"] = @ \cup {c}]
  /\ UNCHANGED <<dataQ, ctrlQ, wire, tunnel>>

SendOpen(c) ==
  /\ ep["ctl"][c].phase = "opening"
  /\ SendOrFail("ctl", Frame("open", c, CHANNEL_WINDOW, 0))
  /\ ep' = [ep EXCEPT !["ctl"][c] =
       IF Gone("ctl") THEN [@ EXCEPT !.phase = "leaving"] ELSE Relaying(@)]
  /\ UNCHANGED <<entries, ctrlQ, wire, tunnel>>

----------------------------------------------------------------------------
(* run_controlled_channel *)

IsData(m, c) == m.kind = "data" /\ m.c = c

(* The sums of the first 0, 1, ... numbers of a sequence, and of all. *)
Sums(w) ==
  LET sum[n \in 0..Len(w)] == IF n = 0 THEN 0 ELSE sum[n - 1] + w[n]
  IN  sum

Total(w) == Sums(w)[Len(w)]

(* What the data frames of channel c among these are charged. *)
Charges(c, frames) ==
  Total([i \in DOMAIN frames |-> IF IsData(frames[i], c) THEN charge(frames[i].len) ELSE 0])

(* A command on the inbound queue while the connect is under way. *)
ConnectingRecv(c) ==
  LET t  == ep["tgt"][c]
      m  == Head(t.inbound)
      t2 == [t EXCEPT !.inbound = Tail(@)]
  IN
  /\ t.phase = "connecting" /\ t.inbound # <<>>
  /\ ep' = [ep EXCEPT !["tgt"][c] =
       CASE m.kind = "data" /\ pending_fits(Charges(c, t.pend), m.len)
              -> [t2 EXCEPT !.pend = Append(@, m)]
         [] m.kind = "data" /\ ~pending_fits(Charges(c, t.pend), m.len)
              -> [t2 EXCEPT !.phase = "closing", !.overran = TRUE]
         [] m.kind = "close" -> [t2 EXCEPT !.phase = "leaving"]
         [] m.kind = "violation" -> [t2 EXCEPT !.phase = "closing"]]
  /\ UNCHANGED <<entries, dataQ, ctrlQ, wire, tunnel>>

ConnectingGone(c) ==
  /\ ep["tgt"][c].phase = "connecting" /\ ep["tgt"][c].inbound = <<>>
  /\ c \notin entries["tgt"]
  /\ ep' = [ep EXCEPT !["tgt"][c].phase = "leaving"]
  /\ UNCHANGED <<entries, dataQ, ctrlQ, wire, tunnel>>

(* The connect arm is polled only when the inbound queue has nothing. *)
ConnectArm(c) ==
  /\ ep["tgt"][c].phase = "connecting" /\ ep["tgt"][c].inbound = <<>>
  /\ c \in entries["tgt"]

ConnectedNoGrant(c) ==
  /\ ConnectArm(c)
  /\ ep' = [ep EXCEPT !["tgt"][c].phase = "granted", !["tgt"][c].granted = TRUE]
  /\ UNCHANGED <<entries, dataQ, ctrlQ, wire, tunnel>>

Connected(c) ==
  /\ ConnectArm(c)
  /\ ep' = [ep EXCEPT !["tgt"][c].phase = "granted", !["tgt"][c].granted = TRUE,
       !["tgt"][c].remaining = saturating_add(@, CHANNEL_WINDOW - INITIAL_WINDOW)]
  /\ UNCHANGED <<entries, dataQ, ctrlQ, wire, tunnel>>

ConnectFails(c) ==
  /\ ConnectArm(c) /\ "tgt" \in Enders
  /\ SendOrFail("tgt", Frame("refused", c, 0, 0))
  /\ ep' = [ep EXCEPT !["tgt"][c].phase = "leaving"]
  /\ UNCHANGED <<entries, ctrlQ, wire, tunnel>>

SendOpened(c) ==
  /\ ep["tgt"][c].phase = "granted"
  /\ SendOrFail("tgt", Frame("opened", c, CHANNEL_WINDOW, 0))
  /\ ep' = [ep EXCEPT !["tgt"][c] =
       IF Gone("tgt") THEN [@ EXCEPT !.phase = "leaving"] ELSE Relaying(@)]
  /\ UNCHANGED <<entries, ctrlQ, wire, tunnel>>

----------------------------------------------------------------------------
(* The loops.  Each takes one thing at a time: a queued frame to the stream
   or a frame from it to the demultiplexer.                                *)

(* What is written once the other side has left reaches nobody. *)
Transmit(s, m) ==
  wire' = IF Gone(Peer(s)) THEN wire ELSE [wire EXCEPT ![s] = Append(@, m)]

LoopData(s) ==
  /\ tunnel[s] = "up" /\ dataQ[s] # <<>>
  /\ Transmit(s, Head(dataQ[s]))
  /\ dataQ' = [dataQ EXCEPT ![s] = Tail(@)]
  /\ UNCHANGED <<ep, entries, ctrlQ, tunnel>>

LoopControl ==
  /\ tunnel["ctl"] = "up" /\ ctrlQ # <<>>
  /\ Transmit("ctl", Head(ctrlQ))
  /\ ctrlQ' = Tail(ctrlQ)
  /\ UNCHANGED <<ep, entries, dataQ, tunnel>>

(* Side s reads frame m, of this kind, from the stream. *)
Reads(s, m, kind) ==
  /\ tunnel[s] = "up" /\ wire[Peer(s)] # <<>>
  /\ m = Head(wire[Peer(s)]) /\ m.kind = kind
  /\ wire' = [wire EXCEPT ![Peer(s)] = Tail(@)]

(* Forget the channel and leave its task a last command, if it listens. *)
DropEntry(s, c, m) ==
  /\ entries' = [entries EXCEPT ![s] = @ \ {c}]
  /\ ep' = IF c \in entries[s] /\ RxOpen(s, c)
           THEN [ep EXCEPT ![s][c].inbound = Append(@, m)] ELSE ep

OnDataWaiting(s) == \E m \in Range(wire[Peer(s)]) :
  /\ Reads(s, m, "data")
  /\ ep[s][m.c].inbound = <<>> /\ ep[s][m.c].chunk = <<>>
  /\ ep' = [ep EXCEPT ![s][m.c].remaining = @ - charge(m.len),
                      ![s][m.c].inbound = Append(@, m)]
  /\ UNCHANGED <<entries, dataQ, ctrlQ, tunnel>>

OnData(s) == \E m \in Range(wire[Peer(s)]) :
  LET c == m.c
      accepted == accepts(ep[s][c].remaining, m.len)
  IN
  /\ Reads(s, m, "data")
  /\ IF c \notin entries[s] THEN UNCHANGED <<ep, entries>>
     ELSE IF accepted /\ RxOpen(s, c)
     THEN /\ ep' = [ep EXCEPT ![s][c].remaining = @ - charge(m.len),
                              ![s][c].inbound = Append(@, m)]
          /\ UNCHANGED entries
     ELSE IF accepted
     THEN /\ ep' = [ep EXCEPT ![s][c].remaining = @ - charge(m.len)]
          /\ entries' = [entries EXCEPT ![s] = @ \ {c}]
     ELSE /\ ep' = [ep EXCEPT ![s][c].overran = TRUE,
                ![s][c].inbound = IF RxOpen(s, c) THEN Append(@, Violation(c)) ELSE @]
          /\ entries' = [entries EXCEPT ![s] = @ \ {c}]
  /\ UNCHANGED <<dataQ, ctrlQ, tunnel>>

OnClose(s) == \E m \in Range(wire[Peer(s)]) :
  /\ Reads(s, m, "close")
  /\ DropEntry(s, m.c, m)
  /\ UNCHANGED <<dataQ, ctrlQ, tunnel>>

OnWindowUpdate(s) == \E m \in Range(wire[Peer(s)]) :
  /\ Reads(s, m, "update")
  /\ ep' = IF m.c \in entries[s]
           THEN [ep EXCEPT ![s][m.c].credit = add_credit(@, m.len)] ELSE ep
  /\ UNCHANGED <<entries, dataQ, ctrlQ, tunnel>>

(* Controller: `opened`, acted upon once, and its refusal. *)
OnOpened == \E m \in Range(wire["tgt"]) :
  /\ Reads("ctl", m, "opened")
  /\ ep' = IF m.c \in entries["ctl"] /\ ~ep["ctl"][m.c].opened
           THEN [ep EXCEPT !["ctl"][m.c].opened = TRUE,
                           !["ctl"][m.c].credit = add_credit(@, raised(m.len))]
           ELSE ep
  /\ UNCHANGED <<entries, dataQ, ctrlQ, tunnel>>

OnRefused == \E m \in Range(wire["tgt"]) :
  /\ Reads("ctl", m, "refused")
  /\ DropEntry("ctl", m.c, Frame("close", m.c, 0, 0))
  /\ UNCHANGED <<dataQ, ctrlQ, tunnel>>

(* Controlled side: `permitted` stands for the permission and for the match
   with the login's target.                                                *)
OnOpen(permitted) == \E m \in Range(wire["ctl"]) :
  LET c == m.c
      live == {d \in entries["tgt"] : RxOpen("tgt", d)}
      admit == permitted /\ Cardinality(live) < MAX_CHANNELS
  IN
  /\ Reads("tgt", m, "open")
  /\ IF admit /\ c \in live
     THEN entries' = [entries EXCEPT !["tgt"] = live] /\ UNCHANGED <<ep, dataQ>>
     ELSE IF admit
     THEN /\ entries' = [entries EXCEPT !["tgt"] = live \cup {c}]
          /\ ep' = [ep EXCEPT !["tgt"][c] =
                      NewTask("connecting", effective_window(m.len), INITIAL_WINDOW)]
          /\ UNCHANGED dataQ
     ELSE /\ entries' = [entries EXCEPT !["tgt"] = live]
          /\ send_ordered("tgt", Frame("refused", c, 0, 0))
          /\ ep' = [ep EXCEPT !["tgt"][c].phase = "done", !["tgt"][c].down = "ended"]
  /\ UNCHANGED <<ctrlQ, tunnel>>

(* The loop breaks: a timeout, an error on the stream, a close reason or the
   listener's end.  close_all then clears the map and raises the teardown,
   and the loop's return drops its ends of the queues.                     *)
LoopBreaks(s) ==
  /\ tunnel[s] = "up"
  /\ s \in Breakers \/ Gone(Peer(s))
  /\ tunnel' = [tunnel EXCEPT ![s] = "cleared"]
  /\ entries' = [entries EXCEPT ![s] = {}]
  /\ UNCHANGED <<ep, dataQ, ctrlQ, wire>>

RaiseTeardown(s) ==
  /\ tunnel[s] = "cleared"
  /\ tunnel' = [tunnel EXCEPT ![s] = "torn"]
  /\ UNCHANGED <<ep, entries, dataQ, ctrlQ, wire>>

LoopReturns(s) ==
  /\ tunnel[s] = "torn"
  /\ tunnel' = [tunnel EXCEPT ![s] = "gone"]
  /\ dataQ' = [dataQ EXCEPT ![s] = <<>>]
  /\ ctrlQ' = IF s = "ctl" THEN <<>> ELSE ctrlQ
  /\ wire' = [wire EXCEPT ![Peer(s)] = <<>>]
  /\ UNCHANGED <<ep, entries>>

----------------------------------------------------------------------------
(* What a channel's tasks do of themselves, what its socket makes them do,
   and what a side's loop does.                                            *)
TaskStep(s, c) ==
  \/ UpTake(s, c) \/ UpSend(s, c) \/ UpCancel(s, c)
  \/ DownNext(s, c) \/ DownGone(s, c) \/ DownCancel(s, c)
  \/ Cancel(s, c) \/ Finish(s, c) \/ SendClose(s, c) \/ Exit(s, c)
  \/ s = "ctl" /\ SendOpen(c)
  \/ s = "tgt" /\ (ConnectingRecv(c) \/ ConnectingGone(c) \/ SendOpened(c))

SocketStep(s, c) ==
  \/ \E got \in Lens : UpRead(s, c, got)
  \/ UpEof(s, c)
  \/ DownWrite(s, c) \/ DownWriteFails(s, c)
  \/ s = "tgt" /\ (Connected(c) \/ ConnectFails(c))

ReadStep(s) ==
  \/ s = "ctl" /\ (OnOpened \/ OnRefused)
  \/ s = "tgt" /\ \E permitted \in BOOLEAN : OnOpen(permitted)
  \/ OnData(s) \/ OnClose(s) \/ OnWindowUpdate(s)

CloseStep(s) == RaiseTeardown(s) \/ LoopReturns(s)

Next ==
  \/ \E s \in Sides, c \in Channels : TaskStep(s, c) \/ SocketStep(s, c)
  \/ \E c \in Channels : Open(c)
  \/ \E s \in Sides : LoopData(s) \/ ReadStep(s) \/ LoopBreaks(s) \/ CloseStep(s)
  \/ LoopControl

Spec == Init /\ [][Next]_vars

----------------------------------------------------------------------------
(* Properties *)

Frames == [kind : {"open", "opened", "refused", "data", "close", "update", "violation"},
           c : Channels, len : 0..U32_MAX, seq : 0..MaxFrames]

Tasks ==
  [phase : {"none", "opening", "connecting", "granted", "relay", "closing",
            "leaving", "done"},
   cancel : BOOLEAN,
   up : {"idle", "take", "read", "send", "ended"},
   upEnd : {"none", "LocalEof", "Cancelled", "TunnelGone"},
   allow : 0..MAX_FRAME, frame : Seq(Frames),
   down : {"idle", "recv", "write", "ended"},
   downEnd : {"none", "LocalEof", "PeerClosed", "Violation", "Cancelled", "TunnelGone"},
   chunk : Seq(Frames), pend : Seq(Frames), inbound : Seq(Frames),
   credit : 0..MAX_SEND_CREDIT, remaining : 0..U32_MAX, drained : 0..U32_MAX,
   granted : BOOLEAN, opened : BOOLEAN,
   sent : 0..MaxFrames, written : 0..MaxFrames, overran : BOOLEAN]

(* The state is well formed: tasks, map keys, queues and stream. *)
TypeOK ==
  /\ ep \in [Sides -> [Channels -> Tasks]]
  /\ entries \in [Sides -> SUBSET Channels]
  /\ dataQ \in [Sides -> Seq(Frames)] /\ Len(dataQ["ctl"]) <= DATA_QUEUE_FRAMES
  /\ ctrlQ \in Seq(Frames)
  /\ wire \in [Sides -> Seq(Frames)]
  /\ tunnel \in [Sides -> {"up", "cleared", "torn", "gone"}]

(* The channel is over at side s: no frame of it can be delivered there. *)
Over(s, c) ==
  ep[s][c].phase # "none" /\ (c \notin entries[s] \/ ~RxOpen(s, c))

Dead(c) == \E s \in Sides : tunnel[s] # "up" \/ Over(s, c)

(* The frames from side s that are not yet at the other side's task, oldest
   first, and those that channel c's task has and has not written out.     *)
Underway(s, c) == wire[s] \o dataQ[s] \o ep[s][c].frame

Waiting(s, c) ==
  LET t == ep[Peer(s)][c] IN t.chunk \o t.pend \o t.inbound

(* How many data frames of channel c are among these. *)
DataFrames(c, frames) ==
  Total([i \in DOMAIN frames |-> IF IsData(frames[i], c) THEN 1 ELSE 0])

(* They bear consecutive numbers. *)
Numbered(c, frames, from) ==
  \A i \in DOMAIN frames :
    IsData(frames[i], c) => frames[i].seq = from + DataFrames(c, SubSeq(frames, 1, i))

(* Nothing is lost, duplicated or reordered on a live channel: from the frame
   last written at one end to the frame last read at the other, all are on
   their way and in order, whatever the two queues, the connect-time buffer
   and the demultiplexer did (FrameSink, on_frame, run_controlled_channel). *)
InOrder ==
  \A s \in Sides, c \in Channels : ~Dead(c) =>
    LET pipe == Waiting(s, c) \o Underway(s, c)
        from == ep[Peer(s)][c].written
    IN  /\ Numbered(c, pipe, from)
        /\ from + DataFrames(c, pipe) = ep[s][c].sent

(* A relay that ends on the peer's `close` has written out every byte the
   peer ever sent: `close` never overtakes data, on any of the queues
   (run_channel's "after the last data").                                  *)
CloseAfterLastData ==
  \A s \in Sides, c \in Channels :
    ep[s][c].downEnd = "PeerClosed" => ep[s][c].written = ep[Peer(s)][c].sent

(* Both, of a well-formed state: nothing is lost, duplicated or reordered on
   a live channel, and a `close` comes after the last data.                *)
Delivered == TypeOK /\ InOrder /\ CloseAfterLastData

(* Two correct ends never meet the branches for a peer that overran: not the
   window's and not the connect-time buffer's (RecvWindow::accept,
   pending_fits; the grant goes before `opened`).                          *)
NeverOverran == \A s \in Sides, c \in Channels : ~ep[s][c].overran

(* A channel that has ended at the controller no longer counts against the
   controlled side's MAX_CHANNELS when the controller's next `open` gets
   there, so the two caps agree: its `close` went first, down the same queue.
   Excepted is a task that has already refused the channel and is about to
   return (TunnelHandle::open, on_open's retain).                          *)
SlotFreedBeforeOpen ==
  (wire["ctl"] # <<>> /\ Head(wire["ctl"]).kind = "open") =>
    \A c \in entries["tgt"] : RxOpen("tgt", c) =>
      ep["ctl"][c].phase # "done" \/ ep["tgt"][c].phase = "leaving" \/ tunnel["ctl"] # "up"

(* Each direction of each channel keeps the flow-control contract. *)
Updates(c, frames) ==
  Total([i \in DOMAIN frames |->
           IF frames[i].kind = "update" /\ frames[i].c = c THEN frames[i].len ELSE 0])

Announced(s, c) ==
  Updates(c, wire[s] \o dataQ[s] \o (IF s = "ctl" THEN ctrlQ ELSE <<>>))

Alive(c, started, value, initial) ==
  IF Dead(c) THEN 0 ELSE IF started THEN value ELSE initial

Start(s) == IF s = "ctl" THEN INITIAL_WINDOW ELSE CHANNEL_WINDOW

Started(s, c) == ep[s][c].phase # "none"

Granted(s, c) == s = "tgt" \/ ep["tgt"][c].granted

Raise(s, c) ==
  IF s = "ctl" /\ Granted(s, c) /\ ~ep["ctl"][c].opened
  THEN CHANNEL_WINDOW - INITIAL_WINDOW ELSE 0

Flow(s, c) == INSTANCE PfFlow WITH
  START     <- Start(s),
  credit    <- Alive(c, Started(s, c), ep[s][c].credit, Start(s)),
  hold      <- Alive(c, TRUE, ep[s][c].allow, 0),
  flying    <- Alive(c, TRUE, Charges(c, Underway(s, c)), 0),
  remaining <- Alive(c, Started(Peer(s), c), ep[Peer(s)][c].remaining, Start(s)),
  queued    <- Alive(c, TRUE, Charges(c, Waiting(s, c)), 0),
  drained   <- Alive(c, TRUE, ep[Peer(s)][c].drained, 0),
  returning <- Alive(c, TRUE, Announced(Peer(s), c) + Raise(s, c), 0),
  granted   <- Dead(c) \/ Granted(s, c),
  violated  <- \E r \in Sides : ep[r][c].overran,
  dead      <- Dead(c)

(* The tunnel implements PfFlow: it starts as each direction's contract does
   and every step of either side is a step, or a stutter, of each of them
   (SendCredit, RecvWindow and all that carries frames between them).      *)
FlowStart == \A s \in Sides, c \in Channels : Flow(s, c)!FlowInit

FlowStep == \A s \in Sides, c \in Channels : [Flow(s, c)!FlowNext]_(Flow(s, c)!flowVars)

Ended(s, c) == ep[s][c].phase \in {"none", "done"}

(* Of channel c: no sender is parked for want of credit, and every frame that
   was read is written out at the other side, or the channel is over.      *)
AtRest(c) ==
  Dead(c) \/ \A s \in Sides :
    ep[s][c].up # "take" /\ ep[Peer(s)][c].written = ep[s][c].sent
=============================================================================
