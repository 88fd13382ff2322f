----------------------------- MODULE PfListener -----------------------------
(***************************************************************************)
(* One port-forward mapping at the controller: the accept loop of          *)
(* src/src/port_forward.rs (listen, establish_tunnel and the two logins),  *)
(* the Tunnel it owns (src/src/port_forward_mux.rs) and the tunnel loops   *)
(* that Tunnel starts, one per generation of its handle.  The listener and *)
(* the loops are tasks of their own and meet only in the Tunnel's state.   *)
(*                                                                         *)
(* Channels are PfMux's business; a generation here is one PfMux tunnel.   *)
(* The window has multiplexing on (`port_forward_mux`); the raw pipes of a *)
(* peer without it run on their own and touch nothing modelled here.       *)
(***************************************************************************)
EXTENDS Naturals, Sequences

CONSTANTS
  MaxGen, \* bound: tunnels established in the mapping's life
  MaxUi   \* bound: messages the window sends besides its close

ASSUME ListenerAssumption == MaxGen \in Nat /\ MaxUi \in Nat

VARIABLES
  pc,     \* where the listener is: see Pcs
  mode,   \* "mux": establish_tunnel's login; "raw": the raw pipe's
  state,  \* Tunnel.state
  gen,    \* handles made so far
  handle, \* the handle the listener is about to open a channel on
  loop,   \* loop[g]: how far generation g's tunnel_loop is
  ui,     \* the mapping's UI queue
  sender  \* the window still holds the queue's sender

vars == <<pc, mode, state, gen, handle, loop, ui, sender>>

Gens == 1..MaxGen
Pcs == {"accept", "connect", "confirm", "login", "spawn", "open", "stopped"}
Live == {"running", "cleared", "torn"}

(* TunnelState.  Only Muxed carries a handle. *)
Unset == [kind |-> "Unset", gen |-> 0]
Failed == [kind |-> "Failed", gen |-> 0]
Legacy == [kind |-> "Legacy", gen |-> 0]
Muxed(g) == [kind |-> "Muxed", gen |-> g]
States == {Unset, Failed, Legacy} \cup {Muxed(g) : g \in Gens}

Init ==
  /\ pc = "accept" /\ mode = "mux"
  /\ state = Unset /\ gen = 0 /\ handle = 0
  /\ loop = [g \in Gens |-> "none"]
  /\ ui = <<>> /\ sender = TRUE

----------------------------------------------------------------------------
(* The window: messages for this mapping, and its removal, which sends
   `close` and drops the sender.                                           *)

UiSends(d) ==
  /\ sender /\ Len(ui) < MaxUi
  /\ ui' = Append(ui, d)
  /\ UNCHANGED <<pc, mode, state, gen, handle, loop, sender>>

Remove ==
  /\ sender
  /\ ui' = Append(ui, "close") /\ sender' = FALSE
  /\ UNCHANGED <<pc, mode, state, gen, handle, loop>>

----------------------------------------------------------------------------
(* The listener *)

(* An accept reads the state and decides by it (Tunnel::claim). *)
AcceptMuxed ==
  /\ pc = "accept" /\ state.kind = "Muxed"
  /\ pc' = "open" /\ handle' = state.gen
  /\ UNCHANGED <<mode, state, gen, loop, ui, sender>>

AcceptClaimed ==
  /\ pc = "accept" /\ state.kind \in {"Unset", "Failed"}
  /\ pc' = "connect" /\ mode' = "mux"
  /\ UNCHANGED <<state, gen, handle, loop, ui, sender>>

AcceptLegacy ==
  /\ pc = "accept" /\ state.kind = "Legacy"
  /\ pc' = "connect" /\ mode' = "raw"
  /\ UNCHANGED <<state, gen, handle, loop, ui, sender>>

(* `close` ends the listener, which drops the Tunnel.  Anything else is
   ignored, a queue without sender too.                                    *)
UiRecv ==
  /\ pc = "accept" /\ ui # <<>>
  /\ ui' = Tail(ui)
  /\ pc' = IF Head(ui) = "close" THEN "stopped" ELSE "accept"
  /\ UNCHANGED <<mode, state, gen, handle, loop, sender>>

(* set_failed belongs to establish_tunnel alone. *)
SetFailedIfMux == state' = IF mode = "mux" THEN Failed ELSE state

(* Client::start, and whether the stream it gives is secured. *)
ClientStarted(secured) ==
  /\ pc = "connect"
  /\ pc' = IF secured THEN "login" ELSE "confirm"
  /\ UNCHANGED <<mode, state, gen, handle, loop, ui, sender>>

(* An error or an early return of the login: the mapping stays. *)
LoginFails ==
  /\ pc \in {"connect", "login"}
  /\ SetFailedIfMux
  /\ pc' = "accept"
  /\ UNCHANGED <<mode, gen, handle, loop, ui, sender>>

(* confirm_insecure_connection: waits for an answer, a close or the sender's
   end, the last two being a no that stops the listener.                   *)
Confirm ==
  /\ pc = "confirm" /\ ui # <<>>
  /\ ui' = Tail(ui)
  /\ CASE Head(ui) = "continue" -> pc' = "login" /\ UNCHANGED state
       [] Head(ui) \in {"reject", "close"} -> pc' = "stopped" /\ SetFailedIfMux
       [] OTHER -> UNCHANGED <<pc, state>>
  /\ UNCHANGED <<mode, gen, handle, loop, sender>>

ConfirmNobody ==
  /\ pc = "confirm" /\ ui = <<>> /\ ~sender
  /\ pc' = "stopped" /\ SetFailedIfMux
  /\ UNCHANGED <<mode, gen, handle, loop, ui, sender>>

(* The login's select takes what the window sends: a password or a message
   for the peer is used, the rest, `close` included, falls to `_ => {}`.   *)
LoginRecv ==
  /\ pc = "login" /\ ui # <<>>
  /\ ui' = Tail(ui)
  /\ UNCHANGED <<pc, mode, state, gen, handle, loop, sender>>

(* The peer has no multiplexing, or was not asked for it. *)
LoginRaw ==
  /\ pc = "login"
  /\ state' = IF mode = "mux" THEN Legacy ELSE state
  /\ pc' = "accept"
  /\ UNCHANGED <<mode, gen, handle, loop, ui, sender>>

(* The peer has multiplexing: Tunnel::set_muxed publishes the handle, then
   spawns its loop.  A connection whose local end is gone already is not
   given a channel.                                                        *)
SetMuxedSpawnFirst(local_eof) ==
  \/ /\ pc = "login" /\ mode = "mux" /\ gen < MaxGen
     /\ gen' = gen + 1 /\ handle' = gen + 1
     /\ loop' = [loop EXCEPT ![gen + 1] = "running"]
     /\ pc' = "spawn"
     /\ UNCHANGED <<mode, state, ui, sender>>
  \/ /\ pc = "spawn"
     /\ state' = Muxed(gen)
     /\ pc' = IF local_eof THEN "accept" ELSE "open"
     /\ UNCHANGED <<mode, gen, handle, loop, ui, sender>>

SetMuxed(local_eof) ==
  \/ /\ pc = "login" /\ mode = "mux" /\ gen < MaxGen
     /\ gen' = gen + 1 /\ handle' = gen + 1
     /\ state' = Muxed(gen + 1)
     /\ pc' = "spawn"
     /\ UNCHANGED <<mode, loop, ui, sender>>
  \/ /\ pc = "spawn"
     /\ loop' = [loop EXCEPT ![gen] = "running"]
     /\ pc' = IF local_eof THEN "accept" ELSE "open"
     /\ UNCHANGED <<mode, state, gen, handle, ui, sender>>

(* TunnelHandle::open; on a handle that is gone it bails and the connection
   is dropped.                                                             *)
OpenChannel ==
  /\ pc = "open"
  /\ pc' = "accept" /\ handle' = 0
  /\ UNCHANGED <<mode, state, gen, loop, ui, sender>>

----------------------------------------------------------------------------
(* tunnel_loop's end: it breaks on its stream's end, or on the listener's
   (`lifetime`), closes its channels, resets the state and is gone.        *)

LoopStreamEnds(g) ==
  /\ loop[g] = "running"
  /\ loop' = [loop EXCEPT ![g] = "cleared"]
  /\ UNCHANGED <<pc, mode, state, gen, handle, ui, sender>>

NoLifetimeArm(g) == FALSE

LoopListenerEnds(g) ==
  /\ loop[g] = "running" /\ pc = "stopped"
  /\ loop' = [loop EXCEPT ![g] = "cleared"]
  /\ UNCHANGED <<pc, mode, state, gen, handle, ui, sender>>

LoopRaisesTeardown(g) ==
  /\ loop[g] = "cleared"
  /\ loop' = [loop EXCEPT ![g] = "torn"]
  /\ UNCHANGED <<pc, mode, state, gen, handle, ui, sender>>

LoopResets(g) ==
  /\ loop[g] = "torn"
  /\ state' = Unset
  /\ loop' = [loop EXCEPT ![g] = "gone"]
  /\ UNCHANGED <<pc, mode, gen, handle, ui, sender>>

----------------------------------------------------------------------------
Accept == AcceptMuxed \/ AcceptClaimed \/ AcceptLegacy

(* What the login comes to, and the tunnel's start. *)
LoginEnds ==
  LoginFails \/ LoginRaw \/ \E local_eof \in BOOLEAN : SetMuxed(local_eof)

Next ==
  \/ \E d \in {"continue", "reject", "other"} : UiSends(d)
  \/ Remove
  \/ Accept \/ UiRecv
  \/ \E secured \in BOOLEAN : ClientStarted(secured)
  \/ Confirm \/ ConfirmNobody \/ LoginRecv \/ LoginEnds
  \/ OpenChannel
  \/ \E g \in Gens : \/ LoopStreamEnds(g) \/ LoopListenerEnds(g)
                     \/ LoopRaisesTeardown(g) \/ LoopResets(g)

Spec == Init /\ [][Next]_vars

----------------------------------------------------------------------------
(* The state is well formed. *)
TypeOK ==
  /\ pc \in Pcs /\ mode \in {"mux", "raw"}
  /\ state \in States
  /\ gen \in 0..MaxGen /\ handle \in 0..MaxGen
  /\ loop \in [Gens -> {"none", "gone"} \cup Live]
  /\ ui \in Seq({"continue", "reject", "other", "close"})
  /\ sender \in BOOLEAN

(* The listener never holds on to a dead tunnel: a Muxed state has a loop
   that will still reset it, or one about to be spawned.  A state pinned at a
   dead handle would refuse every later connection (set_muxed's "publish
   before spawning").                                                      *)
NoDeadHandlePinned ==
  state.kind = "Muxed" => loop[state.gen] \in Live \/ pc = "spawn"

(* A loop that has not ended owns the state: its reset to Unset can only ever
   clear its own handle, never a newer tunnel's, a Legacy or a Failed
   (tunnel_loop's `state.send_replace`, which is unconditional).           *)
ResetIsOwn == \A g \in Gens : loop[g] \in Live => state = Muxed(g)

(* "Nothing switches modes underneath live connections": a mapping whose
   peer answered without multiplexing stays on the raw pipe, whatever loop
   is still on its way out (establish_tunnel).                             *)
LegacyIsSticky == [][state = Legacy => state' = Legacy]_vars

(* A tunnel that has broken is let go of, so that a later connection can
   establish another (tunnel_loop's last line).                            *)
BrokenTunnelLetGo ==
  \A g \in Gens : (loop[g] \in {"cleared", "torn"}) ~> (state # Muxed(g))

(* A mapping that has ended takes its tunnel along: no loop outlives the
   listener ("the listener drops it on its way out, and that ends the
   tunnel").                                                               *)
ListenerEndsTunnel ==
  (pc = "stopped") ~> \A g \in Gens : loop[g] \notin Live

(* A mapping the user removes stops listening. *)
RemovedMappingStops == ~sender ~> pc = "stopped"
=============================================================================
